------------------------------ MODULE AppStore ------------------------------
(***************************************************************************)
(* What the installer promises, with no mention of directories, journals   *)
(* or recovery: each application is installed in one whole version or not  *)
(* at all; a version only ever gives way to a later one, to another build  *)
(* of its release, or to nothing; a job reported done was carried out, and *)
(* nothing else ever is.  A job reported failed, or forgotten in a power   *)
(* failure, may yet be carried out.  Of an application whose transaction   *)
(* was mistaken for another in a read error nothing is promised any more,  *)
(* and of the others all the same.                                         *)
(***************************************************************************)
EXTENDS Naturals

CONSTANTS Apps,        \* application ids
          MaxVersion,  \* number of versions of a package
          Release      \* the release each version is a build of

VARIABLES installed,   \* version of each application, zero when absent
          status,      \* "idle", "running", "done" or "failed"
          target,      \* the job: an id and the version wanted, zero to remove
          asked,       \* the jobs not carried out so far
          astray       \* the applications a transaction of which was mistaken

storeVars == <<installed, status, target, asked, astray>>

Version == 1 .. MaxVersion
Job == [id : Apps, ver : 0 .. MaxVersion]

Later(new, old) == old # 0 => new # old /\ Release[new] >= Release[old]

Init ==
  /\ installed \in [Apps -> 0 .. MaxVersion]
  /\ status = "idle"
  /\ target \in Job
  /\ asked = {} /\ astray = {}

Request(job) ==
  /\ status # "running"
  /\ status' = "running" /\ target' = job
  /\ asked' = asked \cup {job}
  /\ UNCHANGED <<installed, astray>>

\* Atomic: the old version, then the new one or none.
Change(job) ==
  /\ job \in asked
  /\ IF job.ver = 0 THEN installed[job.id] # 0
                     ELSE Later(job.ver, installed[job.id])
  /\ installed' = [installed EXCEPT ![job.id] = job.ver]
  /\ asked' = asked \ {job}
  /\ UNCHANGED <<status, target, astray>>

\* Whatever becomes of an application that has gone astray, or does so now: no other
\* application is touched.
Stray(id) ==
  /\ astray' = astray \cup {id}
  /\ \E version \in 0 .. MaxVersion : installed' = [installed EXCEPT ![id] = version]
  /\ asked' \subseteq asked /\ \A job \in asked \ asked' : job.id = id
  /\ UNCHANGED <<status, target>>

Report ==
  /\ status = "running"
  /\ \/ status' = "failed"
     \/ (target \notin asked \/ target.id \in astray) /\ status' = "done"
  /\ UNCHANGED <<installed, target, asked, astray>>

PowerFailure ==
  /\ status' = "idle"
  /\ UNCHANGED <<installed, target, asked, astray>>

Next ==
  \/ \E job \in Job : Request(job) \/ Change(job)
  \/ \E id \in Apps : Stray(id)
  \/ Report \/ PowerFailure

Spec == Init /\ [][Next]_storeVars
=============================================================================
