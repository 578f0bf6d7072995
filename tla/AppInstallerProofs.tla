------------------------- MODULE AppInstallerProofs -------------------------
(***************************************************************************)
(* What holds of the installer for any applications, versions and          *)
(* releases, and any number of jobs, failed operations, power failures and *)
(* removals of the card, where the runs check a few; and that it           *)
(* implements the store it promises (AppStore).                            *)
(***************************************************************************)
EXTENDS AppInstaller, TLAPS

-----------------------------------------------------------------------------
\* The inductive invariant.

Clean == disk.staging = NoDir /\ disk.backup = NoDir /\ disk.removing = NoDir
There == disk.dest[tx] # NoDir
Removal == {"remove", "removed"}
Passing == Recovering \cup Returned
Resting == {"idle", "wait", "start", "finish", "migrate"}

\* A record of one of these phases is in the journal.
Has(phases) ==
  phase \in phases \/ \E n \in DOMAIN disk.earlier : disk.earlier[n].phase \in phases

\* The records before the last one are of its transaction.
Past ==
  \A n \in DOMAIN disk.earlier :
    /\ phase \in Phases
    /\ \/ n = 1 /\ disk.earlier[n] = NoRecord
       \/ /\ disk.earlier[n].id = tx /\ disk.earlier[n].phase \in Phases
          /\ disk.earlier[n].phase \in Removal <=> phase \in Removal

\* In a transaction that is not mistaken the last record but one is of a phase that
\* ends with the next.
Young == \A n \in DOMAIN disk.earlier : disk.earlier[n].phase \notin {"commit", "removed"}

Everyone == \A a \in Apps : disk.dest[a] = NoDir \/ Whole(disk.dest[a], a)

\* What is on the volume, by what the last complete record of the journal says,
\* whoever was interrupted at whichever operation.
Shape ==
  /\ \A a \in Apps : disk.dest[a] = NoDir \/ Whole(disk.dest[a], a)
  /\ phase \in {"none", "torn"} => Clean
  /\ phase = "torn" => volume = "sd"
  /\ phase = "copy" => disk.backup = NoDir /\ disk.removing = NoDir
  /\ phase = "publish" =>
       /\ disk.removing = NoDir
       /\ disk.staging = NoDir \/ Whole(disk.staging, tx)
       /\ disk.backup = NoDir \/ Whole(disk.backup, tx)
       /\ disk.staging = NoDir => There
       /\ disk.staging # NoDir => disk.backup = NoDir \/ ~There
  /\ phase = "commit" => disk.staging = NoDir /\ disk.removing = NoDir /\ There
  /\ phase = "remove" => /\ disk.staging = NoDir /\ disk.backup = NoDir
                         /\ There => disk.removing = NoDir
  /\ phase = "removed" => disk.staging = NoDir /\ disk.backup = NoDir /\ ~There

\* What the thread has found or done when it is about to perform an operation.
At ==
  /\ pc \in Recovering \ {"recover"} => transaction = disk.journal
  /\ pc = "verify" => phase = "publish" /\ disk.staging # NoDir
  /\ pc = "restore" => /\ phase = "publish" /\ disk.staging # NoDir
                       /\ disk.backup # NoDir /\ ~There
  /\ pc = "saveUndo" => phase = "publish" /\ disk.staging # NoDir /\ disk.backup = NoDir
  /\ pc = "clearStaging" => phase \in {"none", "torn", "copy"}
  /\ pc = "keep" => /\ phase = "publish" /\ disk.staging # NoDir
                    /\ disk.backup = NoDir /\ There
  /\ pc = "publish" => phase = "publish" /\ disk.staging # NoDir /\ ~There
  /\ pc = "saveCommit" => phase = "publish" /\ disk.staging = NoDir
  /\ pc = "clearBackup" => phase = "commit"
  /\ pc = "clearCache" => \/ phase = "commit" /\ disk.backup = NoDir
                          \/ phase = "removed" /\ disk.removing = NoDir
  /\ pc = "unlink" => \/ phase \in {"torn", "copy"} /\ disk.staging = NoDir
                      \/ phase = "commit" /\ disk.backup = NoDir /\ disk.cache[tx] = 0
                      \/ phase = "removed" /\ disk.removing = NoDir
  /\ pc = "discard" => phase = "remove" /\ There
  /\ pc = "saveRemoved" => phase = "remove" /\ ~There
  /\ pc = "clearRemoving" => phase \in {"none", "removed"}
  /\ pc \in {"true", "published", "check"} => disk.journal = NoJournal
  /\ pc \in {"saveRemove", "saveCopy"} => phase \in {"none", "torn"}
  /\ pc \in {"copy", "copying", "savePublish"} => disk.journal = [id |-> job.id, phase |-> "copy"]
  /\ pc = "copy" => disk.staging = NoDir
  /\ pc = "copying" => disk.staging = [id |-> job.id, ver |-> Torn]
  /\ pc = "savePublish" => disk.staging = job
  /\ pc = "saveRemove" => job.ver = 0 /\ Whole(disk.dest[job.id], job.id)
  /\ pc \in {"saveCopy", "copy", "copying", "savePublish"} =>
       job.ver # 0 /\ Later(job.ver, disk.dest[job.id])
  /\ pc = "final" =>
       \/ job.ver = 0 /\ disk.journal = [id |-> job.id, phase |-> "remove"]
       \/ /\ job.ver # 0 /\ disk.staging = job
          /\ disk.journal = [id |-> job.id, phase |-> "publish"]

Stuck == pc = "false" => hampered

\* A volume is offered as it was settled by a pass that returned, but for the
\* first record of a job whose save failed.
Settled ==
  /\ ready /\ pc \in Resting =>
       Clean /\ phase \in {"none", "torn", "copy", "remove"} /\ ~Has({"publish", "commit"})
  /\ pc = "off" => ~ready

\* A job under way is reported under way, and has had its application let go.
Running ==
  \/ pc \in {"wait", "start", "check", "saveRemove", "saveCopy", "copy", "copying", "savePublish", "final",
             "reject", "migrate", "finish"}
  \/ pc \in Passing /\ caller \in {"first", "final", "discard"}
LetGo ==
  /\ Running => result = "running"
  /\ Running /\ pc \notin {"wait", "finish"} => live[job.id] = 0
  /\ pc = "wait" /\ ~needs_prepare /\ prepare_ok => live[job.id] = 0

\* The version that runs is the one installed, while one is installed, and nothing
\* of an application to be replaced runs.
Lives ==
  /\ \A a \in Apps : live[a] # 0 /\ disk.dest[a] # NoDir => disk.dest[a].ver = live[a]
  /\ Has({"publish", "commit"}) => live[tx] = 0

\* Nothing runs of an application to be removed, unless the record of that is one
\* whose save failed.
Known == ~inDoubt /\ Has({"remove"}) =>
           live[tx] = 0 /\ (pc \in Resting => ~ready)

Caches ==
  /\ CacheIsOwn
  /\ \A a \in Apps \ misread :
       disk.dest[a] # NoDir /\ ~(tx = a /\ disk.staging = NoDir /\ phase \in {"publish", "commit"}) =>
         disk.cache[a] \in {0, disk.dest[a].ver}
  /\ phase = "publish" /\ disk.staging # NoDir /\ disk.backup # NoDir /\ tx \notin misread =>
       disk.cache[tx] \in {0, disk.backup.ver}

ToPublish == phase = "publish" /\ disk.staging # NoDir
ToRemove == phase = "remove" /\ There

\* What is to be published or removed was asked for and fits, what was is no longer
\* asked for, and a pass begun for a job ends with that job.
Owed ==
  tx \notin misread =>
  /\ ToPublish => /\ [id |-> tx, ver |-> disk.staging.ver] \in asked
                  /\ Later(disk.staging.ver, IF There THEN disk.dest[tx] ELSE disk.backup)
  /\ ToRemove => [id |-> tx, ver |-> 0] \in asked
  /\ phase = "removed" \/ (phase = "remove" /\ ~There) => [id |-> tx, ver |-> 0] \notin asked
AskedFor ==
  job.id \notin misread =>
  /\ ok \/ pc = "migrate" => job \notin asked
  /\ pc \in {"wait", "start", "saveRemove", "saveCopy", "copy", "copying", "savePublish"} => job \in asked
  /\ (pc \in Passing /\ caller = "first") \/ pc = "check" =>
       job \in asked \/ (Counts(job.id) = job.ver /\ (suspect \/ (~ToPublish /\ ~ToRemove)))
FinalPass ==
  job.id \notin misread /\ pc \in Passing \ {"false"} /\ caller = "final" =>
    /\ ~suspect
    /\ IF job.ver = 0
       THEN \/ phase \in {"remove", "removed"} /\ tx = job.id
            \/ disk.journal = NoJournal /\ job \notin asked
       ELSE /\ phase \in Phases => tx = job.id
            /\ phase = "publish" => IF disk.staging = NoDir THEN job \notin asked
                                    ELSE disk.staging.ver = job.ver
            /\ phase = "commit" \/ pc = "published" => job \notin asked

\* What holds of the volume even when the journal passed for another.
Body ==
  /\ disk.removing = NoDir \/ (disk.staging = NoDir /\ disk.backup = NoDir)
  /\ phase \in Phases => IF phase \in Removal THEN disk.staging = NoDir /\ disk.backup = NoDir
                                             ELSE disk.removing = NoDir
  /\ Has({"commit"}) => disk.staging = NoDir
  /\ phase \in Phases /\ disk.backup # NoDir =>
       /\ disk.staging # NoDir => Whole(disk.backup, tx)
       /\ ~There => disk.backup.ver \in Version

\* What the thread has found or done then.
Lost ==
  /\ pc \in Recovering \cup {"false", "final", "reject", "finish", "idle", "off"}
  /\ pc \in Resting \cup {"off"} => ~ready
  /\ pc = "final" => job.id \in misread
  /\ phase # "none" /\ {tx, transaction.id} \subseteq misread \cup {NoApp}
Loosely ==
  /\ pc \in Recovering \ {"recover"} =>
       \/ transaction = NoRecord
       \/ transaction.phase \in Phases /\ phase \in Phases /\ transaction.id = tx /\ Has({transaction.phase})
  /\ pc \in {"verify", "restore", "saveUndo", "keep", "publish", "saveCommit"} => transaction.phase = "publish"
  /\ pc \in {"verify", "restore", "saveUndo", "keep", "publish"} => disk.staging # NoDir
  /\ pc = "restore" => disk.backup # NoDir
  /\ pc \in {"saveUndo", "keep"} => disk.backup = NoDir
  /\ pc \in {"keep", "publish"} => Whole(disk.staging, transaction.id)
  /\ pc = "saveCommit" => disk.staging = NoDir /\ There
  /\ pc = "clearStaging" => /\ transaction.phase \in {"torn", "copy"} /\ disk.backup = NoDir
                            /\ disk.removing = NoDir
  /\ pc = "clearBackup" => transaction.phase = "commit" /\ There
  /\ pc = "clearCache" => Clean /\ transaction.phase \in {"commit", "removed"}
  /\ pc = "unlink" => Clean
  /\ pc \in {"discard", "saveRemoved"} => transaction.phase = "remove"
  /\ pc = "discard" => disk.removing = NoDir
  /\ pc = "clearRemoving" => transaction.phase = "removed"

\* What holds of the volume and of what runs from it, and what of the thread, as
\* long as the journal is taken for what it is; and once it is not.
DiskInv == Past /\ Young /\ Shape /\ Lives /\ Caches /\ Owed
PcInv == At /\ Stuck /\ Settled /\ LetGo /\ Known /\ AskedFor /\ FinalPass
Strict == TypeOK /\ ~suspect /\ DiskInv /\ PcInv

Blurred == Past /\ Everyone /\ Lives /\ Caches /\ Body
Mixed ==
  /\ TypeOK /\ suspect /\ Blurred /\ LetGo /\ Known /\ AskedFor /\ FinalPass
  /\ Lost /\ Loosely
IInv == Strict \/ Mixed

\* Groups of variables, which the actions leave alone together.
USE DEF cardVars, jobVars, readyVars, callVars

-----------------------------------------------------------------------------
\* Steps of the thread, and of a pass of recover_locked.

\* A step of the thread keeps the types when it leaves what is not its own alone.
LEMMA ThreadTypes ==
  ASSUME TypeOK, Thread, Works \/ Fails, disk' \in Disk, asked' \subseteq asked, pc' \in Points, inDoubt' \in BOOLEAN,
         transaction' \in Transaction, suspect' \in BOOLEAN, misread' \subseteq Apps
  PROVE  TypeOK'
<1>1. faults' \in 0 .. MaxFaults /\ hampered' \in BOOLEAN
  <2>1. CASE Works
    BY <2>1 DEF TypeOK, Works
  <2>2. CASE Fails
    <3>1. faults' = faults \/ (faults < MaxFaults /\ faults' = faults + 1)
      BY <2>2 DEF Fails
    <3>2. hampered' = TRUE
      BY <2>2 DEF Fails
    <3> QED
      BY <3>1, <3>2, InstallerAssumption DEF TypeOK, InstallerAssumption
  <2> QED
    BY <2>1, <2>2
<1>2. UNCHANGED <<volume, card, changed, result, job, needs_prepare, prepare_ok, jobs, ready, recovery_pending, live, caller,
                  ok, outages>>
  BY DEF Thread
<1> QED
  BY <1>1, <1>2 DEF TypeOK

\* Within a pass the job stays reported, and its application let go of.
LEMMA PassGoesOn ==
  ASSUME LetGo, Thread, pc \in Recovering, pc' \in Passing
  PROVE  LetGo' /\ Settled'
<1>1. pc \notin {"wait", "finish", "off"} \cup Resting /\ pc' \notin {"wait", "finish", "off"} \cup Resting
  BY DEF Recovering, Passing, Returned, Resting
<1>2. Running' <=> Running
  BY <1>1 DEF Running, Thread, Passing, Recovering, Returned
<1>3. UNCHANGED <<result, live, job, needs_prepare, prepare_ok>>
  BY DEF Thread
<1> QED
  BY <1>1, <1>2, <1>3 DEF LetGo, Settled

CountsStay == \A a \in Apps : Counts(a)' = Counts(a)

\* What is on the volume, field by field.
LEMMA Facts ==
  ASSUME TypeOK
  PROVE  /\ disk.dest \in [Apps -> Dir] /\ disk.staging \in Dir /\ disk.backup \in Dir /\ disk.removing \in Dir
         /\ disk.cache \in [Apps -> 0 .. MaxVersion] /\ disk.journal \in Transaction /\ disk.earlier \in Seq(Transaction)
         /\ disk.journal = [id |-> tx, phase |-> phase]
         /\ phase \in Phases \cup {"none", "torn"} /\ (phase \in Phases => tx \in Apps)
         /\ phase = "none" => disk.journal = NoJournal
         /\ phase = "torn" => disk.journal = NoRecord
BY DEF TypeOK, Disk, Transaction, NoJournal, NoRecord, Phases, phase, tx

\* Of what there is in the journal, all or some goes on to be behind the next record.
Behind(e) ==
  /\ e \in Seq(Transaction) /\ (disk.journal = NoJournal => e = <<>>)
  /\ \A n \in DOMAIN e : \/ n \in DOMAIN disk.earlier /\ e[n] = disk.earlier[n]
                         \/ n = Len(disk.earlier) + 1 /\ e[n] = disk.journal

\* What is behind, as a sequence.
LEMMA Earlier ==
  ASSUME TypeOK
  PROVE  /\ disk.earlier \in Seq(Transaction) /\ Len(disk.earlier) \in Nat
         /\ DOMAIN disk.earlier = 1 .. Len(disk.earlier)
         /\ \A n \in DOMAIN disk.earlier : disk.earlier[n] \in Transaction
<1>1. disk.earlier \in Seq(Transaction)
  BY DEF TypeOK, Disk
<1> QED
  BY <1>1

\* A record of the same transaction keeps the journal one of a single transaction.
LEMMA PastGoesOn ==
  ASSUME TypeOK, Past, NEW e, Behind(e), NEW record \in [id : Apps, phase : Phases],
         disk'.earlier = e, disk'.journal = record,
         phase \in Phases => record.id = tx /\ (record.phase \in Removal <=> phase \in Removal)
  PROVE  /\ Past'
         /\ (Has({"remove"})' => Has({"remove"}) \/ record.phase = "remove")
         /\ (Has({"publish", "commit"})' => Has({"publish", "commit"}) \/ record.phase \in {"publish", "commit"})
<1>1. phase' = record.phase /\ tx' = record.id /\ record.phase \in Phases
  BY DEF phase, tx
<1>2. disk.journal = NoRecord => Len(disk.earlier) = 0
  <2>1. disk.journal = NoRecord => phase \notin Phases
    BY DEF phase, NoRecord, Phases
  <2> QED
    BY <2>1, Earlier DEF Past
<1>3. \A n \in DOMAIN e : \/ n \in DOMAIN disk.earlier /\ e[n] = disk.earlier[n]
                          \/ n = Len(disk.earlier) + 1 /\ e[n] = disk.journal
  BY DEF Behind
<1>4. disk.journal = [id |-> tx, phase |-> phase] /\ phase \in Phases \cup {"none", "torn"}
      /\ (phase = "none" => disk.journal = NoJournal) /\ (phase = "torn" => disk.journal = NoRecord)
  BY Facts
<1>5. ASSUME NEW n \in DOMAIN e
      PROVE  /\ \/ n = 1 /\ e[n] = NoRecord
                \/ /\ e[n].id = record.id /\ e[n].phase \in Phases
                   /\ e[n].phase \in Removal <=> record.phase \in Removal
             /\ e[n].phase = phase \/ \E m \in DOMAIN disk.earlier : e[n].phase = disk.earlier[m].phase
  <2>1. CASE n \in DOMAIN disk.earlier /\ e[n] = disk.earlier[n]
    BY <2>1 DEF Past
  <2>2. CASE n = Len(disk.earlier) + 1 /\ e[n] = disk.journal
    <3>1. e # <<>> /\ disk.journal # NoJournal
      BY DEF Behind
    <3>2. CASE disk.journal = NoRecord
      BY <1>2, <1>4, <2>2, <3>2 DEF NoRecord, phase
    <3>3. CASE phase \in Phases
      BY <1>4, <2>2, <3>3
    <3> QED
      BY <1>4, <3>1, <3>2, <3>3
  <2> QED
    BY <1>3, <2>1, <2>2
<1>6. Past'
  BY <1>1, <1>5 DEF Past
<1> QED
  BY <1>1, <1>5, <1>6 DEF Has

-----------------------------------------------------------------------------
\* The operations of a transaction on the volume: each keeps what holds of the
\* volume, and but for two of them every version that counts.

\* The old version is moved aside: it counts as before.
LEMMA KeepsOld ==
  ASSUME TypeOK, DiskInv, phase = "publish", disk.staging # NoDir, disk.backup = NoDir, There,
         disk' = [disk EXCEPT !.backup = disk.dest[tx], !.dest = [disk.dest EXCEPT ![tx] = NoDir]],
         UNCHANGED <<volume, live, misread>>, asked' = asked
  PROVE  /\ (Has({"remove"})' => Has({"remove"})) /\ disk' \in Disk /\ DiskInv' /\ CountsStay
         /\ phase' = phase /\ tx' = tx /\ ~There' /\ disk'.staging = disk.staging
<1>1. disk \in Disk /\ Past /\ Young /\ Shape /\ Lives /\ Caches /\ Owed
  BY DEF TypeOK, DiskInv
<1>2. tx \in Apps
  BY Facts DEF Phases
<1>3. /\ disk'.dest = [disk.dest EXCEPT ![tx] = NoDir] /\ disk'.staging = disk.staging
      /\ disk'.backup = disk.dest[tx] /\ disk'.removing = disk.removing
      /\ disk'.cache = disk.cache /\ disk'.journal = disk.journal /\ disk'.earlier = disk.earlier
  BY <1>1 DEF Disk
<1>4. disk' \in Disk
  BY <1>1, <1>2, Facts DEF Disk, Dir
<1>5. phase' = phase /\ tx' = tx
  BY <1>3 DEF phase, tx
<1>6. \A a \in Apps : disk'.dest[a] = IF a = tx THEN NoDir ELSE disk.dest[a]
  BY <1>2, <1>3, Facts
<1>7. Whole(disk.dest[tx], tx) /\ disk.dest[tx] # NoDir
  BY <1>1, <1>2, Facts, InstallerAssumption DEF InstallerAssumption, Shape, There, Whole, NoDir
<1>8. ~There'
  BY <1>1, <1>2, <1>3, <1>5, <1>6, <1>7 DEF There
<1>20. Past' /\ Young' /\ (Has({"remove"})' <=> Has({"remove"}))
       /\ (Has({"publish", "commit"})' <=> Has({"publish", "commit"}))
  BY <1>1, <1>3, <1>5 DEF Past, Young, Has
<1>9. Shape'
  BY <1>1, <1>2, <1>3, <1>5, <1>6, <1>7, <1>8 DEF Shape, Whole, Clean
<1>10. Lives'
  BY <1>20, Facts, <1>1, <1>2, <1>3, <1>5, <1>6, <1>7, <1>8 DEF Lives, Shape, Has, Past, Phases
<1>11. Caches'
  BY <1>1, <1>2, <1>3, <1>5, <1>6, <1>7, <1>8 DEF Caches, CacheIsOwn, Shape, There
<1>12. Owed'
  BY <1>1, <1>2, <1>3, <1>5, <1>6, <1>7, <1>8 DEF Owed, ToPublish, ToRemove, Later, Shape, There
<1>13. CountsStay
  BY <1>1, <1>2, <1>3, <1>5, <1>6, <1>7, <1>8 DEF CountsStay, Counts, Shape, There, Clean
<1> QED
  BY <1>20, <1>3, <1>4, <1>5, <1>7, <1>8, <1>9, <1>10, <1>11, <1>12, <1>13 DEF DiskInv

\* The old version is put back.
LEMMA Restores ==
  ASSUME TypeOK, DiskInv, phase = "publish", disk.staging # NoDir, disk.backup # NoDir, ~There,
         disk' = [disk EXCEPT !.dest = [disk.dest EXCEPT ![tx] = disk.backup], !.backup = NoDir],
         UNCHANGED <<volume, live, misread>>, asked' = asked
  PROVE  /\ (Has({"remove"})' => Has({"remove"})) /\ disk' \in Disk /\ DiskInv' /\ CountsStay
         /\ phase' = phase /\ tx' = tx /\ There' /\ disk'.staging = disk.staging /\ disk'.backup = NoDir
<1>1. disk \in Disk /\ Past /\ Young /\ Shape /\ Lives /\ Caches /\ Owed
  BY DEF TypeOK, DiskInv
<1>2. tx \in Apps
  BY Facts DEF Phases
<1>3. /\ disk'.dest = [disk.dest EXCEPT ![tx] = disk.backup] /\ disk'.staging = disk.staging
      /\ disk'.backup = NoDir /\ disk'.removing = disk.removing
      /\ disk'.cache = disk.cache /\ disk'.journal = disk.journal /\ disk'.earlier = disk.earlier
  BY <1>1 DEF Disk
<1>4. disk' \in Disk
  BY <1>1, <1>2, Facts DEF Disk, Dir
<1>5. phase' = phase /\ tx' = tx
  BY <1>3 DEF phase, tx
<1>6. \A a \in Apps : disk'.dest[a] = IF a = tx THEN disk.backup ELSE disk.dest[a]
  BY <1>2, <1>3, Facts
<1>7. Whole(disk.backup, tx) /\ disk.backup # NoDir
  BY <1>1, <1>2, Facts, InstallerAssumption DEF InstallerAssumption, Shape, There, Whole, NoDir
<1>8. There'
  BY <1>1, <1>2, <1>3, <1>5, <1>6, <1>7 DEF There
<1>20. Past' /\ Young' /\ (Has({"remove"})' <=> Has({"remove"}))
       /\ (Has({"publish", "commit"})' <=> Has({"publish", "commit"}))
  BY <1>1, <1>3, <1>5 DEF Past, Young, Has
<1>9. Shape'
  BY <1>1, <1>2, <1>3, <1>5, <1>6, <1>7, <1>8 DEF Shape, Whole, Clean
<1>10. Lives'
  BY <1>20, Facts, <1>1, <1>2, <1>3, <1>5, <1>6, <1>7, <1>8 DEF Lives, Shape, Has, Past, Phases
<1>11. Caches'
  BY <1>1, <1>2, <1>3, <1>5, <1>6, <1>7, <1>8 DEF Caches, CacheIsOwn, Shape, There
<1>12. Owed'
  BY <1>1, <1>2, <1>3, <1>5, <1>6, <1>7, <1>8 DEF Owed, ToPublish, ToRemove, Later, Shape, There
<1>13. CountsStay
  BY <1>1, <1>2, <1>3, <1>5, <1>6, <1>7, <1>8 DEF CountsStay, Counts, Shape, There, Clean
<1> QED
  BY <1>20, <1>3, <1>4, <1>5, <1>7, <1>8, <1>9, <1>10, <1>11, <1>12, <1>13 DEF DiskInv

\* An unfinished update is called off, its copy still to be removed.
LEMMA Undoes ==
  ASSUME TypeOK, DiskInv, phase = "publish", disk.staging # NoDir, disk.backup = NoDir,
         NEW e, Behind(e), disk' = Recorded(e, [id |-> tx, phase |-> "copy"]),
         UNCHANGED <<volume, live, misread>>, asked' = asked
  PROVE  /\ (Has({"remove"})' => Has({"remove"})) /\ disk' \in Disk /\ DiskInv' /\ CountsStay
         /\ phase' = "copy" /\ tx' = tx /\ ~ToPublish' /\ ~ToRemove'
<1>1. disk \in Disk /\ Past /\ Young /\ Shape /\ Lives /\ Caches /\ Owed
  BY DEF TypeOK, DiskInv
<1>2. tx \in Apps
  BY Facts DEF Phases
<1>3. /\ disk'.dest = disk.dest /\ disk'.staging = disk.staging
      /\ disk'.backup = disk.backup /\ disk'.removing = disk.removing
      /\ disk'.cache = disk.cache /\ disk'.journal = [id |-> tx, phase |-> "copy"] /\ disk'.earlier = e
  BY <1>1 DEF Disk, Recorded
<1>4. disk' \in Disk
  <2>1. [id |-> tx, phase |-> "copy"] \in Transaction
    BY <1>2, Facts DEF Transaction, Phases
  <2> QED
    BY <1>1, <1>3, <2>1, Facts DEF Disk, Recorded, Behind
<1>5. phase' = "copy" /\ tx' = tx
  BY <1>3 DEF phase, tx
<1>6. \A a \in Apps : disk'.dest[a] = disk.dest[a]
  BY <1>2, <1>3, Facts
<1>7. There' <=> There
  BY <1>1, <1>2, <1>3, <1>5, <1>6 DEF There
<1>20. Past' /\ Young' /\ (Has({"remove"})' => Has({"remove"}) \/ phase' = "remove")
       /\ (Has({"publish", "commit"})' => Has({"publish", "commit"}) \/ phase' \in {"publish", "commit"})
  <2>1. [id |-> tx, phase |-> "copy"] \in [id : Apps, phase : Phases]
    BY <1>2 DEF Phases
  <2>2. Young'
    BY <1>1, <1>3, Earlier, Facts DEF Behind, Young, Past, Phases, phase
  <2> QED
    BY <1>1, <1>2, <1>3, <1>5, <2>1, <2>2, Facts, PastGoesOn DEF Removal, Phases
<1>8. Shape'
  BY <1>1, <1>2, <1>3, <1>5, <1>6, <1>7 DEF Shape, Whole, Clean
<1>9. Lives'
  BY <1>20, Facts, <1>1, <1>2, <1>3, <1>5, <1>6, <1>7 DEF Lives, Shape, Has, Past, Phases
<1>10. Caches'
  BY <1>1, <1>2, <1>3, <1>5, <1>6, <1>7 DEF Caches, CacheIsOwn, Shape, There
<1>11. Owed'
  BY <1>1, <1>2, <1>3, <1>5, <1>6, <1>7 DEF Owed, ToPublish, ToRemove, Later, Shape, There
<1>12. CountsStay
  BY <1>1, <1>2, <1>3, <1>5, <1>6, <1>7 DEF CountsStay, Counts, Shape, There, Clean
<1> QED
  BY <1>20, <1>3, <1>4, <1>5, <1>7, <1>8, <1>9, <1>10, <1>11, <1>12 DEF DiskInv, ToPublish, ToRemove

\* What was copied goes, by and by.
LEMMA ClearsStaging ==
  ASSUME TypeOK, DiskInv, phase \in {"none", "torn", "copy"}, NEW dir \in Dir, phase # "copy" => dir = NoDir,
         disk' = [disk EXCEPT !.staging = dir],
         UNCHANGED <<volume, live, misread>>, asked' = asked
  PROVE  /\ (Has({"remove"})' => Has({"remove"})) /\ disk' \in Disk /\ DiskInv' /\ CountsStay
         /\ phase' = phase /\ tx' = tx /\ disk'.staging = dir
<1>1. disk \in Disk /\ Past /\ Young /\ Shape /\ Lives /\ Caches /\ Owed
  BY DEF TypeOK, DiskInv
<1>2. phase = "copy" => tx \in Apps
  BY Facts DEF Phases
<1>3. /\ disk'.dest = disk.dest /\ disk'.staging = dir
      /\ disk'.backup = disk.backup /\ disk'.removing = disk.removing
      /\ disk'.cache = disk.cache /\ disk'.journal = disk.journal /\ disk'.earlier = disk.earlier
  BY <1>1 DEF Disk
<1>4. disk' \in Disk
  BY <1>1, <1>2, Facts DEF Disk, Dir
<1>5. phase' = phase /\ tx' = tx
  BY <1>3 DEF phase, tx
<1>6. \A a \in Apps : disk'.dest[a] = disk.dest[a]
  BY <1>2, <1>3, Facts
<1>7. There' <=> There
  BY <1>1, <1>2, <1>3, <1>5, <1>6 DEF There
<1>20. Past' /\ Young' /\ (Has({"remove"})' <=> Has({"remove"}))
       /\ (Has({"publish", "commit"})' <=> Has({"publish", "commit"}))
  BY <1>1, <1>3, <1>5 DEF Past, Young, Has
<1>8. Shape'
  BY <1>1, <1>2, <1>3, <1>5, <1>6, <1>7 DEF Shape, Whole, Clean
<1>9. Lives'
  BY <1>20, Facts, <1>1, <1>2, <1>3, <1>5, <1>6, <1>7 DEF Lives, Shape, Has, Past, Phases
<1>10. Caches'
  BY <1>1, <1>2, <1>3, <1>5, <1>6, <1>7 DEF Caches, CacheIsOwn, Shape, There
<1>11. Owed'
  BY <1>1, <1>2, <1>3, <1>5, <1>6, <1>7 DEF Owed, ToPublish, ToRemove, Later, Shape, There
<1>12. CountsStay
  BY <1>1, <1>2, <1>3, <1>5, <1>6, <1>7 DEF CountsStay, Counts, Shape, There, Clean
<1> QED
  BY <1>20, <1>3, <1>4, <1>5, <1>7, <1>8, <1>9, <1>10, <1>11, <1>12 DEF DiskInv

\* The new version takes its place: what was asked for is carried out.
LEMMA Publishes ==
  ASSUME TypeOK, DiskInv, phase = "publish", disk.staging # NoDir, ~There,
         disk' = [disk EXCEPT !.dest = [disk.dest EXCEPT ![tx] = disk.staging], !.staging = NoDir],
         UNCHANGED <<volume, live, misread>>, asked' = asked \ {[id |-> tx, ver |-> disk.staging.ver]}
  PROVE  /\ (Has({"remove"})' => Has({"remove"})) /\ disk' \in Disk /\ DiskInv'
         /\ phase' = phase /\ tx' = tx /\ disk'.staging = NoDir /\ There'
<1>1. disk \in Disk /\ Past /\ Young /\ Shape /\ Lives /\ Caches /\ Owed
  BY DEF TypeOK, DiskInv
<1>2. tx \in Apps
  BY Facts DEF Phases
<1>3. /\ disk'.dest = [disk.dest EXCEPT ![tx] = disk.staging] /\ disk'.staging = NoDir
      /\ disk'.backup = disk.backup /\ disk'.removing = disk.removing
      /\ disk'.cache = disk.cache /\ disk'.journal = disk.journal /\ disk'.earlier = disk.earlier
  BY <1>1 DEF Disk
<1>4. disk' \in Disk
  BY <1>1, <1>2, Facts DEF Disk, Dir
<1>5. phase' = phase /\ tx' = tx
  BY <1>3 DEF phase, tx
<1>6. \A a \in Apps : disk'.dest[a] = IF a = tx THEN disk.staging ELSE disk.dest[a]
  BY <1>2, <1>3, Facts
<1>7. Whole(disk.staging, tx)
  BY <1>1, <1>2, Facts, InstallerAssumption DEF InstallerAssumption, Shape, There, Whole, NoDir
<1>8. There'
  BY <1>1, <1>2, <1>3, <1>5, <1>6, <1>7 DEF There
<1>20. Past' /\ Young' /\ (Has({"remove"})' <=> Has({"remove"}))
       /\ (Has({"publish", "commit"})' <=> Has({"publish", "commit"}))
  BY <1>1, <1>3, <1>5 DEF Past, Young, Has
<1>9. Shape'
  BY <1>1, <1>2, <1>3, <1>5, <1>6, <1>7, <1>8 DEF Shape, Whole, Clean
<1>10. Lives'
  BY <1>20, Facts, <1>1, <1>2, <1>3, <1>5, <1>6, <1>7, <1>8 DEF Lives, Shape, Has, Past, Phases
<1>11. Caches'
  BY <1>1, <1>2, <1>3, <1>5, <1>6, <1>7, <1>8 DEF Caches, CacheIsOwn, Shape, There
<1>12. Owed'
  BY <1>1, <1>2, <1>3, <1>5, <1>6, <1>7, <1>8 DEF Owed, ToPublish, ToRemove, Later, Shape, There
<1> QED
  BY <1>20, <1>3, <1>4, <1>5, <1>7, <1>8, <1>9, <1>10, <1>11, <1>12 DEF DiskInv

\* The update is recorded as done.
LEMMA Commits ==
  ASSUME TypeOK, DiskInv, phase = "publish", disk.staging = NoDir,
         NEW e, Behind(e), disk' = Recorded(e, [id |-> tx, phase |-> "commit"]),
         UNCHANGED <<volume, live, misread>>, asked' = asked
  PROVE  /\ (Has({"remove"})' => Has({"remove"})) /\ disk' \in Disk /\ DiskInv' /\ CountsStay
         /\ phase' = "commit" /\ tx' = tx /\ ~ToPublish' /\ ~ToRemove'
<1>1. disk \in Disk /\ Past /\ Young /\ Shape /\ Lives /\ Caches /\ Owed
  BY DEF TypeOK, DiskInv
<1>2. tx \in Apps
  BY Facts DEF Phases
<1>3. /\ disk'.dest = disk.dest /\ disk'.staging = disk.staging
      /\ disk'.backup = disk.backup /\ disk'.removing = disk.removing
      /\ disk'.cache = disk.cache /\ disk'.journal = [id |-> tx, phase |-> "commit"] /\ disk'.earlier = e
  BY <1>1 DEF Disk, Recorded
<1>4. disk' \in Disk
  <2>1. [id |-> tx, phase |-> "commit"] \in Transaction
    BY <1>2, Facts DEF Transaction, Phases
  <2> QED
    BY <1>1, <1>3, <2>1, Facts DEF Disk, Recorded, Behind
<1>5. phase' = "commit" /\ tx' = tx
  BY <1>3 DEF phase, tx
<1>6. \A a \in Apps : disk'.dest[a] = disk.dest[a]
  BY <1>2, <1>3, Facts
<1>7. There' <=> There
  BY <1>1, <1>2, <1>3, <1>5, <1>6 DEF There
<1>20. Past' /\ Young' /\ (Has({"remove"})' => Has({"remove"}) \/ phase' = "remove")
       /\ (Has({"publish", "commit"})' => Has({"publish", "commit"}) \/ phase' \in {"publish", "commit"})
  <2>1. [id |-> tx, phase |-> "commit"] \in [id : Apps, phase : Phases]
    BY <1>2 DEF Phases
  <2>2. Young'
    BY <1>1, <1>3, Earlier, Facts DEF Behind, Young, Past, Phases, phase
  <2> QED
    BY <1>1, <1>2, <1>3, <1>5, <2>1, <2>2, Facts, PastGoesOn DEF Removal, Phases
<1>8. Shape'
  BY <1>1, <1>2, <1>3, <1>5, <1>6, <1>7 DEF Shape, Whole, Clean
<1>9. Lives'
  BY <1>20, Facts, <1>1, <1>2, <1>3, <1>5, <1>6, <1>7 DEF Lives, Shape, Has, Past, Phases
<1>10. Caches'
  BY <1>1, <1>2, <1>3, <1>5, <1>6, <1>7 DEF Caches, CacheIsOwn, Shape, There
<1>11. Owed'
  BY <1>1, <1>2, <1>3, <1>5, <1>6, <1>7 DEF Owed, ToPublish, ToRemove, Later, Shape, There
<1>12. CountsStay
  BY <1>1, <1>2, <1>3, <1>5, <1>6, <1>7 DEF CountsStay, Counts, Shape, There, Clean
<1> QED
  BY <1>20, <1>3, <1>4, <1>5, <1>7, <1>8, <1>9, <1>10, <1>11, <1>12 DEF DiskInv, ToPublish, ToRemove

\* The old version goes, by and by.
LEMMA ClearsBackup ==
  ASSUME TypeOK, DiskInv, phase = "commit", NEW dir \in Dir,
         disk' = [disk EXCEPT !.backup = dir],
         UNCHANGED <<volume, live, misread>>, asked' = asked
  PROVE  /\ (Has({"remove"})' => Has({"remove"})) /\ disk' \in Disk /\ DiskInv' /\ CountsStay
         /\ phase' = phase /\ tx' = tx /\ disk'.backup = dir
<1>1. disk \in Disk /\ Past /\ Young /\ Shape /\ Lives /\ Caches /\ Owed
  BY DEF TypeOK, DiskInv
<1>2. tx \in Apps
  BY Facts DEF Phases
<1>3. /\ disk'.dest = disk.dest /\ disk'.staging = disk.staging
      /\ disk'.backup = dir /\ disk'.removing = disk.removing
      /\ disk'.cache = disk.cache /\ disk'.journal = disk.journal /\ disk'.earlier = disk.earlier
  BY <1>1 DEF Disk
<1>4. disk' \in Disk
  BY <1>1, <1>2, Facts DEF Disk, Dir
<1>5. phase' = phase /\ tx' = tx
  BY <1>3 DEF phase, tx
<1>6. \A a \in Apps : disk'.dest[a] = disk.dest[a]
  BY <1>2, <1>3, Facts
<1>7. There' <=> There
  BY <1>1, <1>2, <1>3, <1>5, <1>6 DEF There
<1>20. Past' /\ Young' /\ (Has({"remove"})' <=> Has({"remove"}))
       /\ (Has({"publish", "commit"})' <=> Has({"publish", "commit"}))
  BY <1>1, <1>3, <1>5 DEF Past, Young, Has
<1>8. Shape'
  BY <1>1, <1>2, <1>3, <1>5, <1>6, <1>7 DEF Shape, Whole, Clean
<1>9. Lives'
  BY <1>20, Facts, <1>1, <1>2, <1>3, <1>5, <1>6, <1>7 DEF Lives, Shape, Has, Past, Phases
<1>10. Caches'
  BY <1>1, <1>2, <1>3, <1>5, <1>6, <1>7 DEF Caches, CacheIsOwn, Shape, There
<1>11. Owed'
  BY <1>1, <1>2, <1>3, <1>5, <1>6, <1>7 DEF Owed, ToPublish, ToRemove, Later, Shape, There
<1>12. CountsStay
  BY <1>1, <1>2, <1>3, <1>5, <1>6, <1>7 DEF CountsStay, Counts, Shape, There, Clean
<1> QED
  BY <1>20, <1>3, <1>4, <1>5, <1>7, <1>8, <1>9, <1>10, <1>11, <1>12 DEF DiskInv

\* The cache of the old version goes.
LEMMA ClearsCache ==
  ASSUME TypeOK, DiskInv, phase \in {"commit", "removed"},
         disk' = [disk EXCEPT !.cache[tx] = 0],
         UNCHANGED <<volume, live, misread>>, asked' = asked
  PROVE  /\ (Has({"remove"})' => Has({"remove"})) /\ disk' \in Disk /\ DiskInv' /\ CountsStay
         /\ phase' = phase /\ tx' = tx /\ disk'.cache[tx] = 0 /\ disk'.backup = disk.backup
         /\ disk'.removing = disk.removing
<1>1. disk \in Disk /\ Past /\ Young /\ Shape /\ Lives /\ Caches /\ Owed
  BY DEF TypeOK, DiskInv
<1>2. tx \in Apps
  BY Facts DEF Phases
<1>3. /\ disk'.dest = disk.dest /\ disk'.staging = disk.staging
      /\ disk'.backup = disk.backup /\ disk'.removing = disk.removing
      /\ disk'.cache = [disk.cache EXCEPT ![tx] = 0] /\ disk'.journal = disk.journal /\ disk'.earlier = disk.earlier
  BY <1>1 DEF Disk
<1>4. disk' \in Disk
  <2>1. 0 \in 0 .. MaxVersion
    BY InstallerAssumption DEF InstallerAssumption
  <2>2. disk'.cache \in [Apps -> 0 .. MaxVersion]
    BY <1>2, <1>3, <2>1, Facts
  <2> QED
    BY <1>1, <1>3, <2>2, Facts DEF Disk
<1>5. phase' = phase /\ tx' = tx
  BY <1>3 DEF phase, tx
<1>6. \A a \in Apps : disk'.dest[a] = disk.dest[a]
  BY <1>2, <1>3, Facts
<1>7. There' <=> There
  BY <1>1, <1>2, <1>3, <1>5, <1>6 DEF There
<1>20. Past' /\ Young' /\ (Has({"remove"})' <=> Has({"remove"}))
       /\ (Has({"publish", "commit"})' <=> Has({"publish", "commit"}))
  BY <1>1, <1>3, <1>5 DEF Past, Young, Has
<1>8. Shape'
  BY <1>1, <1>2, <1>3, <1>5, <1>6, <1>7 DEF Shape, Whole, Clean
<1>9. Lives'
  BY <1>20, Facts, <1>1, <1>2, <1>3, <1>5, <1>6, <1>7 DEF Lives, Shape, Has, Past, Phases
<1>10. Caches'
  BY <1>1, <1>2, <1>3, <1>5, <1>6, <1>7 DEF Caches, CacheIsOwn, Shape, There
<1>11. Owed'
  BY <1>1, <1>2, <1>3, <1>5, <1>6, <1>7 DEF Owed, ToPublish, ToRemove, Later, Shape, There
<1>12. CountsStay
  BY <1>1, <1>2, <1>3, <1>5, <1>6, <1>7 DEF CountsStay, Counts, Shape, There, Clean
<1> QED
  BY <1>20, <1>2, Facts, <1>3, <1>4, <1>5, <1>7, <1>8, <1>9, <1>10, <1>11, <1>12 DEF DiskInv

\* An application is moved out of its place: its removal is carried out.
LEMMA Discards ==
  ASSUME TypeOK, DiskInv, phase = "remove", There,
         disk' = [disk EXCEPT !.removing = disk.dest[tx], !.dest = [disk.dest EXCEPT ![tx] = NoDir]],
         UNCHANGED <<volume, live, misread>>, asked' = asked \ {[id |-> tx, ver |-> 0]}
  PROVE  /\ (Has({"remove"})' => Has({"remove"})) /\ disk' \in Disk /\ DiskInv'
         /\ phase' = phase /\ tx' = tx /\ ~There'
<1>1. disk \in Disk /\ Past /\ Young /\ Shape /\ Lives /\ Caches /\ Owed
  BY DEF TypeOK, DiskInv
<1>2. tx \in Apps
  BY Facts DEF Phases
<1>3. /\ disk'.dest = [disk.dest EXCEPT ![tx] = NoDir] /\ disk'.staging = disk.staging
      /\ disk'.backup = disk.backup /\ disk'.removing = disk.dest[tx]
      /\ disk'.cache = disk.cache /\ disk'.journal = disk.journal /\ disk'.earlier = disk.earlier
  BY <1>1 DEF Disk
<1>4. disk' \in Disk
  BY <1>1, <1>2, Facts DEF Disk, Dir
<1>5. phase' = phase /\ tx' = tx
  BY <1>3 DEF phase, tx
<1>6. \A a \in Apps : disk'.dest[a] = IF a = tx THEN NoDir ELSE disk.dest[a]
  BY <1>2, <1>3, Facts
<1>7. ~There'
  BY <1>1, <1>2, <1>3, <1>5, <1>6 DEF There
<1>20. Past' /\ Young' /\ (Has({"remove"})' <=> Has({"remove"}))
       /\ (Has({"publish", "commit"})' <=> Has({"publish", "commit"}))
  BY <1>1, <1>3, <1>5 DEF Past, Young, Has
<1>8. Shape'
  BY <1>1, <1>2, <1>3, <1>5, <1>6, <1>7 DEF Shape, Whole, Clean
<1>9. Lives'
  BY <1>20, Facts, <1>1, <1>2, <1>3, <1>5, <1>6, <1>7 DEF Lives, Shape, Has, Past, Phases
<1>10. Caches'
  BY <1>1, <1>2, <1>3, <1>5, <1>6, <1>7 DEF Caches, CacheIsOwn, Shape, There
<1>11. Owed'
  BY <1>1, <1>2, <1>3, <1>5, <1>6, <1>7 DEF Owed, ToPublish, ToRemove, Later, Shape, There
<1> QED
  BY <1>20, <1>3, <1>4, <1>5, <1>7, <1>8, <1>9, <1>10, <1>11 DEF DiskInv

\* The removal is recorded as done.
LEMMA RecordsRemoval ==
  ASSUME TypeOK, DiskInv, phase = "remove", ~There,
         NEW e, Behind(e), disk' = Recorded(e, [id |-> tx, phase |-> "removed"]),
         UNCHANGED <<volume, live, misread>>, asked' = asked
  PROVE  /\ (Has({"remove"})' => Has({"remove"})) /\ disk' \in Disk /\ DiskInv' /\ CountsStay
         /\ phase' = "removed" /\ tx' = tx /\ ~ToPublish' /\ ~ToRemove'
<1>1. disk \in Disk /\ Past /\ Young /\ Shape /\ Lives /\ Caches /\ Owed
  BY DEF TypeOK, DiskInv
<1>2. tx \in Apps
  BY Facts DEF Phases
<1>3. /\ disk'.dest = disk.dest /\ disk'.staging = disk.staging
      /\ disk'.backup = disk.backup /\ disk'.removing = disk.removing
      /\ disk'.cache = disk.cache /\ disk'.journal = [id |-> tx, phase |-> "removed"] /\ disk'.earlier = e
  BY <1>1 DEF Disk, Recorded
<1>4. disk' \in Disk
  <2>1. [id |-> tx, phase |-> "removed"] \in Transaction
    BY <1>2, Facts DEF Transaction, Phases
  <2> QED
    BY <1>1, <1>3, <2>1, Facts DEF Disk, Recorded, Behind
<1>5. phase' = "removed" /\ tx' = tx
  BY <1>3 DEF phase, tx
<1>6. \A a \in Apps : disk'.dest[a] = disk.dest[a]
  BY <1>2, <1>3, Facts
<1>7. There' <=> There
  BY <1>1, <1>2, <1>3, <1>5, <1>6 DEF There
<1>20. Past' /\ Young' /\ (Has({"remove"})' => Has({"remove"}) \/ phase' = "remove")
       /\ (Has({"publish", "commit"})' => Has({"publish", "commit"}) \/ phase' \in {"publish", "commit"})
  <2>1. [id |-> tx, phase |-> "removed"] \in [id : Apps, phase : Phases]
    BY <1>2 DEF Phases
  <2>2. Young'
    BY <1>1, <1>3, Earlier, Facts DEF Behind, Young, Past, Phases, phase
  <2> QED
    BY <1>1, <1>2, <1>3, <1>5, <2>1, <2>2, Facts, PastGoesOn DEF Removal, Phases
<1>8. Shape'
  BY <1>1, <1>2, <1>3, <1>5, <1>6, <1>7 DEF Shape, Whole, Clean
<1>9. Lives'
  BY <1>20, Facts, <1>1, <1>2, <1>3, <1>5, <1>6, <1>7 DEF Lives, Shape, Has, Past, Phases
<1>10. Caches'
  BY <1>1, <1>2, <1>3, <1>5, <1>6, <1>7 DEF Caches, CacheIsOwn, Shape, There
<1>11. Owed'
  BY <1>1, <1>2, <1>3, <1>5, <1>6, <1>7 DEF Owed, ToPublish, ToRemove, Later, Shape, There
<1>12. CountsStay
  BY <1>1, <1>2, <1>3, <1>5, <1>6, <1>7 DEF CountsStay, Counts, Shape, There, Clean
<1> QED
  BY <1>20, <1>3, <1>4, <1>5, <1>7, <1>8, <1>9, <1>10, <1>11, <1>12 DEF DiskInv, ToPublish, ToRemove

\* What was removed goes, by and by.
LEMMA ClearsRemoving ==
  ASSUME TypeOK, DiskInv, phase \in {"none", "removed"}, NEW dir \in Dir, phase = "none" => dir = NoDir,
         disk' = [disk EXCEPT !.removing = dir],
         UNCHANGED <<volume, live, misread>>, asked' = asked
  PROVE  /\ (Has({"remove"})' => Has({"remove"})) /\ disk' \in Disk /\ DiskInv' /\ CountsStay
         /\ phase' = phase /\ tx' = tx /\ disk'.removing = dir /\ disk'.journal = disk.journal
<1>1. disk \in Disk /\ Past /\ Young /\ Shape /\ Lives /\ Caches /\ Owed
  BY DEF TypeOK, DiskInv
<1>2. phase = "removed" => tx \in Apps
  BY Facts DEF Phases
<1>3. /\ disk'.dest = disk.dest /\ disk'.staging = disk.staging
      /\ disk'.backup = disk.backup /\ disk'.removing = dir
      /\ disk'.cache = disk.cache /\ disk'.journal = disk.journal /\ disk'.earlier = disk.earlier
  BY <1>1 DEF Disk
<1>4. disk' \in Disk
  BY <1>1, <1>2, Facts DEF Disk, Dir
<1>5. phase' = phase /\ tx' = tx
  BY <1>3 DEF phase, tx
<1>6. \A a \in Apps : disk'.dest[a] = disk.dest[a]
  BY <1>2, <1>3, Facts
<1>7. There' <=> There
  BY <1>1, <1>2, <1>3, <1>5, <1>6 DEF There
<1>20. Past' /\ Young' /\ (Has({"remove"})' <=> Has({"remove"}))
       /\ (Has({"publish", "commit"})' <=> Has({"publish", "commit"}))
  BY <1>1, <1>3, <1>5 DEF Past, Young, Has
<1>8. Shape'
  BY <1>1, <1>2, <1>3, <1>5, <1>6, <1>7 DEF Shape, Whole, Clean
<1>9. Lives'
  BY <1>20, Facts, <1>1, <1>2, <1>3, <1>5, <1>6, <1>7 DEF Lives, Shape, Has, Past, Phases
<1>10. Caches'
  BY <1>1, <1>2, <1>3, <1>5, <1>6, <1>7 DEF Caches, CacheIsOwn, Shape, There
<1>11. Owed'
  BY <1>1, <1>2, <1>3, <1>5, <1>6, <1>7 DEF Owed, ToPublish, ToRemove, Later, Shape, There
<1>12. CountsStay
  BY <1>1, <1>2, <1>3, <1>5, <1>6, <1>7 DEF CountsStay, Counts, Shape, There, Clean
<1> QED
  BY <1>20, <1>3, <1>4, <1>5, <1>7, <1>8, <1>9, <1>10, <1>11, <1>12 DEF DiskInv

\* The journal goes when nothing of the transaction is left.
LEMMA Unlinks ==
  ASSUME TypeOK, DiskInv, \/ (phase \in {"torn", "copy"} /\ disk.staging = NoDir)
         \/ (phase = "commit" /\ disk.backup = NoDir /\ disk.cache[tx] = 0)
         \/ (phase = "removed" /\ disk.removing = NoDir),
         disk' = Recorded(<<>>, NoJournal),
         UNCHANGED <<volume, live, misread>>, asked' = asked
  PROVE  /\ ~Has({"remove"})' /\ ~Has({"publish", "commit"})' /\ disk' \in Disk /\ DiskInv' /\ CountsStay
         /\ phase' = "none" /\ disk'.journal = NoJournal
<1>1. disk \in Disk /\ Past /\ Young /\ Shape /\ Lives /\ Caches /\ Owed
  BY DEF TypeOK, DiskInv
<1>2. phase \in Phases => tx \in Apps
  BY Facts DEF Phases
<1>3. /\ disk'.dest = disk.dest /\ disk'.staging = disk.staging
      /\ disk'.backup = disk.backup /\ disk'.removing = disk.removing
      /\ disk'.cache = disk.cache /\ disk'.journal = NoJournal /\ disk'.earlier = <<>>
  BY <1>1 DEF Disk, Recorded
<1>4. disk' \in Disk
  <2>1. NoJournal \in Transaction
    BY <1>2, Facts DEF Transaction, Phases
  <2>2. <<>> \in Seq(Transaction)
    OBVIOUS
  <2> QED
    BY <1>1, <1>3, <2>1, <2>2, Facts DEF Disk, Recorded
<1>5. phase' = "none"
  BY <1>3 DEF phase, tx, NoJournal, NoRecord
<1>6. \A a \in Apps : disk'.dest[a] = disk.dest[a]
  BY <1>2, <1>3, Facts
<1>20. Past' /\ Young' /\ ~Has({"remove"})' /\ ~Has({"publish", "commit"})'
  BY <1>3, <1>5 DEF Past, Young, Has
<1>7. Shape'
  BY <1>1, <1>2, <1>3, <1>5, <1>6 DEF Shape, Whole, Clean
<1>8. Lives'
  BY <1>20, Facts, <1>1, <1>2, <1>3, <1>5, <1>6 DEF Lives, Shape, Has, Past, Phases
<1>9. Caches'
  BY <1>1, <1>2, <1>3, <1>5, <1>6 DEF Caches, CacheIsOwn, Shape, There
<1>10. Owed'
  BY <1>1, <1>2, <1>3, <1>5, <1>6 DEF Owed, ToPublish, ToRemove, Later, Shape, There
<1>11. CountsStay
  BY <1>1, <1>2, <1>3, <1>5, <1>6 DEF CountsStay, Counts, Shape, There, Clean
<1> QED
  BY <1>20, <1>3, <1>4, <1>5, <1>7, <1>8, <1>9, <1>10, <1>11 DEF DiskInv

\* A journal without a record says no more than none.
LEMMA Opens ==
  ASSUME TypeOK, DiskInv, disk.journal = NoJournal, volume = "sd",
         disk' = Recorded(<<>>, NoRecord),
         UNCHANGED <<volume, live, misread>>, asked' = asked
  PROVE  /\ ~Has({"remove"})' /\ ~Has({"publish", "commit"})' /\ disk' \in Disk /\ DiskInv' /\ CountsStay
         /\ phase' = "torn"
<1>1. disk \in Disk /\ Past /\ Young /\ Shape /\ Lives /\ Caches /\ Owed
  BY DEF TypeOK, DiskInv
<1>2. phase = "none"
  BY Facts DEF Phases, phase, NoJournal
<1>3. /\ disk'.dest = disk.dest /\ disk'.staging = disk.staging
      /\ disk'.backup = disk.backup /\ disk'.removing = disk.removing
      /\ disk'.cache = disk.cache /\ disk'.journal = NoRecord /\ disk'.earlier = <<>>
  BY <1>1 DEF Disk, Recorded
<1>4. disk' \in Disk
  <2>1. NoRecord \in Transaction
    BY <1>2, Facts DEF Transaction, Phases
  <2>2. <<>> \in Seq(Transaction)
    OBVIOUS
  <2> QED
    BY <1>1, <1>3, <2>1, <2>2, Facts DEF Disk, Recorded
<1>5. phase' = "torn"
  BY <1>3 DEF phase, tx, NoJournal, NoRecord
<1>6. \A a \in Apps : disk'.dest[a] = disk.dest[a]
  BY <1>2, <1>3, Facts
<1>20. Past' /\ Young' /\ ~Has({"remove"})' /\ ~Has({"publish", "commit"})'
  BY <1>3, <1>5 DEF Past, Young, Has
<1>7. Shape'
  BY <1>1, <1>2, <1>3, <1>5, <1>6 DEF Shape, Whole, Clean
<1>8. Lives'
  BY <1>20, Facts, <1>1, <1>2, <1>3, <1>5, <1>6 DEF Lives, Shape, Has, Past, Phases
<1>9. Caches'
  BY <1>1, <1>2, <1>3, <1>5, <1>6 DEF Caches, CacheIsOwn, Shape, There
<1>10. Owed'
  BY <1>1, <1>2, <1>3, <1>5, <1>6 DEF Owed, ToPublish, ToRemove, Later, Shape, There, NoJournal
<1>11. CountsStay
  BY <1>1, <1>2, <1>3, <1>5, <1>6 DEF CountsStay, Counts, Shape, There, Clean
<1> QED
  BY <1>20, <1>3, <1>4, <1>5, <1>7, <1>8, <1>9, <1>10, <1>11 DEF DiskInv

\* The first record of an installation.
LEMMA RecordsCopy ==
  ASSUME TypeOK, DiskInv, phase \in {"none", "torn"}, NEW id \in Apps,
         NEW e, Behind(e), disk' = Recorded(e, [id |-> id, phase |-> "copy"]),
         UNCHANGED <<volume, live, misread>>, asked' = asked
  PROVE  /\ ~Has({"remove"})' /\ ~Has({"publish", "commit"})' /\ disk' \in Disk /\ DiskInv' /\ CountsStay
         /\ phase' = "copy" /\ tx' = id /\ disk'.journal = [id |-> id, phase |-> "copy"] /\ disk'.staging = NoDir
<1>1. disk \in Disk /\ Past /\ Young /\ Shape /\ Lives /\ Caches /\ Owed
  BY DEF TypeOK, DiskInv
<1>2. id \in Apps
  BY Facts DEF Phases
<1>3. /\ disk'.dest = disk.dest /\ disk'.staging = disk.staging
      /\ disk'.backup = disk.backup /\ disk'.removing = disk.removing
      /\ disk'.cache = disk.cache /\ disk'.journal = [id |-> id, phase |-> "copy"] /\ disk'.earlier = e
  BY <1>1 DEF Disk, Recorded
<1>4. disk' \in Disk
  <2>1. [id |-> id, phase |-> "copy"] \in Transaction
    BY <1>2, Facts DEF Transaction, Phases
  <2> QED
    BY <1>1, <1>3, <2>1, Facts DEF Disk, Recorded, Behind
<1>5. phase' = "copy" /\ tx' = id
  BY <1>3 DEF phase, tx
<1>6. \A a \in Apps : disk'.dest[a] = disk.dest[a]
  BY <1>2, <1>3, Facts
<1>20. Past' /\ Young' /\ (Has({"remove"})' => Has({"remove"}) \/ phase' = "remove")
       /\ (Has({"publish", "commit"})' => Has({"publish", "commit"}) \/ phase' \in {"publish", "commit"})
  <2>1. [id |-> id, phase |-> "copy"] \in [id : Apps, phase : Phases]
    BY <1>2 DEF Phases
  <2>2. Young'
    BY <1>1, <1>3, Earlier, Facts DEF Behind, Young, Past, Phases, phase
  <2> QED
    BY <1>1, <1>2, <1>3, <1>5, <2>1, <2>2, Facts, PastGoesOn DEF Removal, Phases
<1>21. ~Has({"remove", "publish", "commit"})
  BY <1>1, Facts DEF Has, Past, Phases
<1>7. Shape'
  BY <1>1, <1>2, <1>3, <1>5, <1>6 DEF Shape, Whole, Clean
<1>8. Lives'
  BY <1>20, Facts, <1>1, <1>2, <1>3, <1>5, <1>6 DEF Lives, Shape, Has, Past, Phases
<1>9. Caches'
  BY <1>1, <1>2, <1>3, <1>5, <1>6 DEF Caches, CacheIsOwn, Shape, There
<1>10. Owed'
  BY <1>1, <1>2, <1>3, <1>5, <1>6 DEF Owed, ToPublish, ToRemove, Later, Shape, There
<1>11. CountsStay
  BY <1>1, <1>2, <1>3, <1>5, <1>6 DEF CountsStay, Counts, Shape, There, Clean
<1> QED
  BY <1>20, <1>21, <1>1, <1>3, <1>4, <1>5, <1>7, <1>8, <1>9, <1>10, <1>11 DEF DiskInv, Shape, Clean, Has

\* The first record of a removal that was asked for.
LEMMA RecordsRemove ==
  ASSUME TypeOK, DiskInv, phase \in {"none", "torn"}, NEW id \in Apps,
         id \in misread \/ [id |-> id, ver |-> 0] \in asked, Whole(disk.dest[id], id),
         NEW e, Behind(e), disk' = Recorded(e, [id |-> id, phase |-> "remove"]),
         UNCHANGED <<volume, live, misread>>, asked' = asked
  PROVE  /\ ~Has({"publish", "commit"})' /\ disk' \in Disk /\ DiskInv' /\ CountsStay
         /\ phase' = "remove" /\ tx' = id /\ disk'.journal = [id |-> id, phase |-> "remove"]
<1>1. disk \in Disk /\ Past /\ Young /\ Shape /\ Lives /\ Caches /\ Owed
  BY DEF TypeOK, DiskInv
<1>2. id \in Apps
  BY Facts DEF Phases
<1>3. /\ disk'.dest = disk.dest /\ disk'.staging = disk.staging
      /\ disk'.backup = disk.backup /\ disk'.removing = disk.removing
      /\ disk'.cache = disk.cache /\ disk'.journal = [id |-> id, phase |-> "remove"] /\ disk'.earlier = e
  BY <1>1 DEF Disk, Recorded
<1>4. disk' \in Disk
  <2>1. [id |-> id, phase |-> "remove"] \in Transaction
    BY <1>2, Facts DEF Transaction, Phases
  <2> QED
    BY <1>1, <1>3, <2>1, Facts DEF Disk, Recorded, Behind
<1>5. phase' = "remove" /\ tx' = id
  BY <1>3 DEF phase, tx
<1>6. \A a \in Apps : disk'.dest[a] = disk.dest[a]
  BY <1>2, <1>3, Facts
<1>7. disk.dest[id] # NoDir
  BY <1>1, <1>2, Facts, InstallerAssumption DEF InstallerAssumption, Shape, There, Whole, NoDir
<1>8. There'
  BY <1>1, <1>2, <1>3, <1>5, <1>6, <1>7 DEF There
<1>20. Past' /\ Young' /\ (Has({"remove"})' => Has({"remove"}) \/ phase' = "remove")
       /\ (Has({"publish", "commit"})' => Has({"publish", "commit"}) \/ phase' \in {"publish", "commit"})
  <2>1. [id |-> id, phase |-> "remove"] \in [id : Apps, phase : Phases]
    BY <1>2 DEF Phases
  <2>2. Young'
    BY <1>1, <1>3, Earlier, Facts DEF Behind, Young, Past, Phases, phase
  <2> QED
    BY <1>1, <1>2, <1>3, <1>5, <2>1, <2>2, Facts, PastGoesOn DEF Removal, Phases
<1>21. ~Has({"publish", "commit"})
  BY <1>1, Facts DEF Has, Past, Phases
<1>9. Shape'
  BY <1>1, <1>2, <1>3, <1>5, <1>6, <1>7, <1>8 DEF Shape, Whole, Clean
<1>10. Lives'
  BY <1>20, Facts, <1>1, <1>2, <1>3, <1>5, <1>6, <1>7, <1>8 DEF Lives, Shape, Has, Past, Phases
<1>11. Caches'
  BY <1>1, <1>2, <1>3, <1>5, <1>6, <1>7, <1>8 DEF Caches, CacheIsOwn, Shape, There
<1>12. Owed'
  BY <1>1, <1>2, <1>3, <1>5, <1>6, <1>7, <1>8 DEF Owed, ToPublish, ToRemove, Later, Shape, There
<1>13. CountsStay
  BY <1>1, <1>2, <1>3, <1>5, <1>6, <1>7, <1>8 DEF CountsStay, Counts, Shape, There, Clean
<1> QED
  BY <1>20, <1>21,  <1>3, <1>4, <1>5, <1>7, <1>8, <1>9, <1>10, <1>11, <1>12, <1>13 DEF DiskInv

\* The package is copied.
LEMMA Stages ==
  ASSUME TypeOK, DiskInv, phase = "copy", NEW dir \in Dir,
         disk' = [disk EXCEPT !.staging = dir],
         UNCHANGED <<volume, live, misread>>, asked' = asked
  PROVE  /\ (Has({"remove"})' => Has({"remove"})) /\ disk' \in Disk /\ DiskInv' /\ CountsStay
         /\ phase' = phase /\ tx' = tx /\ disk'.staging = dir /\ disk'.dest = disk.dest /\ disk'.journal = disk.journal
<1>1. disk \in Disk /\ Past /\ Young /\ Shape /\ Lives /\ Caches /\ Owed
  BY DEF TypeOK, DiskInv
<1>2. tx \in Apps
  BY Facts DEF Phases
<1>3. /\ disk'.dest = disk.dest /\ disk'.staging = dir
      /\ disk'.backup = disk.backup /\ disk'.removing = disk.removing
      /\ disk'.cache = disk.cache /\ disk'.journal = disk.journal /\ disk'.earlier = disk.earlier
  BY <1>1 DEF Disk
<1>4. disk' \in Disk
  BY <1>1, <1>2, Facts DEF Disk, Dir
<1>5. phase' = phase /\ tx' = tx
  BY <1>3 DEF phase, tx
<1>6. \A a \in Apps : disk'.dest[a] = disk.dest[a]
  BY <1>2, <1>3, Facts
<1>7. There' <=> There
  BY <1>1, <1>2, <1>3, <1>5, <1>6 DEF There
<1>20. Past' /\ Young' /\ (Has({"remove"})' <=> Has({"remove"}))
       /\ (Has({"publish", "commit"})' <=> Has({"publish", "commit"}))
  BY <1>1, <1>3, <1>5 DEF Past, Young, Has
<1>8. Shape'
  BY <1>1, <1>2, <1>3, <1>5, <1>6, <1>7 DEF Shape, Whole, Clean
<1>9. Lives'
  BY <1>20, Facts, <1>1, <1>2, <1>3, <1>5, <1>6, <1>7 DEF Lives, Shape, Has, Past, Phases
<1>10. Caches'
  BY <1>1, <1>2, <1>3, <1>5, <1>6, <1>7 DEF Caches, CacheIsOwn, Shape, There
<1>11. Owed'
  BY <1>1, <1>2, <1>3, <1>5, <1>6, <1>7 DEF Owed, ToPublish, ToRemove, Later, Shape, There
<1>12. CountsStay
  BY <1>1, <1>2, <1>3, <1>5, <1>6, <1>7 DEF CountsStay, Counts, Shape, There, Clean
<1> QED
  BY <1>20, <1>3, <1>4, <1>5, <1>7, <1>8, <1>9, <1>10, <1>11, <1>12 DEF DiskInv

\* The record that makes a whole copy the new version.
LEMMA RecordsPublish ==
  ASSUME TypeOK, DiskInv, phase = "copy", NEW ver \in Version, disk.staging = [id |-> tx, ver |-> ver],
         Later(ver, disk.dest[tx]), tx \in misread \/ [id |-> tx, ver |-> ver] \in asked, live[tx] = 0,
         NEW e, Behind(e), disk' = Recorded(e, [id |-> tx, phase |-> "publish"]),
         UNCHANGED <<volume, live, misread>>, asked' = asked
  PROVE  /\ (Has({"remove"})' => Has({"remove"})) /\ disk' \in Disk /\ DiskInv' /\ CountsStay
         /\ phase' = "publish" /\ tx' = tx /\ disk'.journal = [id |-> tx, phase |-> "publish"] /\ disk'.staging = disk.staging
<1>1. disk \in Disk /\ Past /\ Young /\ Shape /\ Lives /\ Caches /\ Owed
  BY DEF TypeOK, DiskInv
<1>2. tx \in Apps
  BY Facts DEF Phases
<1>3. /\ disk'.dest = disk.dest /\ disk'.staging = disk.staging
      /\ disk'.backup = disk.backup /\ disk'.removing = disk.removing
      /\ disk'.cache = disk.cache /\ disk'.journal = [id |-> tx, phase |-> "publish"] /\ disk'.earlier = e
  BY <1>1 DEF Disk, Recorded
<1>4. disk' \in Disk
  <2>1. [id |-> tx, phase |-> "publish"] \in Transaction
    BY <1>2, Facts DEF Transaction, Phases
  <2> QED
    BY <1>1, <1>3, <2>1, Facts DEF Disk, Recorded, Behind
<1>5. phase' = "publish" /\ tx' = tx
  BY <1>3 DEF phase, tx
<1>6. \A a \in Apps : disk'.dest[a] = disk.dest[a]
  BY <1>2, <1>3, Facts
<1>7. disk.staging # NoDir /\ Whole(disk.staging, tx)
  BY <1>1, <1>2, Facts, InstallerAssumption DEF InstallerAssumption, Shape, There, Whole, NoDir
<1>8. There' <=> There
  BY <1>1, <1>2, <1>3, <1>5, <1>6, <1>7 DEF There
<1>20. Past' /\ Young' /\ (Has({"remove"})' => Has({"remove"}) \/ phase' = "remove")
       /\ (Has({"publish", "commit"})' => Has({"publish", "commit"}) \/ phase' \in {"publish", "commit"})
  <2>1. [id |-> tx, phase |-> "publish"] \in [id : Apps, phase : Phases]
    BY <1>2 DEF Phases
  <2>2. Young'
    BY <1>1, <1>3, Earlier, Facts DEF Behind, Young, Past, Phases, phase
  <2> QED
    BY <1>1, <1>2, <1>3, <1>5, <2>1, <2>2, Facts, PastGoesOn DEF Removal, Phases
<1>9. Shape'
  BY <1>1, <1>2, <1>3, <1>5, <1>6, <1>7, <1>8 DEF Shape, Whole, Clean
<1>10. Lives'
  BY <1>20, Facts, <1>1, <1>2, <1>3, <1>5, <1>6, <1>7, <1>8 DEF Lives, Shape, Has, Past, Phases
<1>11. Caches'
  BY <1>1, <1>2, <1>3, <1>5, <1>6, <1>7, <1>8 DEF Caches, CacheIsOwn, Shape, There
<1>12. Owed'
  BY <1>1, <1>2, <1>3, <1>5, <1>6, <1>7, <1>8 DEF Owed, ToPublish, ToRemove, Later, Shape, There
<1>13. CountsStay
  BY <1>1, <1>2, <1>3, <1>5, <1>6, <1>7, <1>8 DEF CountsStay, Counts, Shape, There, Clean
<1> QED
  BY <1>20, <1>3, <1>4, <1>5, <1>7, <1>8, <1>9, <1>10, <1>11, <1>12, <1>13 DEF DiskInv

-----------------------------------------------------------------------------
\* The steps of a pass, the journal being taken for what it is.

\* The journal, by its phase and its application.
LEMMA JournalIs ==
  ASSUME disk' \in Disk
  PROVE  disk'.journal = [id |-> tx', phase |-> phase'] /\ disk'.journal \in Transaction
BY DEF Disk, Transaction, NoJournal, NoRecord, phase, tx

\* What leaves the volume and what runs from it alone keeps what holds of them.
LEMMA DiskStays ==
  ASSUME DiskInv, UNCHANGED <<disk, live, asked, volume, misread>>
  PROVE  /\ DiskInv' /\ CountsStay /\ phase' = phase /\ tx' = tx /\ (There' <=> There)
         /\ (ToPublish' <=> ToPublish) /\ (ToRemove' <=> ToRemove)
         /\ (Has({"remove"})' <=> Has({"remove"})) /\ (Has({"publish", "commit"})' <=> Has({"publish", "commit"}))
<1>1. phase' = phase /\ tx' = tx /\ (There' <=> There)
  BY DEF phase, tx, There
<1>2. /\ Past' /\ Young'
      /\ (Has({"remove"})' <=> Has({"remove"})) /\ (Has({"publish", "commit"})' <=> Has({"publish", "commit"}))
  BY <1>1 DEF DiskInv, Past, Young, Has
<1>3. Shape' /\ Lives' /\ Caches'
  BY <1>1, <1>2 DEF DiskInv, Shape, Clean, Lives, Caches, CacheIsOwn
<1>4. (ToPublish' <=> ToPublish) /\ (ToRemove' <=> ToRemove)
  BY <1>1 DEF ToPublish, ToRemove
<1>5. Owed'
  BY <1>1, <1>4 DEF DiskInv, Owed
<1>6. CountsStay
  BY <1>1 DEF CountsStay, Counts
<1> QED
  BY <1>1, <1>2, <1>3, <1>4, <1>5, <1>6 DEF DiskInv

InDoubt == inDoubt' = (inDoubt \/ WrittenInDoubt)
Quiet == CountsStay /\ UNCHANGED <<result, job, asked, misread>>
Honest == UNCHANGED <<suspect, misread>> /\ transaction' \in Transaction

\* Of an application that is not misread, a job stays asked for and its version counts.
Aside ==
  /\ asked' \subseteq asked /\ (job.id \notin misread /\ job \in asked => job \in asked')
  /\ job.id \notin misread => Counts(job.id)' = Counts(job.id)

\* A step of a pass that carries out no job but of an application that is misread.
LEMMA PassGoes ==
  ASSUME Strict, Thread, Honest, Aside, disk' \in Disk, DiskInv',
         ToPublish' => ToPublish, ToRemove' => ToRemove,
         Has({"remove"})' => Has({"remove"}) /\ tx' = tx,
         Works \/ Fails, pc \in Recovering, pc' \in Passing, pc' = "false" => hampered',
         InDoubt, At', FinalPass'
  PROVE  Strict'
<1>1. UNCHANGED <<live, ready, job, result, caller, ok, suspect, misread>>
  BY DEF Thread, Honest
<1>2. inDoubt' \in BOOLEAN /\ (~inDoubt' => ~inDoubt)
  <2>1. (inDoubt \/ WrittenInDoubt) \in BOOLEAN
    OBVIOUS
  <2> QED
    BY <2>1 DEF InDoubt
<1>3. TypeOK'
  <2>1. pc' \in Points
    BY DEF Points, Passing
  <2>2. asked' \subseteq asked /\ suspect' \in BOOLEAN /\ misread' \subseteq Apps
    BY <1>1 DEF Aside, Strict, TypeOK
  <2> QED
    BY <1>2, <2>1, <2>2, ThreadTypes DEF Strict, Honest
<1>4. LetGo' /\ Settled'
  BY PassGoesOn DEF Strict, PcInv
<1>5. Stuck'
  BY DEF Stuck
<1>6. pc' \notin {"idle", "wait", "finish", "migrate", "start", "saveRemove", "saveCopy", "copy", "copying",
                 "savePublish", "check"}
  BY DEF Passing, Recovering, Returned
<1>7. Known'
  BY <1>1, <1>2, <1>6 DEF Strict, PcInv, Known, Resting
<1>8. job.id \in Apps /\ pc \in Passing
  BY DEF Strict, TypeOK, Passing
<1>9. AskedFor'
  <2>1. ASSUME job.id \notin misread
        PROVE  /\ ok => job \notin asked'
               /\ caller = "first" => job \in asked' \/ (Counts(job.id)' = job.ver /\ ~ToPublish' /\ ~ToRemove')
    BY <1>8, <2>1 DEF Strict, PcInv, AskedFor, Aside
  <2> QED
    BY <1>1, <1>6, <1>8, <2>1 DEF AskedFor
<1> QED
  BY <1>1, <1>3, <1>4, <1>5, <1>7, <1>9 DEF Strict, PcInv

\* A step of a pass that carries nothing out.
LEMMA PassKeeps ==
  ASSUME Strict, Thread, Honest, asked' = asked, disk' \in Disk, DiskInv', CountsStay,
         ToPublish' => ToPublish, ToRemove' => ToRemove,
         Has({"remove"})' => Has({"remove"}), tx' = tx \/ ~Has({"remove"})',
         Works \/ Fails, pc \in Recovering, pc' \in Passing, pc' = "false" => hampered',
         InDoubt, At', FinalPass'
  PROVE  Strict' /\ Quiet
<1>1. UNCHANGED <<job, result, misread>> /\ job.id \in Apps
  BY DEF Thread, Honest, Strict, TypeOK
<1>2. Aside
  BY <1>1 DEF Aside, CountsStay
<1>3. Has({"remove"})' => Has({"remove"}) /\ tx' = tx
  OBVIOUS
<1> QED
  BY <1>1, <1>2, <1>3, PassGoes DEF Quiet

\* The pass gives up.
LEMMA GivesUp ==
  ASSUME Strict, Thread, Honest, UNCHANGED <<disk, asked>>, Works \/ Fails, pc \in Recovering, pc' = "false",
         hampered', InDoubt
  PROVE  Strict' /\ Quiet
<1>1. DiskInv' /\ CountsStay /\ phase' = phase /\ tx' = tx /\ (ToPublish' <=> ToPublish) /\ (ToRemove' <=> ToRemove)
      /\ (Has({"remove"})' <=> Has({"remove"}))
  BY DiskStays DEF Strict, Thread, Honest
<1>2. At' /\ FinalPass' /\ pc' \in Passing
  BY DEF At, FinalPass, Passing, Recovering, Returned
<1>3. disk' \in Disk
  BY DEF Strict, TypeOK
<1> QED
  BY <1>1, <1>2, <1>3, PassKeeps

\* What the thread has read or written last is the journal there is.
LEMMA AtHand ==
  ASSUME Strict, pc \in Recovering \ {"recover"}
  PROVE  /\ transaction = disk.journal /\ transaction.id = tx /\ transaction.phase = phase
         /\ Found = disk.dest[tx] /\ (Installed <=> There) /\ suspect = FALSE
         /\ transaction = [id |-> tx, phase |-> phase]
<1>1. transaction = disk.journal
  BY DEF Strict, PcInv, At
<1>2. disk.journal = [id |-> tx, phase |-> phase] /\ suspect = FALSE
  BY Facts DEF Strict, TypeOK
<1> QED
  BY <1>1, <1>2 DEF Found, Installed, There

\* Whatever is recorded and found, there is a way on.
LEMMA SomePlan ==
  ASSUME TypeOK, Shape
  PROVE  \E to \in Points : Plan(disk.journal, to)
<1>1. phase \in Phases \cup {"none", "torn"} /\ (phase = "none" => disk.journal = NoJournal)
      /\ (phase = "torn" => disk.journal = NoRecord) /\ disk.journal.phase = phase /\ disk.journal.id = tx
  BY Facts DEF phase, tx
<1>2. PICK to \in {"clearStaging", "verify", "saveCommit", "clearBackup", "discard", "saveRemoved", "clearRemoving"} :
        Plan(disk.journal, to)
  BY <1>1 DEF Plan, Shape, Clean, Phases, There
<1> QED
  BY <1>2 DEF Points, Recovering

\* recover_locked looks at the volume, and there is a plan unless it cannot read it.
LEMMA LookStep ==
  ASSUME Strict, ~suspect', Look, InDoubt
  PROVE  Strict' /\ Quiet
<1>1. pc = "recover" /\ UNCHANGED <<disk, asked, volume, live, job, caller>> /\ pc \in Recovering /\ pc' \in Passing
  BY DEF Look, Thread, NoChange, Recovering, Passing, Returned
<1>2. /\ Thread /\ (Works \/ Fails) /\ UNCHANGED <<suspect, misread>>
      /\ \/ PlanOf(disk.journal) /\ pc' \in Recovering \cup {"false"} /\ transaction' = disk.journal
         \/ pc' = "false" /\ Fails /\ transaction' = transaction
  BY DEF Look, Mistaken, readVars
<1>3. DiskInv' /\ CountsStay /\ phase' = phase /\ tx' = tx /\ (There' <=> There)
      /\ (ToPublish' <=> ToPublish) /\ (ToRemove' <=> ToRemove) /\ (Has({"remove"})' <=> Has({"remove"}))
  BY <1>1, <1>2, DiskStays DEF Strict
<1>4. Honest
  BY <1>2 DEF Honest, Strict, TypeOK, Disk
<1>5. \/ Plan(disk.journal, pc') /\ pc' \in Recovering /\ transaction' = disk.journal
      \/ pc' = "false" /\ hampered'
  <2>1. \E to \in Points : Plan(disk.journal, to)
    BY SomePlan DEF Strict, DiskInv
  <2>2. ~Plan(disk.journal, "false")
    BY DEF Plan
  <2> QED
    BY <1>2, <2>1, <2>2 DEF PlanOf, Fails
<1>6. CASE Plan(disk.journal, pc') /\ pc' \in Recovering /\ transaction' = disk.journal
  <2>0. disk.journal.phase = phase /\ disk.journal.id = tx
        /\ (disk.journal = NoJournal => phase = "none") /\ (disk.journal = NoRecord => phase = "torn")
    BY DEF phase, tx, NoJournal, NoRecord
  <2>1. At'
    BY <1>1, <1>3, <1>6, <2>0 DEF At, Plan, Strict, DiskInv, Shape, Clean, There
  <2>2. FinalPass'
    BY <1>1, <1>2, <1>3, <1>6 DEF Strict, PcInv, FinalPass, Recovering, Passing
  <2>3. pc' # "false"
    BY <1>6 DEF Recovering
  <2> QED
    BY <1>1, <1>2, <1>3, <1>4, <2>1, <2>2, <2>3, PassKeeps DEF Strict, TypeOK
<1>7. CASE pc' = "false" /\ hampered'
  BY <1>1, <1>2, <1>4, <1>7, GivesUp
<1> QED
  BY <1>5, <1>6, <1>7

\* The staged copy is verified, and what follows depends on where the old version is.
LEMMA VerifyStep ==
  ASSUME Strict, VerifyGood \/ VerifyBad, InDoubt
  PROVE  Strict' /\ Quiet
<1>1. /\ pc = "verify" /\ UNCHANGED <<disk, asked, volume, live, job, caller, transaction, suspect, misread>>
      /\ pc \in Recovering \ {"recover"} /\ Thread /\ (Works \/ Fails)
  BY DEF VerifyGood, VerifyBad, Thread, NoChange, Recovering, readVars
<1>2. phase = "publish" /\ disk.staging # NoDir /\ (disk.backup = NoDir \/ ~There) /\ (Installed <=> There)
      /\ transaction = disk.journal
  BY <1>1, AtHand DEF Strict, PcInv, At, DiskInv, Shape
<1>3. DiskInv' /\ CountsStay /\ phase' = phase /\ tx' = tx /\ (There' <=> There)
      /\ (ToPublish' <=> ToPublish) /\ (ToRemove' <=> ToRemove) /\ (Has({"remove"})' <=> Has({"remove"}))
  BY <1>1, DiskStays DEF Strict
<1>4. \/ pc' = "publish" /\ ~There
      \/ pc' = "keep" /\ There /\ disk.backup = NoDir
      \/ pc' = "saveUndo" /\ disk.backup = NoDir
      \/ pc' = "restore" /\ disk.backup # NoDir /\ ~There
  BY <1>2 DEF VerifyGood, VerifyBad
<1>5. At'
  BY <1>1, <1>2, <1>3, <1>4 DEF At
<1>6. FinalPass'
  BY <1>1, <1>3, <1>4 DEF Strict, PcInv, FinalPass, Recovering, Passing
<1>7. pc' \in Passing /\ pc' # "false"
  BY <1>4 DEF Passing, Recovering
<1>8. Honest
  BY <1>1 DEF Honest, Strict, TypeOK
<1> QED
  BY <1>1, <1>3, <1>5, <1>6, <1>7, <1>8, PassKeeps DEF Strict, TypeOK

\* A record goes behind what the journal holds, or is all it holds.
LEMMA RecordAfter ==
  ASSUME TypeOK, NEW record
  PROVE  \E e : Behind(e) /\ Appended(record) = Recorded(e, record)
<1>1. CASE volume = "flash" \/ disk.journal = NoJournal
  <2>1. Behind(<<>>)
    <3>1. <<>> \in Seq(Transaction)
      OBVIOUS
    <3> QED
      BY <3>1 DEF Behind
  <2> QED
    BY <1>1, <2>1 DEF Appended
<1>2. CASE ~(volume = "flash" \/ disk.journal = NoJournal)
  <2>1. Behind(Append(disk.earlier, disk.journal))
    <3>1. disk.earlier \in Seq(Transaction) /\ disk.journal \in Transaction
      BY Facts
    <3>2. Append(disk.earlier, disk.journal) \in Seq(Transaction)
      BY <3>1
    <3>3. \A n \in DOMAIN Append(disk.earlier, disk.journal) :
            \/ n \in DOMAIN disk.earlier /\ Append(disk.earlier, disk.journal)[n] = disk.earlier[n]
            \/ n = Len(disk.earlier) + 1 /\ Append(disk.earlier, disk.journal)[n] = disk.journal
      BY <3>1
    <3> QED
      BY <1>2, <3>2, <3>3 DEF Behind
  <2> QED
    BY <1>2, <2>1 DEF Appended
<1> QED
  BY <1>1, <1>2

\* A record is saved behind what the journal holds, all or some of it, or not.
LEMMA SaveRecords ==
  ASSUME TypeOK, ~suspect', NEW from, NEW to, NEW failed, NEW record, disk.journal # NoJournal,
         save_transaction(from, to, failed, record)
  PROVE  /\ UNCHANGED <<suspect, misread>> /\ transaction' = record
         /\ \/ /\ \E e : Behind(e) /\ disk' = Recorded(e, record)
               /\ (pc' = to /\ (Works \/ Fails)) \/ (pc' = failed /\ Fails)
            \/ pc' = failed /\ disk' = disk /\ Fails
<1>1. Saving = disk
  BY DEF Saving
<1>2. Behind(disk.earlier)
  BY Earlier DEF Behind
<1>3. \E e : Behind(e) /\ Appended(record) = Recorded(e, record)
  BY RecordAfter
<1>4. Written(Len(disk.earlier), record) = Recorded(disk.earlier, record)
  BY DEF Written
<1> QED
  BY <1>1, <1>2, <1>3, <1>4 DEF save_transaction, Goto, Mistaken, readVars

\* The old version is put back, or the pass gives up.
LEMMA RestoreStep ==
  ASSUME Strict, Restore, InDoubt
  PROVE  Strict' /\ Quiet
<1>1. pc = "restore" /\ pc \in Recovering \ {"recover"} /\ Thread /\ UNCHANGED <<asked, volume, live, job, caller>>
  BY DEF Restore, Atomically, Goto, Recovering, Thread
<1>2. TypeOK /\ DiskInv /\ Past /\ Shape /\ At /\ FinalPass /\ Owed
  BY DEF Strict, DiskInv, PcInv
<1>8. /\ transaction = disk.journal /\ transaction.id = tx /\ transaction.phase = phase
      /\ Found = disk.dest[tx] /\ (Installed <=> There) /\ suspect = FALSE /\ transaction = [id |-> tx, phase |-> phase]
  BY <1>1, AtHand
<1>3. phase = "publish" /\ disk.staging # NoDir /\ disk.backup # NoDir /\ ~There
  BY <1>1, <1>2, Facts DEF At, Shape, Phases, Clean
<1>4. \/ pc' = "saveUndo" /\ Works
         /\ disk' = [disk EXCEPT !.dest = [disk.dest EXCEPT ![tx] = disk.backup], !.backup = NoDir]
      \/ pc' = "false" /\ disk' = disk /\ Fails
  BY <1>1, <1>3, <1>8 DEF Restore, Atomically, Goto, Published
<1>9. UNCHANGED <<transaction, suspect, misread>>
  BY DEF Restore, readVars
<1>5. CASE pc' = "saveUndo" /\ Works
         /\ disk' = [disk EXCEPT !.dest = [disk.dest EXCEPT ![tx] = disk.backup], !.backup = NoDir]
  <2>1. (Has({"remove"})' => Has({"remove"})) /\ disk' \in Disk /\ DiskInv' /\ CountsStay /\ phase' = phase /\ tx' = tx
        /\ There' /\ disk'.staging = disk.staging /\ disk'.backup = NoDir
    BY <1>1, <1>2, <1>3, <1>5, <1>9, Restores
  <2>7. disk'.journal = [id |-> tx', phase |-> phase'] /\ disk'.journal \in Transaction
    BY <2>1, JournalIs
  <2>2. At'
    BY <1>1, <1>2, <1>3, <1>5, <1>8, <1>9, <2>1, <2>7 DEF At
  <2>3. FinalPass'
    BY <1>1, <1>2, <1>3, <1>5, <1>8, <1>9, <2>1, <2>7 DEF FinalPass, Recovering, Passing, Phases
  <2>4. pc' \in Passing /\ (pc' = "false" => hampered') /\ (Works \/ Fails)
    BY <1>1, <1>3, <1>5 DEF Passing, Recovering, Returned, Fails
  <2>5. (ToPublish' => ToPublish) /\ (ToRemove' => ToRemove)
    BY <1>3, <2>1 DEF ToPublish, ToRemove
  <2>6. Honest /\ (tx' = tx \/ ~Has({"remove"})')
    BY <1>2, <1>9, <2>1, <2>7 DEF Honest, TypeOK
  <2> QED
    BY <1>1, <2>1, <2>2, <2>3, <2>4, <2>5, <2>6, PassKeeps
<1>6. CASE pc' = "false" /\ disk' = disk /\ Fails
  <2>1. Honest
    BY <1>2, <1>9 DEF Honest, TypeOK
  <2> QED
    BY <1>1, <1>6, <2>1, GivesUp DEF Fails
<1> QED
  BY <1>4, <1>5, <1>6

\* The update is called off.
LEMMA SaveUndoStep ==
  ASSUME Strict, ~suspect', SaveUndo, InDoubt
  PROVE  Strict' /\ Quiet
<1>1. pc = "saveUndo" /\ pc \in Recovering \ {"recover"} /\ Thread /\ UNCHANGED <<asked, volume, live, job, caller>>
  BY DEF SaveUndo, save_transaction, Goto, Recovering, Thread
<1>2. TypeOK /\ DiskInv /\ Past /\ Shape /\ At /\ FinalPass /\ Owed
  BY DEF Strict, DiskInv, PcInv
<1>8. /\ transaction = disk.journal /\ transaction.id = tx /\ transaction.phase = phase
      /\ Found = disk.dest[tx] /\ (Installed <=> There) /\ suspect = FALSE /\ transaction = [id |-> tx, phase |-> phase]
  BY <1>1, AtHand
<1>3. phase = "publish" /\ disk.staging # NoDir /\ disk.backup = NoDir
  BY <1>1, <1>2, Facts DEF At, Shape, Phases, Clean
<1>10. disk.journal # NoJournal
  BY <1>3 DEF phase, NoJournal
<1>9. UNCHANGED <<suspect, misread>> /\ transaction' = [id |-> tx, phase |-> "copy"] /\ transaction' \in Transaction
  <2>1. save_transaction("saveUndo", "clearStaging", "false", [id |-> tx, phase |-> "copy"])
    BY <1>8 DEF SaveUndo
  <2>2. [id |-> tx, phase |-> "copy"] \in Transaction
    BY <1>2, <1>3, Facts DEF Transaction, Phases
  <2> QED
    BY <1>2, <1>10, <2>1, <2>2, SaveRecords
<1>4. \/ /\ \E e : Behind(e) /\ disk' = Recorded(e, [id |-> tx, phase |-> "copy"])
         /\ (pc' = "clearStaging" /\ (Works \/ Fails)) \/ (pc' = "false" /\ Fails)
      \/ pc' = "false" /\ disk' = disk /\ Fails
  <2>1. save_transaction("saveUndo", "clearStaging", "false", [id |-> tx, phase |-> "copy"])
    BY <1>8 DEF SaveUndo
  <2> QED
    BY <1>2, <1>10, <2>1, SaveRecords
<1>5. CASE /\ \E e : Behind(e) /\ disk' = Recorded(e, [id |-> tx, phase |-> "copy"])
           /\ (pc' = "clearStaging" /\ (Works \/ Fails)) \/ (pc' = "false" /\ Fails)
  <2>0. PICK e : Behind(e) /\ disk' = Recorded(e, [id |-> tx, phase |-> "copy"])
    BY <1>5
  <2>1. (Has({"remove"})' => Has({"remove"})) /\ disk' \in Disk /\ DiskInv' /\ CountsStay /\ phase' = "copy" /\ tx' = tx
        /\ ~ToPublish' /\ ~ToRemove'
    BY <1>1, <1>2, <1>3, <1>9, <2>0, Undoes
  <2>7. disk'.journal = [id |-> tx', phase |-> phase'] /\ disk'.journal \in Transaction
    BY <2>1, JournalIs
  <2>2. At'
    BY <1>1, <1>2, <1>3, <1>5, <1>8, <1>9, <1>10, <2>1, <2>7 DEF At
  <2>3. FinalPass'
    BY <1>1, <1>2, <1>3, <1>5, <1>8, <1>9, <1>10, <2>1, <2>7 DEF FinalPass, Recovering, Passing, Phases
  <2>4. pc' \in Passing /\ (pc' = "false" => hampered') /\ (Works \/ Fails)
    BY <1>1, <1>3, <1>5 DEF Passing, Recovering, Returned, Fails
  <2>5. (ToPublish' => ToPublish) /\ (ToRemove' => ToRemove)
    BY <1>3, <2>1 DEF ToPublish, ToRemove
  <2>6. Honest /\ (tx' = tx \/ ~Has({"remove"})')
    BY <1>2, <1>9, <2>1, <2>7 DEF Honest, TypeOK
  <2> QED
    BY <1>1, <2>1, <2>2, <2>3, <2>4, <2>5, <2>6, PassKeeps
<1>6. CASE pc' = "false" /\ disk' = disk /\ Fails
  <2>1. Honest
    BY <1>9 DEF Honest
  <2> QED
    BY <1>1, <1>6, <2>1, GivesUp DEF Fails
<1> QED
  BY <1>4, <1>5, <1>6

\* The old version is moved aside.
LEMMA KeepStep ==
  ASSUME Strict, Keep, InDoubt
  PROVE  Strict' /\ Quiet
<1>1. pc = "keep" /\ pc \in Recovering \ {"recover"} /\ Thread /\ UNCHANGED <<asked, volume, live, job, caller>>
  BY DEF Keep, Atomically, Goto, Recovering, Thread
<1>2. TypeOK /\ DiskInv /\ Past /\ Shape /\ At /\ FinalPass /\ Owed
  BY DEF Strict, DiskInv, PcInv
<1>8. /\ transaction = disk.journal /\ transaction.id = tx /\ transaction.phase = phase
      /\ Found = disk.dest[tx] /\ (Installed <=> There) /\ suspect = FALSE /\ transaction = [id |-> tx, phase |-> phase]
  BY <1>1, AtHand
<1>3. phase = "publish" /\ disk.staging # NoDir /\ disk.backup = NoDir /\ There
  BY <1>1, <1>2, Facts DEF At, Shape, Phases, Clean
<1>4. \/ pc' = "publish" /\ Works
         /\ disk' = [disk EXCEPT !.backup = disk.dest[tx], !.dest = [disk.dest EXCEPT ![tx] = NoDir]]
      \/ pc' = "false" /\ disk' = disk /\ Fails
  BY <1>1, <1>3, <1>8 DEF Keep, Atomically, Goto, Published
<1>9. UNCHANGED <<transaction, suspect, misread>>
  BY DEF Keep, readVars
<1>5. CASE pc' = "publish" /\ Works
         /\ disk' = [disk EXCEPT !.backup = disk.dest[tx], !.dest = [disk.dest EXCEPT ![tx] = NoDir]]
  <2>1. (Has({"remove"})' => Has({"remove"})) /\ disk' \in Disk /\ DiskInv' /\ CountsStay /\ phase' = phase /\ tx' = tx
        /\ ~There' /\ disk'.staging = disk.staging
    BY <1>1, <1>2, <1>3, <1>5, <1>9, KeepsOld
  <2>7. disk'.journal = [id |-> tx', phase |-> phase'] /\ disk'.journal \in Transaction
    BY <2>1, JournalIs
  <2>2. At'
    BY <1>1, <1>2, <1>3, <1>5, <1>8, <1>9, <2>1, <2>7 DEF At
  <2>3. FinalPass'
    BY <1>1, <1>2, <1>3, <1>5, <1>8, <1>9, <2>1, <2>7 DEF FinalPass, Recovering, Passing, Phases
  <2>4. pc' \in Passing /\ (pc' = "false" => hampered') /\ (Works \/ Fails)
    BY <1>1, <1>3, <1>5 DEF Passing, Recovering, Returned, Fails
  <2>5. (ToPublish' => ToPublish) /\ (ToRemove' => ToRemove)
    BY <1>3, <2>1 DEF ToPublish, ToRemove
  <2>6. Honest /\ (tx' = tx \/ ~Has({"remove"})')
    BY <1>2, <1>9, <2>1, <2>7 DEF Honest, TypeOK
  <2> QED
    BY <1>1, <2>1, <2>2, <2>3, <2>4, <2>5, <2>6, PassKeeps
<1>6. CASE pc' = "false" /\ disk' = disk /\ Fails
  <2>1. Honest
    BY <1>2, <1>9 DEF Honest, TypeOK
  <2> QED
    BY <1>1, <1>6, <2>1, GivesUp DEF Fails
<1> QED
  BY <1>4, <1>5, <1>6

\* The update is recorded as done.
LEMMA SaveCommitStep ==
  ASSUME Strict, ~suspect', SaveCommit, InDoubt
  PROVE  Strict' /\ Quiet
<1>1. pc = "saveCommit" /\ pc \in Recovering \ {"recover"} /\ Thread /\ UNCHANGED <<asked, volume, live, job, caller>>
  BY DEF SaveCommit, save_transaction, Goto, Recovering, Thread
<1>2. TypeOK /\ DiskInv /\ Past /\ Shape /\ At /\ FinalPass /\ Owed
  BY DEF Strict, DiskInv, PcInv
<1>8. /\ transaction = disk.journal /\ transaction.id = tx /\ transaction.phase = phase
      /\ Found = disk.dest[tx] /\ (Installed <=> There) /\ suspect = FALSE /\ transaction = [id |-> tx, phase |-> phase]
  BY <1>1, AtHand
<1>3. phase = "publish" /\ disk.staging = NoDir
  BY <1>1, <1>2, Facts DEF At, Shape, Phases, Clean
<1>10. disk.journal # NoJournal
  BY <1>3 DEF phase, NoJournal
<1>9. UNCHANGED <<suspect, misread>> /\ transaction' = [id |-> tx, phase |-> "commit"] /\ transaction' \in Transaction
  <2>1. save_transaction("saveCommit", "clearBackup", "false", [id |-> tx, phase |-> "commit"])
    BY <1>8 DEF SaveCommit
  <2>2. [id |-> tx, phase |-> "commit"] \in Transaction
    BY <1>2, <1>3, Facts DEF Transaction, Phases
  <2> QED
    BY <1>2, <1>10, <2>1, <2>2, SaveRecords
<1>4. \/ /\ \E e : Behind(e) /\ disk' = Recorded(e, [id |-> tx, phase |-> "commit"])
         /\ (pc' = "clearBackup" /\ (Works \/ Fails)) \/ (pc' = "false" /\ Fails)
      \/ pc' = "false" /\ disk' = disk /\ Fails
  <2>1. save_transaction("saveCommit", "clearBackup", "false", [id |-> tx, phase |-> "commit"])
    BY <1>8 DEF SaveCommit
  <2> QED
    BY <1>2, <1>10, <2>1, SaveRecords
<1>5. CASE /\ \E e : Behind(e) /\ disk' = Recorded(e, [id |-> tx, phase |-> "commit"])
           /\ (pc' = "clearBackup" /\ (Works \/ Fails)) \/ (pc' = "false" /\ Fails)
  <2>0. PICK e : Behind(e) /\ disk' = Recorded(e, [id |-> tx, phase |-> "commit"])
    BY <1>5
  <2>1. (Has({"remove"})' => Has({"remove"})) /\ disk' \in Disk /\ DiskInv' /\ CountsStay /\ phase' = "commit" /\ tx' = tx
        /\ ~ToPublish' /\ ~ToRemove'
    BY <1>1, <1>2, <1>3, <1>9, <2>0, Commits
  <2>7. disk'.journal = [id |-> tx', phase |-> phase'] /\ disk'.journal \in Transaction
    BY <2>1, JournalIs
  <2>2. At'
    BY <1>1, <1>2, <1>3, <1>5, <1>8, <1>9, <1>10, <2>1, <2>7 DEF At
  <2>3. FinalPass'
    BY <1>1, <1>2, <1>3, <1>5, <1>8, <1>9, <1>10, <2>1, <2>7 DEF FinalPass, Recovering, Passing, Phases
  <2>4. pc' \in Passing /\ (pc' = "false" => hampered') /\ (Works \/ Fails)
    BY <1>1, <1>3, <1>5 DEF Passing, Recovering, Returned, Fails
  <2>5. (ToPublish' => ToPublish) /\ (ToRemove' => ToRemove)
    BY <1>3, <2>1 DEF ToPublish, ToRemove
  <2>6. Honest /\ (tx' = tx \/ ~Has({"remove"})')
    BY <1>2, <1>9, <2>1, <2>7 DEF Honest, TypeOK
  <2> QED
    BY <1>1, <2>1, <2>2, <2>3, <2>4, <2>5, <2>6, PassKeeps
<1>6. CASE pc' = "false" /\ disk' = disk /\ Fails
  <2>1. Honest
    BY <1>9 DEF Honest
  <2> QED
    BY <1>1, <1>6, <2>1, GivesUp DEF Fails
<1> QED
  BY <1>4, <1>5, <1>6

\* What was copied goes.
LEMMA ClearStagingStep ==
  ASSUME Strict, ClearStaging, InDoubt
  PROVE  Strict' /\ Quiet
<1>1. pc = "clearStaging" /\ pc \in Recovering \ {"recover"} /\ Thread /\ UNCHANGED <<asked, volume, live, job, caller>>
  BY DEF ClearStaging, Clear, Goto, Recovering, Thread
<1>2. TypeOK /\ DiskInv /\ Past /\ Shape /\ At /\ FinalPass /\ Owed
  BY DEF Strict, DiskInv, PcInv
<1>8. /\ transaction = disk.journal /\ transaction.id = tx /\ transaction.phase = phase
      /\ Found = disk.dest[tx] /\ (Installed <=> There) /\ suspect = FALSE /\ transaction = [id |-> tx, phase |-> phase]
  BY <1>1, AtHand
<1>3. phase \in {"none", "torn", "copy"} /\ (phase # "copy" => disk.staging = NoDir)
  BY <1>1, <1>2, Facts DEF At, Shape, Phases, Clean
<1>10. /\ Tear(disk.staging) \in Dir /\ (disk.staging = NoDir => Tear(disk.staging) = NoDir)
       /\ NoDir \in Dir
  BY <1>2, Facts DEF Tear, Dir
<1>4. \/ pc' = (IF phase = "none" THEN "clearRemoving" ELSE "unlink") /\ disk' = [disk EXCEPT !.staging = NoDir] /\ Works
      \/ disk' = [disk EXCEPT !.staging = Tear(disk.staging)]
         /\ ((pc' = "clearStaging" /\ Works) \/ (pc' = "false" /\ Fails))
      \/ pc' = "false" /\ disk' = disk /\ Fails
  BY <1>1, <1>3, <1>8 DEF ClearStaging, Clear, Goto
<1>9. UNCHANGED <<transaction, suspect, misread>>
  BY DEF ClearStaging, Clear, readVars
<1>5. CASE pc' = (IF phase = "none" THEN "clearRemoving" ELSE "unlink") /\ disk' = [disk EXCEPT !.staging = NoDir] /\ Works
  <2>1. (Has({"remove"})' => Has({"remove"})) /\ disk' \in Disk /\ DiskInv' /\ CountsStay /\ phase' = phase /\ tx' = tx
        /\ disk'.staging = NoDir
    BY <1>1, <1>2, <1>3, <1>5, <1>9, <1>10, ClearsStaging
  <2>7. disk'.journal = [id |-> tx', phase |-> phase'] /\ disk'.journal \in Transaction
    BY <2>1, JournalIs
  <2>2. At'
    BY <1>1, <1>2, <1>3, <1>5, <1>8, <1>9, <2>1, <2>7 DEF At, NoJournal, phase
  <2>3. FinalPass'
    BY <1>1, <1>2, <1>3, <1>5, <1>8, <1>9, <2>1, <2>7 DEF FinalPass, Recovering, Passing, Phases
  <2>4. pc' \in Passing /\ (pc' = "false" => hampered') /\ (Works \/ Fails)
    BY <1>1, <1>3, <1>5 DEF Passing, Recovering, Returned, Fails
  <2>5. (ToPublish' => ToPublish) /\ (ToRemove' => ToRemove)
    BY <1>3, <2>1 DEF ToPublish, ToRemove
  <2>6. Honest /\ (tx' = tx \/ ~Has({"remove"})')
    BY <1>2, <1>9, <2>1, <2>7 DEF Honest, TypeOK
  <2> QED
    BY <1>1, <2>1, <2>2, <2>3, <2>4, <2>5, <2>6, PassKeeps
<1>6. CASE disk' = [disk EXCEPT !.staging = Tear(disk.staging)]
         /\ ((pc' = "clearStaging" /\ Works) \/ (pc' = "false" /\ Fails))
  <2>1. (Has({"remove"})' => Has({"remove"})) /\ disk' \in Disk /\ DiskInv' /\ CountsStay /\ phase' = phase /\ tx' = tx
    BY <1>1, <1>2, <1>3, <1>6, <1>9, <1>10, ClearsStaging
  <2>7. disk'.journal = [id |-> tx', phase |-> phase'] /\ disk'.journal \in Transaction
    BY <2>1, JournalIs
  <2>2. At'
    BY <1>1, <1>2, <1>3, <1>6, <1>8, <1>9, <2>1, <2>7 DEF At
  <2>3. FinalPass'
    BY <1>1, <1>2, <1>3, <1>6, <1>8, <1>9, <2>1, <2>7 DEF FinalPass, Recovering, Passing, Phases
  <2>4. pc' \in Passing /\ (pc' = "false" => hampered') /\ (Works \/ Fails)
    BY <1>1, <1>3, <1>6 DEF Passing, Recovering, Returned, Fails
  <2>5. (ToPublish' => ToPublish) /\ (ToRemove' => ToRemove)
    BY <1>3, <2>1 DEF ToPublish, ToRemove
  <2>6. Honest /\ (tx' = tx \/ ~Has({"remove"})')
    BY <1>2, <1>9, <2>1, <2>7 DEF Honest, TypeOK
  <2> QED
    BY <1>1, <2>1, <2>2, <2>3, <2>4, <2>5, <2>6, PassKeeps
<1>7. CASE pc' = "false" /\ disk' = disk /\ Fails
  <2>1. Honest
    BY <1>2, <1>9 DEF Honest, TypeOK
  <2> QED
    BY <1>1, <1>7, <2>1, GivesUp DEF Fails
<1> QED
  BY <1>4, <1>5, <1>6, <1>7

\* The old version goes.
LEMMA ClearBackupStep ==
  ASSUME Strict, ClearBackup, InDoubt
  PROVE  Strict' /\ Quiet
<1>1. pc = "clearBackup" /\ pc \in Recovering \ {"recover"} /\ Thread /\ UNCHANGED <<asked, volume, live, job, caller>>
  BY DEF ClearBackup, Clear, Goto, Recovering, Thread
<1>2. TypeOK /\ DiskInv /\ Past /\ Shape /\ At /\ FinalPass /\ Owed
  BY DEF Strict, DiskInv, PcInv
<1>8. /\ transaction = disk.journal /\ transaction.id = tx /\ transaction.phase = phase
      /\ Found = disk.dest[tx] /\ (Installed <=> There) /\ suspect = FALSE /\ transaction = [id |-> tx, phase |-> phase]
  BY <1>1, AtHand
<1>3. phase = "commit"
  BY <1>1, <1>2, Facts DEF At, Shape, Phases, Clean
<1>10. /\ Tear(disk.backup) \in Dir /\ (disk.backup = NoDir => Tear(disk.backup) = NoDir)
       /\ NoDir \in Dir
  BY <1>2, Facts DEF Tear, Dir
<1>4. \/ pc' = "clearCache" /\ disk' = [disk EXCEPT !.backup = NoDir] /\ Works
      \/ disk' = [disk EXCEPT !.backup = Tear(disk.backup)]
         /\ ((pc' = "clearBackup" /\ Works) \/ (pc' = "false" /\ Fails))
      \/ pc' = "false" /\ disk' = disk /\ Fails
  BY <1>1, <1>3, <1>8 DEF ClearBackup, Clear, Goto
<1>9. UNCHANGED <<transaction, suspect, misread>>
  BY DEF ClearBackup, Clear, readVars
<1>5. CASE pc' = "clearCache" /\ disk' = [disk EXCEPT !.backup = NoDir] /\ Works
  <2>1. (Has({"remove"})' => Has({"remove"})) /\ disk' \in Disk /\ DiskInv' /\ CountsStay /\ phase' = phase /\ tx' = tx
        /\ disk'.backup = NoDir
    BY <1>1, <1>2, <1>3, <1>5, <1>9, <1>10, ClearsBackup
  <2>7. disk'.journal = [id |-> tx', phase |-> phase'] /\ disk'.journal \in Transaction
    BY <2>1, JournalIs
  <2>2. At'
    BY <1>1, <1>2, <1>3, <1>5, <1>8, <1>9, <2>1, <2>7 DEF At, NoJournal, phase
  <2>3. FinalPass'
    BY <1>1, <1>2, <1>3, <1>5, <1>8, <1>9, <2>1, <2>7 DEF FinalPass, Recovering, Passing, Phases
  <2>4. pc' \in Passing /\ (pc' = "false" => hampered') /\ (Works \/ Fails)
    BY <1>1, <1>3, <1>5 DEF Passing, Recovering, Returned, Fails
  <2>5. (ToPublish' => ToPublish) /\ (ToRemove' => ToRemove)
    BY <1>3, <2>1 DEF ToPublish, ToRemove
  <2>6. Honest /\ (tx' = tx \/ ~Has({"remove"})')
    BY <1>2, <1>9, <2>1, <2>7 DEF Honest, TypeOK
  <2> QED
    BY <1>1, <2>1, <2>2, <2>3, <2>4, <2>5, <2>6, PassKeeps
<1>6. CASE disk' = [disk EXCEPT !.backup = Tear(disk.backup)]
         /\ ((pc' = "clearBackup" /\ Works) \/ (pc' = "false" /\ Fails))
  <2>1. (Has({"remove"})' => Has({"remove"})) /\ disk' \in Disk /\ DiskInv' /\ CountsStay /\ phase' = phase /\ tx' = tx
    BY <1>1, <1>2, <1>3, <1>6, <1>9, <1>10, ClearsBackup
  <2>7. disk'.journal = [id |-> tx', phase |-> phase'] /\ disk'.journal \in Transaction
    BY <2>1, JournalIs
  <2>2. At'
    BY <1>1, <1>2, <1>3, <1>6, <1>8, <1>9, <2>1, <2>7 DEF At
  <2>3. FinalPass'
    BY <1>1, <1>2, <1>3, <1>6, <1>8, <1>9, <2>1, <2>7 DEF FinalPass, Recovering, Passing, Phases
  <2>4. pc' \in Passing /\ (pc' = "false" => hampered') /\ (Works \/ Fails)
    BY <1>1, <1>3, <1>6 DEF Passing, Recovering, Returned, Fails
  <2>5. (ToPublish' => ToPublish) /\ (ToRemove' => ToRemove)
    BY <1>3, <2>1 DEF ToPublish, ToRemove
  <2>6. Honest /\ (tx' = tx \/ ~Has({"remove"})')
    BY <1>2, <1>9, <2>1, <2>7 DEF Honest, TypeOK
  <2> QED
    BY <1>1, <2>1, <2>2, <2>3, <2>4, <2>5, <2>6, PassKeeps
<1>7. CASE pc' = "false" /\ disk' = disk /\ Fails
  <2>1. Honest
    BY <1>2, <1>9 DEF Honest, TypeOK
  <2> QED
    BY <1>1, <1>7, <2>1, GivesUp DEF Fails
<1> QED
  BY <1>4, <1>5, <1>6, <1>7

\* The cache of the old version goes.
LEMMA ClearCacheStep ==
  ASSUME Strict, ClearCache, InDoubt
  PROVE  Strict' /\ Quiet
<1>1. pc = "clearCache" /\ pc \in Recovering \ {"recover"} /\ Thread /\ UNCHANGED <<asked, volume, live, job, caller>>
  BY DEF ClearCache, Clear, Goto, Recovering, Thread
<1>2. TypeOK /\ DiskInv /\ Past /\ Shape /\ At /\ FinalPass /\ Owed
  BY DEF Strict, DiskInv, PcInv
<1>8. /\ transaction = disk.journal /\ transaction.id = tx /\ transaction.phase = phase
      /\ Found = disk.dest[tx] /\ (Installed <=> There) /\ suspect = FALSE /\ transaction = [id |-> tx, phase |-> phase]
  BY <1>1, AtHand
<1>3. \/ (phase = "commit" /\ disk.backup = NoDir)
      \/ (phase = "removed" /\ disk.removing = NoDir)
  BY <1>1, <1>2, Facts DEF At, Shape, Phases, Clean
<1>4. \/ pc' = "unlink" /\ Works
         /\ disk' = [disk EXCEPT !.cache[tx] = 0]
      \/ pc' = "false" /\ disk' = disk /\ Fails
  BY <1>1, <1>3, <1>8 DEF ClearCache, Clear, Goto
<1>9. UNCHANGED <<transaction, suspect, misread>>
  BY DEF ClearCache, Clear, readVars
<1>5. CASE pc' = "unlink" /\ Works
         /\ disk' = [disk EXCEPT !.cache[tx] = 0]
  <2>1. (Has({"remove"})' => Has({"remove"})) /\ disk' \in Disk /\ DiskInv' /\ CountsStay /\ phase' = phase /\ tx' = tx
        /\ disk'.cache[tx] = 0 /\ disk'.backup = disk.backup /\ disk'.removing = disk.removing
    BY <1>1, <1>2, <1>3, <1>5, <1>9, ClearsCache
  <2>7. disk'.journal = [id |-> tx', phase |-> phase'] /\ disk'.journal \in Transaction
    BY <2>1, JournalIs
  <2>2. At'
    BY <1>1, <1>2, <1>3, <1>5, <1>8, <1>9, <2>1, <2>7 DEF At
  <2>3. FinalPass'
    BY <1>1, <1>2, <1>3, <1>5, <1>8, <1>9, <2>1, <2>7 DEF FinalPass, Recovering, Passing, Phases
  <2>4. pc' \in Passing /\ (pc' = "false" => hampered') /\ (Works \/ Fails)
    BY <1>1, <1>3, <1>5 DEF Passing, Recovering, Returned, Fails
  <2>5. (ToPublish' => ToPublish) /\ (ToRemove' => ToRemove)
    BY <1>3, <2>1 DEF ToPublish, ToRemove
  <2>6. Honest /\ (tx' = tx \/ ~Has({"remove"})')
    BY <1>2, <1>9, <2>1, <2>7 DEF Honest, TypeOK
  <2> QED
    BY <1>1, <2>1, <2>2, <2>3, <2>4, <2>5, <2>6, PassKeeps
<1>6. CASE pc' = "false" /\ disk' = disk /\ Fails
  <2>1. Honest
    BY <1>2, <1>9 DEF Honest, TypeOK
  <2> QED
    BY <1>1, <1>6, <2>1, GivesUp DEF Fails
<1> QED
  BY <1>4, <1>5, <1>6

\* The removal is recorded as done.
LEMMA SaveRemovedStep ==
  ASSUME Strict, ~suspect', SaveRemoved, InDoubt
  PROVE  Strict' /\ Quiet
<1>1. pc = "saveRemoved" /\ pc \in Recovering \ {"recover"} /\ Thread /\ UNCHANGED <<asked, volume, live, job, caller>>
  BY DEF SaveRemoved, save_transaction, Goto, Recovering, Thread
<1>2. TypeOK /\ DiskInv /\ Past /\ Shape /\ At /\ FinalPass /\ Owed
  BY DEF Strict, DiskInv, PcInv
<1>8. /\ transaction = disk.journal /\ transaction.id = tx /\ transaction.phase = phase
      /\ Found = disk.dest[tx] /\ (Installed <=> There) /\ suspect = FALSE /\ transaction = [id |-> tx, phase |-> phase]
  BY <1>1, AtHand
<1>3. phase = "remove" /\ ~There
  BY <1>1, <1>2, Facts DEF At, Shape, Phases, Clean
<1>10. disk.journal # NoJournal
  BY <1>3 DEF phase, NoJournal
<1>9. UNCHANGED <<suspect, misread>> /\ transaction' = [id |-> tx, phase |-> "removed"] /\ transaction' \in Transaction
  <2>1. save_transaction("saveRemoved", "clearRemoving", "false", [id |-> tx, phase |-> "removed"])
    BY <1>8 DEF SaveRemoved
  <2>2. [id |-> tx, phase |-> "removed"] \in Transaction
    BY <1>2, <1>3, Facts DEF Transaction, Phases
  <2> QED
    BY <1>2, <1>10, <2>1, <2>2, SaveRecords
<1>4. \/ /\ \E e : Behind(e) /\ disk' = Recorded(e, [id |-> tx, phase |-> "removed"])
         /\ (pc' = "clearRemoving" /\ (Works \/ Fails)) \/ (pc' = "false" /\ Fails)
      \/ pc' = "false" /\ disk' = disk /\ Fails
  <2>1. save_transaction("saveRemoved", "clearRemoving", "false", [id |-> tx, phase |-> "removed"])
    BY <1>8 DEF SaveRemoved
  <2> QED
    BY <1>2, <1>10, <2>1, SaveRecords
<1>5. CASE /\ \E e : Behind(e) /\ disk' = Recorded(e, [id |-> tx, phase |-> "removed"])
           /\ (pc' = "clearRemoving" /\ (Works \/ Fails)) \/ (pc' = "false" /\ Fails)
  <2>0. PICK e : Behind(e) /\ disk' = Recorded(e, [id |-> tx, phase |-> "removed"])
    BY <1>5
  <2>1. (Has({"remove"})' => Has({"remove"})) /\ disk' \in Disk /\ DiskInv' /\ CountsStay /\ phase' = "removed" /\ tx' = tx
        /\ ~ToPublish' /\ ~ToRemove'
    BY <1>1, <1>2, <1>3, <1>9, <2>0, RecordsRemoval
  <2>7. disk'.journal = [id |-> tx', phase |-> phase'] /\ disk'.journal \in Transaction
    BY <2>1, JournalIs
  <2>2. At'
    BY <1>1, <1>2, <1>3, <1>5, <1>8, <1>9, <1>10, <2>1, <2>7 DEF At
  <2>3. FinalPass'
    BY <1>1, <1>2, <1>3, <1>5, <1>8, <1>9, <1>10, <2>1, <2>7 DEF FinalPass, Recovering, Passing, Phases
  <2>4. pc' \in Passing /\ (pc' = "false" => hampered') /\ (Works \/ Fails)
    BY <1>1, <1>3, <1>5 DEF Passing, Recovering, Returned, Fails
  <2>5. (ToPublish' => ToPublish) /\ (ToRemove' => ToRemove)
    BY <1>3, <2>1 DEF ToPublish, ToRemove
  <2>6. Honest /\ (tx' = tx \/ ~Has({"remove"})')
    BY <1>2, <1>9, <2>1, <2>7 DEF Honest, TypeOK
  <2> QED
    BY <1>1, <2>1, <2>2, <2>3, <2>4, <2>5, <2>6, PassKeeps
<1>6. CASE pc' = "false" /\ disk' = disk /\ Fails
  <2>1. Honest
    BY <1>9 DEF Honest
  <2> QED
    BY <1>1, <1>6, <2>1, GivesUp DEF Fails
<1> QED
  BY <1>4, <1>5, <1>6

\* What was removed goes.
LEMMA ClearRemovingStep ==
  ASSUME Strict, ClearRemoving, InDoubt
  PROVE  Strict' /\ Quiet
<1>1. pc = "clearRemoving" /\ pc \in Recovering \ {"recover"} /\ Thread /\ UNCHANGED <<asked, volume, live, job, caller>>
  BY DEF ClearRemoving, Clear, Goto, Recovering, Thread
<1>2. TypeOK /\ DiskInv /\ Past /\ Shape /\ At /\ FinalPass /\ Owed
  BY DEF Strict, DiskInv, PcInv
<1>8. /\ transaction = disk.journal /\ transaction.id = tx /\ transaction.phase = phase
      /\ Found = disk.dest[tx] /\ (Installed <=> There) /\ suspect = FALSE /\ transaction = [id |-> tx, phase |-> phase]
  BY <1>1, AtHand
<1>3. phase \in {"none", "removed"} /\ (phase = "none" => disk.removing = NoDir /\ disk.journal = NoJournal)
  BY <1>1, <1>2, Facts DEF At, Shape, Phases, Clean
<1>10. /\ Tear(disk.removing) \in Dir /\ (disk.removing = NoDir => Tear(disk.removing) = NoDir)
       /\ NoDir \in Dir
  BY <1>2, Facts DEF Tear, Dir
<1>4. \/ pc' = (IF phase = "none" THEN "true" ELSE "clearCache") /\ disk' = [disk EXCEPT !.removing = NoDir] /\ Works
      \/ disk' = [disk EXCEPT !.removing = Tear(disk.removing)]
         /\ ((pc' = "clearRemoving" /\ Works) \/ (pc' = "false" /\ Fails))
      \/ pc' = "false" /\ disk' = disk /\ Fails
  BY <1>1, <1>3, <1>8 DEF ClearRemoving, Clear, Goto
<1>9. UNCHANGED <<transaction, suspect, misread>>
  BY DEF ClearRemoving, Clear, readVars
<1>5. CASE pc' = (IF phase = "none" THEN "true" ELSE "clearCache") /\ disk' = [disk EXCEPT !.removing = NoDir] /\ Works
  <2>1. (Has({"remove"})' => Has({"remove"})) /\ disk' \in Disk /\ DiskInv' /\ CountsStay /\ phase' = phase /\ tx' = tx
        /\ disk'.removing = NoDir /\ disk'.journal = disk.journal
    BY <1>1, <1>2, <1>3, <1>5, <1>9, <1>10, ClearsRemoving
  <2>7. disk'.journal = [id |-> tx', phase |-> phase'] /\ disk'.journal \in Transaction
    BY <2>1, JournalIs
  <2>2. At'
    BY <1>1, <1>2, <1>3, <1>5, <1>8, <1>9, <2>1, <2>7 DEF At, NoJournal, phase
  <2>3. FinalPass'
    BY <1>1, <1>2, <1>3, <1>5, <1>8, <1>9, <2>1, <2>7 DEF FinalPass, Recovering, Passing, Phases
  <2>4. pc' \in Passing /\ (pc' = "false" => hampered') /\ (Works \/ Fails)
    BY <1>1, <1>3, <1>5 DEF Passing, Recovering, Returned, Fails
  <2>5. (ToPublish' => ToPublish) /\ (ToRemove' => ToRemove)
    BY <1>3, <2>1 DEF ToPublish, ToRemove
  <2>6. Honest /\ (tx' = tx \/ ~Has({"remove"})')
    BY <1>2, <1>9, <2>1, <2>7 DEF Honest, TypeOK
  <2> QED
    BY <1>1, <2>1, <2>2, <2>3, <2>4, <2>5, <2>6, PassKeeps
<1>6. CASE disk' = [disk EXCEPT !.removing = Tear(disk.removing)]
         /\ ((pc' = "clearRemoving" /\ Works) \/ (pc' = "false" /\ Fails))
  <2>1. (Has({"remove"})' => Has({"remove"})) /\ disk' \in Disk /\ DiskInv' /\ CountsStay /\ phase' = phase /\ tx' = tx
    BY <1>1, <1>2, <1>3, <1>6, <1>9, <1>10, ClearsRemoving
  <2>7. disk'.journal = [id |-> tx', phase |-> phase'] /\ disk'.journal \in Transaction
    BY <2>1, JournalIs
  <2>2. At'
    BY <1>1, <1>2, <1>3, <1>6, <1>8, <1>9, <2>1, <2>7 DEF At
  <2>3. FinalPass'
    BY <1>1, <1>2, <1>3, <1>6, <1>8, <1>9, <2>1, <2>7 DEF FinalPass, Recovering, Passing, Phases
  <2>4. pc' \in Passing /\ (pc' = "false" => hampered') /\ (Works \/ Fails)
    BY <1>1, <1>3, <1>6 DEF Passing, Recovering, Returned, Fails
  <2>5. (ToPublish' => ToPublish) /\ (ToRemove' => ToRemove)
    BY <1>3, <2>1 DEF ToPublish, ToRemove
  <2>6. Honest /\ (tx' = tx \/ ~Has({"remove"})')
    BY <1>2, <1>9, <2>1, <2>7 DEF Honest, TypeOK
  <2> QED
    BY <1>1, <2>1, <2>2, <2>3, <2>4, <2>5, <2>6, PassKeeps
<1>7. CASE pc' = "false" /\ disk' = disk /\ Fails
  <2>1. Honest
    BY <1>2, <1>9 DEF Honest, TypeOK
  <2> QED
    BY <1>1, <1>7, <2>1, GivesUp DEF Fails
<1> QED
  BY <1>4, <1>5, <1>6, <1>7

\* The journal goes.
LEMMA UnlinkStep ==
  ASSUME Strict, Unlink, InDoubt
  PROVE  Strict' /\ Quiet
<1>1. pc = "unlink" /\ pc \in Recovering \ {"recover"} /\ Thread /\ UNCHANGED <<asked, volume, live, job, caller>>
  BY DEF Unlink, Atomically, Goto, Recovering, Thread
<1>2. TypeOK /\ DiskInv /\ Past /\ Shape /\ At /\ FinalPass /\ Owed
  BY DEF Strict, DiskInv, PcInv
<1>8. /\ transaction = disk.journal /\ transaction.id = tx /\ transaction.phase = phase
      /\ Found = disk.dest[tx] /\ (Installed <=> There) /\ suspect = FALSE /\ transaction = [id |-> tx, phase |-> phase]
  BY <1>1, AtHand
<1>3. \/ (phase \in {"torn", "copy"} /\ disk.staging = NoDir)
      \/ (phase = "commit" /\ disk.backup = NoDir /\ disk.cache[tx] = 0)
      \/ (phase = "removed" /\ disk.removing = NoDir)
  BY <1>1, <1>2, Facts DEF At, Shape, Phases, Clean
<1>4. \/ pc' = (IF phase = "commit" THEN "published" ELSE "true") /\ disk' = Recorded(<<>>, NoJournal) /\ Works
      \/ pc' = "false" /\ disk' = disk /\ Fails
  BY <1>1, <1>3, <1>8 DEF Unlink, Atomically, Goto
<1>9. UNCHANGED <<transaction, suspect, misread>>
  BY <1>8 DEF Unlink
<1>5. CASE pc' = (IF phase = "commit" THEN "published" ELSE "true") /\ disk' = Recorded(<<>>, NoJournal) /\ Works
  <2>1. /\ ~Has({"remove"})' /\ disk' \in Disk /\ DiskInv' /\ CountsStay /\ phase' = "none" /\ disk'.journal = NoJournal
    BY <1>1, <1>2, <1>3, <1>5, <1>9, Unlinks
  <2>2. At'
    BY <1>1, <1>2, <1>3, <1>5, <2>1 DEF At, Recovering
  <2>3. FinalPass'
    <3>1. disk.journal # NoJournal
      BY <1>3 DEF phase, NoJournal
    <3>2. job \in [id : Apps, ver : 0 .. MaxVersion]
      BY <1>2 DEF TypeOK
    <3>3. phase = "removed" /\ tx = job.id /\ job.ver = 0 /\ tx \notin misread => job \notin asked
      BY <1>2, <3>2 DEF Owed
    <3> QED
      BY <1>1, <1>2, <1>3, <1>5, <1>8, <1>9, <2>1, <3>1, <3>3 DEF FinalPass, Recovering, Passing, Phases
  <2>4. pc' \in Passing /\ (pc' = "false" => hampered') /\ (Works \/ Fails)
    BY <1>1, <1>3, <1>5 DEF Passing, Recovering, Returned, Fails
  <2>5. (ToPublish' => ToPublish) /\ (ToRemove' => ToRemove)
    BY <1>3, <2>1 DEF ToPublish, ToRemove
  <2>6. Honest
    BY <1>2, <1>9 DEF Honest, TypeOK
  <2> QED
    BY <1>1, <2>1, <2>2, <2>3, <2>4, <2>5, <2>6, PassKeeps
<1>6. CASE pc' = "false" /\ disk' = disk /\ Fails
  <2>1. Honest
    BY <1>2, <1>9 DEF Honest, TypeOK
  <2> QED
    BY <1>1, <1>6, <2>1, GivesUp DEF Fails
<1> QED
  BY <1>4, <1>5, <1>6

\* A step that carries a job out.
CarriesOut(j) ==
  /\ j \in asked /\ asked' = asked \ {j}
  /\ IF j.ver = 0 THEN Counts(j.id) # 0 ELSE Store!Later(j.ver, Counts(j.id))
  /\ \A a \in Apps : Counts(a)' = IF a = j.id THEN j.ver ELSE Counts(a)
  /\ UNCHANGED <<result, job, misread>>

\* A step that touches an application whose journal was mistaken, and no other.
Strays(id) ==
  /\ misread' = misread \cup {id}
  /\ Counts(id)' \in 0 .. MaxVersion
  /\ \A a \in Apps : a # id => Counts(a)' = Counts(a)
  /\ asked' \subseteq asked /\ \A j \in asked \ asked' : j.id = id
  /\ UNCHANGED <<result, job>>

\* A step of a pass that carries out the job it is there for keeps the invariant.
LEMMA PassCarries ==
  ASSUME Strict, Thread, Honest, NEW j \in [id : Apps, ver : 0 .. MaxVersion], CarriesOut(j), disk' \in Disk, DiskInv',
         ToPublish \/ ToRemove, ~ToPublish', ~ToRemove',
         Has({"remove"})' => Has({"remove"}) /\ tx' = tx,
         Works, pc \in Recovering, pc' \in Recovering, InDoubt, At', FinalPass'
  PROVE  Strict'
<1>1. UNCHANGED <<live, ready, job, result, caller, ok, suspect, misread>>
  BY DEF Thread, Honest
<1>2. inDoubt' \in BOOLEAN /\ (~inDoubt' => ~inDoubt)
  <2>1. (inDoubt \/ WrittenInDoubt) \in BOOLEAN
    OBVIOUS
  <2> QED
    BY <2>1 DEF InDoubt
<1>3. asked' = asked \ {j} /\ asked' \subseteq asked
  BY DEF CarriesOut
<1>4. pc' \in Passing /\ pc \in Passing
  BY DEF Passing
<1>5. TypeOK'
  <2>1. pc' \in Points
    BY DEF Points
  <2>2. suspect' \in BOOLEAN /\ misread' \subseteq Apps
    BY <1>1 DEF Strict, TypeOK
  <2> QED
    BY <1>2, <1>3, <2>1, <2>2, ThreadTypes DEF Strict, Honest
<1>6. LetGo' /\ Settled'
  BY <1>4, PassGoesOn DEF Strict, PcInv
<1>7. pc' \notin Resting /\ pc' # "false"
  BY DEF Recovering, Resting
<1>8. Stuck'
  BY <1>7 DEF Stuck
<1>9. Known'
  BY <1>1, <1>2, <1>7 DEF Strict, PcInv, Known
<1>10. AskedFor'
  <2>1. pc' \notin {"migrate", "wait", "start", "saveRemove", "saveCopy", "copy", "copying", "savePublish", "check"}
    BY DEF Recovering
  <2>2. job.id \notin misread /\ ok' => job' \notin asked'
    BY <1>1, <1>3 DEF Strict, PcInv, AskedFor
  <2>3. ASSUME job.id \notin misread, caller' = "first"
        PROVE  job' \in asked' \/ Counts(job.id)' = job.ver
    <3>1. job \in asked
      BY <1>1, <1>4, <2>3 DEF Strict, PcInv, AskedFor
    <3>2. j.id \in Apps
      OBVIOUS
    <3> QED
      BY <1>1, <1>3, <3>1, <3>2 DEF CarriesOut
  <2> QED
    BY <1>1, <2>1, <2>2, <2>3 DEF AskedFor
<1> QED
  BY <1>1, <1>5, <1>6, <1>8, <1>9, <1>10 DEF Strict, PcInv

\* The new version is put in its place.
LEMMA PublishStep ==
  ASSUME Strict, Publish, InDoubt
  PROVE  /\ Strict'
         /\ \/ Quiet \/ \E id \in Apps : Strays(id)
            \/ \E j \in [id : Apps, ver : 0 .. MaxVersion] : CarriesOut(j)
<1>1. pc = "publish" /\ pc \in Recovering \ {"recover"} /\ Thread /\ UNCHANGED <<volume, live, job, caller, result>>
  BY DEF Publish, Atomically, Goto, Recovering, Thread
<1>2. TypeOK /\ DiskInv /\ Shape /\ At /\ FinalPass /\ Owed
  BY DEF Strict, DiskInv, PcInv
<1>8. /\ transaction = disk.journal /\ transaction.id = tx /\ transaction.phase = phase
      /\ Found = disk.dest[tx] /\ suspect = FALSE
  BY <1>1, AtHand
<1>3. phase = "publish" /\ disk.staging # NoDir /\ ~There
  BY <1>1, <1>2 DEF At, Shape
<1>9. UNCHANGED <<transaction, suspect, misread>>
  BY DEF Publish, readVars
<1>4. \/ /\ pc' = "saveCommit" /\ Works /\ asked' = asked \ {[id |-> tx, ver |-> disk.staging.ver]}
         /\ disk' = [disk EXCEPT !.dest = [disk.dest EXCEPT ![tx] = disk.staging], !.staging = NoDir]
      \/ pc' = "false" /\ disk' = disk /\ asked' = asked /\ Fails
  BY <1>1, <1>3, <1>8 DEF Publish, Atomically, Goto, CarriedOut, Published
<1>5. CASE /\ pc' = "saveCommit" /\ Works /\ asked' = asked \ {[id |-> tx, ver |-> disk.staging.ver]}
           /\ disk' = [disk EXCEPT !.dest = [disk.dest EXCEPT ![tx] = disk.staging], !.staging = NoDir]
  <2> DEFINE j == [id |-> tx, ver |-> disk.staging.ver]
  <2>1. /\ (Has({"remove"})' => Has({"remove"})) /\ disk' \in Disk /\ DiskInv' /\ phase' = phase /\ tx' = tx
        /\ disk'.staging = NoDir /\ There'
    BY <1>1, <1>2, <1>3, <1>5, <1>9, Publishes
  <2>7. disk'.journal = [id |-> tx', phase |-> phase'] /\ disk'.journal \in Transaction /\ disk'.journal = disk.journal
    BY <1>2, <2>1, JournalIs, Facts
  <2>2. At'
    BY <1>5, <1>8, <1>9, <2>1, <2>7, <1>3 DEF At
  <2>3. FinalPass'
    <3>1. disk.journal # NoJournal /\ job \in [id : Apps, ver : 0 .. MaxVersion]
      BY <1>2, <1>3 DEF phase, NoJournal, TypeOK
    <3>2. tx = job.id /\ disk.staging.ver = job.ver => job = j
      BY <3>1
    <3> QED
      BY <1>1, <1>2, <1>3, <1>5, <1>8, <1>9, <2>1, <3>1, <3>2 DEF FinalPass, Recovering, Passing, Phases
  <2>4. j \in [id : Apps, ver : 0 .. MaxVersion] /\ Whole(disk.staging, tx) /\ j.ver # 0 /\ tx \in Apps
        /\ j.ver \in 0 .. MaxVersion
    BY <1>2, <1>3, Facts, InstallerAssumption DEF Shape, Whole, Version, Phases, InstallerAssumption
  <2>5. tx \notin misread => j \in asked /\ Later(disk.staging.ver, disk.backup)
    BY <1>2, <1>3 DEF Owed, ToPublish
  <2>6. \A a \in Apps : disk'.dest[a] = IF a = tx THEN disk.staging ELSE disk.dest[a]
    BY <1>2, <1>5, <2>4, Facts DEF TypeOK, Disk
  <2>8. \A a \in Apps : Counts(a)' = IF a = tx THEN disk.staging.ver ELSE Counts(a)
    BY <1>3, <2>1, <2>6 DEF Counts, There
  <2>9. tx \notin misread => Store!Later(j.ver, Counts(tx))
    BY <1>2, <1>3, <2>4, <2>5 DEF Later, Store!Later, Counts, NoDir, There
  <2>10. tx \notin misread => CarriesOut(j)
    BY <1>1, <1>5, <1>9, <2>4, <2>5, <2>8, <2>9 DEF CarriesOut
  <2>20. Honest /\ pc' \in Recovering /\ ~ToPublish' /\ ~ToRemove' /\ (ToPublish)
    BY <1>2, <1>3, <1>5, <1>9, <2>1 DEF Honest, TypeOK, Recovering, ToPublish, ToRemove
  <2>21. CASE tx \notin misread
    BY <1>1, <1>3, <1>5, <2>1, <2>2, <2>3, <2>4, <2>7, <2>20, <2>21, <2>10, PassCarries
  <2>22. CASE tx \in misread
    <3>1. j.id = tx /\ asked' = asked \ {j} /\ tx \in Apps
      BY <1>5, <2>4
    <3>2. ASSUME NEW id \in Apps, id = tx
          PROVE  Strays(id)
      <4>1. misread' = misread \cup {id} /\ UNCHANGED <<result, job>>
        BY <1>1, <1>9, <2>22, <3>2
      <4>2. Counts(id)' = j.ver /\ j.ver \in 0 .. MaxVersion /\ \A a \in Apps : a # id => Counts(a)' = Counts(a)
        BY <2>4, <2>8, <3>1, <3>2
      <4> QED
        BY <3>1, <3>2, <4>1, <4>2 DEF Strays
    <3>3. Aside
      <4>1. job.id \in Apps
        BY <1>2 DEF TypeOK
      <4> QED
        BY <1>1, <2>8, <2>22, <3>1, <4>1 DEF Aside
    <3>4. pc' \in Passing /\ pc' # "false"
      BY <1>5 DEF Passing, Recovering
    <3> QED
      BY <1>1, <1>5, <2>1, <2>2, <2>3, <2>20, <3>1, <3>2, <3>3, <3>4, PassGoes
  <2> QED
    BY <2>21, <2>22
<1>6. CASE pc' = "false" /\ disk' = disk /\ asked' = asked /\ Fails
  <2>1. Honest
    BY <1>2, <1>9 DEF Honest, TypeOK
  <2> QED
    BY <1>1, <1>6, <2>1, GivesUp DEF Fails
<1> QED
  BY <1>4, <1>5, <1>6

\* The application to be removed is moved out of its place.
LEMMA DiscardStep ==
  ASSUME Strict, Discard, InDoubt
  PROVE  /\ Strict'
         /\ \/ Quiet \/ \E id \in Apps : Strays(id)
            \/ \E j \in [id : Apps, ver : 0 .. MaxVersion] : CarriesOut(j)
<1>1. pc = "discard" /\ pc \in Recovering \ {"recover"} /\ Thread /\ UNCHANGED <<volume, live, job, caller, result>>
  BY DEF Discard, Atomically, Goto, Recovering, Thread
<1>2. TypeOK /\ DiskInv /\ Shape /\ At /\ FinalPass /\ Owed
  BY DEF Strict, DiskInv, PcInv
<1>8. /\ transaction = disk.journal /\ transaction.id = tx /\ transaction.phase = phase
      /\ Found = disk.dest[tx] /\ suspect = FALSE
  BY <1>1, AtHand
<1>3. phase = "remove" /\ There /\ disk.backup = NoDir
  BY <1>1, <1>2 DEF At, Shape
<1>9. UNCHANGED <<transaction, suspect, misread>>
  BY DEF Discard, readVars
<1>4. \/ /\ pc' = "saveRemoved" /\ Works /\ asked' = asked \ {[id |-> tx, ver |-> 0]}
         /\ disk' = [disk EXCEPT !.removing = disk.dest[tx], !.dest = [disk.dest EXCEPT ![tx] = NoDir]]
      \/ pc' = "false" /\ disk' = disk /\ asked' = asked /\ Fails
  BY <1>1, <1>3, <1>8 DEF Discard, Atomically, Goto, CarriedOut, Published
<1>5. CASE /\ pc' = "saveRemoved" /\ Works /\ asked' = asked \ {[id |-> tx, ver |-> 0]}
           /\ disk' = [disk EXCEPT !.removing = disk.dest[tx], !.dest = [disk.dest EXCEPT ![tx] = NoDir]]
  <2> DEFINE j == [id |-> tx, ver |-> 0]
  <2>1. /\ (Has({"remove"})' => Has({"remove"})) /\ disk' \in Disk /\ DiskInv' /\ phase' = phase /\ tx' = tx
        /\ ~There'
    BY <1>1, <1>2, <1>3, <1>5, <1>9, Discards
  <2>7. disk'.journal = [id |-> tx', phase |-> phase'] /\ disk'.journal \in Transaction /\ disk'.journal = disk.journal
    BY <1>2, <2>1, JournalIs, Facts
  <2>2. At'
    BY <1>5, <1>8, <1>9, <2>1, <2>7, <1>3 DEF At
  <2>3. FinalPass'
    BY <1>1, <1>2, <1>3, <1>5, <1>8, <1>9, <2>1 DEF FinalPass, Recovering, Passing, Phases, phase, NoJournal
  <2>4. j \in [id : Apps, ver : 0 .. MaxVersion] /\ disk.dest[tx].ver # 0 /\ tx \in Apps /\ 0 \in 0 .. MaxVersion
    BY <1>2, <1>3, Facts, InstallerAssumption
       DEF Shape, There, Whole, Version, Phases, InstallerAssumption
  <2>5. tx \notin misread => j \in asked
    BY <1>2, <1>3 DEF Owed, ToRemove
  <2>6. /\ \A a \in Apps : disk'.dest[a] = IF a = tx THEN NoDir ELSE disk.dest[a]
        /\ disk'.backup = NoDir
    BY <1>2, <1>3, <1>5, <2>4, Facts DEF TypeOK, Disk
  <2>8. \A a \in Apps : Counts(a)' = IF a = tx THEN 0 ELSE Counts(a)
    BY <1>3, <2>1, <2>6 DEF Counts, NoDir
  <2>10. tx \notin misread => CarriesOut(j)
    BY <1>1, <1>3, <1>5, <1>9, <2>4, <2>5, <2>8 DEF CarriesOut, Counts, There
  <2>20. Honest /\ pc' \in Recovering /\ ~ToPublish' /\ ~ToRemove' /\ (ToRemove)
    BY <1>2, <1>3, <1>5, <1>9, <2>1 DEF Honest, TypeOK, Recovering, ToPublish, ToRemove
  <2>21. CASE tx \notin misread
    BY <1>1, <1>3, <1>5, <2>1, <2>2, <2>3, <2>4, <2>7, <2>20, <2>21, <2>10, PassCarries
  <2>22. CASE tx \in misread
    <3>1. j.id = tx /\ asked' = asked \ {j} /\ tx \in Apps
      BY <1>5, <2>4
    <3>2. ASSUME NEW id \in Apps, id = tx
          PROVE  Strays(id)
      <4>1. misread' = misread \cup {id} /\ UNCHANGED <<result, job>>
        BY <1>1, <1>9, <2>22, <3>2
      <4>2. Counts(id)' = j.ver /\ j.ver \in 0 .. MaxVersion /\ \A a \in Apps : a # id => Counts(a)' = Counts(a)
        BY <2>4, <2>8, <3>1, <3>2
      <4> QED
        BY <3>1, <3>2, <4>1, <4>2 DEF Strays
    <3>3. Aside
      <4>1. job.id \in Apps
        BY <1>2 DEF TypeOK
      <4> QED
        BY <1>1, <2>8, <2>22, <3>1, <4>1 DEF Aside
    <3>4. pc' \in Passing /\ pc' # "false"
      BY <1>5 DEF Passing, Recovering
    <3> QED
      BY <1>1, <1>5, <2>1, <2>2, <2>3, <2>20, <3>1, <3>2, <3>3, <3>4, PassGoes
  <2> QED
    BY <2>21, <2>22
<1>6. CASE pc' = "false" /\ disk' = disk /\ asked' = asked /\ Fails
  <2>1. Honest
    BY <1>2, <1>9 DEF Honest, TypeOK
  <2> QED
    BY <1>1, <1>6, <2>1, GivesUp DEF Fails
<1> QED
  BY <1>4, <1>5, <1>6

\* The whole of a pass.
LEMMA RecoverStep ==
  ASSUME Strict, ~suspect', recover_locked, InDoubt
  PROVE  /\ Strict'
         /\ \/ Quiet \/ \E id \in Apps : Strays(id)
            \/ \E j \in [id : Apps, ver : 0 .. MaxVersion] : CarriesOut(j)
BY LookStep, VerifyStep, RestoreStep, SaveUndoStep, ClearStagingStep, KeepStep, PublishStep, SaveCommitStep,
   ClearBackupStep, ClearCacheStep, DiscardStep, SaveRemovedStep, ClearRemovingStep, UnlinkStep
   DEF recover_locked

-----------------------------------------------------------------------------
\* The operations of a job on the volume.

\* A step of the thread between passes: what it leaves alone.
LEMMA WorkTypes ==
  ASSUME Strict, Thread, Honest, asked' = asked, Works \/ Fails, disk' \in Disk, pc' \in Points, InDoubt
  PROVE  TypeOK' /\ (~inDoubt' => ~inDoubt) /\ job' \in [id : Apps, ver : 0 .. MaxVersion]
<1>1. inDoubt' \in BOOLEAN /\ (~inDoubt' => ~inDoubt)
  <2>1. (inDoubt \/ WrittenInDoubt) \in BOOLEAN
    OBVIOUS
  <2> QED
    BY <2>1 DEF InDoubt
<1>2. TypeOK'
  <2>1. suspect' \in BOOLEAN /\ misread' \subseteq Apps
    BY DEF Honest, Strict, TypeOK
  <2> QED
    BY <1>1, <2>1, ThreadTypes DEF Strict, Honest
<1> QED
  BY <1>1, <1>2 DEF TypeOK

\* The thread goes on when the UI has let go of the application or given up.
LEMMA PreparedStep ==
  ASSUME Strict, Prepared, InDoubt
  PROVE  Strict' /\ Quiet
<1>1. /\ pc = "wait" /\ ~needs_prepare /\ pc' = (IF prepare_ok THEN "start" ELSE "finish")
      /\ Thread /\ Works /\ UNCHANGED <<disk, asked, volume, live, job, caller, ready, ok, result, needs_prepare, prepare_ok>>
      /\ Honest /\ UNCHANGED <<suspect, misread>>
  BY DEF Prepared, Goto, Thread, NoChange, readVars, Honest, Strict, TypeOK
<1>2. TypeOK /\ At /\ Stuck /\ Settled /\ LetGo /\ Known /\ AskedFor /\ FinalPass
  BY DEF Strict, PcInv
<1>3. DiskInv' /\ CountsStay /\ phase' = phase /\ tx' = tx /\ disk' \in Disk
      /\ (Has({"remove"})' <=> Has({"remove"})) /\ (Has({"publish", "commit"})' <=> Has({"publish", "commit"}))
  BY <1>1, <1>2, DiskStays DEF Strict, TypeOK
<1>4. TypeOK' /\ (~inDoubt' => ~inDoubt)
  BY <1>1, <1>3, WorkTypes DEF Points
<1>5. At' /\ Stuck' /\ Settled'
  BY <1>1, <1>2, <1>3 DEF At, Recovering, Stuck, Settled, Resting, Clean
<1>6. LetGo'
  BY <1>1, <1>2 DEF LetGo, Running
<1>7. Known' /\ AskedFor' /\ FinalPass'
  BY <1>1, <1>2, <1>3, <1>4 DEF Known, AskedFor, FinalPass, Resting, Passing, Recovering, Returned
<1> QED
  BY <1>1, <1>3, <1>4, <1>5, <1>6, <1>7 DEF Strict, PcInv, Quiet

\* The package is compared with what is installed; a job that is over is not begun again.
LEMMA CheckStep ==
  ASSUME Strict, Check, InDoubt
  PROVE  Strict' /\ Quiet
<1>1. /\ pc = "check"
      /\ Thread /\ Works /\ UNCHANGED <<disk, asked, volume, live, job, caller, ready, ok, result, needs_prepare, prepare_ok>>
      /\ Honest /\ UNCHANGED <<suspect, misread>>
  BY DEF Check, Goto, Thread, NoChange, readVars, Honest, Strict, TypeOK
<1>2. TypeOK /\ Past /\ Shape /\ At /\ Stuck /\ Settled /\ LetGo /\ Known /\ AskedFor /\ FinalPass
  BY DEF Strict, PcInv, DiskInv
<1>3. DiskInv' /\ CountsStay /\ phase' = phase /\ tx' = tx /\ disk' \in Disk
      /\ (Has({"remove"})' <=> Has({"remove"})) /\ (Has({"publish", "commit"})' <=> Has({"publish", "commit"}))
  BY <1>1, <1>2, DiskStays DEF Strict, TypeOK
<1>4. \/ pc' = "saveRemove" /\ job.ver = 0 /\ Whole(disk.dest[job.id], job.id)
      \/ pc' = "saveCopy" /\ job.ver # 0 /\ Later(job.ver, disk.dest[job.id])
      \/ pc' = "finish"
  BY DEF Check, Goto, Old
<1>5. TypeOK' /\ (~inDoubt' => ~inDoubt)
  BY <1>1, <1>3, <1>4, WorkTypes DEF Points
<1>6. phase = "none" /\ Clean /\ ~Has({"remove"}) /\ ~Has({"publish", "commit"})
  BY <1>1, <1>2 DEF At, Shape, phase, NoJournal, Has, Past, Phases
<1>7. At' /\ Stuck' /\ Settled'
  BY <1>1, <1>2, <1>3, <1>4, <1>6 DEF At, Recovering, Stuck, Settled, Resting, Clean
<1>8. LetGo'
  BY <1>1, <1>2, <1>4 DEF LetGo, Running
<1>9. Known' /\ FinalPass'
  BY <1>1, <1>2, <1>3, <1>4, <1>6 DEF Known, FinalPass, Passing, Recovering, Returned
<1>10. pc' # "finish" /\ job.id \notin misread => job \in asked
  <2>1. Counts(job.id) = disk.dest[job.id].ver
    BY <1>6 DEF Counts, Clean
  <2>2. CASE pc' = "saveRemove" /\ job.ver = 0 /\ Whole(disk.dest[job.id], job.id)
    BY <1>1, <1>2, <2>1, <2>2, InstallerAssumption DEF AskedFor, Whole, Version, InstallerAssumption
  <2>3. CASE pc' = "saveCopy" /\ job.ver # 0 /\ Later(job.ver, disk.dest[job.id])
    BY <1>1, <1>2, <2>1, <2>3 DEF AskedFor, Later, NoDir
  <2> QED
    BY <1>4, <2>2, <2>3
<1>11. AskedFor'
  BY <1>1, <1>2, <1>3, <1>4, <1>10 DEF AskedFor, Passing, Recovering, Returned
<1> QED
  BY <1>1, <1>3, <1>5, <1>7, <1>8, <1>9, <1>11 DEF Strict, PcInv, Quiet

\* How an attempt to save the first record of a transaction may turn out.
LEMMA SaveCases ==
  ASSUME NEW from, NEW to, NEW failed, NEW record, TypeOK, Past, phase \in {"none", "torn"},
         save_transaction(from, to, failed, record)
  PROVE  /\ pc = from /\ Thread /\ asked' = asked /\ UNCHANGED <<suspect, misread>>
         /\ \/ /\ \E e : Behind(e) /\ disk' = Recorded(e, record)
               /\ transaction' = record /\ ((pc' = to /\ Works) \/ (pc' = failed /\ Fails))
            \/ /\ disk' = Recorded(<<>>, NoRecord) /\ disk.journal = NoJournal /\ volume = "sd"
               /\ \/ pc' = from /\ Works /\ transaction' = transaction
                  \/ pc' = failed /\ Fails /\ transaction' = record
            \/ disk' = disk /\ pc' = failed /\ Fails /\ transaction' = record
<1>1. Short = {}
  BY Earlier DEF Past, Short, Phases
<1>2. Saving = disk \/ (Saving = Recorded(<<>>, NoRecord) /\ disk.journal = NoJournal /\ volume = "sd")
  BY DEF Saving
<1>3. pc = from /\ Thread /\ asked' = asked
  BY <1>1 DEF save_transaction, Goto
<1>4. \E e : Behind(e) /\ Appended(record) = Recorded(e, record)
  BY RecordAfter
<1>5. /\ UNCHANGED <<suspect, misread>>
      /\ \/ disk' = Appended(record) /\ pc' = to /\ Works /\ transaction' = record
         \/ disk' = Saving /\ disk # Saving /\ pc' = from /\ Works /\ transaction' = transaction
         \/ disk' \in {disk, Saving, Appended(record)} /\ pc' = failed /\ Fails /\ transaction' = record
  BY <1>1 DEF save_transaction, Goto, readVars
<1> QED
  BY <1>2, <1>3, <1>4, <1>5

\* A record changes the journal alone.
LEMMA RecordedAlone ==
  ASSUME TypeOK, NEW e, NEW record, disk' = Recorded(e, record)
  PROVE  /\ disk'.journal = record /\ phase' = record.phase /\ tx' = record.id
         /\ disk'.dest = disk.dest /\ disk'.staging = disk.staging /\ disk'.backup = disk.backup
         /\ disk'.removing = disk.removing
<1>1. disk \in Disk
  BY DEF TypeOK
<1> QED
  BY <1>1 DEF Recorded, Disk, phase, tx

\* The first record of a removal.
LEMMA SaveRemoveStep ==
  ASSUME Strict, SaveRemove, InDoubt
  PROVE  Strict' /\ Quiet
<1> DEFINE record == [id |-> job.id, phase |-> "remove"]
<1>1. TypeOK /\ DiskInv /\ Past /\ Shape /\ At /\ Stuck /\ Settled /\ LetGo /\ Known /\ AskedFor /\ FinalPass
  BY DEF Strict, PcInv, DiskInv
<1>2. /\ pc = "saveRemove" /\ Thread /\ asked' = asked /\ UNCHANGED <<suspect, misread>> /\ Honest
      /\ \/ (\E e : Behind(e) /\ disk' = Recorded(e, record)) /\ transaction' = record /\ pc' = "final" /\ Works
         \/ (\E e : Behind(e) /\ disk' = Recorded(e, record)) /\ transaction' = record /\ pc' = "finish" /\ Fails
         \/ /\ disk' = Recorded(<<>>, NoRecord) /\ disk.journal = NoJournal /\ volume = "sd"
            /\ \/ pc' = "saveRemove" /\ Works
               \/ pc' = "finish" /\ Fails
         \/ disk' = disk /\ pc' = "finish" /\ Fails
  <2>1. save_transaction("saveRemove", "final", "finish", record)
    BY DEF SaveRemove
  <2>2. pc = "saveRemove" /\ phase \in {"none", "torn"}
    BY <1>1, <2>1 DEF save_transaction, Goto, At
  <2>3. record \in Transaction /\ transaction \in Transaction
    BY <1>1 DEF TypeOK, Transaction, Phases
  <2> QED
    BY <1>1, <2>1, <2>2, <2>3, SaveCases DEF Honest
<1>3. UNCHANGED <<volume, live, job, caller, ready, ok, result, needs_prepare, prepare_ok>>
  BY <1>2 DEF Thread
<1>4. /\ phase \in {"none", "torn"} /\ job.ver = 0 /\ Whole(disk.dest[job.id], job.id) /\ (job.id \in misread \/ job \in asked)
      /\ job.id \in Apps /\ job \in [id : Apps, ver : 0 .. MaxVersion] /\ live[job.id] = 0 /\ Clean
  BY <1>1, <1>2 DEF At, AskedFor, TypeOK, LetGo, Running, Shape
<1>5. pc' \in {"final", "finish", "saveRemove"} /\ (Works \/ Fails)
  BY <1>2
<1>6. LetGo' /\ FinalPass' /\ Stuck'
  BY <1>1, <1>2, <1>3, <1>5 DEF LetGo, Running, FinalPass, Stuck, Passing, Recovering, Returned
<1>7. AskedFor'
  BY <1>1, <1>2, <1>3, <1>4, <1>5 DEF AskedFor, Passing, Recovering, Returned
<1>8. ASSUME disk' \in Disk
      PROVE  TypeOK' /\ (~inDoubt' => ~inDoubt)
  BY <1>2, <1>5, <1>8, WorkTypes DEF Points
<1>9. CASE (\E e : Behind(e) /\ disk' = Recorded(e, record)) /\ transaction' = record /\ pc' # "saveRemove"
  <2>0. PICK e : Behind(e) /\ disk' = Recorded(e, record)
    BY <1>9
  <2>1. disk' \in Disk /\ DiskInv' /\ CountsStay /\ ~Has({"publish", "commit"})'
    <3>1. job.id \in misread \/ [id |-> job.id, ver |-> 0] \in asked
      BY <1>4
    <3> QED
      BY <1>1, <1>2, <1>3, <1>4, <2>0, <3>1, RecordsRemove
  <2>2. /\ disk'.journal = record /\ phase' = "remove" /\ tx' = job.id
        /\ disk'.dest = disk.dest /\ Clean'
    BY <1>1, <1>4, <2>0, RecordedAlone DEF Clean
  <2>3. At' /\ Settled'
    BY <1>2, <1>3, <1>4, <1>5, <1>9, <2>1, <2>2 DEF At, Recovering, Settled
  <2>4. pc' = "finish" => inDoubt'
    <3>1. record.phase = "remove" /\ NoRecord.phase = "torn" /\ phase # "remove"
      BY <1>4 DEF NoRecord
    <3>2. disk'.journal # disk.journal /\ disk'.journal = transaction'
      BY <1>9, <2>2, <3>1 DEF phase
    <3> QED
      BY <3>2 DEF InDoubt, WrittenInDoubt
  <2>5. Known'
    BY <1>3, <1>4, <1>5, <2>2, <2>4 DEF Known, Resting
  <2> QED
    BY <1>3, <1>2, <1>6, <1>7, <1>8, <2>1, <2>3, <2>5 DEF Strict, PcInv, Quiet
<1>10. CASE disk' = Recorded(<<>>, NoRecord) /\ disk.journal = NoJournal /\ volume = "sd" /\ pc' # "final"
  <2>1. /\ disk' \in Disk /\ DiskInv' /\ CountsStay
        /\ ~Has({"remove"})' /\ ~Has({"publish", "commit"})'
    BY <1>1, <1>2, <1>3, <1>10, Opens
  <2>2. phase' = "torn" /\ disk'.dest = disk.dest /\ Clean'
    BY <1>1, <1>4, <1>10, RecordedAlone DEF Clean, NoRecord
  <2>3. At' /\ Settled' /\ Known'
    BY <1>1, <1>3, <1>4, <1>5, <1>10, <2>1, <2>2 DEF At, Recovering, Settled, Known
  <2> QED
    BY <1>3, <1>2, <1>6, <1>7, <1>8, <2>1, <2>3 DEF Strict, PcInv, Quiet
<1>11. CASE disk' = disk /\ pc' = "finish"
  <2>1. /\ DiskInv' /\ CountsStay /\ phase' = phase /\ tx' = tx /\ disk' \in Disk
        /\ (Has({"remove"})' <=> Has({"remove"})) /\ (Has({"publish", "commit"})' <=> Has({"publish", "commit"}))
        /\ ~Has({"remove"}) /\ ~Has({"publish", "commit"})
    BY <1>1, <1>2, <1>3, <1>4, <1>11, DiskStays DEF Strict, TypeOK, Has, Past, Phases
  <2>2. At' /\ Settled' /\ Known'
    BY <1>1, <1>3, <1>4, <1>5, <1>11, <2>1 DEF At, Recovering, Settled, Known, Clean
  <2> QED
    BY <1>3, <1>2, <1>6, <1>7, <1>8, <2>1, <2>2 DEF Strict, PcInv, Quiet
<1> QED
  BY <1>2, <1>9, <1>10, <1>11

\* The first record of an installation.
LEMMA SaveCopyStep ==
  ASSUME Strict, SaveCopy, InDoubt
  PROVE  Strict' /\ Quiet
<1> DEFINE record == [id |-> job.id, phase |-> "copy"]
<1>1. TypeOK /\ DiskInv /\ Past /\ Shape /\ At /\ Stuck /\ Settled /\ LetGo /\ Known /\ AskedFor /\ FinalPass
  BY DEF Strict, PcInv, DiskInv
<1>2. /\ pc = "saveCopy" /\ Thread /\ asked' = asked /\ UNCHANGED <<suspect, misread>> /\ Honest
      /\ \/ (\E e : Behind(e) /\ disk' = Recorded(e, record)) /\ transaction' = record /\ pc' = "copy" /\ Works
         \/ (\E e : Behind(e) /\ disk' = Recorded(e, record)) /\ transaction' = record /\ pc' = "finish" /\ Fails
         \/ /\ disk' = Recorded(<<>>, NoRecord) /\ disk.journal = NoJournal /\ volume = "sd"
            /\ \/ pc' = "saveCopy" /\ Works
               \/ pc' = "finish" /\ Fails
         \/ disk' = disk /\ pc' = "finish" /\ Fails
  <2>1. save_transaction("saveCopy", "copy", "finish", record)
    BY DEF SaveCopy
  <2>2. pc = "saveCopy" /\ phase \in {"none", "torn"}
    BY <1>1, <2>1 DEF save_transaction, Goto, At
  <2>3. record \in Transaction /\ transaction \in Transaction
    BY <1>1 DEF TypeOK, Transaction, Phases
  <2> QED
    BY <1>1, <2>1, <2>2, <2>3, SaveCases DEF Honest
<1>3. UNCHANGED <<volume, live, job, caller, ready, ok, result, needs_prepare, prepare_ok>>
  BY <1>2 DEF Thread
<1>4. /\ phase \in {"none", "torn"} /\ job.ver # 0 /\ Later(job.ver, disk.dest[job.id]) /\ (job.id \in misread \/ job \in asked)
      /\ job.id \in Apps /\ job \in [id : Apps, ver : 0 .. MaxVersion] /\ live[job.id] = 0 /\ Clean
  BY <1>1, <1>2 DEF At, AskedFor, TypeOK, LetGo, Running, Shape
<1>5. pc' \in {"copy", "finish", "saveCopy"} /\ (Works \/ Fails)
  BY <1>2
<1>6. LetGo' /\ FinalPass' /\ Stuck'
  BY <1>1, <1>2, <1>3, <1>5 DEF LetGo, Running, FinalPass, Stuck, Passing, Recovering, Returned
<1>7. AskedFor'
  BY <1>1, <1>2, <1>3, <1>4, <1>5 DEF AskedFor, Passing, Recovering, Returned
<1>8. ASSUME disk' \in Disk
      PROVE  TypeOK' /\ (~inDoubt' => ~inDoubt)
  BY <1>2, <1>5, <1>8, WorkTypes DEF Points
<1>9. CASE (\E e : Behind(e) /\ disk' = Recorded(e, record)) /\ transaction' = record /\ pc' # "saveCopy"
  <2>0. PICK e : Behind(e) /\ disk' = Recorded(e, record)
    BY <1>9
  <2>1. /\ disk' \in Disk /\ DiskInv' /\ CountsStay
        /\ ~Has({"remove"})' /\ ~Has({"publish", "commit"})'
    BY <1>1, <1>2, <1>3, <1>4, <2>0, RecordsCopy
  <2>2. /\ disk'.journal = record /\ phase' = "copy" /\ tx' = job.id
        /\ disk'.dest = disk.dest /\ Clean'
    BY <1>1, <1>4, <2>0, RecordedAlone DEF Clean
  <2>3. At' /\ Settled' /\ Known'
    BY <1>2, <1>3, <1>4, <1>5, <1>9, <2>1, <2>2 DEF At, Recovering, Settled, Clean, Later, Known
  <2> QED
    BY <1>3, <1>2, <1>6, <1>7, <1>8, <2>1, <2>3 DEF Strict, PcInv, Quiet
<1>10. CASE disk' = Recorded(<<>>, NoRecord) /\ disk.journal = NoJournal /\ volume = "sd" /\ pc' # "copy"
  <2>1. /\ disk' \in Disk /\ DiskInv' /\ CountsStay
        /\ ~Has({"remove"})' /\ ~Has({"publish", "commit"})'
    BY <1>1, <1>2, <1>3, <1>10, Opens
  <2>2. phase' = "torn" /\ disk'.dest = disk.dest /\ Clean'
    BY <1>1, <1>4, <1>10, RecordedAlone DEF Clean, NoRecord
  <2>3. At' /\ Settled' /\ Known'
    BY <1>1, <1>3, <1>4, <1>5, <1>10, <2>1, <2>2 DEF At, Recovering, Settled, Known, Later
  <2> QED
    BY <1>3, <1>2, <1>6, <1>7, <1>8, <2>1, <2>3 DEF Strict, PcInv, Quiet
<1>11. CASE disk' = disk /\ pc' = "finish"
  <2>1. /\ DiskInv' /\ CountsStay /\ phase' = phase /\ tx' = tx /\ disk' \in Disk
        /\ (Has({"remove"})' <=> Has({"remove"})) /\ (Has({"publish", "commit"})' <=> Has({"publish", "commit"}))
        /\ ~Has({"remove"}) /\ ~Has({"publish", "commit"})
    BY <1>1, <1>2, <1>3, <1>4, <1>11, DiskStays DEF Strict, TypeOK, Has, Past, Phases
  <2>2. At' /\ Settled' /\ Known'
    BY <1>1, <1>3, <1>4, <1>5, <1>11, <2>1 DEF At, Recovering, Settled, Known, Clean
  <2> QED
    BY <1>3, <1>2, <1>6, <1>7, <1>8, <2>1, <2>2 DEF Strict, PcInv, Quiet
<1> QED
  BY <1>2, <1>9, <1>10, <1>11

\* The package is copied, and verified before its copy counts.
LEMMA CopyStep ==
  ASSUME Strict, Copy \/ CopyVerified, InDoubt
  PROVE  Strict' /\ Quiet
<1>1. TypeOK /\ DiskInv /\ Shape /\ At /\ Stuck /\ Settled /\ LetGo /\ Known /\ AskedFor /\ FinalPass
  BY DEF Strict, PcInv, DiskInv
<1>2. pc \in {"copy", "copying"} /\ Thread /\ asked' = asked /\ UNCHANGED <<suspect, misread>> /\ Honest
  BY DEF Copy, CopyVerified, Goto, readVars, Honest, Strict, TypeOK
<1>3. UNCHANGED <<volume, live, job, caller, ready, ok, result, needs_prepare, prepare_ok>>
  BY <1>2 DEF Thread
<1>4. /\ disk.journal = [id |-> job.id, phase |-> "copy"] /\ job.ver # 0 /\ Later(job.ver, disk.dest[job.id])
      /\ (job.id \in misread \/ job \in asked) /\ job.id \in Apps /\ job \in [id : Apps, ver : 0 .. MaxVersion] /\ live[job.id] = 0
      /\ phase = "copy" /\ tx = job.id
  BY <1>1, <1>2 DEF At, AskedFor, TypeOK, LetGo, Running, phase, tx
<1>5. NoApp # job.id /\ [id |-> job.id, ver |-> Torn] \in Dir /\ job \in Dir
  BY <1>4, InstallerAssumption DEF Dir, Torn, Version, InstallerAssumption
<1>6. \/ pc' = "copying" /\ Works /\ disk' = [disk EXCEPT !.staging = [id |-> job.id, ver |-> Torn]]
      \/ pc' = "savePublish" /\ Works /\ disk' = [disk EXCEPT !.staging = job]
      \/ pc' = "reject" /\ disk' = disk /\ (Works \/ Fails)
  <2>1. CASE Copy
    BY <2>1 DEF Copy, Goto
  <2>2. CASE CopyVerified
    <3>1. disk.staging = [id |-> job.id, ver |-> Torn]
      BY <1>1, <2>2 DEF At, CopyVerified, Goto
    <3>2. [disk.staging EXCEPT !.ver = job.ver] = job
      BY <1>4, <3>1
    <3>3. [disk EXCEPT !.staging.ver = job.ver] = [disk EXCEPT !.staging = job]
      BY <1>1, <3>2 DEF TypeOK, Disk
    <3> QED
      BY <2>2, <3>3 DEF CopyVerified, Goto
  <2> QED
    BY <2>1, <2>2
<1>7. pc' \in {"copying", "savePublish", "reject"} /\ (Works \/ Fails)
  BY <1>6
<1>8. LetGo' /\ FinalPass' /\ Stuck'
  BY <1>1, <1>2, <1>3, <1>7 DEF LetGo, Running, FinalPass, Stuck, Passing, Recovering, Returned
<1>9. AskedFor'
  BY <1>1, <1>2, <1>3, <1>4, <1>7 DEF AskedFor, Passing, Recovering, Returned
<1>10. ASSUME disk' \in Disk
      PROVE  TypeOK' /\ (~inDoubt' => ~inDoubt)
  BY <1>2, <1>7, <1>10, WorkTypes DEF Points
<1>11. ASSUME NEW dir \in Dir, disk' = [disk EXCEPT !.staging = dir], dir = job \/ dir = [id |-> job.id, ver |-> Torn],
              pc' = (IF dir = job THEN "savePublish" ELSE "copying")
       PROVE  Strict' /\ Quiet
  <2>1. /\ disk' \in Disk /\ DiskInv' /\ CountsStay /\ disk'.staging = dir /\ disk'.dest = disk.dest
        /\ disk'.journal = disk.journal /\ phase' = phase /\ tx' = tx
        /\ (Has({"remove"})' => Has({"remove"}))
    BY <1>1, <1>2, <1>3, <1>4, <1>11, Stages
  <2>2. At'
    BY <1>3, <1>4, <1>11, <2>1 DEF At, Recovering, Later
  <2>3. Settled' /\ Known'
    BY <1>1, <1>2, <1>3, <1>4, <1>7, <1>10, <2>1 DEF Settled, Known, Resting
  <2> QED
    BY <1>3, <1>2, <1>8, <1>9, <1>10, <2>1, <2>2, <2>3 DEF Strict, PcInv, Quiet
<1>12. CASE pc' = "reject" /\ disk' = disk
  <2>1. /\ DiskInv' /\ CountsStay /\ phase' = phase /\ tx' = tx /\ disk' \in Disk
        /\ (Has({"remove"})' <=> Has({"remove"}))
    BY <1>1, <1>2, <1>3, <1>12, DiskStays DEF Strict, TypeOK
  <2>2. At' /\ Settled' /\ Known'
    BY <1>1, <1>2, <1>3, <1>4, <1>10, <1>12, <2>1 DEF At, Recovering, Settled, Known, Resting
  <2> QED
    BY <1>3, <1>2, <1>8, <1>9, <1>10, <2>1, <2>2 DEF Strict, PcInv, Quiet
<1>13. job # [id |-> job.id, ver |-> Torn]
  BY <1>4, InstallerAssumption DEF Torn, InstallerAssumption
<1> QED
  BY <1>5, <1>6, <1>11, <1>12, <1>13

\* The record that makes the copy the version to come.
LEMMA SavePublishStep ==
  ASSUME Strict, ~suspect', SavePublish, InDoubt
  PROVE  Strict' /\ Quiet
<1> DEFINE record == [id |-> job.id, phase |-> "publish"]
<1>1. TypeOK /\ DiskInv /\ Shape /\ At /\ Stuck /\ Settled /\ LetGo /\ Known /\ AskedFor /\ FinalPass
  BY DEF Strict, PcInv, DiskInv
<1>2. /\ pc = "savePublish" /\ Thread /\ asked' = asked /\ disk.journal = [id |-> job.id, phase |-> "copy"]
      /\ UNCHANGED <<suspect, misread>> /\ Honest
      /\ \/ (\E e : Behind(e) /\ disk' = Recorded(e, record)) /\ pc' = "final" /\ (Works \/ Fails)
         \/ (\E e : Behind(e) /\ disk' = Recorded(e, record)) /\ pc' = "reject" /\ Fails
         \/ disk' = disk /\ pc' = "reject" /\ Fails
  <2>1. save_transaction("savePublish", "final", "reject", record)
    BY DEF SavePublish
  <2>2. pc = "savePublish" /\ Thread /\ asked' = asked
    BY DEF SavePublish, save_transaction, Goto
  <2>3. disk.journal = [id |-> job.id, phase |-> "copy"]
    BY <1>1, <2>2 DEF At
  <2>4. disk.journal # NoJournal
    BY <2>3 DEF NoJournal
  <2>5. record \in Transaction
    BY <1>1 DEF TypeOK, Transaction, Phases
  <2> QED
    BY <1>1, <2>1, <2>2, <2>3, <2>4, <2>5, SaveRecords DEF Honest
<1>3. UNCHANGED <<volume, live, job, caller, ready, ok, result, needs_prepare, prepare_ok>>
  BY <1>2 DEF Thread
<1>4. /\ job.ver # 0 /\ Later(job.ver, disk.dest[job.id]) /\ disk.staging = job
      /\ (job.id \in misread \/ job \in asked) /\ job.id \in Apps /\ job \in [id : Apps, ver : 0 .. MaxVersion] /\ live[job.id] = 0
      /\ phase = "copy" /\ tx = job.id /\ job.ver \in Version
  <2>1. job.ver # 0 /\ job \in [id : Apps, ver : 0 .. MaxVersion]
    BY <1>1, <1>2 DEF At, TypeOK
  <2>2. job.ver \in Version
    BY <2>1, InstallerAssumption DEF Version, InstallerAssumption
  <2> QED
    BY <1>1, <1>2, <2>1, <2>2 DEF At, AskedFor, TypeOK, LetGo, Running, phase, tx
<1>5. pc' \in {"final", "reject"} /\ (Works \/ Fails)
  BY <1>2
<1>6. LetGo' /\ FinalPass' /\ Stuck'
  BY <1>1, <1>2, <1>3, <1>5 DEF LetGo, Running, FinalPass, Stuck, Passing, Recovering, Returned
<1>7. AskedFor'
  BY <1>1, <1>2, <1>3, <1>4, <1>5 DEF AskedFor, Passing, Recovering, Returned
<1>8. ASSUME disk' \in Disk
      PROVE  TypeOK' /\ (~inDoubt' => ~inDoubt)
  BY <1>2, <1>5, <1>8, WorkTypes DEF Points
<1>9. CASE \E e : Behind(e) /\ disk' = Recorded(e, record)
  <2>0. PICK e : Behind(e) /\ disk' = Recorded(e, record)
    BY <1>9
  <2>1. disk' \in Disk /\ DiskInv' /\ CountsStay /\ (Has({"remove"})' => Has({"remove"}))
    <3>1. job = [id |-> tx, ver |-> job.ver]
      BY <1>4
    <3>2. record = [id |-> tx, phase |-> "publish"]
      BY <1>4
    <3> QED
      BY <1>1, <1>2, <1>3, <1>4, <2>0, <3>1, <3>2, RecordsPublish
  <2>2. /\ disk'.journal = record /\ phase' = "publish" /\ tx' = job.id
        /\ disk'.dest = disk.dest /\ disk'.staging = disk.staging
    BY <1>1, <2>0, RecordedAlone
  <2>3. At' /\ Settled' /\ Known'
    BY <1>1, <1>2, <1>3, <1>4, <1>5, <1>8, <2>1, <2>2 DEF At, Recovering, Settled, Known, Resting
  <2> QED
    BY <1>3, <1>2, <1>6, <1>7, <1>8, <2>1, <2>3 DEF Strict, PcInv, Quiet
<1>10. CASE disk' = disk /\ pc' = "reject"
  <2>1. /\ DiskInv' /\ CountsStay /\ phase' = phase /\ tx' = tx /\ disk' \in Disk
        /\ (Has({"remove"})' <=> Has({"remove"}))
    BY <1>1, <1>2, <1>3, <1>10, DiskStays DEF Strict, TypeOK
  <2>2. At' /\ Settled' /\ Known'
    BY <1>1, <1>2, <1>3, <1>4, <1>8, <1>10, <2>1 DEF At, Recovering, Settled, Known, Resting
  <2> QED
    BY <1>3, <1>2, <1>6, <1>7, <1>8, <2>1, <2>2 DEF Strict, PcInv, Quiet
<1> QED
  BY <1>2, <1>9, <1>10

-----------------------------------------------------------------------------
\* The steps between the passes, which leave the volume as it is, whether the
\* journal is taken for what it is or not.

Common == TypeOK /\ Past /\ Everyone /\ Lives /\ Caches /\ LetGo /\ Known /\ AskedFor /\ FinalPass

\* What leaves the volume and what runs from it alone, and the thread where it may be.
LEMMA StandsStill ==
  ASSUME IInv, UNCHANGED <<disk, live, asked, volume, suspect, misread>>,
         TypeOK', LetGo', Known', AskedFor', FinalPass',
         Strict => At' /\ Stuck' /\ Settled', Mixed => Lost' /\ Loosely'
  PROVE  IInv'
<1>1. phase' = phase /\ tx' = tx /\ (There' <=> There)
  BY DEF phase, tx, There
<1>2. CASE Strict
  <2>1. DiskInv'
    BY <1>2, DiskStays DEF Strict
  <2> QED
    BY <1>2, <2>1 DEF Strict, PcInv, IInv
<1>3. CASE Mixed
  <2>1. Past' /\ Everyone' /\ Lives' /\ Caches'
    BY <1>1, <1>3 DEF Mixed, Blurred, Past, Everyone, Lives, Has, Caches, CacheIsOwn
  <2>2. Body'
    BY <1>1, <1>3 DEF Mixed, Blurred, Body, Has
  <2> QED
    BY <1>3, <2>1, <2>2 DEF Mixed, Blurred, IInv
<1> QED
  BY <1>2, <1>3 DEF IInv

\* What such a step need not look at again.
LEMMA AsBefore ==
  ASSUME IInv, UNCHANGED <<disk, live, asked, volume, suspect, misread>>, InDoubt
  PROVE  /\ Common /\ (~inDoubt' => ~inDoubt) /\ inDoubt' \in BOOLEAN
         /\ CountsStay /\ phase' = phase /\ tx' = tx /\ (There' <=> There) /\ (Clean' <=> Clean)
         /\ (ToPublish' <=> ToPublish) /\ (ToRemove' <=> ToRemove)
         /\ (Has({"remove"})' <=> Has({"remove"})) /\ (Has({"publish", "commit"})' <=> Has({"publish", "commit"}))
         /\ Strict => ~suspect /\ Past /\ Shape /\ At /\ Stuck /\ Settled
         /\ Mixed => suspect /\ Lost /\ Loosely
<1>1. Common
  <2>1. Shape => Everyone
    BY DEF Shape, Everyone
  <2> QED
    BY <2>1 DEF Common, IInv, Strict, DiskInv, PcInv, Mixed, Blurred
<1>2. inDoubt' \in BOOLEAN /\ (~inDoubt' => ~inDoubt)
  <2>1. (inDoubt \/ WrittenInDoubt) \in BOOLEAN
    OBVIOUS
  <2> QED
    BY <2>1 DEF InDoubt
<1>3. phase' = phase /\ tx' = tx /\ (There' <=> There) /\ (Clean' <=> Clean)
  BY DEF phase, tx, There, Clean
<1>4. /\ CountsStay /\ (ToPublish' <=> ToPublish) /\ (ToRemove' <=> ToRemove)
      /\ (Has({"remove"})' <=> Has({"remove"})) /\ (Has({"publish", "commit"})' <=> Has({"publish", "commit"}))
  BY <1>3 DEF CountsStay, Counts, ToPublish, ToRemove, Has
<1> QED
  BY <1>1, <1>2, <1>3, <1>4 DEF Strict, DiskInv, PcInv, Mixed

\* The limit of failures, and what a pass remembers of them.
LEMMA FaultTypes ==
  ASSUME TypeOK, Works \/ Fails
  PROVE  faults' \in 0 .. MaxFaults /\ hampered' \in BOOLEAN
<1>1. CASE Works
  BY <1>1 DEF TypeOK, Works
<1>2. CASE Fails
  <2>1. faults' = faults \/ (faults < MaxFaults /\ faults' = faults + 1)
    BY <1>2 DEF Fails
  <2>2. hampered' = TRUE
    BY <1>2 DEF Fails
  <2> QED
    BY <2>1, <2>2, InstallerAssumption DEF TypeOK, InstallerAssumption
<1> QED
  BY <1>1, <1>2

\* A pass of recover_locked begins for a job: what an earlier one left, and its own.
LEMMA StartStep ==
  ASSUME IInv, Start, InDoubt
  PROVE  IInv' /\ Quiet
<1>1. /\ pc = "start" /\ UNCHANGED <<disk, asked, volume, card, changed, live, job, ready, recovery_pending, ok, result,
                                     needs_prepare, prepare_ok, jobs, outages, faults, transaction, suspect, misread>>
      /\ \/ pc' = "recover" /\ caller' = "first" /\ hampered' = FALSE
         \/ pc' = "finish" /\ UNCHANGED <<caller, hampered>>
  BY DEF Start, Recover, Goto, Locked, readVars
<1>2. /\ Common /\ (~inDoubt' => ~inDoubt) /\ inDoubt' \in BOOLEAN
      /\ CountsStay /\ phase' = phase /\ tx' = tx /\ (There' <=> There) /\ (Clean' <=> Clean)
      /\ (ToPublish' <=> ToPublish) /\ (ToRemove' <=> ToRemove)
      /\ (Has({"remove"})' <=> Has({"remove"})) /\ (Has({"publish", "commit"})' <=> Has({"publish", "commit"}))
      /\ Strict => ~suspect /\ Past /\ Shape /\ At /\ Stuck /\ Settled
      /\ Mixed => suspect /\ Lost /\ Loosely
  BY <1>1, AsBefore
<1>3. ~Mixed
  BY <1>1, <1>2 DEF Lost, Recovering
<1>4. TypeOK'
  <2>1. pc' \in Points
    BY <1>1 DEF Points, Recovering
  <2>2. hampered' \in BOOLEAN
    BY <1>1, <1>2 DEF Common, TypeOK
  <2>3. caller' \in {"boot", "card", "first", "final", "discard"}
    BY <1>1, <1>2 DEF Common, TypeOK
  <2> QED
    BY <1>1, <1>2, <2>1, <2>2, <2>3 DEF Common, TypeOK
<1>5. Strict => At' /\ Stuck' /\ Settled'
  BY <1>1, <1>2 DEF At, Recovering, Stuck, Settled, Resting
<1>6. LetGo'
  BY <1>1, <1>2 DEF Common, LetGo, Running
<1>7. Known' /\ AskedFor' /\ FinalPass'
  BY <1>1, <1>2 DEF Common, Known, AskedFor, FinalPass, Resting, Passing, Recovering, Returned
<1> QED
  BY <1>1, <1>2, <1>3, <1>4, <1>5, <1>6, <1>7, StandsStill DEF Quiet

\* The pass that carries the job through, or discards what was copied, begins.
LEMMA FinaliseStep ==
  ASSUME IInv, Finalise, InDoubt
  PROVE  IInv' /\ Quiet
<1>1. /\ UNCHANGED <<disk, asked, volume, card, changed, live, job, ready, recovery_pending, ok, result,
                     needs_prepare, prepare_ok, jobs, outages, faults, transaction, suspect, misread>>
      /\ \/ pc = "final" /\ caller' = "final"
         \/ pc = "reject" /\ caller' = "discard"
      /\ pc' = "recover" /\ hampered' = FALSE
  BY DEF Finalise, Recover, Goto, Locked, readVars
<1>2. /\ Common /\ (~inDoubt' => ~inDoubt) /\ inDoubt' \in BOOLEAN
      /\ CountsStay /\ phase' = phase /\ tx' = tx /\ (There' <=> There) /\ (Clean' <=> Clean)
      /\ (ToPublish' <=> ToPublish) /\ (ToRemove' <=> ToRemove)
      /\ (Has({"remove"})' <=> Has({"remove"})) /\ (Has({"publish", "commit"})' <=> Has({"publish", "commit"}))
      /\ Strict => ~suspect /\ Past /\ Shape /\ At /\ Stuck /\ Settled
      /\ Mixed => suspect /\ Lost /\ Loosely
  BY <1>1, AsBefore
<1>3. Mixed => Lost' /\ Loosely'
  BY <1>1, <1>2 DEF Lost, Loosely, Recovering, Resting
<1>4. TypeOK'
  <2>1. pc' \in Points /\ hampered' \in BOOLEAN /\ caller' \in {"boot", "card", "first", "final", "discard"}
    BY <1>1 DEF Points, Recovering
  <2> QED
    BY <1>1, <1>2, <2>1 DEF Common, TypeOK
<1>5. Strict => At' /\ Stuck' /\ Settled'
  BY <1>1 DEF At, Recovering, Stuck, Settled, Resting
<1>6. LetGo'
  BY <1>1, <1>2 DEF Common, LetGo, Running
<1>7. Known' /\ AskedFor'
  BY <1>1, <1>2 DEF Common, Known, AskedFor, Resting, Passing, Recovering, Returned
<1>8. FinalPass'
  <2>1. CASE Mixed
    BY <1>1, <1>2, <2>1 DEF FinalPass, Lost
  <2>2. CASE Strict
    <3>1. job \in [id : Apps, ver : 0 .. MaxVersion] /\ NoDir \notin [id : Apps, ver : 0 .. MaxVersion]
      BY <1>2, InstallerAssumption DEF Common, TypeOK, NoDir, InstallerAssumption
    <3> QED
      BY <1>1, <1>2, <2>2, <3>1 DEF FinalPass, At, Passing, Recovering, phase, tx
  <2> QED
    BY <2>1, <2>2 DEF IInv
<1> QED
  BY <1>1, <1>2, <1>3, <1>4, <1>5, <1>6, <1>7, <1>8, StandsStill DEF Quiet

\* A pass returned: who called it, whether it succeeded.
LEMMA ReturnStep ==
  ASSUME IInv, ReturnFirst \/ ReturnFinal \/ ReturnDiscard \/ recover_card \/ app_installer_recover, InDoubt
  PROVE  IInv' /\ Quiet
<1>1. /\ UNCHANGED <<disk, asked, volume, card, changed, live, job, recovery_pending, result, caller,
                     needs_prepare, prepare_ok, jobs, outages, suspect, misread>>
      /\ pc \in Returned /\ (Works \/ Fails) /\ ready' \in BOOLEAN /\ (ready' => pc # "false")
      /\ transaction' = NoJournal
  BY DEF ReturnFirst, ReturnFinal, ReturnDiscard, recover_card, app_installer_recover, ReturnOther, Return, Afterwards,
         volume_ready_set, Available
<1>2. \/ caller = "first" /\ pc' = (IF pc = "false" THEN "finish" ELSE "check") /\ ok' = ok
      \/ /\ caller = "final" /\ pc' = (IF job.ver # 0 /\ pc = "published" THEN "migrate" ELSE "finish")
         /\ ok' = (job.ver = 0 /\ pc # "false")
      \/ caller = "discard" /\ pc' = "finish" /\ ok' = ok
      \/ caller \in {"card", "boot"} /\ pc' = "idle" /\ ok' = ok
  BY DEF ReturnFirst, ReturnFinal, ReturnDiscard, recover_card, app_installer_recover, ReturnOther, Return
<1>3. /\ Common /\ (~inDoubt' => ~inDoubt) /\ inDoubt' \in BOOLEAN
      /\ CountsStay /\ phase' = phase /\ tx' = tx /\ (There' <=> There) /\ (Clean' <=> Clean)
      /\ (ToPublish' <=> ToPublish) /\ (ToRemove' <=> ToRemove)
      /\ (Has({"remove"})' <=> Has({"remove"})) /\ (Has({"publish", "commit"})' <=> Has({"publish", "commit"}))
      /\ Strict => ~suspect /\ Past /\ Shape /\ At /\ Stuck /\ Settled
      /\ Mixed => suspect /\ Lost /\ Loosely
  BY <1>1, AsBefore
<1>4. TypeOK'
  <2>1. faults' \in 0 .. MaxFaults /\ hampered' \in BOOLEAN
    BY <1>1, <1>3, FaultTypes DEF Common
  <2>2. ok' \in BOOLEAN /\ pc' \in Points
    BY <1>2, <1>3 DEF Common, TypeOK, Points
  <2>3. transaction' \in Transaction
    BY <1>1 DEF Transaction
  <2> QED
    BY <1>1, <1>3, <2>1, <2>2, <2>3 DEF Common, TypeOK
<1>5. Strict /\ pc # "false" => /\ disk.journal = NoJournal /\ phase = "none" /\ Clean
                                /\ ~Has({"remove"}) /\ ~Has({"publish", "commit"})
  BY <1>1, <1>3 DEF At, Returned, phase, NoJournal, Shape, Has, Past, Phases
<1>6. pc' \in {"finish", "check", "migrate", "idle"} /\ (pc' \in {"check", "migrate"} => pc # "false")
  BY <1>2
<1>7. Strict => At' /\ Stuck' /\ Settled'
  BY <1>1, <1>3, <1>5, <1>6 DEF At, Recovering, Stuck, Settled, Clean
<1>8. Mixed => pc = "false"
  BY <1>1, <1>3 DEF Lost, Returned, Recovering
<1>9. Mixed => Lost' /\ Loosely'
  BY <1>1, <1>3, <1>6, <1>8 DEF Lost, Loosely, Recovering, Resting, NoJournal
<1>10. LetGo'
  BY <1>1, <1>2, <1>3 DEF Common, LetGo, Running, Passing, Recovering, Returned
<1>11. Known' /\ FinalPass'
  <2>1. ready' \/ pc' = "check" => ~Has({"remove"})
    BY <1>1, <1>5, <1>6, <1>8 DEF IInv
  <2> QED
    BY <1>1, <1>3, <1>6, <2>1 DEF Common, Known, FinalPass, Passing, Recovering, Returned
<1>12. AskedFor'
  <2>1. job.id \in Apps
    BY <1>3 DEF Common, TypeOK
  <2>2. Counts(job.id)' = Counts(job.id)
    BY <1>1, <1>3, <2>1 DEF CountsStay
  <2>3. caller = "final" /\ pc # "false" /\ job.id \notin misread =>
           (IF job.ver = 0 THEN job \notin asked ELSE pc = "published" => job \notin asked)
    BY <1>1, <1>3, <1>5, <1>8 DEF IInv, Common, FinalPass, Passing
  <2>4. (ok' \/ pc' = "migrate") /\ job.id \notin misread => job \notin asked
    BY <1>2, <1>3, <2>3 DEF Common, AskedFor
  <2>5. pc' = "check" /\ job.id \notin misread =>
           job \in asked \/ (Counts(job.id) = job.ver /\ (suspect \/ (~ToPublish /\ ~ToRemove)))
    BY <1>1, <1>2, <1>3 DEF Common, AskedFor, Passing
  <2> QED
    BY <1>1, <1>3, <1>6, <2>2, <2>4, <2>5 DEF AskedFor, Passing, Recovering, Returned
<1> QED
  BY <1>1, <1>3, <1>4, <1>7, <1>9, <1>10, <1>11, <1>12, StandsStill DEF Quiet

\* The data of the application is migrated, or that fails.
LEMMA MigrateStep ==
  ASSUME IInv, Migrate, InDoubt
  PROVE  IInv' /\ Quiet
<1>1. /\ UNCHANGED <<disk, asked, volume, card, changed, live, job, recovery_pending, result, caller,
                     needs_prepare, prepare_ok, jobs, outages, suspect, misread>>
      /\ pc = "migrate" /\ pc' = "finish" /\ (Works \/ Fails) /\ (ready' = ready \/ ready' = FALSE)
      /\ (ok' = TRUE \/ ok' = ok) /\ transaction' = NoJournal
  BY DEF Migrate, Afterwards
<1>2. /\ Common /\ (~inDoubt' => ~inDoubt) /\ inDoubt' \in BOOLEAN
      /\ CountsStay /\ phase' = phase /\ tx' = tx /\ (There' <=> There) /\ (Clean' <=> Clean)
      /\ (ToPublish' <=> ToPublish) /\ (ToRemove' <=> ToRemove)
      /\ (Has({"remove"})' <=> Has({"remove"})) /\ (Has({"publish", "commit"})' <=> Has({"publish", "commit"}))
      /\ Strict => ~suspect /\ Past /\ Shape /\ At /\ Stuck /\ Settled
      /\ Mixed => suspect /\ Lost /\ Loosely
  BY <1>1, AsBefore
<1>3. ~Mixed
  BY <1>1, <1>2 DEF Lost, Recovering
<1>4. TypeOK'
  <2>1. faults' \in 0 .. MaxFaults /\ hampered' \in BOOLEAN
    BY <1>1, <1>2, FaultTypes DEF Common
  <2>2. pc' \in Points /\ transaction' \in Transaction
    BY <1>1 DEF Points, Transaction
  <2>3. ok' \in BOOLEAN /\ ready' \in BOOLEAN
    BY <1>1, <1>2 DEF Common, TypeOK
  <2> QED
    BY <1>1, <1>2, <2>1, <2>2, <2>3 DEF Common, TypeOK
<1>5. Strict => At' /\ Stuck' /\ Settled'
  BY <1>1, <1>2 DEF At, Recovering, Stuck, Settled, Resting
<1>6. LetGo'
  BY <1>1, <1>2 DEF Common, LetGo, Running
<1>7. Known' /\ AskedFor' /\ FinalPass'
  BY <1>1, <1>2 DEF Common, Known, AskedFor, FinalPass, Resting, Passing, Recovering, Returned
<1> QED
  BY <1>1, <1>2, <1>3, <1>4, <1>5, <1>6, <1>7, StandsStill DEF Quiet

\* The result is reported.
LEMMA FinishStep ==
  ASSUME IInv, Finish, InDoubt
  PROVE  IInv' /\ CountsStay /\ UNCHANGED <<job, asked, misread>> /\ Store!Report
<1>1. /\ UNCHANGED <<disk, asked, volume, card, changed, live, job, ready, recovery_pending, caller, ok,
                     needs_prepare, prepare_ok, jobs, outages, hampered, faults, suspect, misread>>
      /\ pc = "finish" /\ pc' = "idle" /\ result' = (IF ok THEN "done" ELSE "failed") /\ transaction' = NoJournal
  BY DEF Finish, Goto, Works, NoChange
<1>2. /\ Common /\ (~inDoubt' => ~inDoubt) /\ inDoubt' \in BOOLEAN
      /\ CountsStay /\ phase' = phase /\ tx' = tx /\ (There' <=> There) /\ (Clean' <=> Clean)
      /\ (ToPublish' <=> ToPublish) /\ (ToRemove' <=> ToRemove)
      /\ (Has({"remove"})' <=> Has({"remove"})) /\ (Has({"publish", "commit"})' <=> Has({"publish", "commit"}))
      /\ Strict => ~suspect /\ Past /\ Shape /\ At /\ Stuck /\ Settled
      /\ Mixed => suspect /\ Lost /\ Loosely
  BY <1>1, AsBefore
<1>3. TypeOK'
  BY <1>1, <1>2 DEF Common, TypeOK, Points, Transaction
<1>4. Strict => At' /\ Stuck' /\ Settled'
  BY <1>1, <1>2 DEF At, Recovering, Stuck, Settled, Resting
<1>5. Mixed => Lost' /\ Loosely'
  BY <1>1, <1>2 DEF Lost, Loosely, Recovering, Resting, NoJournal
<1>6. LetGo'
  BY <1>1 DEF LetGo, Running, Passing, Recovering, Returned
<1>7. Known' /\ AskedFor' /\ FinalPass'
  BY <1>1, <1>2 DEF Common, Known, AskedFor, FinalPass, Resting, Passing, Recovering, Returned
<1>8. Store!Report
  <2>1. result = "running" /\ (ok => job \notin asked \/ job.id \in misread)
    BY <1>1, <1>2 DEF Common, LetGo, Running, AskedFor
  <2>2. [a \in Apps |-> Counts(a)]' = [a \in Apps |-> Counts(a)]
    BY <1>2 DEF CountsStay
  <2> QED
    BY <1>1, <2>1, <2>2 DEF Store!Report
<1> QED
  BY <1>1, <1>2, <1>3, <1>4, <1>5, <1>6, <1>7, <1>8, StandsStill
-----------------------------------------------------------------------------
\* The steps of the UI, and what happens to the card and the power.

\* What a step must leave alone for the thread to stand where it stood.
LEMMA UiKeeps ==
  ASSUME IInv, UNCHANGED <<disk, volume, card, asked, pc, caller, ok, transaction, suspect, misread, hampered, job, result,
                           jobs, faults, outages>>,
         changed' \in BOOLEAN, needs_prepare' \in BOOLEAN, prepare_ok' \in BOOLEAN, ready' \in BOOLEAN,
         recovery_pending' \in BOOLEAN, live' \in [Apps -> 0 .. MaxVersion], ready' => ready,
         Lives', Caches', LetGo', InDoubt,
         Has({"remove"}) /\ ~inDoubt => live'[tx] = 0
  PROVE  IInv' /\ Quiet
<1>1. Common
  <2>1. Shape => Everyone
    BY DEF Shape, Everyone
  <2> QED
    BY <2>1 DEF Common, IInv, Strict, DiskInv, PcInv, Mixed, Blurred
<1>2. /\ phase' = phase /\ tx' = tx /\ (There' <=> There) /\ (Clean' <=> Clean)
      /\ (Has({"remove"})' <=> Has({"remove"})) /\ (Has({"publish", "commit"})' <=> Has({"publish", "commit"}))
  BY DEF phase, tx, There, Clean, Has
<1>3. (ToPublish' <=> ToPublish) /\ (ToRemove' <=> ToRemove) /\ CountsStay
  BY <1>2 DEF ToPublish, ToRemove, CountsStay, Counts
<1>4. inDoubt' \in BOOLEAN /\ (~inDoubt' => ~inDoubt)
  <2>1. (inDoubt \/ WrittenInDoubt) \in BOOLEAN
    OBVIOUS
  <2> QED
    BY <2>1 DEF InDoubt
<1>5. TypeOK'
  BY <1>1, <1>4 DEF Common, TypeOK
<1>6. Known' /\ FinalPass'
  BY <1>1, <1>2, <1>4 DEF Common, Known, FinalPass
<1>7. AskedFor'
  <2>1. Counts(job.id)' = Counts(job.id)
    BY <1>1, <1>3 DEF CountsStay, Common, TypeOK
  <2> QED
    BY <1>1, <1>3, <2>1 DEF Common, AskedFor
<1>8. Past'
  BY <1>1, <1>2 DEF Common, Past
<1>9. CASE Strict
  <2>1. Shape /\ Owed /\ At /\ Stuck /\ Settled /\ Young
    BY <1>9 DEF Strict, DiskInv, PcInv
  <2>2. Young' /\ Shape' /\ Owed'
    BY <1>2, <1>3, <2>1 DEF Young, Shape, Clean, Owed
  <2>3. At' /\ Stuck' /\ Settled'
    BY <1>2, <2>1 DEF At, Stuck, Settled
  <2> QED
    BY <1>3, <1>5, <1>6, <1>7, <1>8, <1>9, <2>2, <2>3 DEF IInv, Strict, PcInv, DiskInv, Quiet
<1>10. CASE Mixed
  <2>1. Everyone' /\ Body'
    BY <1>2, <1>10 DEF Mixed, Blurred, Everyone, Body, Has
  <2>2. Lost' /\ Loosely'
    BY <1>2, <1>10 DEF Mixed, Lost, Loosely, Has
  <2> QED
    BY <1>3, <1>5, <1>6, <1>7, <1>8, <1>10, <2>1, <2>2 DEF IInv, Mixed, Blurred, Quiet
<1> QED
  BY <1>9, <1>10 DEF IInv

\* What the invariant says whether the journal is taken for what it is or not.
LEMMA Both ==
  ASSUME IInv
  PROVE  Common /\ (ready => ~Mixed \/ pc \notin Resting)
<1>1. Shape => Everyone
  BY DEF Shape, Everyone
<1> QED
  BY <1>1 DEF Common, IInv, Strict, DiskInv, PcInv, Mixed, Blurred, Lost

\* The UI has let go of the application, or waited long enough.
LEMMA ProcessStep ==
  ASSUME IInv, app_installer_process, InDoubt
  PROVE  IInv' /\ Quiet
<1>1. /\ UNCHANGED <<disk, volume, card, asked, pc, caller, ok, transaction, suspect, misread, hampered, job, result, jobs,
                     faults, outages, changed, ready, recovery_pending, live>>
      /\ needs_prepare' = FALSE /\ prepare_ok' = (live[job.id] = 0)
  BY DEF app_installer_process, Ui, readVars
<1>2. /\ TypeOK /\ LetGo /\ Known /\ Lives /\ Caches /\ phase' = phase /\ tx' = tx
      /\ (Has({"publish", "commit"})' <=> Has({"publish", "commit"}))
  BY <1>1, Both DEF Common, phase, tx, Has
<1>3. Lives' /\ Caches'
  BY <1>1, <1>2 DEF Lives, Caches, CacheIsOwn
<1>4. LetGo'
  BY <1>1, <1>2 DEF LetGo, Running
<1>5. Has({"remove"}) /\ ~inDoubt => live'[tx] = 0
  BY <1>1, <1>2 DEF Known
<1>6. /\ changed' \in BOOLEAN /\ needs_prepare' \in BOOLEAN /\ prepare_ok' \in BOOLEAN /\ ready' \in BOOLEAN
      /\ recovery_pending' \in BOOLEAN /\ live' \in [Apps -> 0 .. MaxVersion]
  BY <1>1, <1>2 DEF TypeOK
<1> QED
  BY <1>1, <1>3, <1>4, <1>5, <1>6, UiKeeps

\* An application is loaded: of what is installed and settled, and not the one of
\* the job that is under way.
LEMMA OpenStep ==
  ASSUME IInv, NEW a \in Apps, OpenApp(a), InDoubt
  PROVE  IInv' /\ Quiet
<1>1. /\ UNCHANGED <<disk, volume, card, asked, pc, caller, ok, transaction, suspect, misread, hampered, job, result, jobs,
                     faults, outages, changed, ready, recovery_pending, needs_prepare, prepare_ok>>
      /\ pc \in {"idle", "wait", "finish"} /\ ready /\ ~(result = "running" /\ job.id = a)
      /\ Whole(disk.dest[a], a) /\ live' = [live EXCEPT ![a] = disk.dest[a].ver]
  BY DEF OpenApp, Ui, app_installer_blocks, readVars
<1>2. Strict /\ pc \in Resting
  BY <1>1, Both DEF IInv, Resting
<1>3. /\ TypeOK /\ Past /\ LetGo /\ Known /\ Lives /\ Caches /\ Settled /\ phase' = phase /\ tx' = tx
      /\ (Has({"publish", "commit"})' <=> Has({"publish", "commit"}))
  BY <1>1, <1>2 DEF Strict, PcInv, DiskInv, phase, tx, Has
<1>4. /\ disk.dest[a].ver \in 1 .. MaxVersion
      /\ \A b \in Apps : live'[b] = IF b = a THEN disk.dest[a].ver ELSE live[b]
      /\ live' \in [Apps -> 0 .. MaxVersion]
  <2>1. disk.dest[a].ver \in 1 .. MaxVersion
    BY <1>1 DEF Whole, Version
  <2>2. disk.dest[a].ver \in 0 .. MaxVersion
    BY <2>1, InstallerAssumption DEF InstallerAssumption
  <2> QED
    BY <1>1, <1>3, <2>1, <2>2 DEF TypeOK
<1>5. phase \in {"none", "torn", "copy", "remove"} /\ ~Has({"publish", "commit"}) /\ disk.dest[a] # NoDir
  BY <1>1, <1>2, <1>3, InstallerAssumption DEF Settled, Whole, NoDir, InstallerAssumption
<1>6. Has({"remove"}) => inDoubt
  BY <1>1, <1>2, <1>3 DEF Known
<1>7. Lives' /\ Caches'
  BY <1>1, <1>3, <1>4, <1>5 DEF Lives, Caches, CacheIsOwn
<1>8. LetGo'
  <2>1. job.id \in Apps
    BY <1>3 DEF TypeOK
  <2>2. result = "running" => live'[job.id] = live[job.id]
    BY <1>1, <1>4, <2>1
  <2> QED
    BY <1>1, <1>3, <2>2 DEF LetGo, Running, Passing, Recovering, Returned
<1>9. /\ changed' \in BOOLEAN /\ needs_prepare' \in BOOLEAN /\ prepare_ok' \in BOOLEAN /\ ready' \in BOOLEAN
      /\ recovery_pending' \in BOOLEAN
  BY <1>1, <1>3 DEF TypeOK
<1> QED
  BY <1>1, <1>4, <1>6, <1>7, <1>8, <1>9, UiKeeps

\* An application is unloaded.
LEMMA ExitStep ==
  ASSUME IInv, NEW a \in Apps, ExitApp(a), InDoubt
  PROVE  IInv' /\ Quiet
<1>1. /\ UNCHANGED <<disk, volume, card, asked, pc, caller, ok, transaction, suspect, misread, hampered, job, result, jobs,
                     faults, outages, changed, ready, recovery_pending, needs_prepare, prepare_ok>>
      /\ live' = [live EXCEPT ![a] = 0]
  BY DEF ExitApp, Ui, readVars
<1>2. /\ TypeOK /\ Past /\ LetGo /\ Known /\ Lives /\ Caches /\ phase' = phase /\ tx' = tx
      /\ (Has({"publish", "commit"})' <=> Has({"publish", "commit"}))
  BY <1>1, Both DEF Common, phase, tx, Has
<1>3. (\A b \in Apps : live'[b] = IF b = a THEN 0 ELSE live[b]) /\ live' \in [Apps -> 0 .. MaxVersion]
  <2>1. 0 \in 0 .. MaxVersion
    BY InstallerAssumption DEF InstallerAssumption
  <2> QED
    BY <1>1, <1>2, <2>1 DEF TypeOK
<1>4. Has({"publish", "commit"}) \/ Has({"remove"}) => tx \in Apps
  BY <1>2, Facts DEF Has, Past, Phases
<1>5. Lives' /\ Caches'
  BY <1>1, <1>2, <1>3, <1>4 DEF Lives, Caches, CacheIsOwn
<1>6. LetGo'
  <2>1. job.id \in Apps
    BY <1>2 DEF TypeOK
  <2> QED
    BY <1>1, <1>2, <1>3, <2>1 DEF LetGo, Running
<1>7. Has({"remove"}) /\ ~inDoubt => live'[tx] = 0
  BY <1>2, <1>3, <1>4 DEF Known
<1>8. /\ changed' \in BOOLEAN /\ needs_prepare' \in BOOLEAN /\ prepare_ok' \in BOOLEAN /\ ready' \in BOOLEAN
      /\ recovery_pending' \in BOOLEAN
  BY <1>1, <1>2 DEF TypeOK
<1> QED
  BY <1>1, <1>3, <1>5, <1>6, <1>7, <1>8, UiKeeps

\* The UI notices the change of the storage.
LEMMA StorageStep ==
  ASSUME IInv, app_installer_storage_changed, InDoubt
  PROVE  IInv' /\ Quiet
<1>1. /\ UNCHANGED <<disk, volume, card, asked, pc, caller, ok, transaction, suspect, misread, hampered, job, result, jobs,
                     faults, outages, live, needs_prepare, prepare_ok>>
      /\ changed' = FALSE
      /\ \/ ready' = FALSE /\ recovery_pending' = card
         \/ UNCHANGED <<ready, recovery_pending>>
  BY DEF app_installer_storage_changed, Ui, readVars
<1>2. /\ TypeOK /\ LetGo /\ Known /\ Lives /\ Caches /\ phase' = phase /\ tx' = tx
      /\ (Has({"publish", "commit"})' <=> Has({"publish", "commit"}))
  BY <1>1, Both DEF Common, phase, tx, Has
<1>3. Lives' /\ Caches'
  BY <1>1, <1>2 DEF Lives, Caches, CacheIsOwn
<1>4. LetGo'
  BY <1>1, <1>2 DEF LetGo, Running
<1>5. Has({"remove"}) /\ ~inDoubt => live'[tx] = 0
  BY <1>1, <1>2 DEF Known
<1>6. /\ changed' \in BOOLEAN /\ needs_prepare' \in BOOLEAN /\ prepare_ok' \in BOOLEAN /\ ready' \in BOOLEAN
      /\ recovery_pending' \in BOOLEAN /\ live' \in [Apps -> 0 .. MaxVersion] /\ (ready' => ready)
  <2>1. ready \in BOOLEAN /\ recovery_pending \in BOOLEAN /\ card \in BOOLEAN
    BY <1>2 DEF TypeOK
  <2>2. ready' \in BOOLEAN /\ recovery_pending' \in BOOLEAN /\ (ready' => ready)
    <3>1. CASE ready' = FALSE /\ recovery_pending' = card
      BY <2>1, <3>1
    <3>2. CASE UNCHANGED <<ready, recovery_pending>>
      BY <2>1, <3>2
    <3> QED
      BY <1>1, <3>1, <3>2
  <2> QED
    BY <1>1, <1>2, <2>2 DEF TypeOK
<1> QED
  BY <1>1, <1>3, <1>4, <1>5, <1>6, UiKeeps

\* The card goes: the session of its recovery is over at once.
LEMMA RemoveCardStep ==
  ASSUME IInv, RemoveCard, InDoubt
  PROVE  IInv' /\ Quiet
<1>1. /\ UNCHANGED <<disk, volume, asked, pc, caller, ok, transaction, suspect, misread, job, result, jobs, faults, live,
                     recovery_pending, needs_prepare, prepare_ok>>
      /\ card' = FALSE /\ changed' = TRUE /\ outages < MaxOutages /\ outages' = outages + 1
      /\ \/ ready' = FALSE /\ hampered' = TRUE
         \/ UNCHANGED <<ready, hampered>>
  BY DEF RemoveCard, Outage, readVars
<1>2. /\ Common /\ (~inDoubt' => ~inDoubt) /\ inDoubt' \in BOOLEAN
      /\ CountsStay /\ phase' = phase /\ tx' = tx /\ (There' <=> There) /\ (Clean' <=> Clean)
      /\ (ToPublish' <=> ToPublish) /\ (ToRemove' <=> ToRemove)
      /\ (Has({"remove"})' <=> Has({"remove"})) /\ (Has({"publish", "commit"})' <=> Has({"publish", "commit"}))
      /\ Strict => ~suspect /\ Past /\ Shape /\ At /\ Stuck /\ Settled
      /\ Mixed => suspect /\ Lost /\ Loosely
  BY <1>1, AsBefore
<1>3. TypeOK'
  <2>1. outages' \in 0 .. MaxOutages
    BY <1>1, <1>2, InstallerAssumption DEF Common, TypeOK, InstallerAssumption
  <2>2. ready' \in BOOLEAN /\ hampered' \in BOOLEAN
    BY <1>1, <1>2 DEF Common, TypeOK
  <2> QED
    BY <1>1, <1>2, <2>1, <2>2 DEF Common, TypeOK
<1>4. Strict => At' /\ Stuck' /\ Settled'
  BY <1>1, <1>2 DEF At, Stuck, Settled
<1>5. Mixed => Lost' /\ Loosely'
  BY <1>1, <1>2 DEF Lost, Loosely, Has
<1>6. LetGo' /\ Known' /\ FinalPass'
  BY <1>1, <1>2 DEF Common, LetGo, Running, Known, FinalPass
<1>7. AskedFor'
  <2>1. Counts(job.id)' = Counts(job.id)
    BY <1>1, <1>2 DEF CountsStay, Common, TypeOK
  <2> QED
    BY <1>1, <1>2, <2>1 DEF Common, AskedFor
<1> QED
  BY <1>1, <1>2, <1>3, <1>4, <1>5, <1>6, <1>7, StandsStill DEF Quiet

\* A card is inserted.
LEMMA InsertCardStep ==
  ASSUME IInv, InsertCard, InDoubt
  PROVE  IInv' /\ Quiet
<1>1. /\ UNCHANGED <<disk, volume, asked, pc, caller, ok, transaction, suspect, misread, job, result, jobs, faults, live,
                     recovery_pending, ready, needs_prepare, prepare_ok, hampered, outages>>
      /\ card' = TRUE /\ changed' = TRUE
  BY DEF InsertCard, readVars
<1>2. /\ Common /\ (~inDoubt' => ~inDoubt) /\ inDoubt' \in BOOLEAN
      /\ CountsStay /\ phase' = phase /\ tx' = tx /\ (There' <=> There) /\ (Clean' <=> Clean)
      /\ (ToPublish' <=> ToPublish) /\ (ToRemove' <=> ToRemove)
      /\ (Has({"remove"})' <=> Has({"remove"})) /\ (Has({"publish", "commit"})' <=> Has({"publish", "commit"}))
      /\ Strict => ~suspect /\ Past /\ Shape /\ At /\ Stuck /\ Settled
      /\ Mixed => suspect /\ Lost /\ Loosely
  BY <1>1, AsBefore
<1>3. TypeOK'
  BY <1>1, <1>2 DEF Common, TypeOK
<1>4. Strict => At' /\ Stuck' /\ Settled'
  BY <1>1, <1>2 DEF At, Stuck, Settled
<1>5. Mixed => Lost' /\ Loosely'
  BY <1>1, <1>2 DEF Lost, Loosely, Has
<1>6. LetGo' /\ Known' /\ FinalPass'
  BY <1>1, <1>2 DEF Common, LetGo, Running, Known, FinalPass
<1>7. AskedFor'
  <2>1. Counts(job.id)' = Counts(job.id)
    BY <1>1, <1>2 DEF CountsStay, Common, TypeOK
  <2> QED
    BY <1>1, <1>2, <2>1 DEF Common, AskedFor
<1> QED
  BY <1>1, <1>2, <1>3, <1>4, <1>5, <1>6, <1>7, StandsStill DEF Quiet

\* The power fails, and everything in memory is gone.
LEMMA PowerFailureStep ==
  ASSUME IInv, PowerFailure, InDoubt
  PROVE  IInv' /\ CountsStay /\ UNCHANGED <<job, asked, misread>> /\ result' = "idle"
<1>1. /\ UNCHANGED <<disk, volume, asked, caller, ok, suspect, misread, hampered, job, jobs, faults>>
      /\ pc' = "off" /\ result' = "idle" /\ needs_prepare' = FALSE /\ prepare_ok' = FALSE /\ ready' = FALSE
      /\ recovery_pending' = FALSE /\ live' = [a \in Apps |-> 0] /\ changed' = TRUE /\ card' \in {FALSE, card}
      /\ outages < MaxOutages /\ outages' = outages + 1 /\ transaction' = NoJournal
  BY DEF PowerFailure, Outage
<1>2. Common
  BY Both
<1>3. /\ phase' = phase /\ tx' = tx /\ (There' <=> There) /\ (Clean' <=> Clean)
      /\ (Has({"remove"})' <=> Has({"remove"})) /\ (Has({"publish", "commit"})' <=> Has({"publish", "commit"}))
  BY <1>1 DEF phase, tx, There, Clean, Has
<1>4. (\A a \in Apps : live'[a] = 0) /\ NoJournal \in Transaction
  BY <1>1 DEF Transaction
<1>5. Has({"publish", "commit"}) \/ Has({"remove"}) => tx \in Apps
  BY <1>2, Facts DEF Common, Has, Past, Phases
<1>6. Past' /\ Everyone' /\ Lives' /\ Caches'
  BY <1>1, <1>2, <1>3, <1>4, <1>5 DEF Common, Past, Everyone, Lives, Caches, CacheIsOwn
<1>7. CountsStay /\ (ToPublish' <=> ToPublish) /\ (ToRemove' <=> ToRemove)
  BY <1>1, <1>3 DEF ToPublish, ToRemove, CountsStay, Counts
<1>8. inDoubt' \in BOOLEAN /\ (~inDoubt' => ~inDoubt)
  <2>1. (inDoubt \/ WrittenInDoubt) \in BOOLEAN
    OBVIOUS
  <2> QED
    BY <2>1 DEF InDoubt
<1>9. TypeOK'
  <2>1. outages' \in 0 .. MaxOutages
    BY <1>1, <1>2, InstallerAssumption DEF Common, TypeOK, InstallerAssumption
  <2>2. live' \in [Apps -> 0 .. MaxVersion]
    BY <1>1, InstallerAssumption DEF InstallerAssumption
  <2>3. card' \in BOOLEAN
    BY <1>1, <1>2 DEF Common, TypeOK
  <2> QED
    BY <1>1, <1>2, <1>4, <1>8, <2>1, <2>2, <2>3 DEF Common, TypeOK, Points
<1>10. LetGo'
  BY <1>1 DEF LetGo, Running, Resting, Passing, Recovering, Returned
<1>11. Known' /\ AskedFor' /\ FinalPass'
  BY <1>1, <1>2, <1>3, <1>4, <1>5, <1>8
     DEF Common, Known, AskedFor, FinalPass, Resting, Passing, Recovering, Returned
<1>12. CASE Strict
  <2>1. Young /\ Shape /\ Owed
    BY <1>12 DEF Strict, DiskInv
  <2>2. Young' /\ Shape' /\ Owed'
    BY <1>1, <1>3, <1>7, <2>1 DEF Young, Shape, Clean, Owed
  <2>3. At' /\ Stuck' /\ Settled'
    BY <1>1 DEF At, Recovering, Stuck, Settled, Resting
  <2> QED
    BY <1>1, <1>6, <1>7, <1>9, <1>10, <1>11, <1>12, <2>2, <2>3 DEF IInv, Strict, PcInv, DiskInv
<1>13. CASE Mixed
  <2>1. Body'
    BY <1>1, <1>3, <1>13 DEF Mixed, Blurred, Body, Has
  <2>2. Lost' /\ Loosely'
    BY <1>1, <1>3, <1>13 DEF Mixed, Lost, Loosely, Recovering, Resting, NoJournal
  <2> QED
    BY <1>1, <1>6, <1>7, <1>9, <1>10, <1>11, <1>13, <2>1, <2>2 DEF IInv, Mixed, Blurred
<1> QED
  BY <1>12, <1>13 DEF IInv

\* The recovery at the boot, and that of a card that was inserted.
LEMMA BootStep ==
  ASSUME IInv, Boot \/ start_card_recovery, InDoubt
  PROVE  IInv' /\ Quiet
<1>1. /\ UNCHANGED <<disk, volume, card, changed, asked, ok, transaction, suspect, misread, job, jobs, result,
                     needs_prepare, prepare_ok, ready, live, faults, outages>>
      /\ recovery_pending' = recovery_pending \/ recovery_pending' = FALSE
      /\ pc \in {"idle", "off"}
      /\ \/ pc' = "recover" /\ caller' \in {"boot", "card"} /\ hampered' = FALSE
         \/ pc' = "idle" /\ UNCHANGED <<caller, hampered>>
  <2>1. CASE Boot
    BY <2>1 DEF Boot, Recover, Goto, readVars
  <2>2. CASE start_card_recovery
    BY <2>2 DEF start_card_recovery, Recover, Goto, readVars
  <2> QED
    BY <2>1, <2>2
<1>2. /\ Common /\ (~inDoubt' => ~inDoubt) /\ inDoubt' \in BOOLEAN
      /\ CountsStay /\ phase' = phase /\ tx' = tx /\ (There' <=> There) /\ (Clean' <=> Clean)
      /\ (ToPublish' <=> ToPublish) /\ (ToRemove' <=> ToRemove)
      /\ (Has({"remove"})' <=> Has({"remove"})) /\ (Has({"publish", "commit"})' <=> Has({"publish", "commit"}))
      /\ Strict => ~suspect /\ Past /\ Shape /\ At /\ Stuck /\ Settled
      /\ Mixed => suspect /\ Lost /\ Loosely
  BY <1>1, AsBefore
<1>3. TypeOK'
  <2>1. pc' \in Points
    BY <1>1 DEF Points, Recovering
  <2>2. hampered' \in BOOLEAN
    BY <1>1, <1>2 DEF Common, TypeOK
  <2>3. caller' \in {"boot", "card", "first", "final", "discard"}
    BY <1>1, <1>2 DEF Common, TypeOK
  <2>4. recovery_pending' \in BOOLEAN
    BY <1>1, <1>2 DEF Common, TypeOK
  <2> QED
    BY <1>1, <1>2, <2>1, <2>2, <2>3, <2>4 DEF Common, TypeOK
<1>4. Strict => At' /\ Stuck' /\ Settled'
  BY <1>1, <1>2 DEF At, Recovering, Stuck, Settled, Resting
<1>5. Mixed => Lost' /\ Loosely'
  BY <1>1, <1>2 DEF Lost, Loosely, Recovering, Resting
<1>6. LetGo'
  BY <1>1, <1>2 DEF LetGo, Running, Passing, Recovering, Returned
<1>7. Known' /\ AskedFor' /\ FinalPass'
  <2>1. pc = "off" => ~ready
    BY <1>2 DEF IInv, Settled, Lost
  <2> QED
    BY <1>1, <1>2, <2>1 DEF Common, Known, AskedFor, FinalPass, Resting, Passing, Recovering, Returned
<1> QED
  BY <1>1, <1>2, <1>3, <1>4, <1>5, <1>6, <1>7, StandsStill DEF Quiet

\* A loaded application writes its cache.
LEMMA UseCacheStep ==
  ASSUME IInv, NEW a \in Apps, UseCache(a), InDoubt
  PROVE  IInv' /\ Quiet
<1>1. Common
  BY Both
<1>2. /\ UNCHANGED <<volume, card, changed, result, job, needs_prepare, prepare_ok, jobs, ready, recovery_pending, live,
                     pc, caller, ok, transaction, suspect, misread, hampered, faults, asked, outages>>
      /\ pc \in {"idle", "wait", "finish"} /\ live[a] # 0 /\ disk' = [disk EXCEPT !.cache[a] = live[a]]
  BY DEF UseCache, readVars
<1>3. disk \in Disk
  BY <1>1 DEF Common, TypeOK
<1>4. /\ disk'.dest = disk.dest /\ disk'.staging = disk.staging /\ disk'.backup = disk.backup
      /\ disk'.removing = disk.removing /\ disk'.journal = disk.journal /\ disk'.earlier = disk.earlier
      /\ disk'.cache = [disk.cache EXCEPT ![a] = live[a]]
  BY <1>2, <1>3 DEF Disk
<1>5. disk' \in Disk /\ \A b \in Apps : disk'.cache[b] = IF b = a THEN live[a] ELSE disk.cache[b]
  <2>1. live[a] \in 0 .. MaxVersion
    BY <1>1 DEF Common, TypeOK
  <2>2. /\ disk'.cache \in [Apps -> 0 .. MaxVersion]
        /\ \A b \in Apps : disk'.cache[b] = IF b = a THEN live[a] ELSE disk.cache[b]
    BY <1>1, <1>4, <2>1, Facts DEF Common
  <2> QED
    BY <1>2, <1>3, <1>4, <2>2 DEF Disk
<1>6. /\ phase' = phase /\ tx' = tx /\ (There' <=> There) /\ (Clean' <=> Clean)
      /\ (Has({"remove"})' <=> Has({"remove"})) /\ (Has({"publish", "commit"})' <=> Has({"publish", "commit"}))
  BY <1>4 DEF phase, tx, There, Clean, Has
<1>7. (phase \in Phases => tx \in Apps) /\ (phase \in {"publish", "commit"} => Has({"publish", "commit"}))
  BY <1>1, Facts DEF Common, Has
<1>8. Past' /\ Everyone' /\ Lives' /\ CountsStay /\ (ToPublish' <=> ToPublish) /\ (ToRemove' <=> ToRemove)
  BY <1>1, <1>2, <1>4, <1>6 DEF Common, Past, Everyone, Lives, CountsStay, Counts, ToPublish, ToRemove
<1>9. Caches'
  BY <1>1, <1>2, <1>4, <1>5, <1>6, <1>7 DEF Common, Caches, CacheIsOwn, Lives, Phases
<1>11. inDoubt' \in BOOLEAN /\ (~inDoubt' => ~inDoubt)
  <2>1. (inDoubt \/ WrittenInDoubt) \in BOOLEAN
    OBVIOUS
  <2> QED
    BY <2>1 DEF InDoubt
<1>12. TypeOK'
  BY <1>1, <1>2, <1>5, <1>11 DEF Common, TypeOK
<1>13. LetGo' /\ Known' /\ FinalPass'
  BY <1>1, <1>2, <1>4, <1>6, <1>11 DEF Common, LetGo, Running, Known, FinalPass
<1>14. AskedFor'
  BY <1>1, <1>2 DEF Common, AskedFor, Passing, Recovering, Returned
<1>15. CASE Strict
  <2>1. Young /\ Shape /\ Owed /\ At /\ Stuck /\ Settled
    BY <1>15 DEF Strict, DiskInv, PcInv
  <2>2. Young' /\ Shape' /\ Owed'
    BY <1>2, <1>4, <1>6, <1>8, <2>1 DEF Young, Shape, Clean, Owed
  <2>3. At' /\ Stuck' /\ Settled'
    BY <1>2, <1>4, <1>6, <2>1 DEF At, Recovering, Stuck, Settled
  <2> QED
    BY <1>2, <1>8, <1>9, <1>12, <1>13, <1>14, <1>15, <2>2, <2>3 DEF IInv, Strict, PcInv, DiskInv, Quiet
<1>16. CASE Mixed
  <2>1. Body'
    BY <1>4, <1>6, <1>16 DEF Mixed, Blurred, Body, Has
  <2>2. Lost' /\ Loosely'
    BY <1>2, <1>6, <1>16 DEF Mixed, Lost, Loosely, Recovering
  <2> QED
    BY <1>2, <1>8, <1>9, <1>12, <1>13, <1>14, <1>16, <2>1, <2>2 DEF IInv, Mixed, Blurred, Quiet
<1> QED
  BY <1>15, <1>16 DEF IInv

\* A job is asked for.
LEMMA JobStep ==
  ASSUME IInv, NEW j \in [id : Apps, ver : 0 .. MaxVersion], app_installer_start(j), InDoubt
  PROVE  IInv' /\ CountsStay /\ Store!Request(j)
<1>0. Strict
  <2>1. pc = "idle" /\ ready
    BY DEF app_installer_start
  <2> QED
    BY <2>1, Both DEF IInv, Resting
<1>1. TypeOK /\ Past /\ Young /\ Shape /\ Lives /\ Caches /\ Owed /\ At /\ Stuck /\ Settled /\ LetGo /\ Known /\ AskedFor
      /\ FinalPass /\ ~suspect
  BY <1>0 DEF Strict, PcInv, DiskInv
<1>2. /\ UNCHANGED <<disk, volume, card, changed, ready, recovery_pending, live, transaction, suspect, misread, hampered,
                     faults, outages>>
      /\ pc = "idle" /\ result # "running" /\ ready /\ jobs < MaxJobs /\ jobs' = jobs + 1
      /\ job' = j /\ result' = "running" /\ needs_prepare' = TRUE /\ prepare_ok' = FALSE /\ pc' = "wait"
      /\ ok' = FALSE /\ asked' = asked \cup {j} /\ caller' = "first"
      /\ j.ver = 0 => Whole(disk.dest[j.id], j.id)
  BY DEF app_installer_start, app_installer_busy, readVars
<1>3. /\ phase' = phase /\ tx' = tx /\ (There' <=> There)
      /\ (Has({"remove"})' <=> Has({"remove"})) /\ (Has({"publish", "commit"})' <=> Has({"publish", "commit"}))
  BY <1>2 DEF phase, tx, There, Has
<1>4. phase \in {"none", "torn", "copy", "remove"} /\ Clean
  BY <1>1, <1>2 DEF Settled, Resting
<1>5. Past' /\ Young' /\ Shape' /\ Lives' /\ Caches'
  BY <1>1, <1>2, <1>3 DEF Past, Young, Shape, Clean, Lives, Caches, CacheIsOwn
<1>6. CountsStay
  BY <1>2, <1>3 DEF CountsStay, Counts
<1>7. Owed'
  <2>1. phase = "remove" /\ ~There => j # [id |-> tx, ver |-> 0]
    BY <1>2, InstallerAssumption DEF There, Whole, NoDir, Version, InstallerAssumption
  <2> QED
    BY <1>1, <1>2, <1>3, <1>4, <2>1 DEF Owed, ToPublish, ToRemove
<1>8. inDoubt' \in BOOLEAN /\ (~inDoubt' => ~inDoubt)
  <2>1. (inDoubt \/ WrittenInDoubt) \in BOOLEAN
    OBVIOUS
  <2> QED
    BY <2>1 DEF InDoubt
<1>9. TypeOK'
  <2>1. jobs' \in 0 .. MaxJobs
    BY <1>1, <1>2, InstallerAssumption DEF TypeOK, InstallerAssumption
  <2>2. asked' \subseteq [id : Apps, ver : 0 .. MaxVersion]
    BY <1>1, <1>2 DEF TypeOK
  <2> QED
    BY <1>1, <1>2, <1>8, <2>1, <2>2 DEF TypeOK, Points
<1>10. At' /\ Stuck' /\ Settled'
  BY <1>1, <1>2, <1>3, <1>4 DEF At, Recovering, Stuck, Settled, Resting, Clean
<1>11. LetGo' /\ AskedFor'
  BY <1>2 DEF LetGo, Running, AskedFor, Passing, Recovering, Returned
<1>12. Known' /\ FinalPass'
  BY <1>1, <1>2, <1>3, <1>8 DEF Known, FinalPass, Resting, Passing, Recovering, Returned
<1>13. Store!Request(j)
  <2>1. [a \in Apps |-> Counts(a)]' = [a \in Apps |-> Counts(a)]
    BY <1>6 DEF CountsStay
  <2> QED
    BY <1>2, <2>1 DEF Store!Request
<1> QED
  BY <1>1, <1>2, <1>5, <1>6, <1>7, <1>9, <1>10, <1>11, <1>12, <1>13 DEF IInv, Strict, PcInv, DiskInv

\* The first state.
LEMMA InitHolds ==
  ASSUME Init
  PROVE  IInv /\ Store!Init
<1>1. PICK installed \in [Apps -> 0 .. MaxVersion] :
        disk = [dest |-> [a \in Apps |-> IF installed[a] = 0 THEN NoDir ELSE [id |-> a, ver |-> installed[a]]],
                staging |-> NoDir, backup |-> NoDir, removing |-> NoDir,
                cache |-> [a \in Apps |-> 0], journal |-> NoJournal, earlier |-> <<>>]
  BY DEF Init
<1>2. /\ disk.dest = [a \in Apps |-> IF installed[a] = 0 THEN NoDir ELSE [id |-> a, ver |-> installed[a]]]
      /\ Clean /\ disk.cache = [a \in Apps |-> 0] /\ disk.journal = NoJournal /\ phase = "none"
      /\ disk.earlier = <<>>
  BY <1>1 DEF Clean, phase, NoJournal
<1>3. \A a \in Apps : disk.dest[a] = IF installed[a] = 0 THEN NoDir ELSE [id |-> a, ver |-> installed[a]]
  BY <1>2
<1>4. ASSUME NEW a \in Apps
      PROVE  /\ disk.dest[a] = NoDir \/ Whole(disk.dest[a], a)
             /\ disk.dest[a] \in Dir /\ disk.dest[a].ver = installed[a]
  <2>1. installed[a] \in 0 .. MaxVersion
    BY <1>1
  <2>2. CASE installed[a] = 0
    <3>1. disk.dest[a] = NoDir
      BY <1>3, <2>2
    <3> QED
      BY <2>2, <3>1 DEF NoDir, Dir
  <2>3. CASE installed[a] # 0
    <3>1. disk.dest[a] = [id |-> a, ver |-> installed[a]]
      BY <1>3, <2>3
    <3>2. installed[a] \in Version
      BY <2>1, <2>3, InstallerAssumption DEF Version, InstallerAssumption
    <3> QED
      BY <3>1, <3>2 DEF Dir, Whole
  <2> QED
    BY <2>2, <2>3
<1>5. disk \in Disk
  <2>1. \A a \in Apps : disk.dest[a] \in Dir
    BY <1>4
  <2>2. disk.dest \in [Apps -> Dir] /\ NoDir \in Dir /\ NoJournal \in Transaction
    BY <1>2, <2>1 DEF Dir, Transaction
  <2>3. disk.cache \in [Apps -> 0 .. MaxVersion]
    BY <1>2, InstallerAssumption DEF InstallerAssumption
  <2>4. <<>> \in Seq(Transaction)
    OBVIOUS
  <2> QED
    BY <1>1, <2>2, <2>3, <2>4 DEF Disk
<1>6. /\ pc = "off" /\ caller = "boot" /\ ok = FALSE /\ hampered = FALSE /\ inDoubt = FALSE /\ asked = {}
      /\ result = "idle" /\ ready = FALSE /\ needs_prepare = FALSE /\ prepare_ok = FALSE
      /\ job \in [id : Apps, ver : 0 .. MaxVersion] /\ live = [a \in Apps |-> 0]
      /\ transaction = NoJournal /\ suspect = FALSE /\ misread = {}
  <2>1. [id : Apps, ver : {0}] \subseteq [id : Apps, ver : 0 .. MaxVersion]
    BY InstallerAssumption DEF InstallerAssumption
  <2> QED
    BY <2>1 DEF Init
<1>7. TypeOK
  <2>1. live \in [Apps -> 0 .. MaxVersion] /\ jobs \in 0 .. MaxJobs /\ faults \in 0 .. MaxFaults
        /\ outages \in 0 .. MaxOutages
    BY <1>6, InstallerAssumption DEF Init, InstallerAssumption
  <2> QED
    BY <1>5, <1>6, <2>1 DEF TypeOK, Init, Points, Transaction
<1>8. Shape
  <2>1. \A a \in Apps : disk.dest[a] = NoDir \/ Whole(disk.dest[a], a)
    BY <1>4
  <2> QED
    BY <1>2, <2>1 DEF Shape
<1>9. Past /\ Young /\ ~Has({"publish", "commit"}) /\ ~Has({"remove"})
  <2>1. DOMAIN disk.earlier = {}
    BY <1>2
  <2> QED
    BY <1>2, <2>1 DEF Past, Young, Has
<1>10. Lives /\ Caches /\ Owed
  BY <1>2, <1>3, <1>6, <1>9 DEF Lives, Caches, CacheIsOwn, Owed, ToPublish, ToRemove
<1>11. At /\ Stuck /\ Settled /\ LetGo
  BY <1>2, <1>6 DEF At, Stuck, Settled, LetGo, Running, Resting, Passing, Recovering, Returned
<1>12. Known /\ AskedFor /\ FinalPass
  BY <1>2, <1>6, <1>9 DEF Known, AskedFor, FinalPass, Passing, Recovering, Returned
<1>13. Store!Init
  <2>1. ASSUME NEW a \in Apps
        PROVE  Counts(a) \in 0 .. MaxVersion
    <3>1. Counts(a) = disk.dest[a].ver
      BY <1>2 DEF Counts, Clean
    <3>2. disk.dest[a].ver = installed[a]
      BY <1>4
    <3>3. installed[a] \in 0 .. MaxVersion
      BY <1>1
    <3> QED
      BY <3>1, <3>2, <3>3
  <2> QED
    BY <1>6, <2>1 DEF Store!Init, Store!Job
<1> QED
  BY <1>6, <1>7, <1>8, <1>9, <1>10, <1>11, <1>12, <1>13 DEF IInv, Strict, PcInv, DiskInv
-----------------------------------------------------------------------------
\* The steps of a pass once the journal has passed for a shorter one.

\* What holds of the volume when the journal is taken for what it is holds of it
\* when it is not, from then on.
LEMMA BodyHolds ==
  ASSUME IInv
  PROVE  Common /\ Body
<1>1. Common
  BY Both
<1>2. CASE Strict
  <2>1. Young /\ Shape /\ phase \in Phases \cup {"none", "torn"}
    BY <1>2, Facts DEF Strict, DiskInv
  <2>2. Has({"commit"}) => phase = "commit"
    BY <2>1 DEF Young, Has
  <2> QED
    BY <1>1, <2>1, <2>2 DEF Body, Shape, Clean, Phases, Removal, Whole
<1>3. CASE Mixed
  BY <1>1, <1>3 DEF Mixed, Blurred
<1> QED
  BY <1>2, <1>3 DEF IInv

\* A step of the thread that touches at most an application that is misread.
LEMMA Drifts ==
  ASSUME Common, Thread, Works \/ Fails, InDoubt,
         pc \in Recovering \cup {"savePublish"},
         pc' \in IF pc = "savePublish" THEN {"final", "reject"} ELSE Recovering \cup {"false"},
         transaction' \in Transaction, suspect' = TRUE, misread \subseteq misread', misread' \subseteq Apps,
         disk' \in Disk, Past', Everyone', Lives', Caches', Body', Lost', Loosely',
         Has({"remove"})' => Has({"remove"}) /\ tx' = tx,
         Quiet \/ \E id \in Apps : id \in misread' /\ Strays(id),
         pc # "savePublish" /\ caller = "final" => job.id \in misread'
  PROVE  Mixed'
<1>1. UNCHANGED <<live, ready, job, result, caller, ok, needs_prepare, prepare_ok>>
  BY DEF Thread
<1>2. inDoubt' \in BOOLEAN /\ (~inDoubt' => ~inDoubt)
  <2>1. (inDoubt \/ WrittenInDoubt) \in BOOLEAN
    OBVIOUS
  <2> QED
    BY <2>1 DEF InDoubt
<1>3. /\ asked' \subseteq asked
      /\ job.id \notin misread' => /\ job \in asked => job \in asked'
                                   /\ Counts(job.id)' = Counts(job.id)
  BY DEF Quiet, CountsStay, Strays, Common, TypeOK
<1>4. TypeOK'
  <2>1. pc' \in Recovering \cup {"false", "final", "reject"}
    OBVIOUS
  <2>2. pc' \in Points
    BY <2>1 DEF Points, Returned
  <2> QED
    BY <1>2, <1>3, <2>2, ThreadTypes DEF Common
<1>5. pc \in Passing \cup {"savePublish"} /\ pc' \in Recovering \cup {"false", "final", "reject"}
  BY DEF Passing
<1>6. pc' \notin Resting \cup {"off", "check", "saveRemove", "saveCopy", "copy", "copying", "savePublish"}
  BY <1>5 DEF Resting, Recovering
<1>7. LetGo'
  <2>1. Running' => Running
    BY <1>1, <1>5 DEF Running, Passing, Recovering, Returned
  <2>2. pc \notin {"wait", "finish"}
    BY <1>5 DEF Passing, Recovering, Returned
  <2> QED
    BY <1>1, <1>6, <2>1, <2>2 DEF Common, LetGo, Resting
<1>8. Known'
  BY <1>1, <1>2, <1>6 DEF Common, Known
<1>9. AskedFor'
  <2>1. ASSUME job.id \notin misread'
        PROVE  /\ ok => job \notin asked'
               /\ pc' \in Passing /\ caller = "first" => job \in asked' \/ Counts(job.id)' = job.ver
    <3>1. job.id \notin misread
      BY <2>1
    <3>2. pc' \in Passing => pc \in Passing
      BY <1>5 DEF Passing, Recovering, Returned
    <3> QED
      BY <1>3, <2>1, <3>1, <3>2 DEF Common, AskedFor
  <2> QED
    BY <1>1, <1>6, <2>1 DEF AskedFor, Resting
<1>10. FinalPass'
  BY <1>1, <1>5 DEF FinalPass, Passing, Recovering, Returned
<1> QED
  BY <1>4, <1>7, <1>8, <1>9, <1>10 DEF Mixed, Blurred

\* What becomes of the application of the transaction, and of no other one.
LEMMA Touched ==
  ASSUME TypeOK, NEW id \in Apps, tx \in {id, NoApp}, tx' \in {id, NoApp}, disk' \in Disk, Everyone', Body',
         \A a \in Apps : a # id => disk'.dest[a] = disk.dest[a],
         misread' = misread \cup {id}, asked' \subseteq asked, \A j \in asked \ asked' : j.id = id,
         UNCHANGED <<result, job>>
  PROVE  id \in misread' /\ Strays(id)
<1>1. NoApp \notin Apps
  BY InstallerAssumption DEF InstallerAssumption
<1>2. \A a \in Apps : a # id => Counts(a)' = Counts(a)
  BY <1>1 DEF Counts
<1>3. Counts(id)' \in 0 .. MaxVersion
  <2>1. \A v \in Version : v \in 0 .. MaxVersion
    BY InstallerAssumption DEF Version, InstallerAssumption
  <2>2. CASE disk'.dest[id] # NoDir
    BY <2>1, <2>2 DEF Counts, Everyone, Whole
  <2>3. CASE disk'.dest[id] = NoDir /\ disk'.backup # NoDir /\ tx' = id
    <3>1. phase' \in Phases
      BY <1>1, <2>3 DEF Disk, Transaction, NoJournal, NoRecord, tx, phase
    <3> QED
      BY <2>1, <2>3, <3>1 DEF Counts, Body, There
  <2>4. CASE disk'.dest[id] = NoDir /\ ~(disk'.backup # NoDir /\ tx' = id)
    <3>1. Counts(id)' = 0
      BY <2>4 DEF Counts, NoDir
    <3> QED
      BY <3>1, InstallerAssumption DEF InstallerAssumption
  <2> QED
    BY <2>2, <2>3, <2>4
<1> QED
  BY <1>2, <1>3 DEF Strays

\* A record goes behind some of those there are, over one of them, or cuts them off.
Rewritten(record) ==
  \/ disk' = disk
  \/ \E e : Behind(e) /\ disk' = Recorded(e, record)
  \/ \E n \in Short : disk' \in {Written(n, record), Cut(n)}

\* What is in the journal then was there before, or is the record.
RecordsKept(id, to) ==
  /\ disk' \in Disk /\ disk'.dest = disk.dest /\ disk'.staging = disk.staging /\ disk'.backup = disk.backup
  /\ disk'.removing = disk.removing /\ disk'.cache = disk.cache
  /\ Past' /\ \A P : Has(P)' => Has(P) \/ to \in P
  /\ phase' \in Phases \cup {"torn"} /\ tx' \in {id, NoApp}
  /\ phase' \in Phases => tx' = id /\ (phase' \in Removal <=> phase \in Removal)
  /\ phase' \notin Phases => disk'.earlier = <<>>

LEMMA RecordsOf ==
  ASSUME TypeOK, Past, phase \in Phases, NEW id \in Apps, tx = id, NEW to \in Phases,
         to \in Removal <=> phase \in Removal, Rewritten([id |-> id, phase |-> to])
  PROVE  /\ RecordsKept(id, to)
         /\ \/ \E e : Behind(e) /\ disk' = Recorded(e, [id |-> id, phase |-> to])
            \/ \E n \in Short : disk' = Written(n, [id |-> id, phase |-> to])
            => phase' \in Phases /\ Has({to})'
<1> DEFINE record == [id |-> id, phase |-> to]
<1>1. /\ disk \in Disk /\ disk.earlier \in Seq(Transaction) /\ Len(disk.earlier) \in Nat
      /\ DOMAIN disk.earlier = 1 .. Len(disk.earlier) /\ disk.journal \in Transaction /\ record \in Transaction
      /\ disk.journal = [id |-> id, phase |-> phase] /\ record.id = id /\ record.phase = to
      /\ disk.journal # NoRecord /\ disk.journal # NoJournal
  BY Earlier, Facts DEF TypeOK, Transaction, Phases, NoRecord, NoJournal
<1>2. ASSUME disk' = disk
      PROVE  RecordsKept(id, to)
  <2>1. phase' = phase /\ tx' = tx
    BY <1>2 DEF phase, tx
  <2>2. Past' /\ disk' \in Disk
    BY <1>1, <1>2, <2>1 DEF Past
  <2>3. ASSUME NEW P, Has(P)'
        PROVE  Has(P) \/ to \in P
    BY <1>2, <2>1, <2>3 DEF Has
  <2> QED
    BY <1>2, <2>1, <2>2, <2>3 DEF RecordsKept
<1>3. ASSUME NEW e, Behind(e), disk' = Recorded(e, record)
      PROVE  RecordsKept(id, to) /\ phase' \in Phases /\ Has({to})'
  <2>1. /\ disk' \in Disk /\ disk'.dest = disk.dest /\ disk'.staging = disk.staging /\ disk'.backup = disk.backup
        /\ disk'.removing = disk.removing /\ disk'.cache = disk.cache
        /\ disk'.earlier = e /\ disk'.journal = record
    BY <1>1, <1>3 DEF Behind, Recorded, Disk
  <2>2. phase' = to /\ tx' = id
    BY <1>1, <2>1 DEF phase, tx
  <2>3. record \in [id : Apps, phase : Phases]
    OBVIOUS
  <2>4. Past'
    BY <1>1, <1>3, <2>1, <2>3, PastGoesOn
  <2>5. ASSUME NEW P, Has(P)'
        PROVE  Has(P) \/ to \in P
    <3>1. CASE phase' \in P
      BY <2>2, <3>1
    <3>2. ASSUME NEW m \in DOMAIN e, e[m].phase \in P
          PROVE  Has(P)
      <4>1. CASE m \in DOMAIN disk.earlier /\ e[m] = disk.earlier[m]
        BY <3>2, <4>1 DEF Has
      <4>2. CASE e[m] = disk.journal
        BY <1>1, <3>2, <4>2 DEF Has
      <4> QED
        BY <1>3, <4>1, <4>2 DEF Behind
    <3> QED
      BY <2>1, <2>5, <3>1, <3>2 DEF Has
  <2> QED
    BY <2>1, <2>2, <2>4, <2>5 DEF RecordsKept, Has
<1>4. ASSUME NEW n \in Short, n # Len(disk.earlier), disk' = Written(n, record)
      PROVE  RecordsKept(id, to) /\ phase' \in Phases /\ Has({to})'
  <2>1. n \in 1 .. Len(disk.earlier) /\ n + 1 \in DOMAIN disk.earlier /\ n + 1 # 1
    BY <1>1, <1>4 DEF Short
  <2>2. disk' = [disk EXCEPT !.earlier = [disk.earlier EXCEPT ![n + 1] = record]]
    BY <1>4 DEF Written
  <2>3. [disk.earlier EXCEPT ![n + 1] = record] \in Seq(Transaction)
    BY <1>1, <2>1
  <2>4. /\ disk' \in Disk /\ disk'.dest = disk.dest /\ disk'.staging = disk.staging /\ disk'.backup = disk.backup
        /\ disk'.removing = disk.removing /\ disk'.cache = disk.cache
        /\ disk'.earlier = [disk.earlier EXCEPT ![n + 1] = record] /\ disk'.journal = disk.journal
    BY <1>1, <2>2, <2>3 DEF Disk
  <2>5. phase' = phase /\ tx' = id
    BY <1>1, <2>4 DEF phase, tx
  <2>6. /\ DOMAIN disk'.earlier = DOMAIN disk.earlier
        /\ \A m \in DOMAIN disk.earlier : disk'.earlier[m] = IF m = n + 1 THEN record ELSE disk.earlier[m]
    BY <1>1, <2>1, <2>4
  <2>7. Past'
    BY <1>1, <2>1, <2>5, <2>6 DEF Past
  <2>8. ASSUME NEW P, Has(P)'
        PROVE  Has(P) \/ to \in P
    BY <1>1, <2>5, <2>6, <2>8 DEF Has
  <2>9. Has({to})'
    BY <1>1, <2>1, <2>6 DEF Has
  <2> QED
    BY <2>4, <2>5, <2>7, <2>8, <2>9 DEF RecordsKept
<1>5. ASSUME NEW n \in Short, disk' = Cut(n)
      PROVE  RecordsKept(id, to)
  <2>1. n \in 1 .. Len(disk.earlier)
    BY <1>1, <1>5 DEF Short
  <2>2. /\ SubSeq(disk.earlier, 1, n - 1) \in Seq(Transaction) /\ Len(SubSeq(disk.earlier, 1, n - 1)) = n - 1
        /\ \A m \in 1 .. n - 1 : SubSeq(disk.earlier, 1, n - 1)[m] = disk.earlier[m]
    BY <1>1, <2>1
  <2>3. disk.earlier[n] \in Transaction
    BY <1>1, <2>1
  <2>4. /\ disk' \in Disk /\ disk'.dest = disk.dest /\ disk'.staging = disk.staging /\ disk'.backup = disk.backup
        /\ disk'.removing = disk.removing /\ disk'.cache = disk.cache
        /\ disk'.earlier = SubSeq(disk.earlier, 1, n - 1) /\ disk'.journal = disk.earlier[n]
    BY <1>1, <1>5, <2>2, <2>3 DEF Disk, Cut, Recorded
  <2>5. DOMAIN disk'.earlier = 1 .. n - 1
    BY <2>2, <2>4
  <2>6. \/ n = 1 /\ disk.earlier[n] = NoRecord
        \/ /\ disk.earlier[n].id = id /\ disk.earlier[n].phase \in Phases
           /\ disk.earlier[n].phase \in Removal <=> phase \in Removal
    BY <1>1, <2>1 DEF Past
  <2>7. phase' = disk.earlier[n].phase /\ tx' = disk.earlier[n].id
    BY <2>4 DEF phase, tx
  <2>8. ASSUME NEW P, Has(P)'
        PROVE  Has(P) \/ to \in P
    <3>1. phase' \in P \/ \E m \in 1 .. n - 1 : disk.earlier[m].phase \in P
      BY <2>2, <2>4, <2>5, <2>8 DEF Has
    <3> QED
      BY <1>1, <2>1, <2>7, <3>1 DEF Has
  <2>9. CASE n = 1 /\ disk.earlier[n] = NoRecord
    <3>1. disk'.earlier = <<>>
      BY <2>2, <2>4, <2>9
    <3>2. phase' = "torn" /\ tx' = NoApp /\ phase' \notin Phases
      BY <2>7, <2>9 DEF NoRecord, Phases
    <3>3. Past'
      BY <2>5, <2>9 DEF Past
    <3> QED
      BY <2>4, <2>8, <3>1, <3>2, <3>3 DEF RecordsKept
  <2>10. CASE /\ disk.earlier[n].id = id /\ disk.earlier[n].phase \in Phases
              /\ disk.earlier[n].phase \in Removal <=> phase \in Removal
    <3>1. Past'
      BY <1>1, <2>1, <2>2, <2>4, <2>5, <2>7, <2>10 DEF Past
    <3> QED
      BY <2>4, <2>7, <2>8, <2>10, <3>1 DEF RecordsKept
  <2> QED
    BY <2>6, <2>9, <2>10
<1>6. ASSUME NEW n \in Short, disk' = Written(n, record)
      PROVE  RecordsKept(id, to) /\ phase' \in Phases /\ Has({to})'
  <2>1. CASE n = Len(disk.earlier)
    <3>1. Behind(disk.earlier) /\ Written(n, record) = Recorded(disk.earlier, record)
      BY <1>1, <2>1 DEF Behind, Written
    <3> QED
      BY <1>3, <1>6, <3>1
  <2>2. CASE n # Len(disk.earlier)
    BY <1>4, <1>6, <2>2
  <2> QED
    BY <2>1, <2>2
<1> QED
  BY <1>2, <1>3, <1>5, <1>6 DEF Rewritten

\* A journal rewritten so keeps what holds of the volume.
LEMMA Rewrites ==
  ASSUME Common, Body, NEW id \in Apps, tx = id, phase \in Phases, NEW mark \in Phases, mark # "remove",
         mark \in {"publish", "commit"} => live[id] = 0, mark = "commit" => disk.staging = NoDir,
         RecordsKept(id, mark), UNCHANGED live, misread' = misread \cup {id}
  PROVE  Everyone' /\ Lives' /\ Caches' /\ Body' /\ (Has({"remove"})' => Has({"remove"}) /\ tx' = tx)
<1>1. /\ disk'.dest = disk.dest /\ disk'.staging = disk.staging /\ disk'.backup = disk.backup
      /\ disk'.removing = disk.removing /\ disk'.cache = disk.cache
      /\ \A P : Has(P)' => Has(P) \/ mark \in P
      /\ phase' \in Phases \cup {"torn"} /\ tx' \in {id, NoApp}
      /\ phase' \in Phases => tx' = id /\ (phase' \in Removal <=> phase \in Removal)
      /\ phase' \notin Phases => disk'.earlier = <<>>
  BY DEF RecordsKept
<1>2. Everyone /\ Lives /\ Caches /\ NoApp \notin Apps
  BY InstallerAssumption DEF Common, InstallerAssumption
<1>3. ASSUME NEW P, Has(P)', "torn" \notin P
      PROVE  phase' \in Phases
  <2>1. CASE phase' \in Phases
    BY <2>1
  <2>2. CASE phase' \notin Phases
    <3>1. DOMAIN disk'.earlier = {} /\ phase' = "torn"
      BY <1>1, <2>2
    <3> QED
      BY <1>3, <3>1 DEF Has
  <2> QED
    BY <2>1, <2>2
<1>4. Everyone'
  BY <1>1, <1>2 DEF Everyone
<1>5. Has({"remove"})' => Has({"remove"}) /\ tx' = tx
  BY <1>1, <1>3
<1>6. Has({"publish", "commit"})' => live'[tx'] = 0
  <2>1. Has({"publish", "commit"})' => live[id] = 0 /\ tx' = id
    BY <1>1, <1>2, <1>3 DEF Lives
  <2> QED
    BY <2>1
<1>7. Lives'
  BY <1>1, <1>2, <1>6 DEF Lives
<1>8. Caches'
  BY <1>1, <1>2 DEF Caches, CacheIsOwn, Phases
<1>9. Body'
  <2>1. Has({"commit"})' => disk'.staging = NoDir
    BY <1>1 DEF Body
  <2>2. phase' \in Phases => tx' = tx /\ (There' <=> There)
    BY <1>1 DEF There
  <2> QED
    BY <1>1, <2>1, <2>2 DEF Body
<1> QED
  BY <1>4, <1>5, <1>7, <1>8, <1>9

\* A save of a pass, or the last one of a job, with the journal passing for a shorter one.
LEMMA SavesLoosely ==
  ASSUME IInv, suspect', NEW from \in {"saveUndo", "saveCommit", "saveRemoved", "savePublish"}, NEW to, NEW failed,
         to # failed, NEW id \in Apps, tx = id, phase \in Phases, NEW mark \in Phases, mark # "remove",
         mark \in Removal <=> phase \in Removal, mark \in {"publish", "commit"} => live[id] = 0,
         mark = "commit" => disk.staging = NoDir, save_transaction(from, to, failed, [id |-> id, phase |-> mark])
  PROVE  /\ RecordsKept(id, mark) /\ Everyone' /\ Lives' /\ Caches' /\ Body'
         /\ Has({"remove"})' => Has({"remove"}) /\ tx' = tx
         /\ misread' = misread \cup {id} /\ suspect' = TRUE /\ transaction' = [id |-> id, phase |-> mark]
         /\ Thread /\ (Works \/ Fails) /\ pc = from /\ pc' \in {to, failed}
         /\ pc' = to => phase' \in Phases /\ tx' = id /\ Has({mark})'
         /\ id \in misread' /\ Strays(id)
<1> DEFINE record == [id |-> id, phase |-> mark]
<1>1. Common /\ Body /\ TypeOK /\ Past
  BY BodyHolds DEF Common
<1>2. Saving = disk
  BY DEF Saving, phase, NoJournal, Phases
<1>3. \E e : Behind(e) /\ Appended(record) = Recorded(e, record)
  BY <1>1, RecordAfter
<1>4. Thread /\ asked' = asked /\ pc = from /\ pc' \in {to, failed} /\ (Works \/ Fails) /\ transaction' = record
  BY <1>2 DEF save_transaction, Goto
<1>5. /\ Rewritten(record)
      /\ pc' = to => \/ \E e : Behind(e) /\ disk' = Recorded(e, record)
                     \/ \E n \in Short : disk' = Written(n, record)
  BY <1>2, <1>3 DEF save_transaction, Goto, Rewritten
<1>6. RecordsKept(id, mark) /\ (pc' = to => phase' \in Phases /\ Has({mark})')
  BY <1>1, <1>5, RecordsOf
<1>7. suspect' = TRUE /\ misread' = misread \cup {id}
  <2>1. \/ UNCHANGED <<suspect, misread>>
        \/ suspect' = TRUE /\ misread' = misread \cup {tx}
    BY <1>2 DEF save_transaction, Mistaken
  <2>2. CASE UNCHANGED <<suspect, misread>>
    <3>1. Mixed
      BY <2>2 DEF IInv, Strict
    <3>2. suspect = TRUE /\ tx \in misread \cup {NoApp} /\ NoApp \notin Apps
      BY <3>1, InstallerAssumption DEF Mixed, Lost, TypeOK, InstallerAssumption
    <3> QED
      BY <2>2, <3>2
  <2> QED
    BY <2>1, <2>2
<1>8. live' = live /\ UNCHANGED <<result, job>>
  BY <1>4 DEF Thread
<1>9. Everyone' /\ Lives' /\ Caches' /\ Body' /\ (Has({"remove"})' => Has({"remove"}) /\ tx' = tx)
  BY <1>1, <1>6, <1>7, <1>8, Rewrites
<1>10. id \in misread' /\ Strays(id)
  BY <1>1, <1>4, <1>6, <1>7, <1>8, <1>9, Touched DEF RecordsKept
<1>11. pc' = to => tx' = id
  BY <1>6 DEF RecordsKept
<1> QED
  BY <1>4, <1>6, <1>7, <1>9, <1>10, <1>11

\* A record of the journal is one of an installation, or all of them are of a removal.
LEMMA Parity ==
  ASSUME Past, NEW to \in Phases, Has({to})
  PROVE  (to \in Removal <=> phase \in Removal) /\ phase \in Phases
<1>1. CASE phase = to
  BY <1>1
<1>2. ASSUME NEW n \in DOMAIN disk.earlier, disk.earlier[n].phase = to
      PROVE  (to \in Removal <=> phase \in Removal) /\ phase \in Phases
  <2>1. disk.earlier[n] # NoRecord
    BY <1>2 DEF NoRecord, Phases
  <2> QED
    BY <1>2, <2>1 DEF Past
<1> QED
  BY <1>1, <1>2 DEF Has

\* What is at hand when a record is to be saved, whichever regime holds.
LEMMA LooselyAtHand ==
  ASSUME IInv, pc \in {"verify", "restore", "saveUndo", "keep", "publish", "saveCommit", "discard", "saveRemoved"}
  PROVE  /\ tx \in Apps /\ transaction.id = tx /\ phase \in Phases /\ transaction.phase \in Phases
         /\ Has({transaction.phase}) /\ (transaction.phase \in Removal <=> phase \in Removal)
         /\ pc \notin {"discard", "saveRemoved"} => transaction.phase = "publish" /\ live[tx] = 0
         /\ pc \in {"discard", "saveRemoved"} => transaction.phase = "remove"
         /\ pc \in {"verify", "restore", "saveUndo", "keep", "publish"} => disk.staging # NoDir
         /\ pc \in {"saveUndo", "keep"} => disk.backup = NoDir
         /\ pc = "saveCommit" => disk.staging = NoDir /\ There
         /\ caller = "final" => job.id \in misread \cup {tx}
<1>1. Common /\ Body /\ pc \in Recovering \ {"recover"} /\ pc \in Passing \ {"false"}
  BY BodyHolds DEF Recovering, Passing
<1>2. /\ phase \in Phases /\ transaction.phase \in Phases /\ transaction.id = tx /\ Has({transaction.phase})
      /\ pc \notin {"discard", "saveRemoved"} => transaction.phase = "publish"
      /\ pc \in {"discard", "saveRemoved"} => transaction.phase = "remove"
      /\ pc \in {"verify", "restore", "saveUndo", "keep", "publish"} => disk.staging # NoDir
      /\ pc \in {"saveUndo", "keep"} => disk.backup = NoDir
      /\ pc = "saveCommit" => disk.staging = NoDir /\ There
  <2>1. CASE Strict
    <3>1. At /\ Shape
      BY <2>1 DEF Strict, DiskInv, PcInv
    <3>2. transaction.id = tx /\ transaction.phase = phase
      BY <1>1, <2>1, AtHand
    <3> QED
      BY <3>1, <3>2 DEF At, Shape, Phases, Has
  <2>2. CASE Mixed
    <3>1. Loosely
      BY <2>2 DEF Mixed
    <3>2. transaction.phase \in {"publish", "remove"}
      BY <3>1 DEF Loosely
    <3>3. transaction # NoRecord
      BY <3>2 DEF NoRecord
    <3> QED
      BY <1>1, <3>1, <3>3 DEF Loosely
  <2> QED
    BY <2>1, <2>2 DEF IInv
<1>3. tx \in Apps
  BY <1>1, <1>2, Facts DEF Common
<1>4. transaction.phase \in Removal <=> phase \in Removal
  BY <1>1, <1>2, Parity DEF Common
<1>5. transaction.phase = "publish" => live[tx] = 0
  BY <1>1, <1>2 DEF Common, Lives, Has
<1>6. caller = "final" => job.id \in misread \cup {tx}
  <2>1. disk.journal # NoJournal
    BY <1>2 DEF phase, NoJournal, Phases
  <2> QED
    BY <1>1, <1>2, <2>1 DEF Common, FinalPass
<1> QED
  BY <1>2, <1>3, <1>4, <1>5, <1>6


-----------------------------------------------------------------------------
\* Steps of a pass with the journal mistaken, one by one.

\* What is read of the journal then, when a pass does not give up over it.
LEMMA PlanLoosely ==
  ASSUME Common, Body, UNCHANGED disk, NEW record \in Transaction, Plan(record, pc'), transaction' = record,
         \/ record = NoRecord
         \/ record.phase \in Phases /\ phase \in Phases /\ record.id = tx /\ Has({record.phase})
  PROVE  Loosely'
<1>1. /\ phase' = phase /\ tx' = tx /\ (There' <=> There) /\ (Clean' <=> Clean)
      /\ \A P : Has(P)' <=> Has(P)
  BY DEF phase, tx, There, Clean, Has
<1>2. record # NoJournal
  BY DEF NoJournal, NoRecord, Phases
<1>3. CASE record = NoRecord
  <2>1. pc' = "clearStaging" /\ disk.backup = NoDir /\ disk.removing = NoDir /\ record.phase = "torn"
    BY <1>2, <1>3 DEF Plan, NoRecord
  <2> QED
    BY <1>3, <2>1 DEF Loosely
<1>4. CASE record.phase \in Phases /\ phase \in Phases /\ record.id = tx /\ Has({record.phase})
  <2>1. record.phase \in Removal <=> phase \in Removal
    BY <1>4, Parity DEF Common
  <2>2. record # NoRecord
    BY <1>4 DEF NoRecord, Phases
  <2>3. \/ pc' = "clearStaging" /\ record.phase = "copy" /\ disk.backup = NoDir /\ disk.removing = NoDir
        \/ pc' = "verify" /\ record.phase = "publish" /\ disk.staging # NoDir
        \/ pc' = "saveCommit" /\ record.phase = "publish" /\ disk.staging = NoDir /\ There
        \/ pc' = "clearBackup" /\ record.phase = "commit" /\ There
        \/ pc' = "discard" /\ record.phase = "remove" /\ disk.removing = NoDir
        \/ pc' = "saveRemoved" /\ record.phase = "remove"
        \/ pc' = "clearRemoving" /\ record.phase = "removed"
    BY <1>2, <1>4, <2>1, <2>2 DEF Plan, Body, Removal, There
  <2> QED
    BY <1>1, <1>4, <2>3 DEF Loosely
<1> QED
  BY <1>3, <1>4

\* A pass looks at a journal that is mistaken, now or since an earlier look.
LEMMA LookDrifts ==
  ASSUME IInv, suspect', Look, InDoubt
  PROVE  Mixed' /\ (Quiet \/ \E id \in Apps : Strays(id))
<1>1. Common /\ Body /\ TypeOK /\ Past
  BY BodyHolds DEF Common
<1>2. pc = "recover" /\ UNCHANGED <<disk, asked, volume, live, job, caller, result>> /\ pc \in Recovering /\ Thread
      /\ pc' \in Recovering \cup {"false"} /\ NoApp \notin Apps
  BY InstallerAssumption DEF Look, Thread, NoChange, Recovering, InstallerAssumption
<1>3. /\ phase' = phase /\ tx' = tx /\ (There' <=> There) /\ (Clean' <=> Clean)
      /\ (\A P : Has(P)' <=> Has(P)) /\ CountsStay
  BY <1>2 DEF phase, tx, There, Clean, Has, CountsStay, Counts
<1>4. Past' /\ Everyone' /\ Body' /\ Lives' /\ disk' \in Disk
  BY <1>1, <1>2, <1>3 DEF Common, Past, Everyone, Body, Lives, TypeOK
<1>5. disk.journal = [id |-> tx, phase |-> phase] /\ phase \in Phases \cup {"none", "torn"}
      /\ (phase \in Phases => tx \in Apps) /\ (phase = "none" => disk.journal = NoJournal)
      /\ (phase = "torn" => disk.journal = NoRecord /\ tx = NoApp)
  BY <1>1, Facts DEF NoRecord, tx
<1> DEFINE Taken ==
        /\ misread \subseteq misread' /\ (Works \/ Fails) /\ suspect' = TRUE
        /\ misread' \subseteq Apps /\ tx \in misread' \cup {NoApp} /\ phase # "none"
        /\ misread' = misread \/ (tx \in Apps /\ misread' = misread \cup {tx})
        /\ \/ /\ transaction' = NoRecord
              \/ /\ transaction'.phase \in Phases /\ phase \in Phases /\ transaction'.id = tx
                 /\ Has({transaction'.phase})
           \/ pc' = "false" /\ transaction' = transaction
        /\ transaction' \in Transaction /\ transaction'.id \in misread' \cup {NoApp}
        /\ pc' # "false" => Plan(transaction', pc')
        /\ caller = "final" => job.id \in misread'
<1>6. Taken
  <2>1. ASSUME NEW n \in Short, PlanOf(disk.earlier[n]), transaction' = disk.earlier[n], Fails, Mistaken
        PROVE  Taken
    <3>1. n \in DOMAIN disk.earlier /\ disk.earlier[n] \in Transaction /\ phase \in Phases /\ tx \in Apps
      BY <1>1, <1>5, <2>1, Earlier DEF Short, Past
    <3>2. \/ disk.earlier[n] = NoRecord
          \/ disk.earlier[n].id = tx /\ disk.earlier[n].phase \in Phases
      BY <1>1, <3>1 DEF Past
    <3>3. caller = "final" => job.id \in misread'
      <4>1. disk.journal # NoJournal
        BY <3>1 DEF phase, NoJournal, Phases
      <4> QED
        BY <1>1, <1>2, <2>1, <3>1, <4>1 DEF Common, FinalPass, Mistaken, Passing
    <3> QED
      BY <1>1, <2>1, <3>1, <3>2, <3>3 DEF Mistaken, NoRecord, Has, PlanOf, TypeOK, Phases
  <2>2. ASSUME Mixed, UNCHANGED <<suspect, misread>>, Works \/ Fails,
               \/ PlanOf(disk.journal) /\ transaction' = disk.journal
               \/ pc' = "false" /\ transaction' = transaction
        PROVE  Taken
    <3>1. suspect = TRUE /\ phase # "none" /\ {tx, transaction.id} \subseteq misread \cup {NoApp} /\ misread \subseteq Apps
          /\ transaction \in Transaction
      BY <2>2 DEF Mixed, Lost, TypeOK
    <3>2. caller = "final" => job.id \in misread
      BY <1>2, <2>2, <3>1 DEF Mixed, FinalPass, Passing
    <3>3. /\ misread \subseteq misread' /\ (Works \/ Fails) /\ suspect' = TRUE
          /\ misread' \subseteq Apps /\ tx \in misread' \cup {NoApp} /\ phase # "none" /\ misread' = misread
          /\ caller = "final" => job.id \in misread'
      BY <2>2, <3>1, <3>2
    <3>4. CASE PlanOf(disk.journal) /\ transaction' = disk.journal
      <4>1. transaction' = NoRecord \/ (transaction'.phase = phase /\ phase \in Phases /\ transaction'.id = tx)
        BY <1>5, <3>1, <3>4
      <4>2. transaction'.id = tx /\ transaction' \in Transaction
        BY <1>1, <1>5, <3>4, Facts
      <4>3. pc' # "false" => Plan(transaction', pc')
        BY <3>4 DEF PlanOf
      <4> QED
        BY <3>3, <4>1, <4>2, <4>3 DEF Has
    <3>5. CASE pc' = "false" /\ transaction' = transaction
      BY <3>1, <3>3, <3>5
    <3> QED
      BY <2>2, <3>4, <3>5
  <2>3. Mixed \/ ~UNCHANGED <<suspect, misread>>
    BY DEF IInv, Strict
  <2>4. \/ (Works \/ Fails) /\ UNCHANGED <<suspect, misread>> /\ PlanOf(disk.journal) /\ transaction' = disk.journal
        \/ \E n \in Short : PlanOf(disk.earlier[n]) /\ transaction' = disk.earlier[n] /\ Fails /\ Mistaken
        \/ (Works \/ Fails) /\ UNCHANGED <<suspect, misread>> /\ pc' = "false" /\ transaction' = transaction
    BY DEF Look, readVars
  <2> QED
    BY <2>1, <2>2, <2>3, <2>4
<1>7. Loosely'
  <2>1. CASE pc' = "false"
    BY <2>1 DEF Loosely, Recovering
  <2>2. CASE pc' # "false"
    BY <1>1, <1>2, <1>6, <2>2, PlanLoosely
  <2> QED
    BY <2>1, <2>2
<1>8. Lost'
  BY <1>2, <1>3, <1>6 DEF Lost, Recovering, Resting
<1>9. Caches'
  <2>1. CacheIsOwn'
    BY <1>1, <1>2, <1>6 DEF Common, Caches, CacheIsOwn
  <2> QED
    BY <1>1, <1>2, <1>3, <1>6, <2>1 DEF Common, Caches
<1>10. Quiet \/ \E id \in Apps : id \in misread' /\ Strays(id)
  <2>1. CASE misread' = misread
    BY <1>2, <1>3, <2>1 DEF Quiet, Thread
  <2>2. ASSUME NEW id \in Apps, id = tx, misread' = misread \cup {id}
        PROVE  Strays(id)
    BY <1>1, <1>2, <1>3, <1>4, <2>2, Touched
  <2> QED
    BY <1>6, <2>1, <2>2
<1> QED
  BY <1>1, <1>2, <1>3, <1>4, <1>6, <1>7, <1>8, <1>9, <1>10, Drifts

\* A step with the journal mistaken before, that leaves the journal as it is and
\* touches no other application.
LEMMA StillMixed ==
  ASSUME Mixed, Thread, Works \/ Fails, InDoubt, UNCHANGED readVars,
         pc \in Recovering, pc' \in Recovering \cup {"false"},
         disk' \in Disk, disk'.journal = disk.journal, disk'.earlier = disk.earlier,
         \A a \in Apps : a # tx => disk'.dest[a] = disk.dest[a] /\ disk'.cache[a] = disk.cache[a],
         tx \in Apps => \/ disk'.dest[tx] \in {NoDir, disk.dest[tx]}
                        \/ Whole(disk'.dest[tx], tx) /\ live[tx] = 0,
         asked' \subseteq asked, \A j \in asked \ asked' : j.id = tx, Body', Loosely'
  PROVE  Mixed' /\ (Quiet \/ \E id \in Apps : Strays(id))
<1>1. Common /\ TypeOK /\ Past /\ suspect = TRUE /\ Lost /\ FinalPass
  BY DEF Mixed, Blurred, Common, TypeOK
<1>2. UNCHANGED <<transaction, suspect, misread, live, result, job, caller, ready>>
  BY DEF readVars, Thread
<1>3. /\ tx \in misread \cup {NoApp} /\ transaction.id \in misread \cup {NoApp} /\ phase # "none"
      /\ misread \subseteq Apps /\ transaction \in Transaction /\ NoApp \notin Apps
  BY <1>1, InstallerAssumption DEF Lost, TypeOK, InstallerAssumption
<1>4. phase' = phase /\ tx' = tx /\ (\A P : Has(P)' <=> Has(P))
  BY DEF phase, tx, Has
<1>5. Past' /\ Everyone'
  BY <1>1, <1>3, <1>4 DEF Common, Past, Everyone
<1>6. Lives'
  <2>1. \A a \in Apps : live[a] # 0 /\ disk'.dest[a] # NoDir => disk'.dest[a] = disk.dest[a]
    OBVIOUS
  <2> QED
    BY <1>1, <1>2, <1>4, <2>1 DEF Common, Lives
<1>7. Caches'
  <2>1. ASSUME NEW a \in Apps, a \notin misread
        PROVE  a # tx /\ disk'.dest[a] = disk.dest[a] /\ disk'.cache[a] = disk.cache[a]
    BY <1>3, <2>1
  <2>2. CacheIsOwn'
    BY <1>1, <1>2, <2>1 DEF Common, Caches, CacheIsOwn
  <2>3. phase' = "publish" => tx' \in misread'
    BY <1>1, <1>2, <1>3, <1>4, Facts DEF Phases
  <2> QED
    BY <1>1, <1>2, <1>4, <2>1, <2>2, <2>3 DEF Common, Caches
<1>8. Lost'
  BY <1>1, <1>2, <1>4 DEF Lost, Recovering, Resting
<1>9. caller = "final" => job.id \in misread'
  BY <1>1, <1>2 DEF FinalPass, Passing, Recovering
<1>10. Quiet \/ \E id \in Apps : id \in misread' /\ Strays(id)
  <2>1. ASSUME NEW id \in Apps, id = tx
        PROVE  id \in misread' /\ Strays(id)
    <3>1. misread' = misread \cup {id}
      BY <1>2, <1>3, <2>1
    <3> QED
      BY <1>1, <1>2, <1>4, <1>5, <2>1, <3>1, Touched
  <2>2. CASE tx = NoApp
    <3>1. \A a \in Apps : Counts(a)' = Counts(a)
      BY <1>3, <1>4, <2>2 DEF Counts
    <3>2. asked' = asked
      <4>1. \A j \in asked : j.id \in Apps
        BY <1>1 DEF TypeOK
      <4> QED
        BY <1>3, <2>2, <4>1
    <3> QED
      BY <1>2, <3>1, <3>2 DEF Quiet, CountsStay
  <2> QED
    BY <1>3, <2>1, <2>2
<1>11. /\ pc # "savePublish" /\ pc \in Recovering \cup {"savePublish"}
       /\ pc' \in IF pc = "savePublish" THEN {"final", "reject"} ELSE Recovering \cup {"false"}
  <2>1. pc # "savePublish"
    BY DEF Recovering
  <2> QED
    BY <2>1
<1>12. /\ transaction' \in Transaction /\ suspect' = TRUE /\ misread \subseteq misread' /\ misread' \subseteq Apps
       /\ Has({"remove"})' => Has({"remove"}) /\ tx' = tx
  BY <1>1, <1>2, <1>3, <1>4
<1> QED
  BY <1>1, <1>5, <1>6, <1>7, <1>8, <1>9, <1>10, <1>11, <1>12, Drifts

\* What is known of a pass then.
LEMMA MixedFacts ==
  ASSUME Mixed
  PROVE  /\ TypeOK /\ Common /\ Body /\ Loosely /\ Lost /\ IInv /\ suspect = TRUE /\ disk \in Disk
         /\ disk.dest \in [Apps -> Dir] /\ disk.staging \in Dir /\ disk.backup \in Dir /\ disk.removing \in Dir
         /\ disk.cache \in [Apps -> 0 .. MaxVersion] /\ NoDir \in Dir
         /\ disk.journal \in Transaction /\ disk.earlier \in Seq(Transaction)
         /\ tx \in misread \cup {NoApp} /\ NoApp \notin Apps /\ (tx \in Apps => Found = disk.dest[tx] \/ transaction.id # tx)
         /\ Tear(disk.staging) \in Dir /\ Tear(disk.backup) \in Dir /\ Tear(disk.removing) \in Dir
         /\ (disk.staging = NoDir => Tear(disk.staging) = NoDir)
         /\ (disk.backup = NoDir => Tear(disk.backup) = NoDir) /\ (disk.removing = NoDir => Tear(disk.removing) = NoDir)
<1>1. TypeOK /\ Common /\ Body /\ Loosely /\ Lost /\ IInv /\ suspect = TRUE /\ disk \in Disk
  BY DEF Mixed, Blurred, Common, TypeOK, IInv
<1>2. /\ disk.dest \in [Apps -> Dir] /\ disk.staging \in Dir /\ disk.backup \in Dir /\ disk.removing \in Dir
      /\ disk.cache \in [Apps -> 0 .. MaxVersion] /\ NoDir \in Dir
      /\ disk.journal \in Transaction /\ disk.earlier \in Seq(Transaction)
  BY <1>1, Facts DEF Dir
<1>3. \A dir \in Dir : Tear(dir) \in Dir /\ (dir = NoDir => Tear(dir) = NoDir)
  BY DEF Tear, Dir
<1> QED
  BY <1>1, <1>2, <1>3, InstallerAssumption DEF Lost, Found, InstallerAssumption

\* What is found in the place of the application, and whether to put something there.
LEMMA VerifyDrifts ==
  ASSUME Mixed, VerifyGood \/ VerifyBad, InDoubt
  PROVE  Mixed' /\ (Quiet \/ \E id \in Apps : Strays(id))
<1>1. /\ pc = "verify" /\ pc \in Recovering \ {"recover"} /\ Thread /\ (Works \/ Fails) /\ UNCHANGED <<disk, asked>>
      /\ UNCHANGED readVars
      /\ \/ pc' = "publish" /\ Whole(disk.staging, transaction.id)
         \/ pc' = "keep" /\ Whole(disk.staging, transaction.id) /\ disk.backup = NoDir
         \/ pc' = "saveUndo" /\ disk.backup = NoDir
         \/ pc' = "restore" /\ disk.backup # NoDir
         \/ pc' = "false"
  BY DEF VerifyGood, VerifyBad, NoChange, Recovering, Goto
<1>2. Body /\ Loosely /\ disk \in Disk
  BY MixedFacts
<1>3. /\ phase' = phase /\ tx' = tx /\ (There' <=> There) /\ (Clean' <=> Clean) /\ (\A P : Has(P)' <=> Has(P))
  BY <1>1 DEF phase, tx, There, Clean, Has
<1>4. Body'
  BY <1>1, <1>2, <1>3 DEF Body
<1>5. Loosely'
  BY <1>1, <1>2, <1>3 DEF Loosely, readVars
<1>6. pc' \in Recovering \cup {"false"}
  BY <1>1 DEF Recovering
<1> QED
  BY <1>1, <1>2, <1>4, <1>5, <1>6, StillMixed

\* The directories of a transaction that is mistaken are renamed.
LEMMA RestoreDrifts ==
  ASSUME Mixed, Restore, InDoubt
  PROVE  Mixed' /\ (Quiet \/ \E id \in Apps : Strays(id))
<1>1. /\ pc = "restore" /\ pc \in Recovering \ {"recover"} /\ Thread /\ (Works \/ Fails)
      /\ UNCHANGED readVars /\ UNCHANGED asked
      /\ \/ pc' = "saveUndo" /\ disk' = [disk EXCEPT !.dest = Published(disk.backup), !.backup = NoDir]
         \/ pc' = "false" /\ disk' = disk
  BY DEF Restore, Atomically, Goto, Recovering
<1>2. /\ Body /\ Loosely /\ disk \in Disk /\ disk.dest \in [Apps -> Dir] /\ disk.backup \in Dir /\ NoDir \in Dir
      /\ disk.cache \in [Apps -> 0 .. MaxVersion]
  BY MixedFacts
<1>3. /\ tx \in Apps /\ transaction.id = tx /\ phase \in Phases /\ transaction.phase = "publish" /\ live[tx] = 0
      /\ (transaction.phase \in Removal <=> phase \in Removal) /\ disk.staging # NoDir /\ Has({transaction.phase})
  BY <1>1, LooselyAtHand, MixedFacts
<1>4. disk.backup # NoDir /\ Whole(disk.backup, tx) /\ disk.removing = NoDir
  BY <1>1, <1>2, <1>3 DEF Loosely, Body, Removal
<1>5. CASE pc' = "saveUndo" /\ disk' = [disk EXCEPT !.dest = Published(disk.backup), !.backup = NoDir]
  <2>1. /\ disk' \in Disk /\ disk'.dest = [disk.dest EXCEPT ![tx] = disk.backup] /\ disk'.staging = disk.staging
        /\ disk'.backup = NoDir /\ disk'.removing = disk.removing /\ disk'.cache = disk.cache
        /\ disk'.journal = disk.journal /\ disk'.earlier = disk.earlier
    BY <1>2, <1>3, <1>5 DEF Disk, Published
  <2>2. \A a \in Apps : disk'.dest[a] = IF a = tx THEN disk.backup ELSE disk.dest[a]
    BY <1>2, <1>3, <2>1
  <2>3. phase' = phase /\ tx' = tx /\ (\A P : Has(P)' <=> Has(P))
    BY <2>1 DEF phase, tx, Has
  <2>4. Body'
    BY <1>2, <1>3, <1>4, <2>1, <2>3 DEF Body, Removal
  <2>5. Loosely'
    BY <1>1, <1>3, <1>5, <2>1, <2>3 DEF Loosely, readVars, Phases
  <2>6. pc' \in Recovering
    BY <1>5 DEF Recovering
  <2> QED
    BY <1>1, <1>3, <1>4, <2>1, <2>2, <2>4, <2>5, <2>6, StillMixed
<1>6. CASE pc' = "false" /\ disk' = disk
  <2>1. Body' /\ Loosely'
    BY <1>2, <1>6 DEF Body, Has, There, phase, tx, Loosely, Recovering
  <2> QED
    BY <1>1, <1>2, <1>6, <2>1, StillMixed
<1> QED
  BY <1>1, <1>5, <1>6

LEMMA KeepDrifts ==
  ASSUME Mixed, Keep, InDoubt
  PROVE  Mixed' /\ (Quiet \/ \E id \in Apps : Strays(id))
<1>1. /\ pc = "keep" /\ pc \in Recovering \ {"recover"} /\ Thread /\ (Works \/ Fails)
      /\ UNCHANGED readVars /\ UNCHANGED asked
      /\ \/ pc' = "publish" /\ disk' = [disk EXCEPT !.backup = Found, !.dest = Published(NoDir)]
         \/ pc' = "false" /\ disk' = disk
  BY DEF Keep, Atomically, Goto, Recovering
<1>2. /\ Body /\ Loosely /\ disk \in Disk /\ disk.dest \in [Apps -> Dir] /\ disk.backup \in Dir /\ NoDir \in Dir
      /\ disk.cache \in [Apps -> 0 .. MaxVersion] /\ Everyone
  BY MixedFacts DEF Common
<1>3. /\ tx \in Apps /\ transaction.id = tx /\ phase \in Phases /\ transaction.phase = "publish" /\ live[tx] = 0
      /\ (transaction.phase \in Removal <=> phase \in Removal) /\ disk.staging # NoDir /\ Has({transaction.phase})
  BY <1>1, LooselyAtHand, MixedFacts
<1>4. /\ Whole(disk.staging, tx) /\ disk.removing = NoDir /\ Found = disk.dest[tx]
      /\ disk.dest[tx] = NoDir \/ Whole(disk.dest[tx], tx)
  BY <1>1, <1>2, <1>3 DEF Loosely, Body, Removal, Found, Everyone
<1>5. CASE pc' = "publish" /\ disk' = [disk EXCEPT !.backup = Found, !.dest = Published(NoDir)]
  <2>1. /\ disk' \in Disk /\ disk'.dest = [disk.dest EXCEPT ![tx] = NoDir] /\ disk'.staging = disk.staging
        /\ disk'.backup = disk.dest[tx] /\ disk'.removing = disk.removing /\ disk'.cache = disk.cache
        /\ disk'.journal = disk.journal /\ disk'.earlier = disk.earlier
    BY <1>2, <1>3, <1>4, <1>5 DEF Disk, Published
  <2>2. \A a \in Apps : disk'.dest[a] = IF a = tx THEN NoDir ELSE disk.dest[a]
    BY <1>2, <1>3, <2>1
  <2>3. phase' = phase /\ tx' = tx /\ (\A P : Has(P)' <=> Has(P))
    BY <2>1 DEF phase, tx, Has
  <2>4. Body'
    BY <1>2, <1>3, <1>4, <2>1, <2>3 DEF Body, Removal, Whole
  <2>5. Loosely'
    BY <1>1, <1>3, <1>4, <1>5, <2>1, <2>3 DEF Loosely, readVars, Phases
  <2>6. pc' \in Recovering
    BY <1>5 DEF Recovering
  <2> QED
    BY <1>1, <1>3, <1>4, <2>1, <2>2, <2>4, <2>5, <2>6, StillMixed
<1>6. CASE pc' = "false" /\ disk' = disk
  <2>1. Body' /\ Loosely'
    BY <1>2, <1>6 DEF Body, Has, There, phase, tx, Loosely, Recovering
  <2> QED
    BY <1>1, <1>2, <1>6, <2>1, StillMixed
<1> QED
  BY <1>1, <1>5, <1>6

LEMMA PublishDrifts ==
  ASSUME Mixed, Publish, InDoubt
  PROVE  Mixed' /\ (Quiet \/ \E id \in Apps : Strays(id))
<1>1. /\ pc = "publish" /\ pc \in Recovering \ {"recover"} /\ Thread /\ (Works \/ Fails)
      /\ UNCHANGED readVars
      /\ \/ /\ pc' = "saveCommit" /\ disk' = [disk EXCEPT !.dest = Published(disk.staging), !.staging = NoDir]
            /\ asked' = asked \ {[id |-> transaction.id, ver |-> disk.staging.ver]}
         \/ pc' = "false" /\ disk' = disk /\ asked' = asked
  BY DEF Publish, Atomically, Goto, Recovering, CarriedOut
<1>2. /\ Body /\ Loosely /\ disk \in Disk /\ disk.dest \in [Apps -> Dir] /\ disk.staging \in Dir /\ NoDir \in Dir
      /\ disk.cache \in [Apps -> 0 .. MaxVersion]
  BY MixedFacts
<1>3. /\ tx \in Apps /\ transaction.id = tx /\ phase \in Phases /\ transaction.phase = "publish" /\ live[tx] = 0
      /\ (transaction.phase \in Removal <=> phase \in Removal) /\ disk.staging # NoDir /\ Has({transaction.phase})
  BY <1>1, LooselyAtHand, MixedFacts
<1>4. /\ Whole(disk.staging, tx) /\ disk.removing = NoDir
  BY <1>1, <1>2, <1>3 DEF Loosely, Body, Removal
<1>5. CASE /\ pc' = "saveCommit" /\ disk' = [disk EXCEPT !.dest = Published(disk.staging), !.staging = NoDir]
           /\ asked' = asked \ {[id |-> transaction.id, ver |-> disk.staging.ver]}
  <2>1. /\ disk' \in Disk /\ disk'.dest = [disk.dest EXCEPT ![tx] = disk.staging] /\ disk'.staging = NoDir
        /\ disk'.backup = disk.backup /\ disk'.removing = disk.removing /\ disk'.cache = disk.cache
        /\ disk'.journal = disk.journal /\ disk'.earlier = disk.earlier
    BY <1>2, <1>3, <1>5 DEF Disk, Published
  <2>2. \A a \in Apps : disk'.dest[a] = IF a = tx THEN disk.staging ELSE disk.dest[a]
    BY <1>2, <1>3, <2>1
  <2>3. phase' = phase /\ tx' = tx /\ (\A P : Has(P)' <=> Has(P))
    BY <2>1 DEF phase, tx, Has
  <2>4. There'
    BY <1>3, <2>2, <2>3 DEF There
  <2>5. Body'
    BY <1>2, <1>3, <1>4, <2>1, <2>3, <2>4 DEF Body, Removal
  <2>6. Loosely'
    BY <1>1, <1>3, <1>4, <1>5, <2>1, <2>3, <2>4 DEF Loosely, readVars, Phases
  <2>7. pc' \in Recovering
    BY <1>5 DEF Recovering
  <2>8. asked' \subseteq asked /\ \A j \in asked \ asked' : j.id = tx
    BY <1>3, <1>5
  <2> QED
    BY <1>1, <1>3, <1>4, <2>1, <2>2, <2>5, <2>6, <2>7, <2>8, StillMixed
<1>6. CASE pc' = "false" /\ disk' = disk /\ asked' = asked
  <2>1. Body' /\ Loosely'
    BY <1>2, <1>6 DEF Body, Has, There, phase, tx, Loosely, Recovering
  <2> QED
    BY <1>1, <1>2, <1>6, <2>1, StillMixed
<1> QED
  BY <1>1, <1>5, <1>6

LEMMA DiscardDrifts ==
  ASSUME Mixed, Discard, InDoubt
  PROVE  Mixed' /\ (Quiet \/ \E id \in Apps : Strays(id))
<1>1. /\ pc = "discard" /\ pc \in Recovering \ {"recover"} /\ Thread /\ (Works \/ Fails)
      /\ UNCHANGED readVars
      /\ \/ /\ pc' = "saveRemoved" /\ disk' = [disk EXCEPT !.removing = Found, !.dest = Published(NoDir)]
            /\ asked' = asked \ {[id |-> transaction.id, ver |-> 0]}
         \/ pc' = "false" /\ disk' = disk /\ asked' = asked
  BY DEF Discard, Atomically, Goto, Recovering, CarriedOut
<1>2. /\ Body /\ Loosely /\ disk \in Disk /\ disk.dest \in [Apps -> Dir] /\ disk.removing \in Dir /\ NoDir \in Dir
      /\ disk.cache \in [Apps -> 0 .. MaxVersion]
  BY MixedFacts
<1>3. /\ tx \in Apps /\ transaction.id = tx /\ phase \in Phases /\ transaction.phase = "remove"
      /\ (transaction.phase \in Removal <=> phase \in Removal) /\ Has({transaction.phase})
  BY <1>1, LooselyAtHand, MixedFacts
<1>4. disk.staging = NoDir /\ disk.backup = NoDir /\ phase \in Removal /\ Found = disk.dest[tx]
  BY <1>1, <1>2, <1>3 DEF Body, Removal, Found
<1>5. CASE /\ pc' = "saveRemoved" /\ disk' = [disk EXCEPT !.removing = Found, !.dest = Published(NoDir)]
           /\ asked' = asked \ {[id |-> transaction.id, ver |-> 0]}
  <2>1. /\ disk' \in Disk /\ disk'.dest = [disk.dest EXCEPT ![tx] = NoDir] /\ disk'.staging = disk.staging
        /\ disk'.backup = disk.backup /\ disk'.removing = disk.dest[tx] /\ disk'.cache = disk.cache
        /\ disk'.journal = disk.journal /\ disk'.earlier = disk.earlier
    BY <1>2, <1>3, <1>4, <1>5 DEF Disk, Published
  <2>2. \A a \in Apps : disk'.dest[a] = IF a = tx THEN NoDir ELSE disk.dest[a]
    BY <1>2, <1>3, <2>1
  <2>3. phase' = phase /\ tx' = tx /\ (\A P : Has(P)' <=> Has(P))
    BY <2>1 DEF phase, tx, Has
  <2>4. Body'
    BY <1>2, <1>3, <1>4, <2>1, <2>3 DEF Body
  <2>5. Loosely'
    BY <1>1, <1>3, <1>4, <1>5, <2>1, <2>3 DEF Loosely, readVars, Phases
  <2>6. pc' \in Recovering
    BY <1>5 DEF Recovering
  <2>7. asked' \subseteq asked /\ \A j \in asked \ asked' : j.id = tx
    BY <1>3, <1>5
  <2> QED
    BY <1>1, <1>3, <1>4, <2>1, <2>2, <2>4, <2>5, <2>6, <2>7, StillMixed
<1>6. CASE pc' = "false" /\ disk' = disk /\ asked' = asked
  <2>1. Body' /\ Loosely'
    BY <1>2, <1>6 DEF Body, Has, There, phase, tx, Loosely, Recovering
  <2> QED
    BY <1>1, <1>2, <1>6, <2>1, StillMixed
<1> QED
  BY <1>1, <1>5, <1>6

\* What is left over goes, by and by.
LEMMA ClearStagingDrifts ==
  ASSUME Mixed, ClearStaging, InDoubt
  PROVE  Mixed' /\ (Quiet \/ \E id \in Apps : Strays(id))
<1>1. /\ pc = "clearStaging" /\ pc \in Recovering \ {"recover"} /\ Thread /\ (Works \/ Fails)
      /\ UNCHANGED readVars /\ UNCHANGED asked
  BY DEF ClearStaging, Clear, Goto, Recovering
<1>2. /\ Body /\ Loosely /\ Past /\ disk \in Disk /\ disk.staging \in Dir /\ NoDir \in Dir /\ Tear(disk.staging) \in Dir
      /\ (disk.staging = NoDir => Tear(disk.staging) = NoDir)
  BY MixedFacts DEF Common
<1>3. transaction.phase \in {"torn", "copy"} /\ disk.backup = NoDir /\ disk.removing = NoDir
  BY <1>1, <1>2 DEF Loosely
<1>4. \/ pc' = "unlink" /\ disk' = [disk EXCEPT !.staging = NoDir]
      \/ pc' \in {"clearStaging", "false"} /\ disk' = [disk EXCEPT !.staging = Tear(disk.staging)]
      \/ pc' = "false" /\ disk' = disk
  BY <1>1, <1>3 DEF ClearStaging, Clear, Goto
<1>5. PICK dir \in Dir : /\ disk'.staging = dir /\ (disk.staging = NoDir => dir = NoDir) /\ (pc' = "unlink" => dir = NoDir)
                       /\ disk' = [disk EXCEPT !.staging = dir]
  <2>1. CASE pc' = "unlink" /\ disk' = [disk EXCEPT !.staging = NoDir]
    BY <1>2, <2>1 DEF Disk
  <2>2. CASE pc' \in {"clearStaging", "false"} /\ disk' = [disk EXCEPT !.staging = Tear(disk.staging)]
    BY <1>2, <2>2 DEF Disk
  <2>3. CASE pc' = "false" /\ disk' = disk
    BY <1>2, <2>3 DEF Disk
  <2> QED
    BY <1>4, <2>1, <2>2, <2>3
<1>6. /\ disk' \in Disk /\ disk'.backup = disk.backup /\ disk'.removing = disk.removing
      /\ disk'.dest = disk.dest /\ disk'.cache = disk.cache /\ disk'.journal = disk.journal /\ disk'.earlier = disk.earlier
  BY <1>2, <1>5 DEF Disk
<1>7. phase' = phase /\ tx' = tx /\ (There' <=> There) /\ (\A P : Has(P)' <=> Has(P))
  BY <1>6 DEF phase, tx, Has, There
<1>8. Body'
  BY <1>2, <1>3, <1>5, <1>6, <1>7 DEF Body
<1>9. pc' \in {"unlink", "clearStaging", "false"}
  BY <1>4
<1>10. Loosely'
  BY <1>1, <1>2, <1>3, <1>5, <1>6, <1>7, <1>9 DEF Loosely, readVars, Recovering, Clean
<1>11. pc' \in Recovering \cup {"false"}
  BY <1>9 DEF Recovering
<1> QED
  BY <1>1, <1>6, <1>8, <1>10, <1>11, StillMixed

LEMMA ClearBackupDrifts ==
  ASSUME Mixed, ClearBackup, InDoubt
  PROVE  Mixed' /\ (Quiet \/ \E id \in Apps : Strays(id))
<1>1. /\ pc = "clearBackup" /\ pc \in Recovering \ {"recover"} /\ Thread /\ (Works \/ Fails)
      /\ UNCHANGED readVars /\ UNCHANGED asked
  BY DEF ClearBackup, Clear, Goto, Recovering
<1>2. /\ Body /\ Loosely /\ Past /\ disk \in Disk /\ disk.backup \in Dir /\ NoDir \in Dir /\ Tear(disk.backup) \in Dir
      /\ (disk.backup = NoDir => Tear(disk.backup) = NoDir)
  BY MixedFacts DEF Common
<1>3. transaction.phase = "commit" /\ There /\ disk.staging = NoDir /\ disk.removing = NoDir /\ phase \notin Removal
  <2>1. transaction.phase = "commit"
    BY <1>1, <1>2 DEF Loosely
  <2>2. transaction # NoRecord
    BY <2>1 DEF NoRecord
  <2>3. phase \in Phases /\ Has({transaction.phase}) /\ (transaction.phase \in Removal <=> phase \in Removal)
    BY <1>1, <1>2, <2>1, <2>2, Parity DEF Loosely, Phases
  <2> QED
    BY <1>1, <1>2, <2>1, <2>3 DEF Loosely, Body, Removal
<1>4. \/ pc' = "clearCache" /\ disk' = [disk EXCEPT !.backup = NoDir]
      \/ pc' \in {"clearBackup", "false"} /\ disk' = [disk EXCEPT !.backup = Tear(disk.backup)]
      \/ pc' = "false" /\ disk' = disk
  BY <1>1, <1>3 DEF ClearBackup, Clear, Goto
<1>5. PICK dir \in Dir : /\ disk'.backup = dir /\ (disk.backup = NoDir => dir = NoDir) /\ (pc' = "clearCache" => dir = NoDir)
                       /\ disk' = [disk EXCEPT !.backup = dir]
  <2>1. CASE pc' = "clearCache" /\ disk' = [disk EXCEPT !.backup = NoDir]
    BY <1>2, <2>1 DEF Disk
  <2>2. CASE pc' \in {"clearBackup", "false"} /\ disk' = [disk EXCEPT !.backup = Tear(disk.backup)]
    BY <1>2, <2>2 DEF Disk
  <2>3. CASE pc' = "false" /\ disk' = disk
    BY <1>2, <2>3 DEF Disk
  <2> QED
    BY <1>4, <2>1, <2>2, <2>3
<1>6. /\ disk' \in Disk /\ disk'.staging = disk.staging /\ disk'.removing = disk.removing
      /\ disk'.dest = disk.dest /\ disk'.cache = disk.cache /\ disk'.journal = disk.journal /\ disk'.earlier = disk.earlier
  BY <1>2, <1>5 DEF Disk
<1>7. phase' = phase /\ tx' = tx /\ (There' <=> There) /\ (\A P : Has(P)' <=> Has(P))
  BY <1>6 DEF phase, tx, Has, There
<1>8. Body'
  BY <1>2, <1>3, <1>5, <1>6, <1>7 DEF Body
<1>9. pc' \in {"clearCache", "clearBackup", "false"}
  BY <1>4
<1>10. Loosely'
  BY <1>1, <1>2, <1>3, <1>5, <1>6, <1>7, <1>9 DEF Loosely, readVars, Recovering, Clean
<1>11. pc' \in Recovering \cup {"false"}
  BY <1>9 DEF Recovering
<1> QED
  BY <1>1, <1>6, <1>8, <1>10, <1>11, StillMixed

LEMMA ClearRemovingDrifts ==
  ASSUME Mixed, ClearRemoving, InDoubt
  PROVE  Mixed' /\ (Quiet \/ \E id \in Apps : Strays(id))
<1>1. /\ pc = "clearRemoving" /\ pc \in Recovering \ {"recover"} /\ Thread /\ (Works \/ Fails)
      /\ UNCHANGED readVars /\ UNCHANGED asked
  BY DEF ClearRemoving, Clear, Goto, Recovering
<1>2. /\ Body /\ Loosely /\ Past /\ disk \in Disk /\ disk.removing \in Dir /\ NoDir \in Dir /\ Tear(disk.removing) \in Dir
      /\ (disk.removing = NoDir => Tear(disk.removing) = NoDir)
  BY MixedFacts DEF Common
<1>3. transaction.phase = "removed" /\ disk.staging = NoDir /\ disk.backup = NoDir /\ phase \in Removal
  <2>1. transaction.phase = "removed"
    BY <1>1, <1>2 DEF Loosely
  <2>2. transaction # NoRecord
    BY <2>1 DEF NoRecord
  <2>3. phase \in Phases /\ Has({transaction.phase}) /\ (transaction.phase \in Removal <=> phase \in Removal)
    BY <1>1, <1>2, <2>1, <2>2, Parity DEF Loosely, Phases
  <2> QED
    BY <1>1, <1>2, <2>1, <2>3 DEF Loosely, Body, Removal
<1>4. \/ pc' = "clearCache" /\ disk' = [disk EXCEPT !.removing = NoDir]
      \/ pc' \in {"clearRemoving", "false"} /\ disk' = [disk EXCEPT !.removing = Tear(disk.removing)]
      \/ pc' = "false" /\ disk' = disk
  BY <1>1, <1>3 DEF ClearRemoving, Clear, Goto
<1>5. PICK dir \in Dir : /\ disk'.removing = dir /\ (disk.removing = NoDir => dir = NoDir) /\ (pc' = "clearCache" => dir = NoDir)
                       /\ disk' = [disk EXCEPT !.removing = dir]
  <2>1. CASE pc' = "clearCache" /\ disk' = [disk EXCEPT !.removing = NoDir]
    BY <1>2, <2>1 DEF Disk
  <2>2. CASE pc' \in {"clearRemoving", "false"} /\ disk' = [disk EXCEPT !.removing = Tear(disk.removing)]
    BY <1>2, <2>2 DEF Disk
  <2>3. CASE pc' = "false" /\ disk' = disk
    BY <1>2, <2>3 DEF Disk
  <2> QED
    BY <1>4, <2>1, <2>2, <2>3
<1>6. /\ disk' \in Disk /\ disk'.staging = disk.staging /\ disk'.backup = disk.backup
      /\ disk'.dest = disk.dest /\ disk'.cache = disk.cache /\ disk'.journal = disk.journal /\ disk'.earlier = disk.earlier
  BY <1>2, <1>5 DEF Disk
<1>7. phase' = phase /\ tx' = tx /\ (There' <=> There) /\ (\A P : Has(P)' <=> Has(P))
  BY <1>6 DEF phase, tx, Has, There
<1>8. Body'
  BY <1>2, <1>3, <1>5, <1>6, <1>7 DEF Body
<1>9. pc' \in {"clearCache", "clearRemoving", "false"}
  BY <1>4
<1>10. Loosely'
  BY <1>1, <1>2, <1>3, <1>5, <1>6, <1>7, <1>9 DEF Loosely, readVars, Recovering, Clean
<1>11. pc' \in Recovering \cup {"false"}
  BY <1>9 DEF Recovering
<1> QED
  BY <1>1, <1>6, <1>8, <1>10, <1>11, StillMixed

LEMMA ClearCacheDrifts ==
  ASSUME Mixed, ClearCache, InDoubt
  PROVE  Mixed' /\ (Quiet \/ \E id \in Apps : Strays(id))
<1>1. /\ pc = "clearCache" /\ pc \in Recovering \ {"recover"} /\ Thread /\ (Works \/ Fails)
      /\ UNCHANGED readVars /\ UNCHANGED asked
      /\ \/ pc' = "unlink" /\ disk' = [disk EXCEPT !.cache = [disk.cache EXCEPT ![transaction.id] = 0]]
         \/ pc' = "false" /\ disk' = disk
  BY DEF ClearCache, Clear, Goto, Recovering
<1>2. /\ Body /\ Loosely /\ disk \in Disk /\ disk.cache \in [Apps -> 0 .. MaxVersion] /\ TypeOK
  BY MixedFacts
<1>3. Clean /\ transaction.id = tx /\ tx \in Apps /\ transaction.phase \in {"commit", "removed"}
  <2>1. Clean /\ transaction.phase \in {"commit", "removed"}
    BY <1>1, <1>2 DEF Loosely
  <2>2. transaction # NoRecord
    BY <2>1 DEF NoRecord
  <2> QED
    BY <1>1, <1>2, <2>1, <2>2, Facts DEF Loosely
<1>4. /\ disk' \in Disk /\ disk'.staging = disk.staging /\ disk'.backup = disk.backup /\ disk'.removing = disk.removing
      /\ disk'.dest = disk.dest /\ disk'.journal = disk.journal /\ disk'.earlier = disk.earlier
      /\ \A a \in Apps : a # tx => disk'.cache[a] = disk.cache[a]
  <2>1. 0 \in 0 .. MaxVersion
    BY InstallerAssumption DEF InstallerAssumption
  <2>2. CASE disk' = [disk EXCEPT !.cache = [disk.cache EXCEPT ![transaction.id] = 0]]
    <3>1. [disk.cache EXCEPT ![transaction.id] = 0] \in [Apps -> 0 .. MaxVersion]
      BY <1>2, <2>1
    <3> QED
      BY <1>2, <1>3, <2>2, <3>1 DEF Disk
  <2> QED
    BY <1>1, <1>2, <2>2
<1>5. phase' = phase /\ tx' = tx /\ (There' <=> There) /\ (\A P : Has(P)' <=> Has(P)) /\ Clean'
  BY <1>3, <1>4 DEF phase, tx, Has, There, Clean
<1>6. Body'
  BY <1>2, <1>4, <1>5 DEF Body
<1>7. pc' \in {"unlink", "false"}
  BY <1>1
<1>8. Loosely'
  BY <1>1, <1>2, <1>3, <1>5, <1>7 DEF Loosely, readVars, Recovering
<1>9. pc' \in Recovering \cup {"false"}
  BY <1>7 DEF Recovering
<1> QED
  BY <1>1, <1>4, <1>6, <1>8, <1>9, StillMixed

\* A record is saved with the journal mistaken, now or before.
LEMMA SaveUndoDrifts ==
  ASSUME IInv, suspect', SaveUndo, InDoubt
  PROVE  Mixed' /\ (Quiet \/ \E id \in Apps : Strays(id))
<1>1. pc = "saveUndo" /\ pc \in Recovering /\ Common /\ Body /\ NoApp \notin Apps
  BY BodyHolds, InstallerAssumption DEF SaveUndo, save_transaction, Goto, Recovering, InstallerAssumption
<1>2. /\ tx \in Apps /\ transaction.id = tx /\ phase \in Phases /\ transaction.phase \in Phases
      /\ (transaction.phase \in Removal <=> phase \in Removal)
      /\ transaction.phase = "publish" /\ live[tx] = 0 /\ disk.backup = NoDir
      /\ caller = "final" => job.id \in misread \cup {tx}
  BY <1>1, LooselyAtHand
<1>3. PICK id \in Apps : id = tx
  BY <1>2
<1>4. save_transaction("saveUndo", "clearStaging", "false", [id |-> id, phase |-> "copy"])
  BY <1>2, <1>3 DEF SaveUndo
<1>5. /\ "copy" \in Phases /\ ("copy" \in Removal <=> phase \in Removal)
      /\ "copy" # "remove" /\ "clearStaging" # "false"
      /\ "copy" \in {"publish", "commit"} => live[id] = 0
      /\ "copy" = "commit" => disk.staging = NoDir
  BY <1>2, <1>3 DEF Phases, Removal
<1>6. /\ RecordsKept(id, "copy") /\ Everyone' /\ Lives' /\ Caches' /\ Body'
      /\ Has({"remove"})' => Has({"remove"}) /\ tx' = tx
      /\ misread' = misread \cup {id} /\ suspect' = TRUE /\ transaction' = [id |-> id, phase |-> "copy"]
      /\ Thread /\ (Works \/ Fails) /\ pc' \in {"clearStaging", "false"}
      /\ pc' = "clearStaging" => phase' \in Phases /\ tx' = id /\ Has({"copy"})'
      /\ id \in misread' /\ Strays(id)
  <2>1. "saveUndo" \in {"saveUndo", "saveCommit", "saveRemoved", "savePublish"} /\ tx = id /\ phase \in Phases
    BY <1>2, <1>3
  <2> QED
    BY <1>4, <1>5, <2>1, SavesLoosely
<1>7. /\ disk' \in Disk /\ Past' /\ phase' \in Phases \cup {"torn"} /\ tx' \in {id, NoApp}
      /\ disk'.dest = disk.dest /\ disk'.staging = disk.staging /\ disk'.backup = disk.backup
      /\ disk'.removing = disk.removing
  BY <1>6 DEF RecordsKept
<1>8. Loosely'
  <2>1. CASE pc' = "false"
    BY <2>1 DEF Loosely, Recovering
  <2>2. CASE pc' = "clearStaging"
    <3>1. /\ transaction'.id = tx' /\ transaction'.phase = "copy" /\ transaction'.phase \in Phases
          /\ phase' \in Phases /\ Has({"copy"})'
      BY <1>5, <1>6, <2>2
    <3>2. disk.removing = NoDir \/ "copy" \in Removal
      BY <1>1, <1>2, <1>5 DEF Body
    <3>3. There' <=> There
      BY <1>3, <1>6, <1>7, <2>2 DEF There
    <3> QED
      BY <1>2, <1>7, <2>2, <3>1, <3>2, <3>3 DEF Loosely, Removal
  <2> QED
    BY <1>6, <2>1, <2>2
<1>9. Lost'
  <2>1. pc' \in Recovering \cup {"false"} /\ pc' \notin Resting \cup {"off", "final"}
    BY <1>6 DEF Recovering, Resting
  <2>2. phase' # "none"
    BY <1>7 DEF Phases
  <2> QED
    BY <1>3, <1>6, <1>7, <2>1, <2>2 DEF Lost
<1>10. /\ transaction' \in Transaction /\ misread \subseteq misread' /\ misread' \subseteq Apps
       /\ caller = "final" => job.id \in misread'
  <2>1. transaction' \in Transaction
    BY <1>5, <1>6 DEF Transaction
  <2> QED
    BY <1>1, <1>2, <1>3, <1>6, <2>1 DEF Common, TypeOK
<1>11. /\ pc # "savePublish" /\ pc \in Recovering \cup {"savePublish"}
       /\ pc' \in IF pc = "savePublish" THEN {"final", "reject"} ELSE Recovering \cup {"false"}
  <2>1. pc # "savePublish" /\ pc' \in Recovering \cup {"false"}
    BY <1>1, <1>6 DEF Recovering
  <2> QED
    BY <1>1, <2>1
<1> QED
  BY <1>1, <1>6, <1>7, <1>8, <1>9, <1>10, <1>11, Drifts

LEMMA SaveCommitDrifts ==
  ASSUME IInv, suspect', SaveCommit, InDoubt
  PROVE  Mixed' /\ (Quiet \/ \E id \in Apps : Strays(id))
<1>1. pc = "saveCommit" /\ pc \in Recovering /\ Common /\ Body /\ NoApp \notin Apps
  BY BodyHolds, InstallerAssumption DEF SaveCommit, save_transaction, Goto, Recovering, InstallerAssumption
<1>2. /\ tx \in Apps /\ transaction.id = tx /\ phase \in Phases /\ transaction.phase \in Phases
      /\ (transaction.phase \in Removal <=> phase \in Removal)
      /\ transaction.phase = "publish" /\ live[tx] = 0 /\ disk.staging = NoDir /\ There
      /\ caller = "final" => job.id \in misread \cup {tx}
  BY <1>1, LooselyAtHand
<1>3. PICK id \in Apps : id = tx
  BY <1>2
<1>4. save_transaction("saveCommit", "clearBackup", "false", [id |-> id, phase |-> "commit"])
  BY <1>2, <1>3 DEF SaveCommit
<1>5. /\ "commit" \in Phases /\ ("commit" \in Removal <=> phase \in Removal)
      /\ "commit" # "remove" /\ "clearBackup" # "false"
      /\ "commit" \in {"publish", "commit"} => live[id] = 0
      /\ "commit" = "commit" => disk.staging = NoDir
  BY <1>2, <1>3 DEF Phases, Removal
<1>6. /\ RecordsKept(id, "commit") /\ Everyone' /\ Lives' /\ Caches' /\ Body'
      /\ Has({"remove"})' => Has({"remove"}) /\ tx' = tx
      /\ misread' = misread \cup {id} /\ suspect' = TRUE /\ transaction' = [id |-> id, phase |-> "commit"]
      /\ Thread /\ (Works \/ Fails) /\ pc' \in {"clearBackup", "false"}
      /\ pc' = "clearBackup" => phase' \in Phases /\ tx' = id /\ Has({"commit"})'
      /\ id \in misread' /\ Strays(id)
  <2>1. "saveCommit" \in {"saveUndo", "saveCommit", "saveRemoved", "savePublish"} /\ tx = id /\ phase \in Phases
    BY <1>2, <1>3
  <2> QED
    BY <1>4, <1>5, <2>1, SavesLoosely
<1>7. /\ disk' \in Disk /\ Past' /\ phase' \in Phases \cup {"torn"} /\ tx' \in {id, NoApp}
      /\ disk'.dest = disk.dest /\ disk'.staging = disk.staging /\ disk'.backup = disk.backup
      /\ disk'.removing = disk.removing
  BY <1>6 DEF RecordsKept
<1>8. Loosely'
  <2>1. CASE pc' = "false"
    BY <2>1 DEF Loosely, Recovering
  <2>2. CASE pc' = "clearBackup"
    <3>1. /\ transaction'.id = tx' /\ transaction'.phase = "commit" /\ transaction'.phase \in Phases
          /\ phase' \in Phases /\ Has({"commit"})'
      BY <1>5, <1>6, <2>2
    <3>2. disk.removing = NoDir \/ "commit" \in Removal
      BY <1>1, <1>2, <1>5 DEF Body
    <3>3. There' <=> There
      BY <1>3, <1>6, <1>7, <2>2 DEF There
    <3> QED
      BY <1>2, <1>7, <2>2, <3>1, <3>2, <3>3 DEF Loosely, Removal
  <2> QED
    BY <1>6, <2>1, <2>2
<1>9. Lost'
  <2>1. pc' \in Recovering \cup {"false"} /\ pc' \notin Resting \cup {"off", "final"}
    BY <1>6 DEF Recovering, Resting
  <2>2. phase' # "none"
    BY <1>7 DEF Phases
  <2> QED
    BY <1>3, <1>6, <1>7, <2>1, <2>2 DEF Lost
<1>10. /\ transaction' \in Transaction /\ misread \subseteq misread' /\ misread' \subseteq Apps
       /\ caller = "final" => job.id \in misread'
  <2>1. transaction' \in Transaction
    BY <1>5, <1>6 DEF Transaction
  <2> QED
    BY <1>1, <1>2, <1>3, <1>6, <2>1 DEF Common, TypeOK
<1>11. /\ pc # "savePublish" /\ pc \in Recovering \cup {"savePublish"}
       /\ pc' \in IF pc = "savePublish" THEN {"final", "reject"} ELSE Recovering \cup {"false"}
  <2>1. pc # "savePublish" /\ pc' \in Recovering \cup {"false"}
    BY <1>1, <1>6 DEF Recovering
  <2> QED
    BY <1>1, <2>1
<1> QED
  BY <1>1, <1>6, <1>7, <1>8, <1>9, <1>10, <1>11, Drifts

LEMMA SaveRemovedDrifts ==
  ASSUME IInv, suspect', SaveRemoved, InDoubt
  PROVE  Mixed' /\ (Quiet \/ \E id \in Apps : Strays(id))
<1>1. pc = "saveRemoved" /\ pc \in Recovering /\ Common /\ Body /\ NoApp \notin Apps
  BY BodyHolds, InstallerAssumption DEF SaveRemoved, save_transaction, Goto, Recovering, InstallerAssumption
<1>2. /\ tx \in Apps /\ transaction.id = tx /\ phase \in Phases /\ transaction.phase \in Phases
      /\ (transaction.phase \in Removal <=> phase \in Removal)
      /\ transaction.phase = "remove"
      /\ caller = "final" => job.id \in misread \cup {tx}
  BY <1>1, LooselyAtHand
<1>3. PICK id \in Apps : id = tx
  BY <1>2
<1>4. save_transaction("saveRemoved", "clearRemoving", "false", [id |-> id, phase |-> "removed"])
  BY <1>2, <1>3 DEF SaveRemoved
<1>5. /\ "removed" \in Phases /\ ("removed" \in Removal <=> phase \in Removal)
      /\ "removed" # "remove" /\ "clearRemoving" # "false"
      /\ "removed" \in {"publish", "commit"} => live[id] = 0
      /\ "removed" = "commit" => disk.staging = NoDir
  BY <1>2, <1>3 DEF Phases, Removal
<1>6. /\ RecordsKept(id, "removed") /\ Everyone' /\ Lives' /\ Caches' /\ Body'
      /\ Has({"remove"})' => Has({"remove"}) /\ tx' = tx
      /\ misread' = misread \cup {id} /\ suspect' = TRUE /\ transaction' = [id |-> id, phase |-> "removed"]
      /\ Thread /\ (Works \/ Fails) /\ pc' \in {"clearRemoving", "false"}
      /\ pc' = "clearRemoving" => phase' \in Phases /\ tx' = id /\ Has({"removed"})'
      /\ id \in misread' /\ Strays(id)
  <2>1. "saveRemoved" \in {"saveUndo", "saveCommit", "saveRemoved", "savePublish"} /\ tx = id /\ phase \in Phases
    BY <1>2, <1>3
  <2> QED
    BY <1>4, <1>5, <2>1, SavesLoosely
<1>7. /\ disk' \in Disk /\ Past' /\ phase' \in Phases \cup {"torn"} /\ tx' \in {id, NoApp}
      /\ disk'.dest = disk.dest /\ disk'.staging = disk.staging /\ disk'.backup = disk.backup
      /\ disk'.removing = disk.removing
  BY <1>6 DEF RecordsKept
<1>8. Loosely'
  <2>1. CASE pc' = "false"
    BY <2>1 DEF Loosely, Recovering
  <2>2. CASE pc' = "clearRemoving"
    <3>1. /\ transaction'.id = tx' /\ transaction'.phase = "removed" /\ transaction'.phase \in Phases
          /\ phase' \in Phases /\ Has({"removed"})'
      BY <1>5, <1>6, <2>2
    <3>2. disk.removing = NoDir \/ "removed" \in Removal
      BY <1>1, <1>2, <1>5 DEF Body
    <3>3. There' <=> There
      BY <1>3, <1>6, <1>7, <2>2 DEF There
    <3> QED
      BY <1>2, <1>7, <2>2, <3>1, <3>2, <3>3 DEF Loosely, Removal
  <2> QED
    BY <1>6, <2>1, <2>2
<1>9. Lost'
  <2>1. pc' \in Recovering \cup {"false"} /\ pc' \notin Resting \cup {"off", "final"}
    BY <1>6 DEF Recovering, Resting
  <2>2. phase' # "none"
    BY <1>7 DEF Phases
  <2> QED
    BY <1>3, <1>6, <1>7, <2>1, <2>2 DEF Lost
<1>10. /\ transaction' \in Transaction /\ misread \subseteq misread' /\ misread' \subseteq Apps
       /\ caller = "final" => job.id \in misread'
  <2>1. transaction' \in Transaction
    BY <1>5, <1>6 DEF Transaction
  <2> QED
    BY <1>1, <1>2, <1>3, <1>6, <2>1 DEF Common, TypeOK
<1>11. /\ pc # "savePublish" /\ pc \in Recovering \cup {"savePublish"}
       /\ pc' \in IF pc = "savePublish" THEN {"final", "reject"} ELSE Recovering \cup {"false"}
  <2>1. pc # "savePublish" /\ pc' \in Recovering \cup {"false"}
    BY <1>1, <1>6 DEF Recovering
  <2> QED
    BY <1>1, <2>1
<1> QED
  BY <1>1, <1>6, <1>7, <1>8, <1>9, <1>10, <1>11, Drifts

LEMMA SavePublishDrifts ==
  ASSUME IInv, suspect', SavePublish, InDoubt
  PROVE  Mixed' /\ (Quiet \/ \E id \in Apps : Strays(id))
<1>1. pc = "savePublish" /\ Common /\ Body /\ NoApp \notin Apps /\ job.id \in Apps
  BY BodyHolds, InstallerAssumption DEF SavePublish, save_transaction, Goto, InstallerAssumption, Common, TypeOK
<1>2. Strict
  BY <1>1 DEF IInv, Mixed, Lost, Recovering
<1>3. disk.journal = [id |-> job.id, phase |-> "copy"] /\ live[job.id] = 0
  BY <1>1, <1>2 DEF Strict, PcInv, At, LetGo, Running
<1>4. phase = "copy" /\ tx = job.id /\ phase \in Phases
  BY <1>3 DEF phase, tx, Phases
<1>5. PICK id \in Apps : id = job.id
  BY <1>1
<1>6. "publish" \in Phases /\ ("publish" \in Removal <=> phase \in Removal)
  BY <1>4 DEF Phases, Removal
<1>7. save_transaction("savePublish", "final", "reject", [id |-> id, phase |-> "publish"])
  BY <1>5 DEF SavePublish
<1>8. /\ RecordsKept(id, "publish") /\ Everyone' /\ Lives' /\ Caches' /\ Body'
      /\ Has({"remove"})' => Has({"remove"}) /\ tx' = tx
      /\ misread' = misread \cup {id} /\ suspect' = TRUE /\ transaction' = [id |-> id, phase |-> "publish"]
      /\ Thread /\ (Works \/ Fails) /\ pc' \in {"final", "reject"}
      /\ id \in misread' /\ Strays(id)
  BY <1>3, <1>4, <1>5, <1>6, <1>7, SavesLoosely
<1>9. /\ disk' \in Disk /\ Past' /\ phase' \in Phases \cup {"torn"} /\ tx' \in {id, NoApp}
  BY <1>8 DEF RecordsKept
<1>10. Loosely'
  BY <1>8 DEF Loosely, Recovering
<1>11. Lost'
  <2>1. pc' \notin Resting \cup {"off"} /\ job' = job
    BY <1>8 DEF Resting, Thread
  <2>2. phase' # "none"
    BY <1>9 DEF Phases
  <2> QED
    BY <1>5, <1>8, <1>9, <2>1, <2>2 DEF Lost
<1>12. transaction' \in Transaction /\ misread \subseteq misread' /\ misread' \subseteq Apps
  <2>1. transaction' \in Transaction
    BY <1>6, <1>8 DEF Transaction
  <2> QED
    BY <1>1, <1>8, <2>1 DEF Common, TypeOK
<1>13. /\ pc \in Recovering \cup {"savePublish"}
       /\ pc' \in IF pc = "savePublish" THEN {"final", "reject"} ELSE Recovering \cup {"false"}
  BY <1>1, <1>8
<1> QED
  BY <1>1, <1>8, <1>9, <1>10, <1>11, <1>12, <1>13, Drifts

\* The journal goes, and with it what was mistaken; or a failure leaves it.
LEMMA UnlinkDrifts ==
  ASSUME Mixed, Unlink, InDoubt
  PROVE  IInv' /\ (Quiet \/ \E id \in Apps : Strays(id))
<1>1. /\ pc = "unlink" /\ pc \in Recovering \ {"recover"} /\ Thread /\ (Works \/ Fails)
      /\ UNCHANGED <<asked, transaction, misread>>
      /\ \/ /\ pc' = (IF transaction.phase = "commit" THEN "published" ELSE "true")
            /\ disk' = Recorded(<<>>, NoJournal) /\ suspect' = FALSE
         \/ pc' = "false" /\ disk' = disk /\ suspect' = suspect
  BY MixedFacts DEF Unlink, Atomically, Goto, Recovering
<1>2. /\ Body /\ Loosely /\ disk \in Disk /\ TypeOK /\ Common /\ suspect = TRUE /\ Lost /\ Clean
      /\ disk.dest \in [Apps -> Dir] /\ disk.cache \in [Apps -> 0 .. MaxVersion] /\ NoApp \notin Apps
      /\ tx \in misread \cup {NoApp}
  BY <1>1, MixedFacts DEF Loosely
<1>3. UNCHANGED <<live, ready, job, result, caller, ok, volume, needs_prepare, prepare_ok>>
  BY <1>1 DEF Thread
<1>4. CASE pc' = "false" /\ disk' = disk /\ suspect' = suspect
  <2>1. Body' /\ Loosely'
    BY <1>2, <1>4 DEF Body, Has, There, phase, tx, Loosely, Recovering
  <2>2. UNCHANGED readVars
    BY <1>1, <1>4 DEF readVars
  <2> QED
    BY <1>1, <1>2, <1>4, <2>1, <2>2, StillMixed DEF IInv
<1>5. CASE /\ pc' = (IF transaction.phase = "commit" THEN "published" ELSE "true")
           /\ disk' = Recorded(<<>>, NoJournal) /\ suspect' = FALSE
  <2>1. /\ disk'.dest = disk.dest /\ disk'.staging = NoDir /\ disk'.backup = NoDir /\ disk'.removing = NoDir
        /\ disk'.cache = disk.cache /\ disk'.journal = NoJournal /\ disk'.earlier = <<>>
    BY <1>2, <1>5 DEF Disk, Recorded, Clean
  <2>2. disk' \in Disk
    <3>1. NoJournal \in Transaction
      BY DEF Transaction
    <3>2. <<>> \in Seq(Transaction)
      OBVIOUS
    <3> QED
      BY <1>2, <1>5, <3>1, <3>2 DEF Disk, Recorded
  <2>3. phase' = "none" /\ tx' = NoApp
    BY <2>1 DEF phase, tx, NoJournal
  <2>4. Past' /\ Young' /\ (\A P : "none" \notin P => ~Has(P)')
    BY <2>1, <2>3 DEF Past, Young, Has
  <2>5. Shape'
    BY <1>2, <2>1, <2>3 DEF Shape, Clean, Common, Everyone
  <2>6. Lives'
    BY <1>2, <1>3, <2>1, <2>4 DEF Common, Lives
  <2>7. Caches'
    <3>1. CacheIsOwn'
      BY <1>1, <1>2, <1>3, <2>1 DEF Common, Caches, CacheIsOwn
    <3> QED
      BY <1>1, <1>2, <2>1, <2>3, <3>1 DEF Common, Caches
  <2>8. Owed' /\ ~ToPublish' /\ ~ToRemove'
    BY <2>3 DEF Owed, ToPublish, ToRemove
  <2>9. pc' \in {"true", "published"}
    BY <1>5
  <2>10. At' /\ Stuck' /\ Known'
    BY <2>1, <2>4, <2>9 DEF At, Stuck, Known, Recovering
  <2>11. LetGo' /\ Settled'
    BY <1>1, <1>2, <2>9, PassGoesOn DEF Common, Passing, Returned
  <2>12. TypeOK'
    <3>1. inDoubt' \in BOOLEAN
      <4>1. (inDoubt \/ WrittenInDoubt) \in BOOLEAN
        OBVIOUS
      <4> QED
        BY <4>1 DEF InDoubt
    <3>2. /\ pc' \in Points /\ asked' \subseteq asked /\ transaction' \in Transaction /\ suspect' \in BOOLEAN
          /\ misread' \subseteq Apps
      BY <1>1, <1>2, <1>5, <2>9 DEF TypeOK, Points, Returned
    <3> QED
      BY <1>1, <1>2, <2>2, <3>1, <3>2, ThreadTypes
  <2>13. \A a \in Apps : Counts(a)' = Counts(a)
    BY <1>2, <2>1, <2>3 DEF Counts, Clean
  <2>14. AskedFor'
    <3>1. job.id \in Apps
      BY <1>2 DEF TypeOK
    <3>2. pc \in Passing
      BY <1>1 DEF Passing
    <3> QED
      BY <1>1, <1>2, <1>3, <2>8, <2>9, <2>13, <3>1, <3>2 DEF Common, AskedFor
  <2>15. FinalPass'
    <3>1. caller = "final" => job.id \in misread
      BY <1>1, <1>2 DEF Common, FinalPass, Passing
    <3> QED
      BY <1>1, <1>3, <3>1 DEF FinalPass
  <2>16. Quiet
    BY <1>1, <1>3, <2>13 DEF Quiet, CountsStay
  <2> QED
    BY <1>5, <2>4, <2>5, <2>6, <2>7, <2>8, <2>10, <2>11, <2>12, <2>14, <2>15, <2>16
       DEF IInv, Strict, DiskInv, PcInv
<1> QED
  BY <1>1, <1>4, <1>5

-----------------------------------------------------------------------------
\* All together.

\* A step of the store, or of a job or an application of it, or none.
Maps ==
  \/ Quiet
  \/ \E id \in Apps : Strays(id)
  \/ \E j \in [id : Apps, ver : 0 .. MaxVersion] : CarriesOut(j)
  \/ Store!Next

\* The whole of a pass, whatever it takes the journal for.
LEMMA PassStep ==
  ASSUME IInv, recover_locked, InDoubt
  PROVE  IInv' /\ Maps
<1>1. CASE Strict /\ ~suspect'
  BY <1>1, RecoverStep DEF IInv, Maps
<1>2. CASE suspect' /\ (Look \/ SaveUndo \/ SaveCommit \/ SaveRemoved)
  BY <1>2, LookDrifts, SaveUndoDrifts, SaveCommitDrifts, SaveRemovedDrifts DEF IInv, Maps
<1>3. ASSUME ~(Look \/ SaveUndo \/ SaveCommit \/ SaveRemoved)
      PROVE  suspect' = suspect \/ Unlink
  BY <1>3 DEF recover_locked, VerifyGood, VerifyBad, Restore, ClearStaging, Keep, Publish, ClearBackup, ClearCache,
              Discard, ClearRemoving, Clear, readVars
<1>4. Strict => ~suspect
  BY DEF Strict
<1>5. Mixed => suspect = TRUE
  BY MixedFacts
<1>6. CASE Unlink
  <2>1. suspect' = (suspect /\ pc' = "false")
    BY <1>6 DEF Unlink
  <2> QED
    BY <1>1, <1>4, <1>6, <2>1, UnlinkDrifts DEF IInv, Maps
<1>7. CASE Mixed /\ (VerifyGood \/ VerifyBad \/ Restore \/ ClearStaging \/ Keep \/ Publish \/ ClearBackup \/ ClearCache
                     \/ Discard \/ ClearRemoving)
  <2>1. Mixed' /\ (Quiet \/ \E id \in Apps : Strays(id))
    BY <1>7, VerifyDrifts, RestoreDrifts, ClearStagingDrifts, KeepDrifts, PublishDrifts, ClearBackupDrifts,
       ClearCacheDrifts, DiscardDrifts, ClearRemovingDrifts
  <2> QED
    BY <2>1 DEF IInv, Maps
<1>8. ASSUME Mixed, Look \/ SaveUndo \/ SaveCommit \/ SaveRemoved
      PROVE  suspect'
  <2>1. suspect = TRUE
    BY <1>5, <1>8
  <2>2. suspect' = suspect \/ suspect' = TRUE
    BY <1>8 DEF Look, SaveUndo, SaveCommit, SaveRemoved, save_transaction, Mistaken, readVars
  <2> QED
    BY <2>1, <2>2
<1> QED
  BY <1>1, <1>2, <1>3, <1>4, <1>6, <1>7, <1>8 DEF IInv, recover_locked

\* The steps of the thread outside the passes.
LEMMA WorkStep ==
  ASSUME IInv, worker \/ recover_card \/ app_installer_recover, InDoubt
  PROVE  IInv' /\ Maps
<1>1. CASE Start \/ Finalise \/ Migrate \/ ReturnFirst \/ ReturnFinal \/ ReturnDiscard \/ recover_card
           \/ app_installer_recover
  BY <1>1, StartStep, FinaliseStep, MigrateStep, ReturnStep DEF Maps
<1>2. CASE Finish
  BY <1>2, FinishStep DEF Maps, Store!Next
<1>3. CASE Prepared \/ Check \/ SaveRemove \/ SaveCopy \/ Copy \/ CopyVerified
  <2>1. pc \in {"wait", "check", "saveRemove", "saveCopy", "copy", "copying"}
    BY <1>3 DEF Prepared, Check, SaveRemove, SaveCopy, Copy, CopyVerified, save_transaction, Goto
  <2>2. Strict
    BY <2>1 DEF IInv, Mixed, Lost, Recovering
  <2>3. Strict' /\ Quiet
    BY <1>3, <2>2, PreparedStep, CheckStep, SaveRemoveStep, SaveCopyStep, CopyStep
  <2> QED
    BY <2>3 DEF IInv, Maps
<1>4. CASE SavePublish
  <2>1. CASE suspect'
    BY <1>4, <2>1, SavePublishDrifts DEF IInv, Maps
  <2>2. CASE ~suspect'
    <3>1. Strict
      BY <1>4 DEF IInv, Mixed, Lost, Recovering, SavePublish, save_transaction, Goto
    <3> QED
      BY <1>4, <2>2, <3>1, SavePublishStep DEF IInv, Maps
  <2> QED
    BY <2>1, <2>2
<1> QED
  BY <1>1, <1>2, <1>3, <1>4 DEF worker

\* Every step keeps the invariant, and is one of the store or none.
LEMMA StepKeeps ==
  ASSUME IInv, Next
  PROVE  IInv' /\ Maps
<1>1. Step /\ InDoubt
  BY DEF Next, InDoubt
<1>2. CASE recover_locked
  BY <1>1, <1>2, PassStep
<1>3. CASE worker \/ recover_card \/ app_installer_recover
  BY <1>1, <1>3, WorkStep
<1>4. CASE UiStep
  <2>1. ASSUME NEW j \in [id : Apps, ver : 0 .. MaxVersion], app_installer_start(j)
        PROVE  IInv' /\ Maps
    BY <1>1, <2>1, JobStep DEF Maps, Store!Next, Store!Job
  <2>2. CASE app_installer_process \/ app_installer_storage_changed \/ start_card_recovery
    BY <1>1, <2>2, ProcessStep, StorageStep, BootStep DEF Maps
  <2>3. ASSUME NEW a \in Apps, OpenApp(a) \/ ExitApp(a) \/ UseCache(a)
        PROVE  IInv' /\ Maps
    BY <1>1, <2>3, OpenStep, ExitStep, UseCacheStep DEF Maps
  <2> QED
    BY <1>4, <2>1, <2>2, <2>3 DEF UiStep
<1>5. CASE RemoveCard \/ InsertCard \/ Boot
  BY <1>1, <1>5, RemoveCardStep, InsertCardStep, BootStep DEF Maps
<1>6. CASE PowerFailure
  <2>1. IInv' /\ CountsStay /\ UNCHANGED <<job, asked, misread>> /\ result' = "idle"
    BY <1>1, <1>6, PowerFailureStep
  <2>2. [a \in Apps |-> Counts(a)]' = [a \in Apps |-> Counts(a)]
    BY <2>1 DEF CountsStay
  <2> QED
    BY <2>1, <2>2 DEF Maps, Store!Next, Store!PowerFailure
<1> QED
  BY <1>1, <1>2, <1>3, <1>4, <1>5, <1>6 DEF Step, ThreadStep

\* A step that changes nothing keeps the invariant.
LEMMA StutterKeeps ==
  ASSUME IInv, UNCHANGED vars
  PROVE  IInv' /\ CountsStay
<1>1. UNCHANGED <<volume, card, changed, disk, result, job, needs_prepare, prepare_ok, jobs, ready, recovery_pending, live,
                  pc, caller, ok, transaction, suspect, misread, hampered, inDoubt, asked, faults, outages>>
  BY DEF vars, readVars
<1>2. phase' = phase /\ tx' = tx /\ (There' <=> There) /\ (Clean' <=> Clean) /\ (\A P : Has(P)' <=> Has(P))
  BY <1>1 DEF phase, tx, There, Clean, Has
<1>3. CountsStay /\ (ToPublish' <=> ToPublish) /\ (ToRemove' <=> ToRemove)
  BY <1>1, <1>2 DEF CountsStay, Counts, ToPublish, ToRemove
<1>4. Common
  BY BodyHolds
<1>5. TypeOK'
  BY <1>1, <1>4 DEF Common, TypeOK
<1>6. LetGo' /\ Known' /\ FinalPass'
  BY <1>1, <1>2, <1>4 DEF Common, LetGo, Running, Known, FinalPass
<1>7. AskedFor'
  <2>1. Counts(job.id)' = Counts(job.id)
    BY <1>1, <1>3, <1>4 DEF CountsStay, Common, TypeOK
  <2> QED
    BY <1>1, <1>3, <1>4, <2>1 DEF Common, AskedFor
<1>8. Strict => At' /\ Stuck' /\ Settled'
  BY <1>1, <1>2 DEF Strict, PcInv, At, Stuck, Settled
<1>9. Mixed => Lost' /\ Loosely'
  BY <1>1, <1>2 DEF Mixed, Lost, Loosely
<1> QED
  BY <1>1, <1>3, <1>5, <1>6, <1>7, <1>8, <1>9, StandsStill

\* The invariant holds throughout.
LEMMA Invariance == Spec => []IInv
<1>1. Init => IInv
  BY InitHolds
<1>2. IInv /\ [Next]_vars => IInv'
  BY StepKeeps, StutterKeeps
<1> QED
  BY <1>1, <1>2, PTL DEF Spec

\* No crash, failed operation or loss of the card, and no sequence of them, leaves
\* on the volume what recover_locked (app_installer.c) cannot carry through: a pass
\* gives up only when an operation of that very pass failed, or when a read error has
\* made this very journal pass for a shorter one (sd_transaction_read, 159-173).
THEOREM RecoveryEnds == Spec => []RecoveryNeverStuck
<1>1. IInv => RecoveryNeverStuck
  BY DEF IInv, Strict, Mixed, PcInv, Stuck, RecoveryNeverStuck
<1> QED
  BY <1>1, Invariance, PTL

\* A volume is offered to applications (recovery_ready) only with each of them in its
\* place, whole, and nothing left over of a transaction.  A journal that passed for a
\* shorter one is no exception: a volume is not offered before that journal is gone.
THEOREM OfferedIsSettled == Spec => []ReadyMeansSettled
<1>1. IInv => ReadyMeansSettled
  BY DEF IInv, Strict, Mixed, PcInv, DiskInv, Settled, Resting, Clean, Shape, Lost, ReadyMeansSettled
<1> QED
  BY <1>1, Invariance, PTL

\* No version of an application runs on the cache another version wrote, whatever was
\* interrupted between the exchange of its directory and the removal of its cache;
\* excepted is an application whose journal a read error made pass for a shorter one,
\* since recover_locked then deletes it with the old cache in place (216-219).
THEOREM CacheBelongs == Spec => []CacheIsOwn
<1>1. IInv => CacheIsOwn
  BY DEF IInv, Strict, Mixed, Blurred, DiskInv, Caches
<1> QED
  BY <1>1, Invariance, PTL

\* recover_locked is "called with storage locked and no live module from this
\* transaction": the directory of an application is never moved while the application
\* runs, unless a save on the card was reported failed with its record written.
THEOREM NothingLiveIsMoved == Spec => []NoLiveModuleUnlessInDoubt
<1>1. ASSUME Strict
      PROVE  NoLiveModuleUnlessInDoubt
  <2>1. pc \in {"keep", "publish", "discard"} => transaction.id = tx
    BY <1>1, AtHand DEF Recovering
  <2> QED
    BY <1>1, <2>1 DEF Strict, PcInv, DiskInv, At, Lives, Known, Has, NoLiveModule, NoLiveModuleUnlessInDoubt
<1>2. ASSUME Mixed, pc \in {"keep", "publish", "discard"}, ~inDoubt
      PROVE  live[transaction.id] = 0
  <2>1. /\ tx \in Apps /\ transaction.id = tx /\ Has({transaction.phase})
        /\ pc \notin {"discard", "saveRemoved"} => transaction.phase = "publish" /\ live[tx] = 0
        /\ pc \in {"discard", "saveRemoved"} => transaction.phase = "remove"
    BY <1>2, LooselyAtHand DEF IInv
  <2>2. pc = "discard" => live[tx] = 0
    BY <1>2, <2>1 DEF Mixed, Known
  <2> QED
    BY <1>2, <2>1, <2>2
<1>3. IInv => NoLiveModuleUnlessInDoubt
  BY <1>1, <1>2 DEF IInv, NoLiveModule, NoLiveModuleUnlessInDoubt
<1> QED
  BY <1>3, Invariance, PTL

\* The installer implements the store it promises: every step of the UI, the thread,
\* the card or the power is one atomic step of AppStore or none, with the installed
\* version of an application found where the transaction has left it.  A step that
\* takes the journal for a shorter one, or goes on from there, may do anything to the
\* one application of that transaction, and nothing to another.
THEOREM StoreIsKept == Spec => StoreSpec
<1>1. Init => Store!Init
  BY InitHolds
<1>2. IInv /\ [Next]_vars => [Store!Next]_(Store!storeVars)
  <2> SUFFICES ASSUME IInv, [Next]_vars
               PROVE  [Store!Next]_(Store!storeVars)
    OBVIOUS
  <2>1. ASSUME CountsStay, UNCHANGED <<result, job, asked, misread>>
        PROVE  UNCHANGED Store!storeVars
    <3>1. [a \in Apps |-> Counts(a)]' = [a \in Apps |-> Counts(a)]
      BY <2>1 DEF CountsStay
    <3> QED
      BY <2>1, <3>1 DEF Store!storeVars
  <2>2. ASSUME NEW j \in [id : Apps, ver : 0 .. MaxVersion], CarriesOut(j)
        PROVE  Store!Change(j)
    <3>1. j.id \in Apps
      OBVIOUS
    <3>2. [a \in Apps |-> Counts(a)]' = [[a \in Apps |-> Counts(a)] EXCEPT ![j.id] = j.ver]
      BY <2>2, <3>1 DEF CarriesOut
    <3>3. [a \in Apps |-> Counts(a)][j.id] = Counts(j.id)
      BY <3>1
    <3> QED
      BY <2>2, <3>2, <3>3 DEF CarriesOut, Store!Change
  <2>3. ASSUME NEW id \in Apps, Strays(id)
        PROVE  Store!Stray(id)
    <3>1. PICK version \in 0 .. MaxVersion : Counts(id)' = version
      BY <2>3 DEF Strays
    <3>2. [a \in Apps |-> Counts(a)]' = [[a \in Apps |-> Counts(a)] EXCEPT ![id] = version]
      BY <2>3, <3>1 DEF Strays
    <3> QED
      BY <2>3, <3>1, <3>2 DEF Strays, Store!Stray
  <2>4. CASE Next
    BY <2>1, <2>2, <2>3, <2>4, StepKeeps DEF Maps, Quiet, Store!Next, Store!Job
  <2>5. CASE UNCHANGED vars
    BY <2>1, <2>5, StutterKeeps DEF vars, readVars
  <2> QED
    BY <2>4, <2>5
<1> QED
  BY <1>1, <1>2, Invariance, PTL DEF Spec, StoreSpec, Store!Spec
=============================================================================
