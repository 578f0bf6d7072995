---------------------------- MODULE AppInstaller ----------------------------
(***************************************************************************)
(* Installing, updating and removing applications on one volume,           *)
(* src/ui/platform/app_installer.c: the job the UI starts and the thread   *)
(* that performs it, the journal of the transaction, and its recovery      *)
(* after a failed operation, the loss of the card or a power failure.      *)
(*                                                                         *)
(* One action is one operation on the file system, or one step of the UI   *)
(* thread.  A failed operation may leave its work half done.  Renaming     *)
(* within a volume and unlinking a file are atomic on the medium, and what *)
(* fsync or rename has reported done stays done.                           *)
(*                                                                         *)
(* Abstracted: file contents and sizes (a directory holds one version of   *)
(* one application, or a torn part), the wording of results, the data      *)
(* directories (migrate_data either succeeds or fails here) and            *)
(* applications that consist of resources only.                            *)
(***************************************************************************)
EXTENDS Naturals, Sequences

CONSTANTS Apps,        \* application ids
          NoApp,
          MaxVersion,  \* number of versions of a package
          Release,     \* the release each version is a build of
          MaxJobs,     \* bound: jobs started
          MaxFaults,   \* bound: operations that fail on a volume in place
          MaxOutages   \* bound: power failures and removals of the card

ASSUME InstallerAssumption ==
  /\ NoApp \notin Apps
  /\ MaxVersion \in Nat \ {0} /\ Release \in [1 .. MaxVersion -> Nat]
  /\ MaxJobs \in Nat /\ MaxFaults \in Nat /\ MaxOutages \in Nat

Version == 1 .. MaxVersion
Torn == MaxVersion + 1          \* partly copied, or partly removed
NoDir == [id |-> NoApp, ver |-> 0]
Dir == {NoDir} \cup [id : Apps, ver : Version \cup {Torn}]
Phases == {"copy", "publish", "commit", "remove", "removed"}
NoJournal == [id |-> NoApp, phase |-> "none"]
NoRecord == [id |-> NoApp, phase |-> "torn"]   \* a journal without a record
Transaction == {NoJournal, NoRecord} \cup [id : Apps, phase : Phases]

VARIABLES
  volume,       \* the one the transaction is on
  disk,         \* what is on it, see Disk
  card,         \* the card is available; every package comes from it
  changed,      \* the storage revision moved, and the UI has not looked yet
  \* the job, its result, whether the UI is to prepare it and did
  result, job, needs_prepare, prepare_ok,
  ready,        \* recovery_ready, under the session of the recovery
  recovery_pending,
  live,         \* the version of each application that is loaded, or zero
  \* the thread: control point, who called recover_locked, outcome of the job
  pc, caller, ok,
  transaction,  \* what the pass has read or written last
  \* history: an operation of this pass failed; a save on the card failed with
  \* its record written; the journal there is was mistaken for a shorter one;
  \* the applications that happened to; the jobs not carried out so far
  hampered, inDoubt, suspect, misread, asked,
  jobs, faults, outages

cardVars  == <<volume, card, changed>>
jobVars   == <<result, job, needs_prepare, prepare_ok, jobs>>
readyVars == <<ready, recovery_pending>>
callVars  == <<caller, ok>>
readVars  == <<transaction, suspect, misread>>
vars == <<disk, cardVars, jobVars, readyVars, live, pc, callVars, readVars,
          hampered, inDoubt, faults, asked, outages>>

\* The directories of the applications, the three of the transaction, the
\* version each cache is of, the last complete record of the journal, and on
\* the card what is before it: first the file as it was created.
Disk == [dest : [Apps -> Dir], staging : Dir, backup : Dir, removing : Dir,
         cache : [Apps -> 0 .. MaxVersion], journal : Transaction,
         earlier : Seq(Transaction)]

Recovering == {"recover", "verify", "restore", "saveUndo", "clearStaging",
               "keep", "publish", "saveCommit", "clearBackup", "clearCache",
               "unlink", "discard", "saveRemoved", "clearRemoving"}
Returned == {"false", "true", "published"}
Points == Recovering \cup Returned \cup
  {"off", "idle", "wait", "start", "check", "saveRemove", "saveCopy", "copy",
   "copying", "savePublish", "final", "reject", "migrate", "finish"}

TypeOK ==
  /\ volume \in {"flash", "sd"} /\ card \in BOOLEAN /\ changed \in BOOLEAN
  /\ disk \in Disk
  /\ result \in {"idle", "running", "done", "failed"}
  /\ job \in [id : Apps, ver : 0 .. MaxVersion]
  /\ needs_prepare \in BOOLEAN /\ prepare_ok \in BOOLEAN
  /\ ready \in BOOLEAN /\ recovery_pending \in BOOLEAN
  /\ live \in [Apps -> 0 .. MaxVersion]
  /\ pc \in Points /\ ok \in BOOLEAN
  /\ caller \in {"boot", "card", "first", "final", "discard"}
  /\ transaction \in Transaction /\ suspect \in BOOLEAN /\ misread \subseteq Apps
  /\ hampered \in BOOLEAN /\ inDoubt \in BOOLEAN
  /\ asked \subseteq [id : Apps, ver : 0 .. MaxVersion]
  /\ jobs \in 0 .. MaxJobs /\ faults \in 0 .. MaxFaults
  /\ outages \in 0 .. MaxOutages

-----------------------------------------------------------------------------
\* Operations on the volume.

\* storage_available of the volume
Available == volume = "flash" \/ card

Goto(from, to) == pc = from /\ pc' = to

\* An operation fails by itself, or because the card is gone.
Fails ==
  /\ hampered' = TRUE
  /\ IF Available THEN faults < MaxFaults /\ faults' = faults + 1
                  ELSE UNCHANGED faults
Works == UNCHANGED <<hampered, faults>>

Thread == UNCHANGED <<cardVars, jobVars, readyVars, live, callVars, outages>>
NoChange == UNCHANGED <<disk, asked>>

Whole(dir, id) == dir.id = id /\ dir.ver \in Version

Tear(dir) == IF dir = NoDir THEN NoDir ELSE [dir EXCEPT !.ver = Torn]

\* clear_stage and the removal of a tree, which may stop half way.
Clear(from, to, half, after) ==
  /\ \/ Goto(from, to) /\ Available /\ disk' = after /\ Works
     \/ Goto(from, from) /\ Available /\ disk # half /\ disk' = half /\ Works
     \/ Goto(from, "false") /\ Fails /\ disk' \in {disk, half}
  /\ Thread /\ UNCHANGED <<asked, readVars>>

\* rename or unlink: done or not done.
Atomically(from, to, after) ==
  /\ \/ Goto(from, to) /\ disk' = after /\ Works
     \/ Goto(from, "false") /\ Fails /\ UNCHANGED disk
  /\ Thread

-----------------------------------------------------------------------------
\* The journal.

tx == disk.journal.id
phase == disk.journal.phase

\* A read of the card that fails passes for the end of the journal: what was found
\* until then is taken for all there is.
Short == DOMAIN disk.earlier
Mistaken == suspect' = TRUE /\ misread' = misread \cup {tx}

Recorded(earlier, journal) == [disk EXCEPT !.earlier = earlier, !.journal = journal]

\* save_transaction.  On the card it creates the file.
Saving == IF disk.journal = NoJournal /\ volume = "sd"
            THEN Recorded(<<>>, NoRecord) ELSE disk

\* A record goes behind those there are; on flash the file is replaced.
Appended(record) ==
  Recorded(IF volume = "flash" \/ disk.journal = NoJournal THEN <<>>
                                ELSE Append(disk.earlier, disk.journal), record)

\* With n of them found the next one is written over, and those after it stay.
Written(n, record) ==
  IF n = Len(disk.earlier) THEN Recorded(disk.earlier, record)
                           ELSE [disk EXCEPT !.earlier[n + 1] = record]

\* Cut off where the writing failed.
Cut(n) == Recorded(SubSeq(disk.earlier, 1, n - 1), disk.earlier[n])

save_transaction(from, to, failed, record) ==
  /\ \/ /\ Goto(from, from) /\ Available /\ Works
        /\ disk # Saving /\ disk' = Saving
        /\ UNCHANGED readVars
     \/ /\ Goto(from, to) /\ Available /\ Works
        /\ disk' = Appended(record) /\ transaction' = record
        /\ UNCHANGED <<suspect, misread>>
     \/ /\ Goto(from, failed) /\ Fails
        /\ disk' \in {disk, Saving} \cup (IF volume = "sd" THEN {Appended(record)} ELSE {})
        /\ transaction' = record /\ UNCHANGED <<suspect, misread>>
     \/ /\ Fails
        /\ \E n \in Short :
             \/ /\ Goto(from, to) /\ Available /\ disk' = Written(n, record)
                /\ IF n = Len(disk.earlier) THEN UNCHANGED <<suspect, misread>> ELSE Mistaken
             \/ Goto(from, failed) /\ disk' \in {Written(n, record), Cut(n)} /\ Mistaken
        /\ transaction' = record
  /\ Thread /\ UNCHANGED asked

-----------------------------------------------------------------------------
\* recover_locked.

Found == disk.dest[transaction.id]
Installed == Found # NoDir

\* A directory becomes the application, or stops being it.
Published(dir) == [disk.dest EXCEPT ![transaction.id] = dir]
CarriedOut(version) == asked' = asked \ {[id |-> transaction.id, ver |-> version]}

\* What is to be done first, by what the record says and what is found on the
\* volume; anything else is refused.
Plan(record, to) ==
  \/ record = NoJournal /\ disk.backup = NoDir /\ to = "clearStaging"
  \/ /\ record = NoRecord /\ volume = "sd" /\ to = "clearStaging"
     /\ disk.backup = NoDir /\ disk.removing = NoDir
  \/ record.phase = "copy" /\ disk.backup = NoDir /\ to = "clearStaging"
  \/ record.phase = "publish" /\ disk.staging # NoDir /\ to = "verify"
  \/ /\ record.phase = "publish" /\ disk.staging = NoDir /\ to = "saveCommit"
     /\ disk.dest[record.id] # NoDir
  \/ record.phase = "commit" /\ disk.dest[record.id] # NoDir /\ to = "clearBackup"
  \/ /\ record.phase = "remove" /\ disk.removing = NoDir /\ to = "discard"
     /\ disk.dest[record.id] # NoDir
  \/ record.phase = "remove" /\ disk.dest[record.id] = NoDir /\ to = "saveRemoved"
  \/ record.phase = "removed" /\ to = "clearRemoving"

PlanOf(record) ==
  IF \E to \in Points : Plan(record, to) THEN Plan(record, pc') ELSE pc' = "false"

Look ==
  /\ pc = "recover" /\ pc' \in Recovering \cup {"false"}
  /\ \/ /\ Available /\ PlanOf(disk.journal) /\ Works
        /\ transaction' = disk.journal /\ UNCHANGED <<suspect, misread>>
     \/ /\ \E n \in Short : PlanOf(disk.earlier[n]) /\ transaction' = disk.earlier[n]
        /\ Fails /\ Mistaken
     \/ pc' = "false" /\ Fails /\ UNCHANGED readVars
  /\ Thread /\ NoChange

\* The staged copy is whole: put it in place, keeping the old version.
VerifyGood ==
  /\ pc = "verify"
  /\ Whole(disk.staging, transaction.id)
  /\ pc' = (IF ~Installed THEN "publish"
            ELSE IF disk.backup = NoDir THEN "keep" ELSE "false")
  /\ Works /\ Thread /\ NoChange /\ UNCHANGED readVars

\* (seeded fault) the old version is not put back
VerifyBadForgets ==
  /\ Goto("verify", "saveUndo")
  /\ IF Whole(disk.staging, transaction.id) THEN Fails ELSE Works
  /\ Thread /\ NoChange /\ UNCHANGED readVars

\* It is not, or cannot be read: put the old version back, if it was moved.
VerifyBad ==
  /\ pc = "verify"
  /\ pc' = (IF disk.backup = NoDir THEN "saveUndo"
            ELSE IF ~Installed THEN "restore" ELSE "false")
  /\ IF Whole(disk.staging, transaction.id) THEN Fails ELSE Works
  /\ Thread /\ NoChange /\ UNCHANGED readVars

Restore ==
  /\ Atomically("restore", "saveUndo",
       [disk EXCEPT !.dest = Published(disk.backup), !.backup = NoDir])
  /\ UNCHANGED <<asked, readVars>>

SaveUndo ==
  save_transaction("saveUndo", "clearStaging", "false", [id |-> transaction.id, phase |-> "copy"])

ClearStaging ==
  Clear("clearStaging", IF transaction.phase = "none" THEN "clearRemoving" ELSE "unlink",
        [disk EXCEPT !.staging = Tear(@)], [disk EXCEPT !.staging = NoDir])

\* (seeded fault) the old version is removed before the new one is in place
KeepNothing ==
  /\ Atomically("keep", "publish", [disk EXCEPT !.dest = Published(NoDir)])
  /\ UNCHANGED <<asked, readVars>>

Keep ==
  /\ Atomically("keep", "publish",
       [disk EXCEPT !.backup = Found, !.dest = Published(NoDir)])
  /\ UNCHANGED <<asked, readVars>>

Publish ==
  /\ Atomically("publish", "saveCommit",
       [disk EXCEPT !.dest = Published(disk.staging), !.staging = NoDir])
  /\ IF pc' = "saveCommit" THEN CarriedOut(disk.staging.ver) ELSE UNCHANGED asked
  /\ UNCHANGED readVars

SaveCommit ==
  save_transaction("saveCommit", "clearBackup", "false", [id |-> transaction.id, phase |-> "commit"])

ClearBackup ==
  Clear("clearBackup", "clearCache",
        [disk EXCEPT !.backup = Tear(@)], [disk EXCEPT !.backup = NoDir])

\* (seeded fault) the cache of the old version stays
CacheStays == Clear("clearCache", "unlink", disk, disk)

ClearCache ==
  Clear("clearCache", "unlink", disk, [disk EXCEPT !.cache[transaction.id] = 0])

Discard ==
  /\ Atomically("discard", "saveRemoved",
       [disk EXCEPT !.removing = Found, !.dest = Published(NoDir)])
  /\ IF pc' = "saveRemoved" THEN CarriedOut(0) ELSE UNCHANGED asked
  /\ UNCHANGED readVars

SaveRemoved ==
  save_transaction("saveRemoved", "clearRemoving", "false", [id |-> transaction.id, phase |-> "removed"])

ClearRemoving ==
  Clear("clearRemoving", IF transaction.phase = "none" THEN "true" ELSE "clearCache",
        [disk EXCEPT !.removing = Tear(@)], [disk EXCEPT !.removing = NoDir])

Unlink ==
  /\ Atomically("unlink", IF transaction.phase = "commit" THEN "published" ELSE "true",
                Recorded(<<>>, NoJournal))
  /\ suspect' = (suspect /\ pc' = "false")
  /\ UNCHANGED <<asked, transaction, misread>>

recover_locked ==
  \/ Look \/ VerifyGood \/ VerifyBad \/ Restore \/ SaveUndo \/ ClearStaging
  \/ Keep \/ Publish \/ SaveCommit \/ ClearBackup \/ ClearCache
  \/ Discard \/ SaveRemoved \/ ClearRemoving \/ Unlink

\* A pass of recover_locked begins.
Recover(from, who) ==
  Goto(from, "recover") /\ caller' = who /\ hampered' = FALSE

-----------------------------------------------------------------------------
\* The thread of a job.

Locked == UNCHANGED <<cardVars, jobVars, live, outages, asked, readVars>>

\* The UI has let go of the application, or gave up waiting.
Prepared ==
  /\ ~needs_prepare
  /\ Goto("wait", IF prepare_ok THEN "start" ELSE "finish")
  /\ Works /\ Thread /\ NoChange /\ UNCHANGED readVars

\* Under the storage lock: what an earlier job left is recovered first.
Start ==
  /\ \/ (job.ver = 0 \/ card) /\ Available /\ Recover("start", "first")
     \/ ~((job.ver = 0 \/ card) /\ Available) /\ Goto("start", "finish")
        /\ UNCHANGED <<caller, hampered>>
  /\ Locked /\ UNCHANGED <<disk, readyVars, ok, faults>>

Old == disk.dest[job.id]

\* A later release, or another build of the installed one.
Later(new, old) ==
  old # NoDir => new # old.ver /\ Release[new] >= Release[old.ver]

\* The package suits what is installed, or the job is rejected.
Check ==
  /\ \/ job.ver = 0 /\ Whole(Old, job.id) /\ Goto("check", "saveRemove")
     \/ /\ job.ver # 0 /\ (Old # NoDir => Whole(Old, job.id)) /\ card
        /\ Later(job.ver, Old)
        /\ Goto("check", "saveCopy")
     \/ Goto("check", "finish")
  /\ Works /\ Thread /\ NoChange /\ UNCHANGED readVars

SaveRemove ==
  save_transaction("saveRemove", "final", "finish",
                   [id |-> job.id, phase |-> "remove"])

SaveCopy ==
  save_transaction("saveCopy", "copy", "finish", [id |-> job.id, phase |-> "copy"])

\* The copy of the package, which is verified before it counts.
Copy ==
  /\ \/ /\ disk.staging = NoDir /\ card
        /\ Goto("copy", "copying") /\ Works
        /\ disk' = [disk EXCEPT !.staging = [id |-> job.id, ver |-> Torn]]
     \/ Goto("copy", "reject") /\ UNCHANGED disk
        /\ IF card THEN Fails ELSE Works
  /\ Thread /\ UNCHANGED <<asked, readVars>>

CopyVerified ==
  /\ \/ /\ card
        /\ Goto("copying", "savePublish") /\ Works
        /\ disk' = [disk EXCEPT !.staging.ver = job.ver]
     \/ Goto("copying", "reject") /\ UNCHANGED disk
        /\ IF card THEN Fails ELSE Works
  /\ Thread /\ UNCHANGED <<asked, readVars>>

SavePublish ==
  save_transaction("savePublish", "final", "reject",
                   [id |-> job.id, phase |-> "publish"])

\* The transaction is carried through, or what was copied is discarded.
Finalise ==
  /\ Recover("final", "final") \/ Recover("reject", "discard")
  /\ Locked /\ UNCHANGED <<disk, readyVars, ok, faults>>

\* (seeded fault) whatever the recovery returned
ReadyRegardless(value) == ready' = Available

\* volume_ready_set: a card that is gone meanwhile is not the one recovered.
volume_ready_set(value) == ready' = (value /\ Available)

Return(who, to) == pc \in Returned /\ caller = who /\ pc' = to
Afterwards ==
  /\ transaction' = NoJournal
  /\ UNCHANGED <<disk, cardVars, jobVars, recovery_pending, live, caller, outages,
                 asked, suspect, misread>>

ReturnFirst ==
  /\ Return("first", IF pc = "false" THEN "finish" ELSE "check")
  /\ volume_ready_set(pc # "false")
  /\ Works /\ Afterwards /\ UNCHANGED ok

\* A removal succeeds with its recovery, an installation if that published it.
ReturnFinal ==
  /\ Return("final", IF job.ver # 0 /\ pc = "published" THEN "migrate" ELSE "finish")
  /\ volume_ready_set(pc # "false")
  /\ ok' = (job.ver = 0 /\ pc # "false")
  /\ Works /\ Afterwards

ReturnDiscard ==
  /\ Return("discard", "finish")
  /\ volume_ready_set(pc # "false")
  /\ Works /\ Afterwards /\ UNCHANGED ok

\* migrate_data, which may fail.
Migrate ==
  /\ pc = "migrate" /\ pc' = "finish"
  /\ \/ ok' = TRUE /\ Works /\ UNCHANGED ready
     \/ ready' = FALSE /\ Fails /\ UNCHANGED ok
  /\ Afterwards

\* The storage lock is given up and the result published.
Finish ==
  /\ Goto("finish", "idle")
  /\ result' = IF ok THEN "done" ELSE "failed"
  /\ Works /\ NoChange /\ transaction' = NoJournal
  /\ UNCHANGED <<cardVars, job, needs_prepare, prepare_ok, jobs, readyVars, live,
                 callVars, outages, suspect, misread>>

worker ==
  \/ Prepared \/ Start \/ Check \/ SaveRemove \/ SaveCopy \/ Copy \/ CopyVerified
  \/ SavePublish \/ Finalise \/ ReturnFirst \/ ReturnFinal \/ ReturnDiscard
  \/ Migrate \/ Finish

\* recover_card and the boot: ready if prepare_data succeeds too.
ReturnOther(who) ==
  /\ Return(who, "idle")
  /\ \/ volume_ready_set(pc # "false") /\ Works
     \/ volume_ready_set(FALSE) /\ Fails
  /\ Afterwards /\ UNCHANGED ok

recover_card == ReturnOther("card")
app_installer_recover == ReturnOther("boot")

ThreadStep == recover_locked \/ worker \/ recover_card \/ app_installer_recover

-----------------------------------------------------------------------------
\* The UI thread.

app_installer_busy == result = "running" \/ (caller = "card" /\ pc \notin {"off", "idle"})

Ui == UNCHANGED <<disk, volume, card, ok, readVars, hampered, faults, outages>>

app_installer_start(j) ==
  /\ pc = "idle" /\ ~app_installer_busy /\ ready
  /\ IF j.ver = 0 THEN Whole(disk.dest[j.id], j.id) ELSE card
  /\ jobs < MaxJobs /\ jobs' = jobs + 1
  /\ job' = j /\ result' = "running"
  /\ needs_prepare' = TRUE /\ prepare_ok' = FALSE
  /\ pc' = "wait" /\ ok' = FALSE /\ asked' = asked \cup {j}
  /\ caller' = "first"
  /\ UNCHANGED <<disk, cardVars, readyVars, live, readVars, hampered, faults,
                 outages>>

\* The application is gone, or 35 s have passed.
app_installer_process ==
  /\ needs_prepare
  /\ needs_prepare' = FALSE
  /\ prepare_ok' = (live[job.id] = 0)
  /\ Ui /\ UNCHANGED <<changed, result, job, jobs, readyVars, live, pc, caller, asked>>

\* (seeded fault) the application of the job may be opened meanwhile
BlocksByVolume(a) == ~ready

app_installer_blocks(a) == ~ready \/ (result = "running" /\ job.id = a)

\* module_open, under the storage lock: a page, or a service of the catalogue.
OpenApp(a) ==
  /\ pc \in {"idle", "wait", "finish"}
  /\ live[a] = 0 /\ ~app_installer_blocks(a)
  /\ Whole(disk.dest[a], a)
  /\ live' = [live EXCEPT ![a] = disk.dest[a].ver]
  /\ Ui /\ UNCHANGED <<changed, jobVars, readyVars, pc, caller, asked>>

ExitApp(a) ==
  /\ live[a] # 0
  /\ live' = [live EXCEPT ![a] = 0]
  /\ Ui /\ UNCHANGED <<changed, jobVars, readyVars, pc, caller, asked>>

\* A loaded application keeps a cache of its own version.
UseCache(a) ==
  /\ pc \in {"idle", "wait", "finish"} /\ Available
  /\ live[a] # 0
  /\ disk' = [disk EXCEPT !.cache[a] = live[a]]
  /\ UNCHANGED <<cardVars, jobVars, readyVars, live, pc, callVars, readVars,
                 hampered, faults, asked, outages>>

\* The UI notices that the storage changed.
app_installer_storage_changed ==
  /\ changed /\ changed' = FALSE
  /\ IF volume = "sd" THEN ready' = FALSE /\ recovery_pending' = card
                      ELSE UNCHANGED readyVars
  /\ Ui /\ UNCHANGED <<jobVars, live, pc, caller, asked>>

start_card_recovery ==
  /\ recovery_pending /\ pc = "idle" /\ ~app_installer_busy
  /\ recovery_pending' = FALSE
  /\ IF card THEN Recover("idle", "card") ELSE UNCHANGED <<pc, caller, hampered>>
  /\ UNCHANGED <<disk, cardVars, jobVars, ready, live, ok, readVars, faults, asked,
                 outages>>

\* The UI starts after the boot's recovery.
UiRuns == pc # "off" /\ (caller = "boot" => pc = "idle")

UiStep ==
  /\ UiRuns
  /\ \/ \E j \in [id : Apps, ver : 0 .. MaxVersion] : app_installer_start(j)
     \/ app_installer_process \/ app_installer_storage_changed \/ start_card_recovery
     \/ \E a \in Apps : OpenApp(a) \/ ExitApp(a) \/ UseCache(a)

-----------------------------------------------------------------------------
\* The card and the power.

Outage == outages < MaxOutages /\ outages' = outages + 1

\* The session ends at once; the card is mounted again only when nobody holds
\* the storage lock and the platform has let go of the old one.
RemoveCard ==
  /\ card /\ card' = FALSE /\ changed' = TRUE
  /\ Outage
  /\ IF volume = "sd" THEN ready' = FALSE /\ hampered' = TRUE
                      ELSE UNCHANGED <<ready, hampered>>
  /\ UNCHANGED <<disk, volume, jobVars, recovery_pending, live, pc, callVars, readVars,
                 faults, asked>>

InsertCard ==
  /\ ~card /\ pc = "idle" /\ (volume = "sd" => \A a \in Apps : live[a] = 0)
  /\ card' = TRUE /\ changed' = TRUE
  /\ UNCHANGED <<disk, volume, jobVars, readyVars, live, pc, callVars, readVars,
                 hampered, faults, asked, outages>>

PowerFailure ==
  /\ pc # "off" /\ pc' = "off"
  /\ Outage
  /\ card' \in {FALSE, card} /\ changed' = TRUE
  /\ result' = "idle" /\ needs_prepare' = FALSE /\ prepare_ok' = FALSE
  /\ ready' = FALSE /\ recovery_pending' = FALSE
  /\ live' = [a \in Apps |-> 0] /\ transaction' = NoJournal
  /\ UNCHANGED <<disk, volume, job, jobs, callVars, suspect, misread, hampered,
                 faults, asked>>

Boot ==
  /\ IF Available THEN Recover("off", "boot")
                  ELSE Goto("off", "idle") /\ UNCHANGED <<caller, hampered>>
  /\ UNCHANGED <<disk, cardVars, jobVars, readyVars, live, ok, readVars, faults,
                 asked, outages>>

-----------------------------------------------------------------------------
Init ==
  /\ volume \in {"flash", "sd"} /\ card \in BOOLEAN /\ changed = TRUE
  /\ \E installed \in [Apps -> 0 .. MaxVersion] :
       disk = [dest |-> [a \in Apps |-> IF installed[a] = 0 THEN NoDir
                                        ELSE [id |-> a, ver |-> installed[a]]],
               staging |-> NoDir, backup |-> NoDir, removing |-> NoDir,
               cache |-> [a \in Apps |-> 0], journal |-> NoJournal, earlier |-> <<>>]
  /\ result = "idle" /\ job \in [id : Apps, ver : {0}]
  /\ needs_prepare = FALSE /\ prepare_ok = FALSE
  /\ ready = FALSE /\ recovery_pending = FALSE
  /\ live = [a \in Apps |-> 0]
  /\ pc = "off" /\ caller = "boot" /\ ok = FALSE
  /\ transaction = NoJournal /\ suspect = FALSE /\ misread = {}
  /\ hampered = FALSE /\ inDoubt = FALSE /\ asked = {}
  /\ jobs = 0 /\ faults = 0 /\ outages = 0

Step == ThreadStep \/ UiStep \/ RemoveCard \/ InsertCard \/ PowerFailure \/ Boot

\* A save fails, and its record is in the journal all the same.
WrittenInDoubt ==
  /\ pc' \in {"false", "finish", "reject"}
  /\ disk'.journal # disk.journal /\ disk'.journal = transaction'

Next == Step /\ inDoubt' = (inDoubt \/ WrittenInDoubt)

Spec == Init /\ [][Next]_vars

-----------------------------------------------------------------------------
\* Properties

\* No crash, failed operation or loss of the card at any point, and no sequence
\* of them, leaves a transaction that recovery cannot carry through: a pass of
\* recover_locked gives up only if an operation of this very pass failed, or if a
\* read error has made this journal pass for a shorter one before.
RecoveryNeverStuck == TypeOK /\ (pc = "false" => hampered \/ suspect)

\* A volume is offered to applications only with every one of them in its place
\* and nothing of a transaction left over.
ReadyMeansSettled ==
  ready /\ pc = "idle" =>
    /\ disk.staging = NoDir /\ disk.backup = NoDir /\ disk.removing = NoDir
    /\ phase \in {"none", "torn", "copy", "remove"}
    /\ \A a \in Apps : disk.dest[a] = NoDir \/ Whole(disk.dest[a], a)

\* No version runs on the cache of another one, but for an application whose
\* journal passed for a shorter one in a read error.
CacheIsOwn ==
  \A a \in Apps \ misread : live[a] # 0 => disk.cache[a] \in {0, live[a]}

\* "Called with storage locked and no live module from this transaction": the
\* directory of an application is never renamed while the application runs.
NoLiveModule ==
  pc \in {"keep", "publish", "discard"} => live[transaction.id] = 0

\* That holds, through failures, crashes and the loss of the card, as long as no
\* save on the card was reported failed with its record written.
NoLiveModuleUnlessInDoubt == inDoubt \/ NoLiveModule

\* While a transaction is under way the old version counts until the new one is
\* in place, wherever its directory is.
Counts(a) ==
  IF disk.dest[a] = NoDir /\ disk.backup # NoDir /\ tx = a
    THEN disk.backup.ver ELSE disk.dest[a].ver

\* The installer implements the store it promises.
Store == INSTANCE AppStore WITH
           installed <- [a \in Apps |-> Counts(a)],
           status <- result, target <- job, astray <- misread
StoreSpec == Store!Spec
=============================================================================
