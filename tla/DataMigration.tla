--------------------------- MODULE DataMigration ---------------------------
(***************************************************************************)
(* The data directory of one application when the application changes its *)
(* volume (migrate_data of src/src/ui/platform/app_installer.c): it is     *)
(* copied to a staging directory, compared, marked, renamed into place and *)
(* only then deleted where it was.  It runs at the end of an installation, *)
(* when the applications of a card are enabled, and, for the flash, at     *)
(* start-up; any step may fail, the card may leave and the power may go.   *)
(*                                                                         *)
(* Abstracted: installing and removing are one step each and leave the     *)
(* data alone (AppInstaller has their steps); loading and leaving an       *)
(* application likewise (Platform).  A staging directory left by a         *)
(* migration that stopped is emptied by the next before it is used: only   *)
(* the one being filled is kept here.  One rename or unlink takes effect   *)
(* or does not.  A look-up that fails ends it, but where the code takes    *)
(* "could not be looked up" for "is not due".                              *)
(***************************************************************************)
EXTENDS Naturals

CONSTANTS Files,      \* the files of the application's data
          MaxWrites   \* bound: writes of the application

ASSUME DataMigrationAssumption == MaxWrites \in Nat /\ MaxWrites >= 2

VARIABLES there,      \* the volumes with a data directory of the application
          file,       \* its files: the write each has its content from, or zero
          marked,     \* those whose directory holds ".migrating"
          copy,       \* the files in the staging directory being filled
          installed,  \* the volumes that hold the application
          available,  \* the card is
          enabled,    \* the applications of the card are
          ready,      \* the volumes offered
          running,    \* the volume the application was loaded from
          pc, to,     \* migrate_data: control point and target
          writes, alive,      \* history: for each file the writes not written over
          remains,    \* history: volumes whose directory was partly deleted
          split,      \* history: data stood on both volumes, each in its own right
          passedOver, \* history: data elsewhere were left there, and that was in order
          turnedBack  \* history: installed again where only remains were

migrationVars == <<pc, to>>
platformVars  == <<installed, available, enabled, ready, running>>
historyVars   == <<writes, alive, remains, split, passedOver, turnedBack>>
dirVars == <<there, file, marked>>
vars == <<dirVars, copy, platformVars, migrationVars, historyVars>>

Volumes == {"flash", "sd"}
Other(v) == IF v = "flash" THEN "sd" ELSE "flash"

Number == 0 .. MaxWrites
Content == [Files -> Number]
NoFiles == [f \in Files |-> 0]

TypeOK ==
  /\ there \subseteq Volumes /\ file \in [Volumes -> Content]
  /\ marked \subseteq there /\ copy \in Content
  /\ installed \subseteq Volumes /\ available \in BOOLEAN /\ enabled \in BOOLEAN
  /\ ready \subseteq Volumes /\ running \in Volumes \cup {"none", "left"}
  /\ pc \in {"idle", "check", "stage", "copy", "publish", "compare", "clear",
             "unmark"}
  /\ to \in Volumes
  /\ writes \in Number /\ alive \in [Files -> SUBSET (1 .. MaxWrites)]
  /\ remains \subseteq Volumes /\ split \in BOOLEAN
  /\ passedOver \in BOOLEAN /\ turnedBack \in BOOLEAN

storage_available(v) == v = "flash" \/ available

\* "A duplicate copied in by a PC never replaces the internal installation."
storage_app_locate(v) ==
  /\ v \in installed /\ storage_available(v)
  /\ v = "sd" => "flash" \notin installed

\* Every file of the one is in the other; the mark is a file too.
migration_equal(v, u) ==
  /\ v \in there /\ u \in there
  /\ \A f \in Files : file[v][f] # 0 => file[v][f] = file[u][f]
  /\ v \in marked => u \in marked

-----------------------------------------------------------------------------
\* migrate_data, one action per stretch a failure can end.

Source == Other(to)
At(from) == pc = from
Goto(next) == pc' = next /\ UNCHANGED <<to, ready>>

\* The caller offers the volume if the data is in order.
Return(ok) ==
  /\ pc' = "idle" /\ UNCHANGED to
  /\ ready' = IF ok /\ storage_available(to) THEN ready \cup {to} ELSE ready \ {to}

Kept == UNCHANGED <<installed, available, enabled, running, writes, alive, turnedBack>>

\* An error, or a volume that went, ends it wherever it is.
Fail ==
  /\ pc \notin {"idle", "compare"}
  /\ Return(FALSE)
  /\ Kept /\ UNCHANGED <<dirVars, copy, remains, split, passedOver>>

HasOwn(v) == v \in there \ marked

\* Both directories are whole and went their own ways, whatever is done now.
Apart ==
  \/ HasOwn(to) /\ to \notin remains
  \/ to \in marked /\ Source \notin remains /\ file[to] # file[Source]

\* What is found decides: nothing to do, to be left alone, refused while the
\* application is loaded, or to be carried on where it stopped.  Left alone are the
\* data of an application that is on the other volume as well, or whose other volume
\* is not there; a look-up of it that fails (missed) is taken for the first (315), and
\* one in prepare_data for an application that is not there (371, 374).
Check ==
  /\ At("check")
  /\ \E missed \in BOOLEAN :
       LET kept == missed \/ ~storage_available(Source) \/ Source \in installed IN
       /\ IF ~storage_available(to) THEN Return(FALSE)
          ELSE IF kept \/ Source \notin there \/ HasOwn(to) THEN Return(TRUE)
          ELSE IF running # "none" THEN Return(FALSE)
          ELSE Goto(IF to \in there THEN "compare" ELSE "stage")
       /\ passedOver' = (passedOver \/ (Source \in there /\ kept))
  /\ split' = (split \/ (Source \in there /\ Apart))
  /\ Kept /\ UNCHANGED <<dirVars, copy, remains>>

ClearStage ==
  /\ At("stage") /\ storage_available(to)
  /\ copy' = NoFiles
  /\ Goto("copy")
  /\ Kept /\ UNCHANGED <<dirVars, remains, split, passedOver>>

CopyFile(f) ==
  /\ At("copy") /\ available
  /\ copy' = [copy EXCEPT ![f] = file[Source][f]]
  /\ Goto("copy")
  /\ Kept /\ UNCHANGED <<dirVars, remains, split, passedOver>>

\* (seeded fault) the copy is not compared
CopiedUnchecked ==
  /\ At("copy") /\ available
  /\ Goto("publish")
  /\ Kept /\ UNCHANGED <<dirVars, copy, remains, split, passedOver>>

\* The copy is whole, by size and signature of every file.
Copied ==
  /\ At("copy") /\ available
  /\ \A f \in Files : file[Source][f] # 0 => copy[f] = file[Source][f]
  /\ Goto("publish")
  /\ Kept /\ UNCHANGED <<dirVars, copy, remains, split, passedOver>>

\* It is marked where it is, then renamed.
Publish ==
  /\ At("publish") /\ storage_available(to)
  /\ there' = there \cup {to} /\ marked' = marked \cup {to}
  /\ file' = [file EXCEPT ![to] = copy]
  /\ Goto("compare")
  /\ Kept /\ UNCHANGED <<copy, remains, split, passedOver>>

\* (seeded fault) a marked target makes the source superfluous
CompareMarkOnly ==
  /\ At("compare")
  /\ Goto("clear")
  /\ Kept /\ UNCHANGED <<dirVars, copy, remains, split, passedOver>>

\* "A conflicting source stays intact."  So does one that cannot be read.
Compare ==
  /\ At("compare")
  /\ \/ /\ available /\ migration_equal(Source, to)
        /\ Goto("clear")
     \/ Goto("unmark")
  /\ Kept /\ UNCHANGED <<dirVars, copy, remains, split, passedOver>>

\* clear_stage(source): the files, the mark with them, in any order,
ClearFile ==
  /\ At("clear") /\ storage_available(Source)
  /\ \/ /\ \E f \in Files : file[Source][f] # 0 /\ file' = [file EXCEPT ![Source][f] = 0]
        /\ UNCHANGED marked
     \/ Source \in marked /\ marked' = marked \ {Source} /\ UNCHANGED file
  /\ remains' = remains \cup {Source}
  /\ Goto("clear")
  /\ Kept /\ UNCHANGED <<there, copy, split, passedOver>>

\* then the directory.
ClearDirectory ==
  /\ At("clear") /\ storage_available(Source)
  /\ file[Source] = NoFiles /\ Source \notin marked
  /\ there' = there \ {Source} /\ remains' = remains \ {Source}
  /\ Goto("unmark")
  /\ Kept /\ UNCHANGED <<file, marked, copy, split, passedOver>>

Unmark ==
  /\ At("unmark") /\ storage_available(to)
  /\ marked' = marked \ {to}
  /\ Return(TRUE)
  /\ Kept /\ UNCHANGED <<there, file, copy, remains, split, passedOver>>

migrate_data ==
  \/ Check \/ ClearStage \/ (\E f \in Files : CopyFile(f)) \/ Copied \/ Publish
  \/ Compare \/ ClearFile \/ ClearDirectory \/ Unmark \/ Fail

Call(v) == pc' = "check" /\ to' = v

-----------------------------------------------------------------------------
\* The platform around it.

Idle == pc = "idle" /\ UNCHANGED <<dirVars, copy>>
Still == UNCHANGED migrationVars

\* A job that installed or updated the application; the package comes from the
\* card, and the application was sent away before.
Install(v) ==
  /\ Idle /\ available /\ v \in ready /\ running = "none"
  /\ ~storage_app_locate(Other(v))
  /\ installed' = installed \cup {v}
  /\ turnedBack' = (turnedBack \/ v \in remains)
  /\ Call(v)
  /\ UNCHANGED <<available, enabled, ready, running, writes, alive, remains, split, passedOver>>

\* Removing an application leaves its data.  A duplicate on the other volume
\* takes over, and what it needs is not looked at.
Uninstall(v) ==
  /\ Idle /\ v \in ready \cap installed /\ storage_available(v) /\ running = "none"
  /\ installed' = installed \ {v}
  /\ passedOver' = (passedOver \/ (v \in there /\ Other(v) \in installed \cap ready))
  /\ Still
  /\ UNCHANGED <<available, enabled, ready, running, writes, alive, remains, split, turnedBack>>

\* The applications of the card are enabled, also after that failed: the gate is
\* closed until their data has been looked at.
Load ==
  /\ Idle /\ available /\ ~(enabled /\ "sd" \in ready)
  /\ enabled' = TRUE
  /\ IF "sd" \in installed
       THEN Call("sd") /\ ready' = ready \ {"sd"}
       ELSE Still /\ ready' = ready \cup {"sd"}
  /\ UNCHANGED <<installed, available, running, historyVars>>

StartApp(v) ==
  /\ Idle /\ running = "none"
  /\ storage_app_locate(v) /\ v \in ready /\ (v = "sd" => enabled)
  /\ running' = v
  /\ Still /\ UNCHANGED <<installed, available, enabled, ready, historyVars>>

StopApp ==
  /\ running # "none" /\ running' = "none"
  /\ UNCHANGED <<dirVars, copy, migrationVars, installed, available, enabled, ready, historyVars>>

AppWrites(f) ==
  /\ running \in Volumes /\ writes < MaxWrites
  /\ writes' = writes + 1
  /\ there' = there \cup {running}
  /\ file' = [file EXCEPT ![running][f] = writes']
  /\ alive' = [alive EXCEPT ![f] = (@ \ {file[running][f]}) \cup {writes'}]
  /\ UNCHANGED <<marked, copy, platformVars, migrationVars, remains, split, passedOver, turnedBack>>

\* What was loaded from the card stays in memory and can no longer write.
CardLeaves ==
  /\ available
  /\ available' = FALSE /\ enabled' = FALSE /\ ready' = ready \ {"sd"}
  /\ running' = IF running = "sd" THEN "left" ELSE running
  /\ UNCHANGED <<dirVars, copy, migrationVars, installed, historyVars>>

\* It is mounted only once the storage lock is free, and recovered without a
\* look at the data.
CardReturns ==
  /\ Idle /\ ~available
  /\ available' = TRUE /\ ready' = ready \cup {"sd"}
  /\ Still /\ UNCHANGED <<installed, enabled, running, historyVars>>

Mounted == IF available THEN {"sd"} ELSE {}

\* The start prepares the data of what is installed on the flash.
PowerFailure ==
  /\ running' = "none" /\ enabled' = FALSE
  /\ available' \in BOOLEAN
  /\ IF "flash" \in installed
       THEN Call("flash") /\ ready' = Mounted'
       ELSE pc' = "idle" /\ UNCHANGED to /\ ready' = Mounted' \cup {"flash"}
  /\ UNCHANGED <<dirVars, copy, installed, historyVars>>

\* A card that comes from elsewhere may hold the application and data of it.
Init ==
  /\ installed \in SUBSET Volumes
  /\ there \in SUBSET Volumes /\ marked = {} /\ copy = NoFiles
  /\ \E g \in Files :
       file = [v \in Volumes |-> [f \in Files |-> IF v \in there /\ f = g THEN 1 ELSE 0]]
  /\ available \in BOOLEAN /\ enabled = FALSE /\ running = "none" /\ to = "flash"
  /\ IF "flash" \in installed
       THEN pc = "check" /\ ready = Mounted
       ELSE pc = "idle" /\ ready = Mounted \cup {"flash"}
  /\ alive = [f \in Files |-> {file[v][f] : v \in Volumes} \ {0}]
  /\ writes = 1 /\ remains = {} /\ turnedBack = FALSE
  /\ split = (there = Volumes) /\ passedOver = FALSE

Next ==
  \/ migrate_data
  \/ \E v \in Volumes : Install(v) \/ Uninstall(v) \/ StartApp(v)
  \/ \E f \in Files : AppWrites(f)
  \/ Load \/ StopApp \/ CardLeaves \/ CardReturns \/ PowerFailure

Spec == Init /\ [][Next]_vars

-----------------------------------------------------------------------------
\* Properties

\* Whatever fails or stops and however often the application changes volume, a
\* content that was never written over is still in one of the two directories.
NothingLost ==
  \A f \in Files : \A n \in alive[f] : \E v \in Volumes : file[v][f] = n

\* An application that runs sees everything it ever wrote, on whichever volume:
\* wherever a migration fails or stops, the application does not start on a part of
\* its data.  Excepted are data on both volumes, which are documented not to be merged;
\* data that migrate_data leaves on the other volume and calls in order, because the
\* application is there as well, or was and goes, because the card is not there, or
\* because a look-up failed; and an application installed again where an interrupted
\* deletion has left a part.
SeesItsData ==
  running \in Volumes /\ ~split /\ ~passedOver /\ ~turnedBack =>
    \A f \in Files : \A n \in alive[f] : file[running][f] = n
=============================================================================
