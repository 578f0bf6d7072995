---------------------------- MODULE StorageFile ----------------------------
(***************************************************************************)
(* Replacement of one managed file (src/src/services/storage_file.c).  On  *)
(* the internal flash a rename replaces a file atomically.  On the card it *)
(* cannot, and the file is set aside as ".old" before the temporary copy   *)
(* takes its name; a reader therefore calls storage_file_recover first.    *)
(*                                                                         *)
(* The storage lock is held over a whole replacement, so the steps below   *)
(* meet no other file operation; they do meet a card that leaves (every    *)
(* operation after it fails), an operation that fails by itself, and a     *)
(* power failure.  Single renames and unlinks are taken to be atomic.      *)
(***************************************************************************)
CONSTANTS Card,      \* the file is on the card, not on the flash
          Contents,  \* what may be written
          None,      \* no file, no content
          Torn       \* a temporary copy that is not complete; None and Torn are no contents

VARIABLES file,      \* what stands under the name, the ".old" and the ".tmp"
          op,        \* the replacement under way
          available  \* storage_path_available

fileVars == <<file, op>>

Files == [path : Contents \cup {None},
          old  : Contents \cup {None},
          tmp  : Contents \cup {None, Torn}]

Steps == {"idle", "begin", "write", "commit", "setAside", "publish", "sweep", "undo", "discard", "end"}

Ops == [pc : Steps, content : Contents \cup {None}, ok : BOOLEAN]

Idle == [pc |-> "idle", content |-> None, ok |-> FALSE]

NoFile == [path |-> None, old |-> None, tmp |-> None]

\* storage_file_recover, its failures aside.
Recovered(f) ==
  IF Card /\ f.old # None /\ f.path = None
  THEN [f EXCEPT !.path = f.old, !.old = None]
  ELSE f

\* What a reader that recovers first gets to read.
Effective(f) == Recovered(f).path

Goto(pc) == op' = [op EXCEPT !.pc = pc]

Finish(ok) == op' = [op EXCEPT !.pc = "end", !.ok = ok]

\* storage_file_replace and storage_record_save: the temporary copy is made here.
StartReplace(content) ==
  op' = [pc |-> "begin", content |-> content, ok |-> FALSE]

\* storage_file_commit called for a complete copy of the caller's own.
StartCommit(content) ==
  /\ op' = [pc |-> "commit", content |-> content, ok |-> FALSE]
  /\ file' = [file EXCEPT !.tmp = content]

\* replace_begin: recover, then open the temporary copy, truncated.
replace_begin ==
  /\ op.pc = "begin"
  /\ \/ available /\ file' = [Recovered(file) EXCEPT !.tmp = Torn] /\ Goto("write")
     \/ file' \in {file} \cup (IF available THEN {Recovered(file)} ELSE {}) /\ Finish(FALSE)

\* transfer_write, fsync and close: the copy is complete and on the medium, or given up.
Write ==
  /\ op.pc = "write"
  /\ \/ available /\ file' = [file EXCEPT !.tmp = op.content] /\ Goto("commit")
     \/ Goto("discard") /\ UNCHANGED file

\* The first half of storage_file_commit on the card: recover, drop a stale ".old".
CommitBegin ==
  /\ op.pc = "commit"
  /\ Card
  /\ \/ available /\ file' = [Recovered(file) EXCEPT !.old = None] /\ Goto("setAside")
     \/ file' \in {file} \cup (IF available THEN {Recovered(file)} ELSE {}) /\ Goto("undo")

SetAside ==
  /\ op.pc = "setAside"
  /\ \/ available /\ file' = [file EXCEPT !.old = file.path, !.path = None] /\ Goto("publish")
     \/ Goto("undo") /\ UNCHANGED file

\* The temporary copy takes the name.  On the flash this replaces the old file.
Publish ==
  /\ op.pc = IF Card THEN "publish" ELSE "commit"
  /\ \/ available /\ file' = [file EXCEPT !.path = file.tmp, !.tmp = None] /\ Goto("sweep")
     \/ Goto("undo") /\ UNCHANGED file

\* The ".old" goes; nobody looks whether it did.
Sweep ==
  /\ op.pc = "sweep"
  /\ \/ Card /\ available /\ file' = [file EXCEPT !.old = None]
     \/ UNCHANGED file
  /\ Finish(TRUE)

\* A commit that failed puts back what it had set aside, if it still can.
Undo ==
  /\ op.pc = "undo"
  /\ file' \in {file} \cup (IF available THEN {Recovered(file)} ELSE {})
  /\ Goto("discard")

\* replace_finish removes the copy of a save that failed.  Nobody looks whether that
\* worked: what may be left is truncated by the next save, and stands for no copy here.
Discard ==
  /\ op.pc = "discard"
  /\ file' = [file EXCEPT !.tmp = None]
  /\ Finish(FALSE)

storage_file_commit == CommitBegin \/ SetAside \/ Publish \/ Sweep \/ Undo

Step == replace_begin \/ Write \/ storage_file_commit \/ Discard

\* Power fails: a temporary copy that is left is truncated by the next save.
AfterPowerFailure(f) == [f EXCEPT !.tmp = None]

Promise == INSTANCE DurableFile WITH
  value  <- Effective(file),
  saving <- IF op.pc \in {"idle", "end"} THEN None ELSE op.content,
  done   <- op.pc = "sweep"
=============================================================================
