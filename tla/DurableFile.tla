---------------------------- MODULE DurableFile ----------------------------
(***************************************************************************)
(* What storage_file.c promises of a file that is only ever written by     *)
(* replacement: it has one content, a save puts the new content in place   *)
(* at one point or not at all, and the answer of the save says which.  A   *)
(* power failure ends a save on either side of that point, never between.  *)
(***************************************************************************)
CONSTANTS Contents, None

VARIABLES value,   \* the content a reader gets, None if there is no file
          saving,  \* the content of the save under way, None outside one
          done     \* that save has taken effect

vars == <<value, saving, done>>

Init == value = None /\ saving = None /\ done = FALSE

Begin(content) ==
  /\ saving = None
  /\ saving' = content
  /\ done' = FALSE
  /\ UNCHANGED value

TakeEffect ==
  /\ saving # None
  /\ ~done
  /\ value' = saving
  /\ done' = TRUE
  /\ UNCHANGED saving

\* Power fails, or the save answers; the answer is TRUE exactly when done is.
End ==
  /\ saving # None
  /\ saving' = None
  /\ done' = FALSE
  /\ UNCHANGED value

\* The owner of the file deletes it.
Erase ==
  /\ saving = None
  /\ value' = None
  /\ UNCHANGED <<saving, done>>

Next == (\E content \in Contents : Begin(content)) \/ TakeEffect \/ End \/ Erase

Spec == Init /\ [][Next]_vars
=============================================================================
