------------------------------ MODULE EpdInput ------------------------------
(***************************************************************************)
(* The four keys (src/src/ui/platform/epd_input.c).  The thread that       *)
(* samples the buttons only records presses; the UI thread takes them in   *)
(* batches once the last refresh of the paper is over, moves the focus     *)
(* once for a whole batch of directions, and gives confirmation and back   *)
(* out one by one.  Above the pages stands at most one prompt, that of     *)
(* app_card.c, which takes every key while it is there.                    *)
(*                                                                         *)
(* A step is one stretch with interrupts off or the UI thread's work       *)
(* between two of them.  The ring is kept as the sequence it holds.  Which *)
(* controls can be focused, what a page answers for itself (`ready`,       *)
(* `move`, `key`) and whether a click navigates are open.                  *)
(***************************************************************************)
EXTENDS Naturals, Sequences, SequencesExt, FiniteSets

CONSTANTS Capacity,   \* KEY_QUEUE_CAPACITY
          MaxRepeat,  \* UINT16_MAX in the code
          Controls,   \* a surface's group has them in this order, from 0
          MaxWaiting  \* bound: presses waiting at a time

VARIABLES key_queue,   \* what the ring holds, oldest first
          release_pending, dispatch_barrier,
          at, first, batch,   \* the UI thread in epd_input_process and read_key
          shown,       \* the surface on top: "page" or "prompt"
          focusable, focus,   \* its controls
          navigation,  \* a page change is queued with the framework
          presses      \* history: accepted and not handled yet, with the surface they were meant for

read == <<at, first, batch, release_pending, dispatch_barrier>>
surface == <<shown, focusable, focus>>
vars == <<key_queue, read, surface, navigation, presses>>

Directions == {"prev", "next"}
Keys == Directions \cup {"enter", "esc"}
Control == 0 .. Controls - 1

TypeOK ==
  /\ key_queue \in Seq([key : Keys, repeat : 1..MaxRepeat]) /\ Len(key_queue) <= Capacity
  /\ {release_pending, dispatch_barrier, navigation} \subseteq BOOLEAN
  /\ at \in {"idle", "read", "take", "dispatch", "release", "barrier", "raise"}
  /\ shown \in {"page", "prompt"}
  /\ focusable \subseteq Control /\ focus \in Control

Init ==
  /\ key_queue = <<>> /\ release_pending = FALSE /\ dispatch_barrier = FALSE
  /\ at = "idle" /\ first = "none" /\ batch = <<>>
  /\ shown = "page" /\ focusable = Control /\ focus = 0
  /\ navigation = FALSE /\ presses = <<>>

----------------------------------------------------------------------------
(* The buttons' thread. *)

Accepted(key) == presses' = Append(presses, [key |-> key, on |-> shown])

\* (seeded fault) A direction is counted with the last entry, whichever it is.
PostToTail(key) ==
  /\ Len(presses) < MaxWaiting
  /\ IF key \in Directions /\ key_queue # <<>> /\ Last(key_queue).key \in Directions
     THEN key_queue' = [key_queue EXCEPT ![Len(key_queue)].repeat = @ + 1] /\ Accepted(key)
     ELSE key_queue' = Append(key_queue, [key |-> key, repeat |-> 1]) /\ Accepted(key)
  /\ UNCHANGED <<read, surface, navigation>>

action_post(key) ==
  /\ Len(presses) < MaxWaiting
  /\ IF key \in Directions /\ key_queue # <<>> /\ Last(key_queue).key = key /\ Last(key_queue).repeat < MaxRepeat
     THEN key_queue' = [key_queue EXCEPT ![Len(key_queue)].repeat = @ + 1] /\ Accepted(key)
     ELSE IF Len(key_queue) < Capacity
     THEN key_queue' = Append(key_queue, [key |-> key, repeat |-> 1]) /\ Accepted(key)
     ELSE UNCHANGED <<key_queue, presses>>
  /\ UNCHANGED <<read, surface, navigation>>

----------------------------------------------------------------------------
(* epd_input_process, on the UI thread. *)

epd_input_process ==
  /\ at = "idle" /\ key_queue # <<>>
  /\ at' = "read"
  /\ UNCHANGED <<key_queue, first, batch, release_pending, dispatch_barrier, surface, navigation, presses>>

\* The look at the head: the paper is still refreshing, or the page is not ready for it.
ReadFirst ==
  /\ at = "read"
  /\ \/ first' = Head(key_queue).key /\ at' = "take"
     \/ at' = "barrier" /\ UNCHANGED first
  /\ UNCHANGED <<key_queue, batch, release_pending, dispatch_barrier, surface, navigation, presses>>

\* The directions at the head, or the one other key there.
Batch ==
  LET others == {i \in DOMAIN key_queue : key_queue[i].key \notin Directions}
  IN IF others = {} THEN Len(key_queue)
     ELSE LET i == CHOOSE i \in others : \A j \in others : i <= j
          IN IF i = 1 THEN 1 ELSE i - 1

Take ==
  /\ at = "take"
  /\ batch' = SubSeq(key_queue, 1, Batch)
  /\ key_queue' = SubSeq(key_queue, Batch + 1, Len(key_queue))
  /\ at' = "dispatch"
  /\ UNCHANGED <<first, release_pending, dispatch_barrier, surface, navigation, presses>>

\* The place of a control among those that can be focused, and the control at a place.
Place(c) == Cardinality({d \in focusable : d < c})
At(place) == CHOOSE c \in focusable : Place(c) = place

\* (seeded fault) The way back is counted without the turn around.
MovedUnturned(place, event) ==
  LET n == Cardinality(focusable)
      step == event.repeat % n
  IN IF event.key = "next" THEN (place + step) % n
     ELSE IF step <= place THEN place - step ELSE 0

\* The steps of one entry, reduced by the number of controls first.
Moved(place, event) ==
  LET n == Cardinality(focusable)
      step == event.repeat % n
  IN IF event.key = "next" THEN (place + step) % n ELSE (place + n - step) % n

\* Where the first entries of the batch lead.
landing[i \in 0 .. Len(batch)] ==
  IF i = 0 THEN IF focus \in focusable THEN Place(focus) ELSE 0
  ELSE Moved(landing[i - 1], batch[i])

move_focus == IF focusable = {} THEN focus ELSE At(landing[Len(batch)])

\* How many presses the first n of a sequence of entries stand for.
Presses(events, n) == Cardinality(UNION {{i} \X (1 .. events[i].repeat) : i \in 1 .. n})
Count == Presses(batch, Len(batch))
Handled == presses' = SubSeq(presses, Count + 1, Len(presses)) /\ batch' = <<>>

\* A page may answer a direction itself.
Directed ==
  /\ at = "dispatch" /\ first \in Directions
  /\ focus' = move_focus \/ (shown = "page" /\ UNCHANGED focus)
  /\ Handled /\ at' = "barrier"
  /\ UNCHANGED <<key_queue, first, release_pending, dispatch_barrier, shown, focusable, navigation>>

\* A page answers a key itself; no navigation is queued there.
Answered ==
  /\ at = "dispatch" /\ first \notin Directions /\ shown = "page"
  /\ Handled /\ at' = "barrier"
  /\ UNCHANGED <<key_queue, first, release_pending, dispatch_barrier, surface, navigation>>

\* epd_input_clear: nothing pressed so far is handled.
Clear ==
  /\ key_queue' = <<>> /\ presses' = <<>>
  /\ release_pending' = FALSE /\ dispatch_barrier' = FALSE

\* dismiss and answer (app_card.c): the prompt goes or, once confirmed, hides its buttons.
AnswerPrompt ==
  /\ Clear
  /\ UNCHANGED navigation
  /\ \/ shown' = "page" /\ focusable' \in SUBSET Control /\ focus' \in Control
     \/ focusable' = {} /\ UNCHANGED <<shown, focus>>

\* The page's callback, or that of its back button.
ClickPage ==
  /\ navigation' \in {navigation, TRUE}
  /\ UNCHANGED surface

\* Back: the event goes to the surface's back button, if that can be used, at once.
Back ==
  /\ at = "dispatch" /\ first = "esc"
  /\ batch' = <<>> /\ at' = "barrier" /\ UNCHANGED first
  /\ \/ /\ shown = "page" /\ ClickPage
        /\ presses' = SubSeq(presses, Count + 1, Len(presses))
        /\ dispatch_barrier' = TRUE /\ UNCHANGED <<key_queue, release_pending>>
     \/ /\ shown = "prompt" /\ focusable # {}
        /\ shown' = "page" /\ focusable' \in SUBSET Control /\ focus' \in Control
        /\ Clear /\ UNCHANGED navigation
     \/ /\ shown = "prompt" /\ focusable = {}
        /\ presses' = SubSeq(presses, Count + 1, Len(presses))
        /\ dispatch_barrier' = TRUE /\ UNCHANGED <<key_queue, release_pending, surface, navigation>>

\* Confirmation: the press now, its release at the second read, which clicks.
Press ==
  /\ at = "dispatch" /\ first = "enter"
  /\ Handled
  /\ dispatch_barrier' = TRUE
  /\ release_pending' = (focus \in focusable)
  /\ at' = IF focus \in focusable THEN "release" ELSE "barrier"
  /\ UNCHANGED <<key_queue, first, surface, navigation>>

Released ==
  /\ at = "release"
  /\ at' = "barrier"
  /\ IF shown = "page"
     THEN ClickPage /\ release_pending' = FALSE /\ UNCHANGED <<key_queue, dispatch_barrier, presses>>
     ELSE AnswerPrompt
  /\ UNCHANGED <<first, batch>>

\* (seeded fault) The queued navigation is left to the next turn of the UI loop.
BarrierDropped ==
  /\ at = "barrier"
  /\ dispatch_barrier' = FALSE
  /\ at' = "idle"
  /\ UNCHANGED <<key_queue, first, batch, release_pending, surface, navigation, presses>>

\* gui_app_exec_now runs what was queued; the page that comes has its own controls.
Barrier ==
  /\ at = "barrier"
  /\ dispatch_barrier' = FALSE
  /\ at' = "idle"
  /\ IF dispatch_barrier /\ navigation
     THEN navigation' = FALSE /\ focusable' \in SUBSET Control /\ focus' \in Control
     ELSE UNCHANGED <<navigation, focusable, focus>>
  /\ UNCHANGED <<key_queue, first, batch, release_pending, shown, presses>>

----------------------------------------------------------------------------
(* The rest of the UI loop. *)

Loop == at = "idle" /\ UNCHANGED <<first, batch, navigation>>

\* A page changes what can be used, or a failed load shows the prompt's buttons again.
Redraw ==
  /\ Loop
  /\ focusable' \in SUBSET Control
  /\ UNCHANGED <<key_queue, at, release_pending, dispatch_barrier, shown, focus, presses>>

\* app_card_process: the prompt comes up, on its first button; then the keys are cleared.
RaisePrompt ==
  /\ Loop /\ shown = "page"
  /\ shown' = "prompt" /\ focusable' \in {Control, {0}} /\ focus' = 0
  /\ at' = "raise"
  /\ UNCHANGED <<key_queue, release_pending, dispatch_barrier, presses>>

ClearRaised ==
  /\ at = "raise"
  /\ Clear /\ at' = "idle"
  /\ UNCHANGED <<first, batch, surface, navigation>>

\* The card has gone, or its applications are ready.
WithdrawPrompt ==
  /\ Loop /\ shown = "prompt"
  /\ Clear
  /\ shown' = "page" /\ focusable' \in SUBSET Control /\ focus' \in Control
  /\ UNCHANGED at

\* A turn of the UI loop while the volumes change (launcher_storage_process).
StorageChanges == Loop /\ Clear /\ UNCHANGED <<at, surface>>

----------------------------------------------------------------------------
Next ==
  \/ \E key \in Keys : action_post(key)
  \/ epd_input_process \/ ReadFirst \/ Take \/ Directed \/ Answered \/ Back \/ Press \/ Released \/ Barrier
  \/ Redraw \/ RaisePrompt \/ ClearRaised \/ WithdrawPrompt \/ StorageChanges

Spec == Init /\ [][Next]_vars

\* The ring and the batch in hand stand for the presses accepted and not handled, in
\* their order: none is lost, doubled or overtaken by the merging of directions, the
\* full ring, the counter's limit and the presses that arrive between the reader's two
\* looks; and a batch is directions or one other key, the one looked at
\* (epd_input.c:137-156, 216-238).
KeysInOrder ==
  /\ LET events == batch \o key_queue
     IN /\ Len(presses) = Presses(events, Len(events))
        /\ \A i \in DOMAIN events : \A p \in Presses(events, i - 1) + 1 .. Presses(events, i) :
             presses[p].key = events[i].key
  /\ at = "dispatch" => /\ batch # <<>> /\ batch[1].key = first
                        /\ Len(batch) = 1 \/ \A i \in DOMAIN batch : batch[i].key \in Directions

\* One press: the next control in its direction that can be focused, around the end.
Step(c, key) ==
  LET ahead == {d \in focusable : IF key = "next" THEN d > c ELSE d < c}
      near == IF ahead = {} THEN focusable ELSE ahead
  IN CHOOSE d \in near : \A e \in near : IF key = "next" THEN d <= e ELSE d >= e

\* The focus after the first presses that wait, taken one after the other.
walked[p \in 0 .. Count] == IF p = 0 THEN focus ELSE Step(walked[p - 1], presses[p].key)

\* The one move of the focus ends where the presses would have taken it one after the
\* other; only a page may say otherwise (move_focus 159-189).
FocusAsPressed ==
  [][(at = "dispatch" /\ first \in Directions /\ focus \in focusable /\ at' = "barrier") =>
       focus' = walked[Count] \/ (shown = "page" /\ focus' = focus)]_vars

\* No key reaches the prompt that was pressed before it stood there, and none meant for
\* it reaches the page below: when one is handed out, all that wait were pressed for the
\* surface that is shown; and none is handed out while the page change that an earlier one
\* queued is still to be run (epd_input_clear and its callers in app_card.c;
\* dispatch_barrier, epd_input.c:296-301).
KeysMeetTheirSurface ==
  at = "dispatch" => ~navigation /\ \A i \in DOMAIN presses : presses[i].on = shown
=============================================================================
