------------------------------- MODULE BtPan -------------------------------
(***************************************************************************)
(* The Bluetooth switch and the phone's network (src/src/services/net/     *)
(* bt_pan.c).  Four threads share one record without a lock: the pages     *)
(* turn the switch, the Bluetooth stack reports events in a callback, the  *)
(* timer thread has two timers, and a worker does what the others post to  *)
(* a mailbox of four.                                                      *)
(*                                                                         *)
(* A callback and a message are cut where they read what another thread    *)
(* writes.  The stack and the phone are an environment: which events come  *)
(* is open.  Addresses are reduced to "a peer is known", and what Bluetooth*)
(* is asked to do to the target of the connection manager and the scan.    *)
(***************************************************************************)
EXTENDS Naturals, Sequences, SequencesExt

CONSTANTS MailboxSize,   \* 4 in the code
          ReconnectMax,  \* 6 in the code
          MaxStackEvents,  \* bound: events of the stack
          MaxSwitches    \* bound: turns of the switch

VARIABLES switch_on, stack_ready, bt_connected, pan_connected, connect_pending,
          peer,                 \* btpan_has_peer_addr
          mailbox,
          pan_timer, reconnect_timer, reconnect_attempts,
          last_state,
          target, scan,         \* what the stack was last told
          worker, callback, timer,   \* where the three threads are
          events, switches

link == <<bt_connected, pan_connected, connect_pending>>
timers == <<pan_timer, reconnect_timer, reconnect_attempts>>
told == <<target, scan>>
counts == <<events, switches>>
vars == <<switch_on, stack_ready, link, peer, mailbox, timers, last_state, told, worker, callback, timer, counts>>

Messages == {"stackReady", "connect", "apply", "reconnect"}
Idle == [pc |-> "idle", state |-> "off", link |-> FALSE]
Go(pc) == callback' = [callback EXCEPT !.pc = pc]
States == {"off", "initializing", "ready", "connected", "networkReady"}

TypeOK ==
  /\ {switch_on, stack_ready, bt_connected, pan_connected, connect_pending, peer,
      pan_timer, reconnect_timer, target, scan} \subseteq BOOLEAN
  /\ mailbox \in Seq(Messages) /\ Len(mailbox) <= MailboxSize
  /\ reconnect_attempts \in 0..ReconnectMax
  /\ last_state \in States
  /\ worker \in {"idle", "stackReady", "connect", "reconnect", "apply", "scan", "turnOff", "sample"} \cup States
  /\ callback \in [pc : {"idle", "linkUp", "panUp", "linkDown", "reopened", "refused", "sample", "notify",
                         "startTimer"},
                   state : States, link : BOOLEAN]
  /\ timer \in {"idle", "post"}

\* After btpan_init: switched on, the stack not up yet.
Init ==
  /\ switch_on = TRUE /\ stack_ready = FALSE
  /\ bt_connected = FALSE /\ pan_connected = FALSE /\ connect_pending = FALSE
  /\ peer = FALSE
  /\ mailbox = <<>>
  /\ pan_timer = FALSE /\ reconnect_timer = FALSE /\ reconnect_attempts = 0
  /\ last_state = "initializing"
  /\ target = TRUE /\ scan = FALSE
  /\ worker = "idle" /\ callback = Idle /\ timer = "idle"
  /\ events = 0 /\ switches = 0

btpan_current_state ==
  IF ~switch_on THEN "off"
  ELSE IF ~stack_ready THEN "initializing"
  ELSE IF pan_connected THEN "networkReady"
  ELSE IF bt_connected THEN "connected"
  ELSE "ready"

Full == Len(mailbox) = MailboxSize
\* btpan_post where nobody looks at the answer.
btpan_post(message) == mailbox' = IF Full THEN mailbox ELSE Append(mailbox, message)

btpan_stop_reconnect == reconnect_timer' = FALSE /\ reconnect_attempts' = 0
btpan_start_reconnect ==
  IF switch_on THEN reconnect_timer' = TRUE /\ reconnect_attempts' = 0
  ELSE UNCHANGED <<reconnect_timer, reconnect_attempts>>

----------------------------------------------------------------------------
(* The switch: btpan_enable, with interrupts off. *)

\* (seeded fault) The switch stays turned although the worker will not hear of it.
SwitchAnyway ==
  /\ switches < MaxSwitches
  /\ switches' = switches + 1
  /\ switch_on' = ~switch_on
  /\ btpan_post("apply")
  /\ UNCHANGED <<stack_ready, link, peer, timers, last_state, told, worker, callback, timer, events>>

btpan_enable ==
  /\ switches < MaxSwitches
  /\ switches' = switches + 1
  /\ switch_on' = IF Full THEN switch_on ELSE ~switch_on
  /\ btpan_post("apply")
  /\ UNCHANGED <<stack_ready, link, peer, timers, last_state, told, worker, callback, timer, events>>

----------------------------------------------------------------------------
(* Events of the stack: btpan_bt_event_handle. *)

Event ==
  /\ callback.pc = "idle" /\ events < MaxStackEvents
  /\ events' = events + 1
  /\ UNCHANGED <<last_state, told, worker, timer, switches>>

\* The first of the events.  Turns of the switch may have filled the mailbox before it: it
\* is lost then, and the stack stays "initializing" for good (260).
StackReadyEvent ==
  /\ Event /\ events = 0
  /\ btpan_post("stackReady")
  /\ UNCHANGED <<switch_on, stack_ready, link, peer, timers, callback>>

\* ENCRYPTION and PAIR_IND: a link to the phone stands.
LinkEvent ==
  /\ Event /\ events > 0
  /\ peer' = TRUE
  /\ Go(IF switch_on THEN "linkUp" ELSE "idle")
  /\ UNCHANGED <<switch_on, stack_ready, link, mailbox, timers>>

PanUpEvent ==
  /\ Event /\ events > 0
  /\ Go(IF switch_on THEN "panUp" ELSE "idle")
  /\ UNCHANGED <<switch_on, stack_ready, link, peer, mailbox, timers>>

PanDownEvent ==
  /\ Event /\ events > 0
  /\ pan_connected' = FALSE /\ connect_pending' = FALSE
  /\ Go("sample")
  /\ UNCHANGED <<switch_on, stack_ready, bt_connected, peer, mailbox, timers>>

LinkDownEvent ==
  /\ Event /\ events > 0
  /\ bt_connected' = FALSE /\ pan_connected' = FALSE /\ connect_pending' = FALSE
  /\ pan_timer' = FALSE
  /\ Go("linkDown")
  /\ UNCHANGED <<switch_on, stack_ready, peer, mailbox, reconnect_timer, reconnect_attempts>>

KeyMissingEvent ==
  /\ Event /\ events > 0
  /\ peer' = FALSE
  /\ UNCHANGED <<switch_on, stack_ready, link, mailbox, timers, callback>>

Callback(pc) == callback.pc = pc /\ UNCHANGED <<switch_on, stack_ready, worker, timer, counts>>

LinkUp ==
  /\ Callback("linkUp")
  /\ bt_connected' = TRUE
  /\ btpan_stop_reconnect
  /\ callback' = [callback EXCEPT !.pc = "sample", !.link = TRUE]
  /\ UNCHANGED <<pan_connected, connect_pending, peer, mailbox, pan_timer, last_state, told>>

PanUp ==
  /\ Callback("panUp")
  /\ pan_timer' = FALSE /\ btpan_stop_reconnect
  /\ connect_pending' = FALSE /\ peer' = TRUE
  /\ bt_connected' = TRUE /\ pan_connected' = TRUE
  /\ Go("sample")
  /\ UNCHANGED <<mailbox, last_state, told>>

LinkDown ==
  /\ Callback("linkDown")
  /\ IF switch_on /\ stack_ready /\ peer THEN scan' = TRUE /\ Go("reopened")
     ELSE Go("refused") /\ UNCHANGED scan
  /\ UNCHANGED <<link, peer, mailbox, timers, last_state, target>>

Reopened ==
  /\ Callback("reopened")
  /\ btpan_start_reconnect
  /\ Go("sample")
  /\ UNCHANGED <<link, peer, mailbox, pan_timer, last_state, told>>

Refused ==
  /\ Callback("refused")
  /\ IF switch_on THEN UNCHANGED mailbox ELSE btpan_post("apply")
  /\ Go("sample")
  /\ UNCHANGED <<link, peer, timers, last_state, told>>

CallbackSample ==
  /\ Callback("sample")
  /\ callback' = [callback EXCEPT !.pc = "notify", !.state = btpan_current_state]
  /\ UNCHANGED <<link, peer, mailbox, timers, last_state, told>>

CallbackNotify ==
  /\ Callback("notify")
  /\ last_state' = callback.state
  /\ callback' = IF callback.link THEN [Idle EXCEPT !.pc = "startTimer"] ELSE Idle
  /\ UNCHANGED <<link, peer, mailbox, timers, told>>

StartTimer ==
  /\ Callback("startTimer")
  /\ pan_timer' = (pan_timer \/ switch_on)
  /\ Go("idle")
  /\ UNCHANGED <<link, peer, mailbox, reconnect_timer, reconnect_attempts, last_state, told>>

btpan_bt_event_handle ==
  \/ StackReadyEvent \/ LinkEvent \/ PanUpEvent \/ PanDownEvent \/ LinkDownEvent \/ KeyMissingEvent
  \/ LinkUp \/ PanUp \/ LinkDown \/ Reopened \/ Refused \/ CallbackSample \/ CallbackNotify \/ StartTimer

----------------------------------------------------------------------------
(* The timer thread. *)

\* btpan_connect_timeout and the checks of btpan_request_connect.
ConnectTimeout ==
  /\ timer = "idle" /\ pan_timer
  /\ pan_timer' = FALSE
  /\ IF switch_on /\ stack_ready /\ bt_connected /\ ~pan_connected /\ ~connect_pending
     THEN connect_pending' = TRUE /\ timer' = "post"
     ELSE UNCHANGED <<connect_pending, timer>>
  /\ UNCHANGED <<switch_on, stack_ready, bt_connected, pan_connected, peer, mailbox, reconnect_timer,
                 reconnect_attempts, last_state, told, worker, callback, counts>>

btpan_request_connect ==
  /\ timer = "post"
  /\ btpan_post("connect")
  /\ connect_pending' = (connect_pending /\ ~Full)
  /\ timer' = "idle"
  /\ UNCHANGED <<switch_on, stack_ready, bt_connected, pan_connected, peer, timers, last_state, told,
                 worker, callback, counts>>

btpan_reconnect_timeout ==
  /\ timer = "idle" /\ reconnect_timer
  /\ ~Contains(mailbox, "reconnect")     \* bound: ten seconds are longer than the worker takes
  /\ btpan_post("reconnect")
  /\ UNCHANGED <<switch_on, stack_ready, link, peer, timers, last_state, told, worker, callback, timer, counts>>

----------------------------------------------------------------------------
(* The worker: btpan_worker_entry. *)

Worker(pc) == worker = pc /\ UNCHANGED <<switch_on, callback, timer, counts>>

Receive ==
  /\ Worker("idle") /\ mailbox # <<>>
  /\ worker' = Head(mailbox)
  /\ mailbox' = Tail(mailbox)
  /\ UNCHANGED <<stack_ready, link, peer, timers, last_state, told>>

btpan_stack_ready ==
  /\ Worker("stackReady")
  /\ stack_ready' = TRUE
  /\ worker' = "apply"
  /\ UNCHANGED <<link, peer, mailbox, timers, last_state, told>>

\* The profile is asked for; the answer comes as an event.
btpan_connect_profile ==
  /\ Worker("connect")
  /\ connect_pending' = FALSE
  /\ worker' = "idle"
  /\ UNCHANGED <<stack_ready, bt_connected, pan_connected, peer, mailbox, timers, last_state, told>>

\* The connection manager takes the attempt, or owns the link and it does not count.
btpan_reconnect ==
  /\ Worker("reconnect")
  /\ LET may == switch_on /\ stack_ready /\ peer /\ ~bt_connected /\ ~pan_connected
         over == reconnect_attempts >= ReconnectMax
     IN /\ reconnect_timer' = (reconnect_timer /\ ~(may /\ over))
        /\ \/ UNCHANGED reconnect_attempts
           \/ may /\ ~over /\ reconnect_attempts' = reconnect_attempts + 1
  /\ worker' = "idle"
  /\ UNCHANGED <<stack_ready, link, peer, mailbox, pan_timer, last_state, told>>

\* btpan_apply_enabled, which looks at the switch three times.
ApplyTarget ==
  /\ Worker("apply")
  /\ target' = switch_on
  /\ worker' = "scan"
  /\ UNCHANGED <<stack_ready, link, peer, mailbox, timers, last_state, scan>>

ApplyScan ==
  /\ Worker("scan")
  /\ scan' = IF stack_ready THEN switch_on ELSE scan
  /\ worker' = IF switch_on THEN "sample" ELSE "turnOff"
  /\ UNCHANGED <<stack_ready, link, peer, mailbox, timers, last_state, target>>

ApplyOff ==
  /\ Worker("turnOff")
  /\ pan_timer' = FALSE /\ btpan_stop_reconnect
  /\ bt_connected' = FALSE /\ pan_connected' = FALSE /\ connect_pending' = FALSE
  /\ worker' = "sample"
  /\ UNCHANGED <<stack_ready, peer, mailbox, last_state, told>>

WorkerSample ==
  /\ Worker("sample")
  /\ worker' = btpan_current_state
  /\ UNCHANGED <<stack_ready, link, peer, mailbox, timers, last_state, told>>

WorkerNotify ==
  /\ worker \in States /\ Worker(worker)
  /\ last_state' = worker
  /\ worker' = "idle"
  /\ UNCHANGED <<stack_ready, link, peer, mailbox, timers, told>>

btpan_worker_entry ==
  \/ Receive \/ btpan_stack_ready \/ btpan_connect_profile \/ btpan_reconnect
  \/ ApplyTarget \/ ApplyScan \/ ApplyOff \/ WorkerSample \/ WorkerNotify

----------------------------------------------------------------------------
Next ==
  \/ btpan_enable \/ btpan_bt_event_handle
  \/ ConnectTimeout \/ btpan_request_connect \/ btpan_reconnect_timeout
  \/ btpan_worker_entry

Spec == Init /\ [][Next]_vars

\* A full mailbox loses nothing that somebody counts on: the connection manager's target
\* is what the switch says unless the worker has still to be told, or is at it; and a
\* connection noted as pending is one the worker will come to, or the next is never
\* asked for (btpan_enable 589-606, btpan_request_connect 608-624).
NothingForgotten ==
  /\ target = switch_on \/ Contains(mailbox, "apply") \/ Contains(mailbox, "stackReady")
       \/ worker \in {"apply", "stackReady"}
  /\ connect_pending => timer = "post" \/ Contains(mailbox, "connect") \/ worker = "connect"
=============================================================================
