------------------------------ MODULE MCParts ------------------------------
(***************************************************************************)
(* Five parts of the system that share no state: the data of an            *)
(* application that changes its volume, the pictures, the weather, the     *)
(* Bluetooth switch and the keys.  One of them, `part`, is chosen at the   *)
(* start and runs; the others stay as they start, so that the states add   *)
(* up and do not multiply.                                                 *)
(***************************************************************************)
EXTENDS DataMigration, Sequences

CONSTANTS f1, f2, c1, c2,
          MaxSerial,                                                \* Gallery
          Cities, None, MaxKey, MaxTicket, MaxEvents, MaxFaults,    \* Weather
          MailboxSize, ReconnectMax, MaxStackEvents, MaxSwitches,   \* BtPan
          Capacity, MaxRepeat, Controls, MaxWaiting                 \* EpdInput

ASSUME PartsAssumption ==
  /\ MailboxSize \in Nat /\ ReconnectMax \in Nat
  /\ MaxSerial \in Nat
  /\ Cities # {} /\ "noFile" \notin Cities \cup {None}
  /\ MaxKey \in Nat /\ MaxTicket \in Nat /\ MaxEvents \in Nat
  /\ {Capacity, MaxRepeat, Controls} \subseteq Nat \ {0}

VARIABLES
  part,
  \* Gallery
  generation, requested, pending, completed, failed_serial, references, service, woken, work, todo, old, page,
  \* Weather
  config_bin, current_bin, cities, config, info, saved_config, result, next_ticket, requests, lifecycle, awake,
  sync_pending, retry_wait, seen, task, online, net_generation, due, retryOver, faults, periods, owed, fresh,
  \* BtPan
  switch_on, stack_ready, bt_connected, pan_connected, connect_pending, peer, mailbox, pan_timer, reconnect_timer,
  reconnect_attempts, last_state, target, scan, worker, callback, timer, events, switches,
  \* EpdInput
  key_queue, release_pending, dispatch_barrier, at, first, batch, shown, focusable, focus, navigation, presses

Pictures == INSTANCE Gallery
Sky == INSTANCE Weather
Bluetooth == INSTANCE BtPan
Keys == INSTANCE EpdInput

picturesVars == <<generation, requested, pending, completed, failed_serial, references, service, woken, work, todo,
                  old, page>>
skyVars == <<config_bin, current_bin, cities, config, info, saved_config, result, next_ticket, requests, lifecycle,
             awake, sync_pending, retry_wait, seen, task, online, net_generation, due, retryOver, faults, periods,
             owed, fresh>>
bluetoothVars == <<switch_on, stack_ready, bt_connected, pan_connected, connect_pending, peer, mailbox, pan_timer,
                   reconnect_timer, reconnect_attempts, last_state, target, scan, worker, callback, timer, events,
                   switches>>
keysVars == <<key_queue, release_pending, dispatch_barrier, at, first, batch, shown, focusable, focus, navigation,
              presses>>
allVars == <<part, vars, picturesVars, skyVars, bluetoothVars, keysVars>>

\* A part that rests does so in one of its initial states; files are named alike.
PartsInit ==
  /\ part \in {"data", "pictures", "sky", "bluetooth", "keys"}
  /\ Init /\ \A v \in there : file[v][f1] = 1
  /\ part # "data" => installed = {} /\ there = {} /\ ~available
  /\ Sky!Init
  /\ part # "sky" => cities = {}
  /\ Pictures!Init /\ Bluetooth!Init /\ Keys!Init

PartsNext ==
  /\ IF part = "data" THEN Next ELSE UNCHANGED vars
  /\ IF part = "pictures" THEN Pictures!Next ELSE UNCHANGED picturesVars
  /\ IF part = "sky" THEN Sky!Next ELSE UNCHANGED skyVars
  /\ IF part = "bluetooth" THEN Bluetooth!Next ELSE UNCHANGED bluetoothVars
  /\ IF part = "keys" THEN Keys!Next ELSE UNCHANGED keysVars
  /\ UNCHANGED part

Runs(p, action) == part = p /\ action

\* The fairness of Gallery and of Weather, each while it is the part that runs.
PartsSpec ==
  /\ PartsInit /\ [][PartsNext]_allVars
  /\ WF_picturesVars(Runs("pictures", Pictures!UiStep)) /\ WF_picturesVars(Runs("pictures", Pictures!Poll))
  /\ WF_picturesVars(Runs("pictures", Pictures!run)) /\ WF_picturesVars(Runs("pictures", Pictures!app_service_process))
  /\ WF_skyVars(Runs("sky", Sky!worker_entry)) /\ WF_skyVars(Runs("sky", Sky!RetryEnds))

\* Every result of the pictures' worker is counted once for each who holds it, so that
\* it is freed by the last (Gallery.ReferencesAreHolders).
ReferencesAreHolders == Pictures!TypeOK /\ Pictures!ReferencesAreHolders

\* The weather shown is that of the configured city, and a restart finds the
\* configuration in use (Weather.NeverMixed).
NeverMixed == Sky!TypeOK /\ Sky!NeverMixed

\* What the worker has still to be told of the switch and of the phone is in its mailbox
\* (BtPan.NothingForgotten).
NothingForgotten == Bluetooth!TypeOK /\ Bluetooth!NothingForgotten

\* No press is lost, doubled or overtaken (EpdInput.KeysInOrder).
KeysInOrder == Keys!TypeOK /\ Keys!KeysInOrder

\* No key reaches a surface it was not meant for (EpdInput.KeysMeetTheirSurface).
KeysMeetTheirSurface == Keys!KeysMeetTheirSurface

\* A batch of directions moves the focus as its presses would (EpdInput.FocusAsPressed).
FocusAsPressed == Keys!FocusAsPressed

\* A page that waits for a picture, and who waits for a job of the weather, is answered
\* (Gallery.PageIsAnswered, Weather.BusyIsAnswered).
EveryRequestIsAnswered == Pictures!PageIsAnswered /\ Sky!BusyIsAnswered

\* What asks for fresh weather is followed by a fetch that began later
\* (Weather.SyncFollows).
SyncFollows == Sky!SyncFollows
=============================================================================
