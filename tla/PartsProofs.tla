---------------------------- MODULE PartsProofs ----------------------------
(***************************************************************************)
(* What holds of the small parts for mailboxes, serials, cities, tickets,  *)
(* events, keys, files and writes of any number, where MCParts checks them *)
(* for a few: the Bluetooth switch, the pictures, the weather, the keys    *)
(* and the move of an application between the volumes.  Each has its own   *)
(* section, with the inductive invariant its theorems rest on: the parts   *)
(* share no variable, so that a step of another part is a stutter.         *)
(***************************************************************************)
EXTENDS MCParts, SequenceTheorems, FiniteSetTheorems, WellFoundedInduction, TLAPS

----------------------------------------------------------------------------
(* The Bluetooth switch. *)

\* What is put into the mailbox is in it, with all that was.
LEMMA ContainsAppend ==
  ASSUME NEW S, NEW s \in Seq(S), NEW m \in S
  PROVE  /\ Append(s, m) \in Seq(S) /\ Len(Append(s, m)) = Len(s) + 1
         /\ Bluetooth!Contains(Append(s, m), m)
         /\ \A e : Bluetooth!Contains(s, e) => Bluetooth!Contains(Append(s, m), e)
BY DEF Bluetooth!Contains

\* What was in the mailbox was taken from it or still is in it.
LEMMA ContainsTail ==
  ASSUME NEW S, NEW s \in Seq(S), s # <<>>
  PROVE  /\ Head(s) \in S /\ Tail(s) \in Seq(S) /\ Len(Tail(s)) = Len(s) - 1
         /\ \A e : Bluetooth!Contains(s, e) => e = Head(s) \/ Bluetooth!Contains(Tail(s), e)
<1>1. /\ Head(s) \in S /\ Tail(s) \in Seq(S) /\ Len(Tail(s)) = Len(s) - 1
  OBVIOUS
<1>2. ASSUME NEW e, Bluetooth!Contains(s, e), e # Head(s)
      PROVE  Bluetooth!Contains(Tail(s), e)
  <2>1. PICK i \in 1..Len(s) : s[i] = e
    BY <1>2 DEF Bluetooth!Contains
  <2>2. i # 1 /\ i - 1 \in 1..Len(Tail(s)) /\ Tail(s)[i - 1] = e
    BY <1>2, <2>1
  <2> QED  BY <2>2 DEF Bluetooth!Contains
<1> QED  BY <1>1, <1>2

\* The variables of the switch keep their types; the mailbox keeps to its size.
LEMMA BluetoothTyped ==
  ASSUME Bluetooth!TypeOK, Bluetooth!Next
  PROVE  Bluetooth!TypeOK'
<1> USE DEF Bluetooth!link, Bluetooth!timers, Bluetooth!told, Bluetooth!counts
<1>0. MailboxSize \in Nat /\ ReconnectMax \in Nat /\ 0 \in 0..ReconnectMax
  BY PartsAssumption DEF PartsAssumption
<1>1. ASSUME Bluetooth!btpan_enable PROVE Bluetooth!TypeOK'
  <2>1. switch_on' \in BOOLEAN
    BY <1>1 DEF Bluetooth!TypeOK, Bluetooth!btpan_enable
  <2>2. mailbox' \in Seq(Bluetooth!Messages) /\ Len(mailbox') <= MailboxSize
    BY <1>1, ContainsAppend, <1>0
    DEF Bluetooth!TypeOK, Bluetooth!btpan_enable, Bluetooth!btpan_post, Bluetooth!Full, Bluetooth!Messages
  <2> QED
    BY <1>1, <2>1, <2>2 DEF Bluetooth!TypeOK, Bluetooth!btpan_enable
<1>2. ASSUME Bluetooth!btpan_bt_event_handle PROVE Bluetooth!TypeOK'
  <2>1. ASSUME Bluetooth!StackReadyEvent PROVE Bluetooth!TypeOK'
    <3>1. mailbox' \in Seq(Bluetooth!Messages) /\ Len(mailbox') <= MailboxSize
      BY <2>1, ContainsAppend, <1>0
      DEF Bluetooth!TypeOK, Bluetooth!StackReadyEvent, Bluetooth!btpan_post, Bluetooth!Full, Bluetooth!Messages
    <3> QED
      BY <2>1, <3>1 DEF Bluetooth!TypeOK, Bluetooth!StackReadyEvent, Bluetooth!Event
  <2>2. ASSUME Bluetooth!LinkEvent \/ Bluetooth!PanUpEvent \/ Bluetooth!PanDownEvent
                 \/ Bluetooth!LinkDownEvent \/ Bluetooth!KeyMissingEvent
        PROVE  Bluetooth!TypeOK'
    BY <2>2 DEF Bluetooth!TypeOK, Bluetooth!LinkEvent, Bluetooth!PanUpEvent, Bluetooth!PanDownEvent,
                Bluetooth!LinkDownEvent, Bluetooth!KeyMissingEvent, Bluetooth!Event, Bluetooth!Go
  <2>3. ASSUME Bluetooth!LinkUp \/ Bluetooth!PanUp \/ Bluetooth!LinkDown \/ Bluetooth!Reopened
        PROVE  Bluetooth!TypeOK'
    <3>1. CASE Bluetooth!LinkUp
      BY <1>0, <3>1 DEF Bluetooth!TypeOK, Bluetooth!LinkUp, Bluetooth!Callback, Bluetooth!btpan_stop_reconnect
    <3>2. CASE Bluetooth!PanUp
      BY <1>0, <3>2 DEF Bluetooth!TypeOK, Bluetooth!PanUp, Bluetooth!Callback, Bluetooth!Go,
                  Bluetooth!btpan_stop_reconnect
    <3>3. CASE Bluetooth!LinkDown
      BY <3>3 DEF Bluetooth!TypeOK, Bluetooth!LinkDown, Bluetooth!Callback, Bluetooth!Go
    <3>4. CASE Bluetooth!Reopened
      BY <1>0, <3>4 DEF Bluetooth!TypeOK, Bluetooth!Reopened, Bluetooth!Callback, Bluetooth!Go,
                  Bluetooth!btpan_start_reconnect
    <3> QED
      BY <2>3, <3>1, <3>2, <3>3, <3>4
  <2>4. ASSUME Bluetooth!Refused PROVE Bluetooth!TypeOK'
    <3>1. mailbox' \in Seq(Bluetooth!Messages) /\ Len(mailbox') <= MailboxSize
      <4>1. UNCHANGED mailbox \/ (~Bluetooth!Full /\ mailbox' = Append(mailbox, "apply"))
        BY <2>4 DEF Bluetooth!Refused, Bluetooth!btpan_post
      <4> QED
        BY <1>0, <4>1, ContainsAppend DEF Bluetooth!TypeOK, Bluetooth!Full, Bluetooth!Messages
    <3> QED
      BY <2>4, <3>1 DEF Bluetooth!TypeOK, Bluetooth!Refused, Bluetooth!Callback, Bluetooth!Go
  <2>5. ASSUME Bluetooth!CallbackSample \/ Bluetooth!CallbackNotify PROVE Bluetooth!TypeOK'
    <3>1. Bluetooth!btpan_current_state \in Bluetooth!States
      BY DEF Bluetooth!btpan_current_state, Bluetooth!States
    <3>2. CASE Bluetooth!CallbackSample
      BY <3>1, <3>2 DEF Bluetooth!TypeOK, Bluetooth!CallbackSample, Bluetooth!Callback
    <3>3. CASE Bluetooth!CallbackNotify
      BY <3>3 DEF Bluetooth!TypeOK, Bluetooth!CallbackNotify, Bluetooth!Callback, Bluetooth!Idle, Bluetooth!States
    <3> QED
      BY <2>5, <3>2, <3>3
  <2>6. ASSUME Bluetooth!StartTimer PROVE Bluetooth!TypeOK'
    <3>1. pan_timer' \in BOOLEAN
      <4>1. (pan_timer \/ switch_on) \in BOOLEAN
        OBVIOUS
      <4> QED  BY <2>6, <4>1 DEF Bluetooth!StartTimer
    <3> QED
      BY <2>6, <3>1 DEF Bluetooth!TypeOK, Bluetooth!StartTimer, Bluetooth!Callback, Bluetooth!Go
  <2> QED
    BY <1>2, <2>1, <2>2, <2>3, <2>4, <2>5, <2>6 DEF Bluetooth!btpan_bt_event_handle
<1>3. ASSUME Bluetooth!ConnectTimeout \/ Bluetooth!btpan_request_connect \/ Bluetooth!btpan_reconnect_timeout
      PROVE  Bluetooth!TypeOK'
  <2>1. mailbox' \in Seq(Bluetooth!Messages) /\ Len(mailbox') <= MailboxSize
    BY <1>3, ContainsAppend, <1>0
    DEF Bluetooth!TypeOK, Bluetooth!ConnectTimeout, Bluetooth!btpan_request_connect,
        Bluetooth!btpan_reconnect_timeout, Bluetooth!btpan_post, Bluetooth!Full, Bluetooth!Messages
  <2>2. connect_pending' \in BOOLEAN
    <3>1. (connect_pending /\ ~Bluetooth!Full) \in BOOLEAN
      OBVIOUS
    <3> QED
      BY <1>3, <3>1 DEF Bluetooth!TypeOK, Bluetooth!ConnectTimeout, Bluetooth!btpan_request_connect,
                        Bluetooth!btpan_reconnect_timeout
  <2> QED
    BY <1>3, <2>1, <2>2 DEF Bluetooth!TypeOK, Bluetooth!ConnectTimeout, Bluetooth!btpan_request_connect,
                            Bluetooth!btpan_reconnect_timeout
<1>4. ASSUME Bluetooth!btpan_worker_entry PROVE Bluetooth!TypeOK'
  <2>1. ASSUME Bluetooth!Receive PROVE Bluetooth!TypeOK'
    BY <1>0, <2>1, ContainsTail DEF Bluetooth!TypeOK, Bluetooth!Receive, Bluetooth!Worker, Bluetooth!Messages
  <2>2. ASSUME Bluetooth!btpan_stack_ready \/ Bluetooth!btpan_connect_profile \/ Bluetooth!ApplyTarget
        PROVE  Bluetooth!TypeOK'
    BY <2>2 DEF Bluetooth!TypeOK, Bluetooth!btpan_stack_ready, Bluetooth!btpan_connect_profile,
                Bluetooth!ApplyTarget, Bluetooth!Worker
  <2>5. ASSUME Bluetooth!ApplyScan PROVE Bluetooth!TypeOK'
    BY <2>5 DEF Bluetooth!TypeOK, Bluetooth!ApplyScan, Bluetooth!Worker
  <2>6. ASSUME Bluetooth!ApplyOff PROVE Bluetooth!TypeOK'
    BY <1>0, <2>6 DEF Bluetooth!TypeOK, Bluetooth!ApplyOff, Bluetooth!Worker, Bluetooth!btpan_stop_reconnect
  <2>3. ASSUME Bluetooth!btpan_reconnect PROVE Bluetooth!TypeOK'
    <3>1. reconnect_timer' \in BOOLEAN
      BY <2>3, Zenon DEF Bluetooth!btpan_reconnect
    <3>2. reconnect_attempts' \in 0..ReconnectMax
      BY <1>0, <2>3 DEF Bluetooth!btpan_reconnect, Bluetooth!TypeOK
    <3>3. worker' = "idle" /\ UNCHANGED <<switch_on, stack_ready, bt_connected, pan_connected, connect_pending,
                                          peer, mailbox, pan_timer, last_state, target, scan, callback, timer>>
      BY <2>3 DEF Bluetooth!btpan_reconnect, Bluetooth!Worker
    <3> QED
      BY <3>1, <3>2, <3>3 DEF Bluetooth!TypeOK
  <2>4. ASSUME Bluetooth!WorkerSample \/ Bluetooth!WorkerNotify PROVE Bluetooth!TypeOK'
    BY <2>4 DEF Bluetooth!TypeOK, Bluetooth!WorkerSample, Bluetooth!WorkerNotify, Bluetooth!Worker,
                Bluetooth!btpan_current_state, Bluetooth!States
  <2> QED
    BY <1>4, <2>1, <2>2, <2>3, <2>4, <2>5, <2>6 DEF Bluetooth!btpan_worker_entry
<1> QED
  BY <1>1, <1>2, <1>3, <1>4 DEF Bluetooth!Next
\* A step of the switch, of the stack's callback, of the timers or of the worker forgets
\* neither the switch nor a connection it has noted.
LEMMA BluetoothForgetsNothing ==
  ASSUME Bluetooth!TypeOK, Bluetooth!NothingForgotten, Bluetooth!Next
  PROVE  Bluetooth!NothingForgotten'
<1> DEFINE Told == \/ target = switch_on
                   \/ Bluetooth!Contains(mailbox, "apply") \/ Bluetooth!Contains(mailbox, "stackReady")
                   \/ worker \in {"apply", "stackReady"}
           Coming == timer = "post" \/ Bluetooth!Contains(mailbox, "connect") \/ worker = "connect"
<1>1. Told /\ (connect_pending => Coming)
  BY DEF Bluetooth!NothingForgotten
<1>2. SUFFICES Told' /\ (connect_pending' => Coming')
  BY DEF Bluetooth!NothingForgotten, Bluetooth!Contains
<1>3. mailbox \in Seq(Bluetooth!Messages)
  BY DEF Bluetooth!TypeOK
<1> USE DEF Bluetooth!link, Bluetooth!timers, Bluetooth!told, Bluetooth!counts
\* A message that is posted displaces none.
<1>4. ASSUME NEW m \in Bluetooth!Messages, Bluetooth!btpan_post(m)
      PROVE  /\ ~Bluetooth!Full => Bluetooth!Contains(mailbox', m)
             /\ \A e : Bluetooth!Contains(mailbox, e) => Bluetooth!Contains(mailbox', e)
  BY <1>3, <1>4, ContainsAppend DEF Bluetooth!btpan_post
<1>5. Bluetooth!Messages = {"stackReady", "connect", "apply", "reconnect"}
  BY DEF Bluetooth!Messages
<1>6. ASSUME Bluetooth!btpan_enable PROVE Told' /\ (connect_pending' => Coming')
  <2>1. Bluetooth!btpan_post("apply")
    BY <1>6 DEF Bluetooth!btpan_enable
  <2> QED
    BY <1>1, <1>4, <1>5, <1>6, <2>1 DEF Bluetooth!btpan_enable, Bluetooth!Contains
<1>7. ASSUME Bluetooth!btpan_bt_event_handle
      PROVE  Told' /\ (connect_pending' => Coming')
  <2>1. UNCHANGED <<switch_on, target, worker, timer>>
    BY <1>7 DEF Bluetooth!btpan_bt_event_handle, Bluetooth!StackReadyEvent, Bluetooth!LinkEvent,
         Bluetooth!PanUpEvent, Bluetooth!PanDownEvent, Bluetooth!LinkDownEvent, Bluetooth!KeyMissingEvent,
         Bluetooth!Event, Bluetooth!LinkUp, Bluetooth!PanUp, Bluetooth!LinkDown, Bluetooth!Reopened,
         Bluetooth!Refused, Bluetooth!CallbackSample, Bluetooth!CallbackNotify, Bluetooth!StartTimer,
         Bluetooth!Callback
  <2>2. connect_pending' => connect_pending
    BY <1>7 DEF Bluetooth!btpan_bt_event_handle, Bluetooth!StackReadyEvent, Bluetooth!LinkEvent,
         Bluetooth!PanUpEvent, Bluetooth!PanDownEvent, Bluetooth!LinkDownEvent, Bluetooth!KeyMissingEvent,
         Bluetooth!Event, Bluetooth!LinkUp, Bluetooth!PanUp, Bluetooth!LinkDown, Bluetooth!Reopened,
         Bluetooth!Refused, Bluetooth!CallbackSample, Bluetooth!CallbackNotify, Bluetooth!StartTimer
  <2>3. \A e : Bluetooth!Contains(mailbox, e) => Bluetooth!Contains(mailbox', e)
    <3>1. \/ UNCHANGED mailbox
          \/ mailbox' = Append(mailbox, "stackReady")
          \/ Bluetooth!btpan_post("apply")
      BY <1>7 DEF Bluetooth!btpan_bt_event_handle, Bluetooth!StackReadyEvent, Bluetooth!LinkEvent,
         Bluetooth!PanUpEvent, Bluetooth!PanDownEvent, Bluetooth!LinkDownEvent, Bluetooth!KeyMissingEvent,
         Bluetooth!Event, Bluetooth!LinkUp, Bluetooth!PanUp, Bluetooth!LinkDown, Bluetooth!Reopened,
         Bluetooth!Refused, Bluetooth!CallbackSample, Bluetooth!CallbackNotify, Bluetooth!StartTimer,
         Bluetooth!btpan_post
    <3> QED
      <4>1. CASE mailbox' = Append(mailbox, "stackReady")
        BY <1>3, <1>5, <4>1, ContainsAppend
      <4>2. CASE Bluetooth!btpan_post("apply")
        BY <1>4, <1>5, <4>2
      <4> QED
        BY <3>1, <4>1, <4>2
  <2> QED
    BY <1>1, <2>1, <2>2, <2>3 DEF Bluetooth!Contains
<1>8. ASSUME Bluetooth!ConnectTimeout PROVE Told' /\ (connect_pending' => Coming')
  BY <1>1, <1>8 DEF Bluetooth!ConnectTimeout, Bluetooth!Contains
<1>9. ASSUME Bluetooth!btpan_request_connect PROVE Told' /\ (connect_pending' => Coming')
  <2>1. /\ Bluetooth!btpan_post("connect")
        /\ UNCHANGED <<switch_on, target, worker>>
        /\ connect_pending' => ~Bluetooth!Full
    BY <1>9 DEF Bluetooth!btpan_request_connect
  <2> QED
    BY <1>1, <1>4, <1>5, <2>1 DEF Bluetooth!Contains
<1>10. ASSUME Bluetooth!btpan_reconnect_timeout PROVE Told' /\ (connect_pending' => Coming')
  <2>1. Bluetooth!btpan_post("reconnect") /\ UNCHANGED <<switch_on, target, worker, timer, connect_pending>>
    BY <1>10 DEF Bluetooth!btpan_reconnect_timeout
  <2> QED
    BY <1>1, <1>4, <1>5, <2>1 DEF Bluetooth!Contains
\* What the worker takes out of the mailbox it is at.
<1>11. ASSUME Bluetooth!Receive PROVE Told' /\ (connect_pending' => Coming')
  <2>1. /\ worker' = Head(mailbox)
        /\ mailbox # <<>> /\ mailbox' = Tail(mailbox)
        /\ worker = "idle"
        /\ UNCHANGED <<switch_on, target, timer, connect_pending>>
    BY <1>11 DEF Bluetooth!Receive, Bluetooth!Worker
  <2>2. \A e : Bluetooth!Contains(mailbox, e) => e = worker' \/ Bluetooth!Contains(mailbox', e)
    BY <1>3, <2>1, ContainsTail
  <2> QED
    BY <1>1, <2>1, <2>2 DEF Bluetooth!Contains
<1>12. ASSUME Bluetooth!btpan_stack_ready \/ Bluetooth!btpan_connect_profile \/ Bluetooth!btpan_reconnect
                \/ Bluetooth!ApplyTarget \/ Bluetooth!ApplyScan \/ Bluetooth!ApplyOff
                \/ Bluetooth!WorkerSample \/ Bluetooth!WorkerNotify
       PROVE  Told' /\ (connect_pending' => Coming')
  <2>1. UNCHANGED <<switch_on, mailbox, timer>>
    BY <1>12 DEF Bluetooth!btpan_stack_ready, Bluetooth!btpan_connect_profile, Bluetooth!btpan_reconnect,
         Bluetooth!ApplyTarget, Bluetooth!ApplyScan, Bluetooth!ApplyOff, Bluetooth!WorkerSample,
         Bluetooth!WorkerNotify, Bluetooth!Worker
  <2>2. \/ target' = switch_on
        \/ worker' \in {"apply", "stackReady"}
        \/ UNCHANGED target /\ worker \notin {"apply", "stackReady"}
    BY <1>12 DEF Bluetooth!btpan_stack_ready, Bluetooth!btpan_connect_profile, Bluetooth!btpan_reconnect,
         Bluetooth!ApplyTarget, Bluetooth!ApplyScan, Bluetooth!ApplyOff, Bluetooth!WorkerSample,
         Bluetooth!WorkerNotify, Bluetooth!Worker, Bluetooth!States
  <2>3. connect_pending' => connect_pending /\ worker # "connect"
    BY <1>12 DEF Bluetooth!btpan_stack_ready, Bluetooth!btpan_connect_profile, Bluetooth!btpan_reconnect,
         Bluetooth!ApplyTarget, Bluetooth!ApplyScan, Bluetooth!ApplyOff, Bluetooth!WorkerSample,
         Bluetooth!WorkerNotify, Bluetooth!Worker, Bluetooth!States
  <2> QED
    BY <1>1, <2>1, <2>2, <2>3 DEF Bluetooth!Contains
<1> QED
  BY <1>6, <1>7, <1>8, <1>9, <1>10, <1>11, <1>12
  DEF Bluetooth!Next, Bluetooth!btpan_worker_entry

\* What the worker has still to be told of the switch and of the phone is in its mailbox,
\* for a mailbox of any size, any turns of the switch and any events of the stack
\* (NothingForgotten of BtPan).
THEOREM BluetoothIsTold == PartsSpec => []NothingForgotten
<1>1. PartsInit => NothingForgotten
  <2> SUFFICES ASSUME Bluetooth!Init PROVE NothingForgotten
    BY DEF PartsInit
  <2>1. /\ 0 \in 0..ReconnectMax /\ 0 <= MailboxSize
        /\ <<>> \in Seq(Bluetooth!Messages) /\ Len(<<>>) = 0
    BY PartsAssumption DEF PartsAssumption
  <2>2. Bluetooth!TypeOK
    BY <2>1 DEF Bluetooth!Init, Bluetooth!TypeOK, Bluetooth!States, Bluetooth!Idle
  <2>3. Bluetooth!NothingForgotten
    BY DEF Bluetooth!Init, Bluetooth!NothingForgotten
  <2> QED
    BY <2>2, <2>3 DEF NothingForgotten
<1>2. NothingForgotten /\ [PartsNext]_allVars => NothingForgotten'
  <2> SUFFICES ASSUME NothingForgotten, [PartsNext]_allVars PROVE NothingForgotten'
    OBVIOUS
  <2>1. Bluetooth!Next \/ UNCHANGED bluetoothVars
    BY DEF PartsNext, allVars
  <2>2. CASE Bluetooth!Next
    BY <2>2, BluetoothTyped, BluetoothForgetsNothing DEF NothingForgotten
  <2>3. CASE UNCHANGED bluetoothVars
    BY <2>3 DEF bluetoothVars, NothingForgotten, Bluetooth!TypeOK, Bluetooth!NothingForgotten, Bluetooth!Contains
  <2> QED
    BY <2>1, <2>2, <2>3
<1> QED
  BY <1>1, <1>2, PTL DEF PartsSpec

----------------------------------------------------------------------------
(* The pictures. *)

Serials == Pictures!Serials
Step == [do : {"cancel", "clear", "post", "release", "stop"}, serial : Serials,
         for : {"none", "browser", "viewer"}]

\* 1 for each of the callback's next four steps that may begin a new generation.
Renews(q, i) == IF i \in DOMAIN q /\ q[i].do \in {"cancel", "clear"} THEN 1 ELSE 0
Renewals(q) == Renews(q, 1) + Renews(q, 2) + Renews(q, 3) + Renews(q, 4)
Ends == IF work.pc \in {"none", "exitFree", "return"} THEN 0 ELSE 1

\* What the pages hold and have to do, and the generations there can still be.
PagesTyped ==
  /\ generation \in Serials /\ requested \in Serials /\ completed \in Serials /\ failed_serial \in Serials
  /\ old \in Serials
  /\ references \in [Serials -> Int] /\ references[0] = 0
  /\ pending \in BOOLEAN /\ woken \in BOOLEAN
  /\ service \in {"off", "on", "lost", "stopping", "ended"}
  /\ work \in [pc : {"none", "loop", "wait", "alloc", "decode", "publish", "displace", "pack", "free",
                     "exit", "exitFree", "return"},
               job : Serials, displaced : Serials, pack : BOOLEAN]
  /\ page \in [top : {"none", "browser", "viewer"}, started : BOOLEAN, waiting : BOOLEAN,
               browser : Serials, viewer : Serials, displayed : Serials]
  /\ todo \in Seq(Step) /\ Len(todo) <= 4
  /\ generation + Renewals(todo) + Ends <= MaxSerial + 3

\* No serial is later than the generation, and one that is asked for is that.
SerialsPast ==
  /\ requested <= generation /\ completed <= generation /\ old <= generation /\ page.displayed <= generation
  /\ work.job <= generation /\ work.displaced <= generation
  /\ pending => requested = generation

\* A result is in one place besides the worker's hands.
Shelved(s) ==
  Pictures!Holds(completed, s) + Pictures!Holds(old, s) + Pictures!Holds(page.displayed, s)
    + Pictures!Holds(work.displaced, s)
Works(s) == IF work.pc \in {"decode", "publish", "displace", "pack", "free"} THEN Pictures!Holds(work.job, s) ELSE 0

OnePlace == \A s \in Serials \ {0} : Shelved(s) <= 1

Unseen(s) == s \notin {completed, old, page.displayed, work.displaced}

\* A serial that is asked for, or about to be, has no result yet, nor has the job at hand
\* before it is published.
NoneYet ==
  /\ (todo # <<>> /\ todo[1].do = "post") => ~pending /\ generation # 0 /\ generation # work.job /\ Unseen(generation)
  /\ \A i \in DOMAIN todo : i > 1 /\ todo[i].do = "post" => todo[i - 1].do = "clear"
  /\ pending => requested # 0 /\ requested # work.job /\ Unseen(requested)
  /\ work.pc \in {"alloc", "decode", "publish"} => work.job # 0 /\ Unseen(work.job)

\* The worker is there while its service is, and what it displaced it gives back.
WorkerLives ==
  /\ work.pc = "none" <=> service \in {"off", "ended"}
  /\ work.pc \in {"exit", "exitFree", "return"} => service \in {"lost", "stopping"}
  /\ work.displaced # 0 => work.pc \in {"displace", "exitFree"}
  /\ work.pc \in {"displace", "pack", "free"} => work.job # 0 /\ work.job # work.displaced
\* What is displayed the viewer shows, or is about to release.
ViewerShows ==
  page.displayed # 0 => page.top = "viewer" \/ \E i \in DOMAIN todo : todo[i].do = "release"

PicturesInv ==
  PagesTyped /\ SerialsPast /\ OnePlace /\ NoneYet /\ WorkerLives /\ ViewerShows
    /\ Pictures!ReferencesAreHolders

\* A plan of the pages has few steps, so few that take references.
LEMMA RenewalsTyped ==
  ASSUME NEW q
  PROVE  Renewals(q) \in 0..4 /\ Ends \in 0..1
BY DEF Renewals, Renews, Ends

\* The steps left when the first is done.
LEMMA RestOfSteps ==
  ASSUME NEW q \in Seq(Step), q # <<>>, Len(q) <= 4
  PROVE  /\ Tail(q) \in Seq(Step) /\ Len(Tail(q)) <= 4
         /\ q[1] \in Step /\ Head(q) = q[1]
         /\ Renewals(q) = Renews(q, 1) + Renewals(Tail(q))
         /\ DOMAIN Tail(q) = 1 .. Len(q) - 1
         /\ DOMAIN q = 1 .. Len(q)
         /\ \A i \in DOMAIN Tail(q) : Tail(q)[i] = q[i + 1]
<1>1. /\ Tail(q) \in Seq(Step) /\ Len(Tail(q)) = Len(q) - 1 /\ Head(q) = q[1]
      /\ DOMAIN Tail(q) = 1 .. Len(q) - 1 /\ DOMAIN q = 1 .. Len(q)
      /\ Len(q) >= 1 /\ Len(q) <= 4 /\ Len(q) \in Nat
      /\ \A i \in DOMAIN Tail(q) : Tail(q)[i] = q[i + 1]
  <2>1. Tail(q) \in Seq(Step) /\ Len(Tail(q)) = Len(q) - 1 /\ DOMAIN q = 1 .. Len(q)
    BY LenProperties
  <2>5. Head(q) = q[1]
    OBVIOUS
  <2>2. Len(q) >= 1 /\ Len(q) <= 4 /\ Len(q) \in Nat
    OBVIOUS
  <2>3. DOMAIN Tail(q) = 1 .. Len(q) - 1
    BY <2>1, <2>2
  <2>4. \A i \in DOMAIN Tail(q) : Tail(q)[i] = q[i + 1]
    BY <2>1, <2>2, <2>3
  <2> QED
    BY <2>1, <2>2, <2>3, <2>4, <2>5
<1>2. q[1] \in Step
  BY <1>1
<1>3. \A i \in 1..3 : Renews(Tail(q), i) = Renews(q, i + 1)
  <2> SUFFICES ASSUME NEW i \in 1..3 PROVE Renews(Tail(q), i) = Renews(q, i + 1)
    OBVIOUS
  <2>1. (i \in DOMAIN Tail(q)) <=> (i + 1 \in DOMAIN q)
    BY <1>1
  <2> QED
    BY <1>1, <2>1 DEF Renews
<1>4. Renews(Tail(q), 4) = 0
  BY <1>1 DEF Renews
<1>5. /\ Renews(Tail(q), 1) = Renews(q, 2)
      /\ Renews(Tail(q), 2) = Renews(q, 3)
      /\ Renews(Tail(q), 3) = Renews(q, 4)
  BY <1>3
<1> QED
  <2>1. Renews(q, 1) \in Nat /\ Renews(q, 2) \in Nat /\ Renews(q, 3) \in Nat /\ Renews(q, 4) \in Nat
    BY DEF Renews
  <2> QED
    BY <1>1, <1>2, <1>4, <1>5, <2>1 DEF Renewals

\* What a page's callback may set out to do.
Plan(q) ==
  /\ q \in Seq(Step) /\ Len(q) <= 4 /\ Renewals(q) <= 2
  /\ \A i \in DOMAIN q : q[i].do = "post" => i > 1 /\ q[i - 1].do = "clear"
Releases(q) == \E i \in DOMAIN q : q[i].do = "release"

\* What the handlers of the pages leave to do keeps to the form of a plan.
LEMMA Plans ==
  ASSUME NEW s \in Serials, NEW kind \in {"browser", "viewer"}
  PROVE  /\ Plan(<<>>)
         /\ Plan(<<Pictures!CancelRequest(s)>> \o Pictures!Submit(kind))
         /\ Plan(Pictures!Submit(kind) \o <<Pictures!CancelRequest(s)>>)
         /\ Plan(<<Pictures!CancelRequest(s), Pictures!Release>> \o Pictures!Submit(kind))
         /\ Plan(Pictures!Submit(kind) \o <<Pictures!CancelRequest(s), Pictures!Release>>)
         /\ Plan(<<Pictures!CancelRequest(s), Pictures!Release>>)
         /\ Plan(<<Pictures!CancelRequest(s), Pictures!Cancel, Pictures!Stop>>)
         /\ Releases(<<Pictures!CancelRequest(s), Pictures!Release>> \o Pictures!Submit(kind))
         /\ Releases(Pictures!Submit(kind) \o <<Pictures!CancelRequest(s), Pictures!Release>>)
<1> DEFINE C == Pictures!CancelRequest(s)
           D == Pictures!Cancel
           R == Pictures!Release
           P == [do |-> "post", serial |-> 0, for |-> kind]
           T == Pictures!Stop
<1>1. C \in Step /\ D \in Step /\ R \in Step /\ P \in Step /\ T \in Step
  BY PartsAssumption
  DEF PartsAssumption, Pictures!CancelRequest, Pictures!Cancel, Pictures!Release, Pictures!Stop, Step, Serials,
      Pictures!Serials
<1>2. C.do = "cancel" /\ D.do = "clear" /\ R.do = "release" /\ P.do = "post" /\ T.do = "stop"
  BY DEF Pictures!CancelRequest, Pictures!Cancel, Pictures!Release, Pictures!Stop
<1>3. Pictures!Submit(kind) = <<D, P>>
  BY DEF Pictures!Submit
<1> HIDE DEF C, D, R, P, T
<1>4. /\ <<C>> \o <<D, P>> = <<C, D, P>>
      /\ <<D, P>> \o <<C>> = <<D, P, C>>
      /\ <<C, R>> \o <<D, P>> = <<C, R, D, P>>
      /\ <<D, P>> \o <<C, R>> = <<D, P, C, R>>
  <2>1. /\ <<C>> \in Seq(Step) /\ <<C, R>> \in Seq(Step) /\ <<D, P>> \in Seq(Step)
        /\ <<C, D, P>> \in Seq(Step) /\ <<D, P, C>> \in Seq(Step)
        /\ <<C, R, D, P>> \in Seq(Step) /\ <<D, P, C, R>> \in Seq(Step)
    BY <1>1
  <2>2. <<C>> \o <<D, P>> = <<C, D, P>>
    <3>1. \A i \in 1..3 : (<<C>> \o <<D, P>>)[i] = <<C, D, P>>[i]
      BY <2>1
    <3>2. <<C>> \o <<D, P>> \in Seq(Step) /\ Len(<<C>> \o <<D, P>>) = 3 /\ Len(<<C, D, P>>) = 3
      BY <2>1
    <3> QED
      BY <2>1, <3>1, <3>2, SeqEqual
  <2>3. <<D, P>> \o <<C>> = <<D, P, C>>
    <3>1. \A i \in 1..3 : (<<D, P>> \o <<C>>)[i] = <<D, P, C>>[i]
      BY <2>1
    <3>2. <<D, P>> \o <<C>> \in Seq(Step) /\ Len(<<D, P>> \o <<C>>) = 3 /\ Len(<<D, P, C>>) = 3
      BY <2>1
    <3> QED
      BY <2>1, <3>1, <3>2, SeqEqual
  <2>4. <<C, R>> \o <<D, P>> = <<C, R, D, P>>
    <3>1. \A i \in 1..4 : (<<C, R>> \o <<D, P>>)[i] = <<C, R, D, P>>[i]
      BY <2>1
    <3>2. <<C, R>> \o <<D, P>> \in Seq(Step) /\ Len(<<C, R>> \o <<D, P>>) = 4 /\ Len(<<C, R, D, P>>) = 4
      BY <2>1
    <3> QED
      BY <2>1, <3>1, <3>2, SeqEqual
  <2>5. <<D, P>> \o <<C, R>> = <<D, P, C, R>>
    <3>1. \A i \in 1..4 : (<<D, P>> \o <<C, R>>)[i] = <<D, P, C, R>>[i]
      BY <2>1
    <3>2. <<D, P>> \o <<C, R>> \in Seq(Step) /\ Len(<<D, P>> \o <<C, R>>) = 4 /\ Len(<<D, P, C, R>>) = 4
      BY <2>1
    <3> QED
      BY <2>1, <3>1, <3>2, SeqEqual
  <2> QED
    BY <2>2, <2>3, <2>4, <2>5
<1>5. Plan(<<>>)
  BY DEF Plan, Renewals, Renews
<1>6. Plan(<<C, D, P>>) /\ Plan(<<D, P, C>>)
  BY <1>1, <1>2 DEF Plan, Renewals, Renews
<1>7. Plan(<<C, R, D, P>>) /\ Plan(<<D, P, C, R>>)
  BY <1>1, <1>2 DEF Plan, Renewals, Renews
<1>8. Plan(<<C, R>>) /\ Plan(<<C, D, T>>)
  BY <1>1, <1>2 DEF Plan, Renewals, Renews
<1>9. Releases(<<C, R, D, P>>) /\ Releases(<<D, P, C, R>>)
  <2>1. <<C, R, D, P>>[2] = R /\ <<D, P, C, R>>[4] = R
    OBVIOUS
  <2>2. 2 \in DOMAIN <<C, R, D, P>> /\ 4 \in DOMAIN <<D, P, C, R>>
    OBVIOUS
  <2> QED
    BY <1>2, <2>1, <2>2 DEF Releases
<1> QED
  BY <1>3, <1>4, <1>5, <1>6, <1>7, <1>8, <1>9 DEF C, D, R, T

\* What a reader of PicturesInv may take for granted.
LEMMA PicturesFacts ==
  ASSUME PicturesInv
  PROVE  /\ Serials = 0..(MaxSerial + 3) /\ MaxSerial \in Nat /\ 0 \in Serials
         /\ generation \in Serials /\ requested \in Serials /\ completed \in Serials /\ failed_serial \in Serials
         /\ old \in Serials
         /\ references \in [Serials -> Int] /\ references[0] = 0
         /\ pending \in BOOLEAN /\ woken \in BOOLEAN
         /\ work.job \in Serials /\ work.displaced \in Serials /\ page.displayed \in Serials
         /\ page.browser \in Serials /\ page.viewer \in Serials
         /\ Ends \in 0..1 /\ Renewals(todo) \in 0..4
         /\ work.pc \in {"none", "loop", "wait", "alloc", "decode", "publish", "displace", "pack", "free",
                         "exit", "exitFree", "return"}
         /\ Pictures!Serials = Serials
         /\ generation \in Nat /\ requested \in Nat /\ completed \in Nat /\ old \in Nat
         /\ work.job \in Nat /\ work.displaced \in Nat /\ page.displayed \in Nat
BY PartsAssumption, RenewalsTyped
DEF PartsAssumption, PicturesInv, PagesTyped, Serials, Pictures!Serials

\* The counts, as the sum of what is on the shelves and what is in hand.
LEMMA CountsAreSums ==
  Pictures!ReferencesAreHolders <=> \A s \in Serials \ {0} : references[s] = Shelved(s) + Works(s)
BY DEF Pictures!ReferencesAreHolders, Serials, Shelved, Works, Pictures!Serials, Pictures!Holds

\* Few places can hold a result.
LEMMA SharesTyped ==
  ASSUME NEW s
  PROVE  Shelved(s) \in 0..4 /\ Works(s) \in 0..1
BY DEF Shelved, Works, Pictures!Holds

\* The counts are bounded by the places.
LEMMA PicturesAreTyped ==
  ASSUME PicturesInv
  PROVE  ReferencesAreHolders
<1>1. references \in [Serials -> 0..2]
  <2> SUFFICES ASSUME NEW s \in Serials PROVE references[s] \in 0..2
    BY PicturesFacts
  <2>1. CASE s # 0
    <3>1. references[s] = Shelved(s) + Works(s) /\ Shelved(s) <= 1
      BY <2>1, CountsAreSums DEF PicturesInv, OnePlace
    <3> QED
      BY <3>1, SharesTyped
  <2> QED
    BY <2>1, PicturesFacts
<1>2. Pictures!TypeOK
  BY <1>1, PicturesFacts DEF PicturesInv, PagesTyped, Pictures!TypeOK
<1> QED
  BY <1>2 DEF ReferencesAreHolders, PicturesInv

\* Letting go of a result takes one from its count.
LEMMA ReleaseCounts ==
  ASSUME PicturesInv, NEW r \in Serials
  PROVE  /\ Pictures!Released(r) \in [Serials -> Int] /\ Pictures!Released(r)[0] = 0
         /\ \A s \in Serials \ {0} : Pictures!Released(r)[s] = references[s] - Pictures!Holds(r, s)
<1>1. references \in [Serials -> Int] /\ references[0] = 0 /\ 0 \in Serials
  BY PicturesFacts
<1>2. CASE r = 0
  BY <1>1, <1>2 DEF Pictures!Released, Pictures!Holds
<1>3. CASE r # 0
  <2>1. Pictures!Released(r) = [references EXCEPT ![r] = references[r] - 1]
    BY <1>3 DEF Pictures!Released
  <2> QED
    BY <1>1, <1>3, <2>1 DEF Pictures!Holds
<1> QED
  BY <1>2, <1>3

\* When shelves and hands are as they were, so are the counts.
LEMMA SharesKept ==
  ASSUME PicturesInv, UNCHANGED references,
         \A s \in Serials \ {0} : Shelved(s)' = Shelved(s) /\ Works(s)' = Works(s)
  PROVE  OnePlace' /\ Pictures!ReferencesAreHolders'
<1>1. OnePlace'
  BY DEF PicturesInv, OnePlace, Serials, Pictures!Serials
<1>2. \A s \in Serials \ {0} : references'[s] = Shelved(s)' + Works(s)'
  BY CountsAreSums DEF PicturesInv
<1> QED
  BY <1>1, <1>2 DEF Pictures!ReferencesAreHolders, Serials, Shelved, Works, Pictures!Serials, Pictures!Holds

\* The steps of a callback that are left when one is done.
LEMMA StepDone ==
  ASSUME PicturesInv, todo # <<>>, todo' = Tail(todo)
  PROVE  /\ todo' \in Seq(Step) /\ Len(todo') <= 4 /\ Renewals(todo') \in 0..4
         /\ Renewals(todo) = Renews(todo, 1) + Renewals(todo')
         /\ todo[1] \in Step /\ Head(todo) = todo[1]
         /\ Renews(todo, 1) = IF todo[1].do \in {"cancel", "clear"} THEN 1 ELSE 0
         /\ \A i \in DOMAIN todo' : i > 1 /\ todo'[i].do = "post" => todo'[i - 1].do = "clear"
         /\ todo' # <<>> /\ todo'[1].do = "post" => todo[1].do = "clear"
         /\ (\E i \in DOMAIN todo : todo[i].do = "release") /\ todo[1].do # "release"
              => \E i \in DOMAIN todo' : todo'[i].do = "release"
<1>1. /\ todo' \in Seq(Step) /\ Len(todo') <= 4
      /\ Renewals(todo) = Renews(todo, 1) + Renewals(todo')
      /\ todo[1] \in Step /\ Head(todo) = todo[1]
      /\ DOMAIN todo' = 1 .. Len(todo) - 1 /\ DOMAIN todo = 1 .. Len(todo)
      /\ \A i \in DOMAIN todo' : todo'[i] = todo[i + 1]
      /\ Len(todo) \in Nat
  BY RestOfSteps DEF PicturesInv, PagesTyped
<1>2. Len(todo) >= 1
  BY DEF PicturesInv, PagesTyped
<1>3. Renews(todo, 1) = IF todo[1].do \in {"cancel", "clear"} THEN 1 ELSE 0
  BY <1>1, <1>2 DEF Renews
<1>4. \A i \in DOMAIN todo : i > 1 /\ todo[i].do = "post" => todo[i - 1].do = "clear"
  BY DEF PicturesInv, NoneYet
<1>5. ASSUME NEW i \in DOMAIN todo', i > 1, todo'[i].do = "post"
      PROVE  todo'[i - 1].do = "clear"
  <2>1. i \in Nat /\ i + 1 \in DOMAIN todo /\ i - 1 \in DOMAIN todo' /\ todo'[i] = todo[i + 1]
        /\ todo'[i - 1] = todo[i - 1 + 1] /\ i - 1 + 1 = i /\ i + 1 - 1 = i
    BY <1>1, <1>5
  <2> QED
    <3> DEFINE k == i + 1
    <3>1. k \in DOMAIN todo /\ k > 1 /\ k - 1 = i /\ todo[k].do = "post"
      BY <1>5, <2>1
    <3>2. todo[k - 1].do = "clear"
      BY <1>4, <3>1
    <3>3. todo'[i - 1] = todo[i]
      BY <2>1
    <3> QED
      BY <3>1, <3>2, <3>3
<1>6. ASSUME todo' # <<>>, todo'[1].do = "post"
      PROVE  todo[1].do = "clear"
  <2>1. Len(todo') >= 1 /\ DOMAIN todo' = 1 .. Len(todo')
    BY <1>1, <1>6, LenProperties
  <2>2. 1 \in DOMAIN todo' /\ 2 \in DOMAIN todo /\ todo'[1] = todo[2]
    BY <1>1, <2>1
  <2> QED
    BY <1>4, <1>6, <2>2
<1>7. ASSUME NEW i \in DOMAIN todo, todo[i].do = "release", todo[1].do # "release"
      PROVE  \E j \in DOMAIN todo' : todo'[j].do = "release"
  <2>1. i # 1 /\ i - 1 \in DOMAIN todo' /\ todo'[i - 1] = todo[i]
    BY <1>1, <1>7
  <2> QED
    BY <1>7, <2>1
<1> QED
  BY <1>1, <1>3, <1>5, <1>6, <1>7, RenewalsTyped

\* The page frees the result it took.
LEMMA PicturesFreeOld ==
  ASSUME PicturesInv, old # 0, references' = Pictures!Released(old), old' = 0,
         UNCHANGED <<generation, requested, pending, completed, failed_serial, service, woken, work, todo, page>>
  PROVE  PicturesInv'
<1>1. SerialsPast'
  BY PicturesFacts DEF PicturesInv, SerialsPast
<1>2. WorkerLives' /\ ViewerShows'
  BY DEF PicturesInv, WorkerLives, ViewerShows
<1>3. NoneYet'
  BY PicturesFacts DEF PicturesInv, NoneYet, Unseen
<1>4. \A s \in Serials \ {0} : Shelved(s)' = Shelved(s) - Pictures!Holds(old, s) /\ Works(s)' = Works(s)
  BY DEF Shelved, Works, Pictures!Holds
<1>5. OnePlace'
  BY <1>4, SharesTyped DEF PicturesInv, OnePlace, Pictures!Holds, Serials, Pictures!Serials
<1>6. \A s \in Serials \ {0} : references'[s] = references[s] - Pictures!Holds(old, s)
  BY PicturesFacts, ReleaseCounts
<1>7. \A s \in Serials \ {0} : references'[s] = Shelved(s)' + Works(s)'
  BY <1>4, <1>6, CountsAreSums, SharesTyped DEF PicturesInv, Pictures!Holds
<1>8. Pictures!ReferencesAreHolders'
  BY <1>7 DEF Pictures!ReferencesAreHolders, Serials, Shelved, Works, Pictures!Serials, Pictures!Holds
<1>9. references' \in [Serials -> Int] /\ references'[0] = 0
  BY PicturesFacts, ReleaseCounts
<1>10. PagesTyped'
  BY <1>9, PicturesFacts DEF PicturesInv, PagesTyped, Serials, Ends
<1> QED
  BY <1>1, <1>2, <1>3, <1>5, <1>8, <1>10 DEF PicturesInv

\* A generation begins: nothing is asked for, and what was published is the page's to free.
LEMMA PicturesRenew ==
  ASSUME PicturesInv, old = 0, todo # <<>>, todo' = Tail(todo), Head(todo).do \in {"cancel", "clear"},
         Pictures!Cancelled, old' = completed,
         UNCHANGED <<references, service, woken, work, page>>
  PROVE  PicturesInv'
<1>1. generation' = generation + 1 /\ pending' = FALSE /\ completed' = 0
      /\ UNCHANGED <<requested, failed_serial>>
  BY DEF Pictures!Cancelled
<1>2. SerialsPast'
  <2>1. generation \in Nat /\ requested \in Nat /\ completed \in Nat /\ page.displayed \in Nat
        /\ work.job \in Nat /\ work.displaced \in Nat
    BY PicturesFacts
  <2>2. SerialsPast
    BY DEF PicturesInv
  <2> QED
    BY <1>1, <2>1, <2>2 DEF SerialsPast
<1>3. WorkerLives'
  BY DEF PicturesInv, WorkerLives
<1>4. ViewerShows'
  BY StepDone DEF PicturesInv, ViewerShows
<1>5. NoneYet'
  <2>1. generation' # 0 /\ generation' # work.job'
        /\ generation' \notin {completed', old', page.displayed', work.displaced'}
    <3>1. generation \in Nat /\ completed \in Nat /\ page.displayed \in Nat
          /\ work.job \in Nat /\ work.displaced \in Nat
      BY PicturesFacts
    <3>2. SerialsPast
      BY DEF PicturesInv
    <3> QED
      BY <1>1, <3>1, <3>2 DEF Unseen, SerialsPast
  <2>2. work.pc \in {"alloc", "decode", "publish"} =>
          work.job # 0 /\ work.job \notin {completed', old', page.displayed', work.displaced'}
    BY <1>1 DEF PicturesInv, NoneYet, Unseen
  <2> QED
    BY <1>1, <2>1, <2>2, StepDone DEF NoneYet, Unseen
<1>6. OnePlace' /\ Pictures!ReferencesAreHolders'
  <2>1. \A s \in Serials \ {0} : Shelved(s)' = Shelved(s) /\ Works(s)' = Works(s)
    BY <1>1 DEF Shelved, Works, Pictures!Holds
  <2> QED
    BY <2>1, SharesKept
<1>7. /\ Renewals(todo) = 1 + Renewals(todo')
      /\ generation + Renewals(todo) + Ends <= MaxSerial + 3
  BY StepDone DEF PicturesInv, PagesTyped
<1>8. generation' \in Serials /\ generation' + Renewals(todo') + Ends' <= MaxSerial + 3
  <2>1. Ends' = Ends /\ Ends \in 0..1 /\ Renewals(todo') \in 0..4 /\ generation \in Nat /\ MaxSerial \in Nat
    BY PicturesFacts, StepDone DEF Ends
  <2>2. generation + 1 + Renewals(todo') + Ends <= MaxSerial + 3
    BY <1>7, <2>1
  <2>3. Serials = 0..(MaxSerial + 3)
    BY PicturesFacts
  <2>4. generation + 1 \in Serials
    BY <2>1, <2>2, <2>3
  <2> QED
    BY <1>1, <2>1, <2>2, <2>4
<1>9. PagesTyped'
  BY <1>1, <1>8, PicturesFacts, StepDone DEF PicturesInv, PagesTyped, Serials
<1> QED
  BY <1>2, <1>3, <1>4, <1>5, <1>6, <1>9 DEF PicturesInv

\* A step that begins no generation leaves at least as many to come as were.
LEMMA RoomKept ==
  ASSUME PicturesInv, todo # <<>>, todo' = Tail(todo), UNCHANGED <<generation, work>>
  PROVE  generation' + Renewals(todo') + Ends' <= MaxSerial + 3
<1>1. /\ Ends' = Ends /\ Ends \in 0..1 /\ Renewals(todo') \in 0..4 /\ generation \in Nat /\ MaxSerial \in Nat
      /\ Renewals(todo) = Renews(todo, 1) + Renewals(todo') /\ Renews(todo, 1) \in 0..1
  BY PicturesFacts, StepDone DEF Ends
<1>2. generation + Renewals(todo) + Ends <= MaxSerial + 3
  BY DEF PicturesInv, PagesTyped
<1> QED
  BY <1>1, <1>2

\* The serial to cancel is not the current one.
LEMMA PicturesSkip ==
  ASSUME PicturesInv, todo # <<>>, todo' = Tail(todo), Head(todo).do = "cancel",
         UNCHANGED <<generation, requested, pending, completed, failed_serial, old, references, service, woken,
                     work, page>>
  PROVE  PicturesInv'
<1>1. SerialsPast' /\ WorkerLives'
  BY DEF PicturesInv, SerialsPast, WorkerLives
<1>2. ViewerShows'
  BY StepDone DEF PicturesInv, ViewerShows
<1>3. NoneYet'
  BY StepDone DEF PicturesInv, NoneYet, Unseen
<1>4. OnePlace' /\ Pictures!ReferencesAreHolders'
  BY SharesKept DEF Shelved, Works, Pictures!Holds
<1>5. PagesTyped'
  BY RoomKept, StepDone DEF PicturesInv, PagesTyped, Serials
<1> QED
  BY <1>1, <1>2, <1>3, <1>4, <1>5 DEF PicturesInv

\* The request gets the generation as its serial if the service is there.
LEMMA PicturesPost ==
  ASSUME PicturesInv, old = 0, todo # <<>>, todo' = Tail(todo), Pictures!gallery_submit, UNCHANGED work
  PROVE  PicturesInv'
<1> DEFINE ok == service = "on"
           serial == IF ok THEN generation ELSE 0
<1>1. /\ Head(todo).do = "post"
      /\ requested' = IF ok THEN generation ELSE requested
      /\ page' = IF Head(todo).for = "browser" THEN [page EXCEPT !.browser = serial, !.waiting = TRUE]
                 ELSE [page EXCEPT !.viewer = serial, !.waiting = TRUE]
      /\ UNCHANGED <<generation, completed, failed_serial, references, service, old>>
  BY DEF Pictures!gallery_submit
<1>2. /\ pending' = (pending \/ ok)
      /\ woken' = (woken \/ ok)
  BY DEF Pictures!gallery_submit
<1>3. pending' \in BOOLEAN /\ woken' \in BOOLEAN /\ (pending' => pending \/ ok)
  BY <1>2, Zenon
<1>4. page' \in [top : {"none", "browser", "viewer"}, started : BOOLEAN, waiting : BOOLEAN,
                 browser : Serials, viewer : Serials, displayed : Serials]
      /\ page'.top = page.top /\ page'.displayed = page.displayed
  <2>1. page \in [top : {"none", "browser", "viewer"}, started : BOOLEAN, waiting : BOOLEAN,
                  browser : Serials, viewer : Serials, displayed : Serials] /\ serial \in Serials
    BY PicturesFacts DEF PicturesInv, PagesTyped
  <2> QED
    BY <1>1, <2>1
<1>5. todo[1].do = "post"
  BY <1>1, StepDone
<1>6. ~pending /\ generation # 0 /\ generation # work.job /\ Unseen(generation)
  BY <1>5 DEF PicturesInv, NoneYet
<1>7. SerialsPast'
  <2>1. generation <= generation
    BY PicturesFacts
  <2>2. pending' => requested' = generation'
    BY <1>1, <1>3, <1>6
  <2> QED
    BY <1>1, <1>4, <2>1, <2>2 DEF PicturesInv, SerialsPast
<1>8. WorkerLives'
  BY <1>1 DEF PicturesInv, WorkerLives
<1>9. ViewerShows'
  BY <1>4, <1>5, StepDone DEF PicturesInv, ViewerShows
<1>10. NoneYet'
  <2>1. pending' => requested' # 0 /\ requested' # work.job' /\ Unseen(requested)'
    BY <1>1, <1>3, <1>4, <1>6 DEF Unseen
  <2>2. work.pc \in {"alloc", "decode", "publish"} => work.job # 0 /\ Unseen(work.job)'
    BY <1>1, <1>4 DEF PicturesInv, NoneYet, Unseen
  <2> QED
    BY <1>5, <2>1, <2>2, StepDone DEF NoneYet
<1>11. OnePlace' /\ Pictures!ReferencesAreHolders'
  <2>1. \A s \in Serials \ {0} : Shelved(s)' = Shelved(s) /\ Works(s)' = Works(s)
    BY <1>1, <1>4 DEF Shelved, Works, Pictures!Holds
  <2> QED
    BY <1>1, <2>1, SharesKept
<1>12. PagesTyped'
  <2>1. requested' \in Serials /\ generation' \in Serials
    BY <1>1, PicturesFacts
  <2> QED
    BY <1>1, <1>3, <1>4, <2>1, RoomKept, StepDone DEF PicturesInv, PagesTyped, Serials
<1> QED
  BY <1>7, <1>8, <1>9, <1>10, <1>11, <1>12 DEF PicturesInv

\* What was displayed is the page's to free.
LEMMA PicturesRelease ==
  ASSUME PicturesInv, old = 0, todo # <<>>, todo' = Tail(todo), Pictures!release_image, UNCHANGED work
  PROVE  PicturesInv'
<1>1. /\ Head(todo).do = "release" /\ old' = page.displayed
      /\ page' = [page EXCEPT !.displayed = 0]
      /\ UNCHANGED <<generation, requested, pending, completed, failed_serial, references, service, woken>>
  BY DEF Pictures!release_image, Pictures!svcVars
<1>2. page' \in [top : {"none", "browser", "viewer"}, started : BOOLEAN, waiting : BOOLEAN,
                 browser : Serials, viewer : Serials, displayed : Serials] /\ page'.displayed = 0
  BY <1>1, PicturesFacts DEF PicturesInv, PagesTyped
<1>3. todo[1].do = "release"
  BY <1>1, StepDone
<1>4. SerialsPast'
  BY <1>1, <1>2, PicturesFacts DEF PicturesInv, SerialsPast
<1>5. WorkerLives' /\ ViewerShows'
  BY <1>1, <1>2 DEF PicturesInv, WorkerLives, ViewerShows
<1>6. NoneYet'
  <2>1. pending' => requested' # 0 /\ requested' # work.job' /\ Unseen(requested)'
    BY <1>1, <1>2 DEF PicturesInv, NoneYet, Unseen
  <2>2. work.pc \in {"alloc", "decode", "publish"} => work.job # 0 /\ Unseen(work.job)'
    BY <1>1, <1>2 DEF PicturesInv, NoneYet, Unseen
  <2> QED
    BY <1>3, <2>1, <2>2, StepDone DEF NoneYet
<1>7. OnePlace' /\ Pictures!ReferencesAreHolders'
  <2>1. \A s \in Serials \ {0} : Shelved(s)' = Shelved(s) /\ Works(s)' = Works(s)
    BY <1>1, <1>2 DEF Shelved, Works, Pictures!Holds
  <2> QED
    BY <1>1, <2>1, SharesKept
<1>8. PagesTyped'
  BY <1>1, <1>2, PicturesFacts, RoomKept, StepDone DEF PicturesInv, PagesTyped, Serials
<1> QED
  BY <1>4, <1>5, <1>6, <1>7, <1>8 DEF PicturesInv

\* The service is told to stop.
LEMMA PicturesStop ==
  ASSUME PicturesInv, old = 0, todo # <<>>, todo' = Tail(todo), Pictures!gallery_stop, UNCHANGED work
  PROVE  PicturesInv'
<1>1. /\ Head(todo).do = "stop" /\ woken' = TRUE
      /\ service' = IF service \in {"on", "lost"} THEN "stopping" ELSE service
      /\ UNCHANGED <<generation, requested, pending, completed, failed_serial, references, old, page>>
  BY DEF Pictures!gallery_stop, Pictures!svcVars
<1>2. todo[1].do = "stop"
  BY <1>1, StepDone
<1>3. SerialsPast'
  BY <1>1 DEF PicturesInv, SerialsPast
<1>4. WorkerLives'
  BY <1>1 DEF PicturesInv, WorkerLives
<1>5. ViewerShows'
  BY <1>1, <1>2, StepDone DEF PicturesInv, ViewerShows
<1>6. NoneYet'
  BY <1>1, <1>2, StepDone DEF PicturesInv, NoneYet, Unseen
<1>7. OnePlace' /\ Pictures!ReferencesAreHolders'
  BY <1>1, SharesKept DEF Shelved, Works, Pictures!Holds
<1>8. PagesTyped'
  BY <1>1, RoomKept, StepDone DEF PicturesInv, PagesTyped, Serials
<1> QED
  BY <1>3, <1>4, <1>5, <1>6, <1>7, <1>8 DEF PicturesInv

\* The steps of the UI thread through what a handler left to do.
LEMMA PicturesUi ==
  ASSUME PicturesInv, Pictures!UiStep
  PROVE  PicturesInv'
<1>1. CASE /\ old # 0
           /\ references' = Pictures!Released(old) /\ old' = 0
           /\ UNCHANGED <<generation, requested, pending, completed, failed_serial, service, woken, todo, page>>
  BY <1>1, PicturesFreeOld DEF Pictures!UiStep
<1>2. CASE /\ old = 0 /\ todo # <<>> /\ Pictures!NextTodo
           /\ \/ Pictures!gallery_cancel_request \/ Pictures!gallery_cancel \/ Pictures!gallery_submit
              \/ Pictures!release_image \/ Pictures!gallery_stop
  <2>1. todo' = Tail(todo) /\ UNCHANGED work /\ old = 0 /\ todo # <<>>
    BY <1>2 DEF Pictures!NextTodo, Pictures!UiStep
  <2>2. CASE Pictures!gallery_cancel_request
    <3>1. Head(todo).do = "cancel" /\ UNCHANGED <<references, service, woken, page>>
      BY <2>2 DEF Pictures!gallery_cancel_request
    <3>2. \/ Pictures!Cancelled /\ old' = completed
          \/ UNCHANGED <<generation, requested, pending, completed, failed_serial, old>>
      BY <2>2 DEF Pictures!gallery_cancel_request
    <3> QED
      BY <2>1, <3>1, <3>2, PicturesRenew, PicturesSkip
  <2>3. CASE Pictures!gallery_cancel
    BY <2>1, <2>3, PicturesRenew DEF Pictures!gallery_cancel
  <2> QED
    BY <1>2, <2>1, <2>2, <2>3, PicturesPost, PicturesRelease, PicturesStop
<1> QED
  BY <1>1, <1>2 DEF Pictures!UiStep

\* A callback sets out: there is room for the generations it may begin.
LEMMA PicturesBegin ==
  ASSUME PicturesInv, Pictures!UiIdle, Plan(todo'), generation < MaxSerial \/ (todo' = <<>> /\ UNCHANGED work),
         page' \in [top : {"none", "browser", "viewer"}, started : BOOLEAN, waiting : BOOLEAN,
                    browser : Serials, viewer : Serials, displayed : Serials],
         page'.displayed = page.displayed,
         page.displayed # 0 => page'.top = "viewer" \/ Releases(todo'),
         UNCHANGED <<Pictures!svcVars, old>>,
         woken' \in BOOLEAN,
         \/ work' = work /\ service' = service
         \/ service = "off" /\ service' = "on" /\ work' = [work EXCEPT !.pc = "loop"]
  PROVE  PicturesInv'
<1>1. UNCHANGED <<generation, requested, pending, completed, failed_serial, references, old>>
  BY DEF Pictures!svcVars
<1>2. todo = <<>> /\ old = 0
  BY DEF Pictures!UiIdle
<1>3. WorkerLives /\ WorkerLives' /\ work'.displaced = work.displaced /\ work'.job = work.job
      /\ work' \in [pc : {"none", "loop", "wait", "alloc", "decode", "publish", "displace", "pack", "free",
                          "exit", "exitFree", "return"},
                    job : Serials, displaced : Serials, pack : BOOLEAN]
      /\ (work'.pc = work.pc \/ (work'.pc = "loop" /\ work.pc = "none"))
  <2>1. WorkerLives /\ work \in [pc : {"none", "loop", "wait", "alloc", "decode", "publish", "displace", "pack",
                                        "free", "exit", "exitFree", "return"},
                                  job : Serials, displaced : Serials, pack : BOOLEAN]
    BY DEF PicturesInv, PagesTyped
  <2>2. CASE work' = work /\ service' = service
    <3>1. WorkerLives'
      BY <2>1, <2>2 DEF WorkerLives
    <3> QED
      BY <2>1, <2>2, <3>1
  <2>3. CASE service = "off" /\ service' = "on" /\ work' = [work EXCEPT !.pc = "loop"]
    <3>1. work.pc = "none" /\ work.displaced = 0
      BY <2>1, <2>3 DEF WorkerLives
    <3>2. work'.pc = "loop" /\ work'.displaced = 0 /\ work'.job = work.job
          /\ work' \in [pc : {"none", "loop", "wait", "alloc", "decode", "publish", "displace", "pack", "free",
                              "exit", "exitFree", "return"},
                        job : Serials, displaced : Serials, pack : BOOLEAN]
      BY <2>1, <2>3, <3>1
    <3> QED
      BY <2>1, <2>3, <3>1, <3>2 DEF WorkerLives
  <2> QED
    BY <2>2, <2>3
<1>4. SerialsPast'
  BY <1>1, <1>3 DEF PicturesInv, SerialsPast
<1>5. ViewerShows'
  BY DEF ViewerShows, Releases
<1>6. NoneYet'
  <2>1. /\ \A i \in DOMAIN todo' : i > 1 /\ todo'[i].do = "post" => todo'[i - 1].do = "clear"
        /\ ~(todo' # <<>> /\ todo'[1].do = "post")
    <3>1. \A i \in DOMAIN todo' : todo'[i].do = "post" => i > 1 /\ todo'[i - 1].do = "clear"
      BY DEF Plan
    <3>2. ASSUME todo' # <<>> PROVE 1 \in DOMAIN todo'
      BY <3>2 DEF Plan
    <3>3. ~(1 > 1)
      OBVIOUS
    <3> QED
      BY <3>1, <3>2, <3>3
  <2> QED
    BY <1>1, <1>3, <2>1 DEF PicturesInv, NoneYet, Unseen
<1>7. OnePlace' /\ Pictures!ReferencesAreHolders'
  <2>1. \A s \in Serials \ {0} : Shelved(s)' = Shelved(s) /\ Works(s)' = Works(s)
    BY <1>1, <1>3 DEF Shelved, Works, Pictures!Holds
  <2> QED
    BY <1>1, <2>1, SharesKept
<1>8. generation' + Renewals(todo') + Ends' <= MaxSerial + 3
  <2>1. generation \in Nat /\ MaxSerial \in Nat /\ Renewals(todo') \in 0..4 /\ Ends' \in 0..1 /\ Ends \in 0..1
    BY PicturesFacts, RenewalsTyped DEF Ends
  <2>2. CASE generation < MaxSerial
    BY <1>1, <2>1, <2>2 DEF Plan
  <2>3. CASE todo' = <<>> /\ UNCHANGED work
    BY <1>1, <1>2, <2>1, <2>3 DEF PicturesInv, PagesTyped, Ends
  <2> QED
    BY <2>2, <2>3
<1>9. PagesTyped'
  BY <1>1, <1>3, <1>8 DEF PicturesInv, PagesTyped, Serials, Plan
<1> QED
  BY <1>3, <1>4, <1>5, <1>6, <1>7, <1>9 DEF PicturesInv

\* Pages opened, shown, left and closed.
LEMMA PicturesPages ==
  ASSUME PicturesInv,
         \/ Pictures!OpenBrowser \/ Pictures!gallery_start \/ Pictures!browser_scan \/ Pictures!OpenViewer
         \/ Pictures!LeaveViewer \/ Pictures!LoseStorage \/ Pictures!CloseBrowser
  PROVE  PicturesInv'
<1> DEFINE Pages == [top : {"none", "browser", "viewer"}, started : BOOLEAN, waiting : BOOLEAN,
                     browser : Serials, viewer : Serials, displayed : Serials]
<1>1. /\ page \in Pages /\ 0 \in Serials /\ page.browser \in Serials /\ page.viewer \in Serials
      /\ woken \in BOOLEAN
  BY PicturesFacts DEF PicturesInv, PagesTyped
<1>2. ASSUME Pictures!UiIdle, page.displayed # 0 PROVE page.top = "viewer"
  BY <1>2 DEF Pictures!UiIdle, PicturesInv, ViewerShows
\* A callback that leaves the service alone.
<1>3. ASSUME Pictures!UiIdle, NEW q, NEW p \in Pages, Pictures!Begin(q, p), Plan(q),
             generation < MaxSerial \/ q = <<>>,
             p.displayed = page.displayed, page.displayed # 0 => p.top = "viewer" \/ Releases(q)
      PROVE  PicturesInv'
  <2>1. /\ todo' = q /\ page' = p
        /\ UNCHANGED <<Pictures!svcVars, old>> /\ woken' = woken /\ work' = work /\ service' = service
    BY <1>3 DEF Pictures!Begin
  <2>2. Plan(todo') /\ (generation < MaxSerial \/ (todo' = <<>> /\ UNCHANGED work)) /\ page' \in Pages
        /\ page'.displayed = page.displayed /\ (page.displayed # 0 => page'.top = "viewer" \/ Releases(todo'))
        /\ woken' \in BOOLEAN
    BY <1>1, <1>3, <2>1
  <2> QED
    BY <1>3, <2>1, <2>2, PicturesBegin
<1>4. CASE Pictures!OpenBrowser
  <2>1. Pictures!UiIdle /\ page.top = "none" /\ Pictures!Begin(<<>>, [Pictures!NoPage EXCEPT !.top = "browser"])
    BY <1>4 DEF Pictures!OpenBrowser
  <2>2. [Pictures!NoPage EXCEPT !.top = "browser"] \in Pages
        /\ [Pictures!NoPage EXCEPT !.top = "browser"].displayed = 0
    BY <1>1 DEF Pictures!NoPage
  <2>3. page.displayed = 0
    BY <1>2, <2>1
  <2>4. Plan(<<>>)
    BY <1>1, Plans
  <2> QED
    BY <1>3, <2>1, <2>2, <2>3, <2>4
<1>5. CASE Pictures!gallery_start
  <2> DEFINE q == <<Pictures!CancelRequest(page.browser)>> \o Pictures!Submit("browser")
  <2>1. /\ Pictures!UiIdle /\ generation < MaxSerial /\ page.top = "browser"
        /\ service = "off" /\ service' = "on" /\ woken' = FALSE
        /\ work' = [work EXCEPT !.pc = "loop"]
        /\ page' = [page EXCEPT !.started = TRUE]
        /\ todo' = q
        /\ UNCHANGED <<Pictures!svcVars, old>>
    BY <1>5 DEF Pictures!gallery_start, Pictures!MayAsk
  <2>2. page' \in Pages /\ page'.displayed = page.displayed /\ page'.top = page.top /\ woken' \in BOOLEAN
    BY <1>1, <2>1
  <2>3. Plan(q)
    BY <1>1, Plans
  <2>4. page.displayed # 0 => page'.top = "viewer" \/ Releases(todo')
    BY <1>2, <2>1, <2>2
  <2> HIDE DEF q
  <2> QED
    BY <2>1, <2>2, <2>3, <2>4, PicturesBegin
<1>6. CASE Pictures!browser_scan
  <2> DEFINE q == <<Pictures!CancelRequest(page.browser)>> \o Pictures!Submit("browser")
             p == [page EXCEPT !.browser = 0, !.waiting = FALSE]
  <2>1. Pictures!UiIdle /\ generation < MaxSerial /\ Pictures!Begin(q, p)
    BY <1>6 DEF Pictures!browser_scan, Pictures!MayAsk
  <2>2. p \in Pages /\ p.displayed = page.displayed /\ p.top = page.top
    BY <1>1
  <2>3. Plan(q)
    BY <1>1, Plans
  <2>4. page.displayed # 0 => p.top = "viewer" \/ Releases(q)
    BY <1>2, <2>1, <2>2
  <2> HIDE DEF q, p
  <2> QED
    BY <1>3, <2>1, <2>2, <2>3, <2>4
<1>7. CASE Pictures!OpenViewer
  <2> DEFINE p == [page EXCEPT !.top = "viewer", !.waiting = FALSE, !.viewer = 0]
  <2>1. /\ Pictures!UiIdle /\ generation < MaxSerial
        /\ \E q \in {<<Pictures!CancelRequest(page.browser)>> \o Pictures!Submit("viewer"),
                     Pictures!Submit("viewer") \o <<Pictures!CancelRequest(page.browser)>>} : Pictures!Begin(q, p)
    BY <1>7 DEF Pictures!OpenViewer, Pictures!MayAsk, Pictures!Turn
  <2>2. PICK q : Pictures!Begin(q, p) /\ Plan(q)
    BY <1>1, <2>1, Plans
  <2>3. p \in Pages /\ p.displayed = page.displayed /\ p.top = "viewer"
    BY <1>1
  <2> HIDE DEF p
  <2> QED
    BY <1>3, <2>1, <2>2, <2>3
<1>8. CASE Pictures!LeaveViewer
  <2> DEFINE p == [page EXCEPT !.top = "browser", !.waiting = FALSE]
  <2>1. /\ Pictures!UiIdle /\ generation < MaxSerial
        /\ \E q \in {<<Pictures!CancelRequest(page.viewer), Pictures!Release>> \o Pictures!Submit("browser"),
                     Pictures!Submit("browser") \o <<Pictures!CancelRequest(page.viewer), Pictures!Release>>} :
             Pictures!Begin(q, p)
    BY <1>8 DEF Pictures!LeaveViewer, Pictures!MayAsk
  <2>2. PICK q : Pictures!Begin(q, p) /\ Plan(q) /\ Releases(q)
    BY <1>1, <2>1, Plans
  <2>3. p \in Pages /\ p.displayed = page.displayed
    BY <1>1
  <2> HIDE DEF p
  <2> QED
    BY <1>3, <2>1, <2>2, <2>3
<1>9. CASE Pictures!LoseStorage
  <2> DEFINE q == <<Pictures!CancelRequest(page.viewer), Pictures!Release>>
             p == [page EXCEPT !.waiting = FALSE]
  <2>1. Pictures!UiIdle /\ generation < MaxSerial /\ page.top = "viewer" /\ Pictures!Begin(q, p)
    BY <1>9 DEF Pictures!LoseStorage, Pictures!MayAsk
  <2>2. p \in Pages /\ p.displayed = page.displayed /\ p.top = "viewer"
    BY <1>1, <2>1
  <2>3. Plan(q)
    BY <1>1, Plans
  <2> HIDE DEF q, p
  <2> QED
    BY <1>3, <2>1, <2>2, <2>3
<1>10. CASE Pictures!CloseBrowser
  <2> DEFINE q == <<Pictures!CancelRequest(page.browser), Pictures!Cancel, Pictures!Stop>>
  <2>1. Pictures!UiIdle /\ generation < MaxSerial /\ page.top = "browser" /\ Pictures!Begin(q, Pictures!NoPage)
    BY <1>10 DEF Pictures!CloseBrowser, Pictures!MayAsk
  <2>2. Pictures!NoPage \in Pages /\ Pictures!NoPage.displayed = 0
    BY <1>1 DEF Pictures!NoPage
  <2>3. page.displayed = 0
    BY <1>2, <2>1
  <2>4. Plan(q)
    BY <1>1, Plans
  <2> HIDE DEF q
  <2> QED
    BY <1>3, <2>1, <2>2, <2>3, <2>4
<1> QED
  BY <1>4, <1>5, <1>6, <1>7, <1>8, <1>9, <1>10

\* A page takes what is published; what it does not show it frees.
LEMMA PicturesPoll ==
  ASSUME PicturesInv, Pictures!Poll
  PROVE  PicturesInv'
<1>1. /\ todo = <<>> /\ old = 0 /\ completed' = 0
      /\ UNCHANGED <<generation, requested, pending, failed_serial, references, service, woken, work, todo>>
  BY DEF Pictures!Poll, Pictures!UiIdle
<1>2. /\ page' \in [top : {"none", "browser", "viewer"}, started : BOOLEAN, waiting : BOOLEAN,
                    browser : Serials, viewer : Serials, displayed : Serials]
      /\ page'.top = page.top
      /\ \/ page'.displayed = page.displayed /\ old' = completed
         \/ page'.displayed = completed /\ old' = page.displayed /\ page.top = "viewer"
  <2>1. page \in [top : {"none", "browser", "viewer"}, started : BOOLEAN, waiting : BOOLEAN,
                  browser : Serials, viewer : Serials, displayed : Serials] /\ completed \in Serials
    BY PicturesFacts DEF PicturesInv, PagesTyped
  <2>2. CASE completed = Pictures!Mine /\ completed # 0
    <3>1. PICK viewed \in IF page.top = "viewer" THEN BOOLEAN ELSE {FALSE} :
            /\ page' = [page EXCEPT !.waiting = FALSE, !.displayed = IF viewed THEN completed ELSE @]
            /\ old' = IF viewed THEN page.displayed ELSE completed
      BY <2>2 DEF Pictures!Poll
    <3> QED
      BY <2>1, <3>1
  <2>3. CASE ~(completed = Pictures!Mine /\ completed # 0)
    <3>1. old' = completed /\ page' = [page EXCEPT !.waiting = ~(Pictures!Mine # 0 /\ failed_serial = Pictures!Mine)]
      BY <2>3 DEF Pictures!Poll
    <3>2. (~(Pictures!Mine # 0 /\ failed_serial = Pictures!Mine)) \in BOOLEAN
      OBVIOUS
    <3> QED
      BY <2>1, <3>1, <3>2
  <2> QED
    BY <2>2, <2>3
<1>3. SerialsPast'
  BY <1>1, <1>2, PicturesFacts DEF PicturesInv, SerialsPast
<1>4. WorkerLives' /\ ViewerShows'
  BY <1>1, <1>2 DEF PicturesInv, WorkerLives, ViewerShows
<1>5. NoneYet'
  BY <1>1, <1>2 DEF PicturesInv, NoneYet, Unseen
<1>6. OnePlace' /\ Pictures!ReferencesAreHolders'
  <2>1. \A s \in Serials \ {0} : Shelved(s)' = Shelved(s) /\ Works(s)' = Works(s)
    BY <1>1, <1>2 DEF Shelved, Works, Pictures!Holds
  <2> QED
    BY <1>1, <2>1, SharesKept
<1>7. PagesTyped'
  <2>1. completed' \in Serials /\ old' \in Serials
    BY <1>1, <1>2, PicturesFacts
  <2> QED
    BY <1>1, <1>2, <2>1 DEF PicturesInv, PagesTyped, Serials, Ends
<1> QED
  BY <1>3, <1>4, <1>5, <1>6, <1>7 DEF PicturesInv

\* The service list and the card.
LEMMA PicturesService ==
  ASSUME PicturesInv, Pictures!app_service_process \/ Pictures!LoseCard
  PROVE  PicturesInv'
<1>1. UNCHANGED <<generation, requested, pending, completed, failed_serial, references, work, todo, old, page>>
  BY DEF Pictures!app_service_process, Pictures!LoseCard, Pictures!svcVars
<1>2. /\ \/ service = "lost" /\ service' = "stopping"
         \/ service = "ended" /\ service' = "off"
         \/ service = "on" /\ service' = "lost"
      /\ woken' \in BOOLEAN
  BY PicturesFacts DEF Pictures!app_service_process, Pictures!LoseCard
<1>3. SerialsPast' /\ ViewerShows'
  BY <1>1 DEF PicturesInv, SerialsPast, ViewerShows
<1>4. WorkerLives'
  BY <1>1, <1>2 DEF PicturesInv, WorkerLives
<1>5. NoneYet'
  BY <1>1 DEF PicturesInv, NoneYet, Unseen
<1>6. OnePlace' /\ Pictures!ReferencesAreHolders'
  BY <1>1, SharesKept DEF Shelved, Works, Pictures!Holds
<1>7. PagesTyped'
  BY <1>1, <1>2 DEF PicturesInv, PagesTyped, Serials, Ends
<1> QED
  BY <1>3, <1>4, <1>5, <1>6, <1>7 DEF PicturesInv

WorkType == [pc : {"none", "loop", "wait", "alloc", "decode", "publish", "displace", "pack", "free",
                   "exit", "exitFree", "return"},
             job : Serials, displaced : Serials, pack : BOOLEAN]

\* The worker waits, wakes, takes a job, or goes on without touching a result.
LEMMA PicturesQuiet ==
  ASSUME PicturesInv,
         UNCHANGED <<generation, requested, completed, references, service, todo, old, page>>,
         pending' \in BOOLEAN, woken' \in BOOLEAN, failed_serial' \in Serials, work' \in WorkType,
         work'.displaced = work.displaced,
         Ends' = Ends, WorkerLives',
         \/ pending' = pending /\ work'.job = work.job
              /\ (work'.pc \in {"alloc", "decode", "publish"} => work.pc \in {"alloc", "decode", "publish"})
         \/ pending /\ pending' = FALSE /\ work'.job = requested,
         \A s \in Serials \ {0} : Works(s)' = Works(s)
  PROVE  PicturesInv'
<1>1. SerialsPast'
  BY PicturesFacts DEF PicturesInv, SerialsPast
<1>2. ViewerShows'
  BY DEF PicturesInv, ViewerShows
<1>3. NoneYet'
  <2>1. CASE pending' = pending /\ work'.job = work.job
              /\ (work'.pc \in {"alloc", "decode", "publish"} => work.pc \in {"alloc", "decode", "publish"})
    BY <2>1 DEF PicturesInv, NoneYet, Unseen
  <2>2. CASE pending /\ pending' = FALSE /\ work'.job = requested
    <3>1. /\ ~(todo # <<>> /\ todo[1].do = "post")
          /\ requested # 0 /\ Unseen(requested)
          /\ \A i \in DOMAIN todo : i > 1 /\ todo[i].do = "post" => todo[i - 1].do = "clear"
      BY <2>2 DEF PicturesInv, NoneYet
    <3> QED
      BY <2>2, <3>1 DEF NoneYet, Unseen
  <2> QED
    BY <2>1, <2>2
<1>4. OnePlace' /\ Pictures!ReferencesAreHolders'
  <2>1. \A s \in Serials \ {0} : Shelved(s)' = Shelved(s)
    BY DEF Shelved, Pictures!Holds
  <2> QED
    BY <2>1, SharesKept
<1>5. PagesTyped'
  BY DEF PicturesInv, PagesTyped, Serials, WorkType
<1> QED
  BY <1>1, <1>2, <1>3, <1>4, <1>5 DEF PicturesInv

\* The worker takes a request or waits for one.
LEMMA PicturesLoop ==
  ASSUME PicturesInv, Pictures!Loop \/ Pictures!Wait
  PROVE  PicturesInv'
<1>1. work \in WorkType /\ WorkerLives /\ requested \in Serials /\ pending \in BOOLEAN /\ woken \in BOOLEAN
      /\ failed_serial \in Serials
  BY DEF PicturesInv, PagesTyped, WorkType
<1>2. CASE Pictures!Loop
  <2>1. /\ work.pc = "loop"
        /\ UNCHANGED <<generation, requested, completed, failed_serial, references, service, woken, todo, old, page>>
    BY <1>2 DEF Pictures!Loop, Pictures!Worker
  <2>2. CASE Pictures!epd_service_cancelled
    <3>1. work' = [work EXCEPT !.pc = "exit"] /\ pending' = pending
      BY <1>2, <2>2 DEF Pictures!Loop, Pictures!Go
    <3>2. work' \in WorkType /\ work'.pc = "exit" /\ work'.job = work.job /\ work'.displaced = work.displaced
      BY <1>1, <3>1 DEF WorkType
    <3>3. WorkerLives'
      BY <1>1, <2>1, <2>2, <3>2 DEF WorkerLives, Pictures!epd_service_cancelled
    <3> QED
      BY <1>1, <2>1, <3>1, <3>2, <3>3, PicturesQuiet DEF Ends, Works
  <2>3. CASE ~Pictures!epd_service_cancelled /\ pending
    <3>1. work' = [work EXCEPT !.pc = "alloc", !.job = requested] /\ pending' = FALSE
      BY <1>2, <2>3 DEF Pictures!Loop
    <3>2. work' \in WorkType /\ work'.pc = "alloc" /\ work'.job = requested /\ work'.displaced = work.displaced
      BY <1>1, <3>1 DEF WorkType
    <3>3. WorkerLives'
      BY <1>1, <2>1, <3>2 DEF WorkerLives
    <3> QED
      BY <1>1, <2>1, <2>3, <3>1, <3>2, <3>3, PicturesQuiet DEF Ends, Works
  <2>4. CASE ~Pictures!epd_service_cancelled /\ ~pending
    <3>1. work' = [work EXCEPT !.pc = "wait"] /\ pending' = pending
      BY <1>2, <2>4 DEF Pictures!Loop, Pictures!Go
    <3>2. work' \in WorkType /\ work'.pc = "wait" /\ work'.job = work.job /\ work'.displaced = work.displaced
      BY <1>1, <3>1 DEF WorkType
    <3>3. WorkerLives'
      BY <1>1, <2>1, <3>2 DEF WorkerLives
    <3> QED
      BY <1>1, <2>1, <3>1, <3>2, <3>3, PicturesQuiet DEF Ends, Works
  <2> QED
    BY <2>2, <2>3, <2>4
<1>3. CASE Pictures!Wait
  <2>1. /\ work.pc = "wait" /\ work' = [work EXCEPT !.pc = "loop"]
        /\ UNCHANGED <<generation, requested, pending, completed, failed_serial, references, service, todo, old,
                       page>>
    BY <1>3 DEF Pictures!Wait, Pictures!Worker, Pictures!Go, Pictures!svcVars
  <2>2. woken' \in BOOLEAN
    BY <1>3, Zenon DEF Pictures!Wait
  <2>3. work' \in WorkType /\ work'.pc = "loop" /\ work'.job = work.job /\ work'.displaced = work.displaced
    BY <1>1, <2>1 DEF WorkType
  <2>4. WorkerLives'
    BY <1>1, <2>1, <2>3 DEF WorkerLives
  <2> QED
    BY <1>1, <2>1, <2>2, <2>3, <2>4, PicturesQuiet DEF Ends, Works
<1> QED
  BY <1>2, <1>3

\* The worker decodes and packs, and holds nothing it could lose.
LEMMA PicturesDecode ==
  ASSUME PicturesInv, Pictures!Decode \/ Pictures!Pack
  PROVE  PicturesInv'
<1>1. work \in WorkType /\ WorkerLives /\ NoneYet /\ pending \in BOOLEAN /\ woken \in BOOLEAN
      /\ failed_serial \in Serials
  BY DEF PicturesInv, PagesTyped, WorkType
<1>2. UNCHANGED <<generation, requested, pending, completed, failed_serial, references, service, woken, todo, old,
                  page>>
  BY DEF Pictures!Decode, Pictures!Pack, Pictures!Worker, Pictures!svcVars
<1>3. CASE Pictures!Decode
  <2>1. PICK ok \in BOOLEAN : work.pc = "decode" /\ work' = [work EXCEPT !.pc = "publish", !.pack = ok]
    BY <1>3 DEF Pictures!Decode, Pictures!Worker
  <2>2. work' \in WorkType /\ work'.pc = "publish" /\ work'.job = work.job /\ work'.displaced = work.displaced
    BY <1>1, <2>1 DEF WorkType
  <2>3. WorkerLives'
    BY <1>1, <1>2, <2>1, <2>2 DEF WorkerLives
  <2>4. \A s \in Serials \ {0} : Works(s)' = Works(s)
    BY <2>1, <2>2 DEF Works, Pictures!Holds
  <2>5. Ends' = Ends
    BY <2>1, <2>2 DEF Ends
  <2> QED
    BY <1>1, <1>2, <2>1, <2>2, <2>3, <2>4, <2>5, PicturesQuiet
<1>4. CASE Pictures!Pack
  <2>1. work.pc = "pack" /\ work' = [work EXCEPT !.pc = "free", !.pack = FALSE]
    BY <1>4 DEF Pictures!Pack, Pictures!Worker
  <2>2. work' \in WorkType /\ work'.pc = "free" /\ work'.job = work.job /\ work'.displaced = work.displaced
    BY <1>1, <2>1 DEF WorkType
  <2>3. WorkerLives'
    BY <1>1, <1>2, <2>1, <2>2 DEF WorkerLives
  <2>4. \A s \in Serials \ {0} : Works(s)' = Works(s)
    BY <2>1, <2>2 DEF Works, Pictures!Holds
  <2>5. Ends' = Ends
    BY <2>1, <2>2 DEF Ends
  <2> QED
    BY <1>1, <1>2, <2>1, <2>2, <2>3, <2>4, <2>5, PicturesQuiet
<1> QED
  BY <1>3, <1>4

\* The job gets its result, with the worker's count.
LEMMA PicturesAllocate ==
  ASSUME PicturesInv, Pictures!Allocate
  PROVE  PicturesInv'
<1>1. work \in WorkType /\ WorkerLives /\ NoneYet /\ pending \in BOOLEAN /\ woken \in BOOLEAN
      /\ failed_serial \in Serials
  BY DEF PicturesInv, PagesTyped, WorkType
<1>2. /\ work.pc = "alloc"
      /\ UNCHANGED <<generation, requested, pending, completed, service, woken, todo, old, page>>
  BY DEF Pictures!Allocate, Pictures!Worker
<1>3. CASE references' = [references EXCEPT ![work.job] = 1] /\ work' = [work EXCEPT !.pc = "decode"]
           /\ UNCHANGED failed_serial
  <2>1. work' \in WorkType /\ work'.pc = "decode" /\ work'.job = work.job /\ work'.displaced = work.displaced
    BY <1>1, <1>3 DEF WorkType
  <2>2. work.job # 0 /\ work.job \in Serials /\ Unseen(work.job)
    BY <1>1, <1>2 DEF NoneYet, WorkType
  <2>3. SerialsPast' /\ ViewerShows' /\ WorkerLives'
    BY <1>1, <1>2, <1>3, <2>1 DEF PicturesInv, SerialsPast, ViewerShows, WorkerLives
  <2>4. NoneYet'
    BY <1>1, <1>2, <1>3, <2>1 DEF NoneYet, Unseen
  <2>5. \A s \in Serials \ {0} : /\ Shelved(s)' = Shelved(s)
                                 /\ Works(s) = 0 /\ Works(s)' = Pictures!Holds(work.job, s)
    BY <1>2, <2>1 DEF Shelved, Works, Pictures!Holds
  <2>6. OnePlace'
    BY <2>5 DEF PicturesInv, OnePlace, Serials, Pictures!Serials
  <2>7. references' \in [Serials -> Int] /\ references'[0] = 0
        /\ \A s \in Serials : references'[s] = IF s = work.job THEN 1 ELSE references[s]
    BY <1>3, <2>2, PicturesFacts
  <2>8. \A s \in Serials \ {0} : references'[s] = Shelved(s)' + Works(s)'
    <3> SUFFICES ASSUME NEW s \in Serials \ {0} PROVE references'[s] = Shelved(s)' + Works(s)'
      OBVIOUS
    <3>1. references[s] = Shelved(s) + Works(s) /\ Shelved(s) \in Nat
      BY CountsAreSums, SharesTyped DEF PicturesInv
    <3>2. s = work.job => Shelved(s) = 0
      BY <2>2 DEF Unseen, Shelved, Pictures!Holds
    <3> QED
      BY <2>5, <2>7, <3>1, <3>2 DEF Pictures!Holds
  <2>9. Pictures!ReferencesAreHolders'
    BY <2>8 DEF Pictures!ReferencesAreHolders, Serials, Shelved, Works, Pictures!Serials, Pictures!Holds
  <2>10. Ends' = Ends
    BY <1>2, <2>1 DEF Ends
  <2>11. PagesTyped'
    BY <1>2, <1>3, <2>1, <2>7, <2>10 DEF PicturesInv, PagesTyped, Serials, WorkType
  <2> QED
    BY <2>3, <2>4, <2>6, <2>9, <2>11 DEF PicturesInv
<1>4. CASE failed_serial' = work.job /\ work' = [work EXCEPT !.pc = "loop"] /\ UNCHANGED references
  <2>1. work' \in WorkType /\ work'.pc = "loop" /\ work'.job = work.job /\ work'.displaced = work.displaced
        /\ failed_serial' \in Serials
    BY <1>1, <1>4 DEF WorkType
  <2>2. WorkerLives'
    BY <1>1, <1>2, <2>1 DEF WorkerLives
  <2> QED
    BY <1>1, <1>2, <1>4, <2>1, <2>2, PicturesQuiet DEF Ends, Works
<1> QED
  BY <1>3, <1>4 DEF Pictures!Allocate, Pictures!Go

\* The result is put up for the page, which counts too; what was there comes down.
LEMMA PicturesPublish ==
  ASSUME PicturesInv, Pictures!Publish
  PROVE  PicturesInv'
<1>1. work \in WorkType /\ WorkerLives /\ NoneYet /\ pending \in BOOLEAN /\ woken \in BOOLEAN
      /\ failed_serial \in Serials
  BY DEF PicturesInv, PagesTyped, WorkType
<1>2. /\ work.pc = "publish" /\ work.displaced = 0
      /\ UNCHANGED <<generation, requested, pending, failed_serial, service, woken, todo, old, page>>
  BY <1>1 DEF Pictures!Publish, Pictures!Worker, WorkerLives
<1>3. work.job # 0 /\ work.job \in Serials /\ Unseen(work.job)
  BY <1>1, <1>2 DEF NoneYet, WorkType
<1>4. CASE work.job = generation /\ ~Pictures!epd_service_cancelled
  <2>1. /\ references' = [references EXCEPT ![work.job] = @ + 1]
        /\ completed' = work.job
        /\ work' = [work EXCEPT !.pc = "displace", !.displaced = completed]
    BY <1>4 DEF Pictures!Publish
  <2>2. work' \in WorkType /\ work'.pc = "displace" /\ work'.job = work.job /\ work'.displaced = completed
    BY <1>1, <2>1, PicturesFacts DEF WorkType
  <2>3. SerialsPast' /\ ViewerShows'
    BY <1>2, <2>1, <2>2 DEF PicturesInv, SerialsPast, ViewerShows
  <2>4. WorkerLives'
    BY <1>1, <1>2, <1>3, <2>2 DEF WorkerLives, Unseen
  <2>5. NoneYet'
    <3>1. ~(todo # <<>> /\ todo[1].do = "post")
      BY <1>1, <1>4 DEF NoneYet
    <3> QED
      BY <1>1, <1>2, <2>1, <2>2, <3>1 DEF NoneYet, Unseen
  <2>6. \A s \in Serials \ {0} : /\ Shelved(s)' = Shelved(s) + Pictures!Holds(work.job, s)
                                 /\ Works(s)' = Works(s)
    <3> SUFFICES ASSUME NEW s \in Serials \ {0}
                 PROVE  Shelved(s)' = Shelved(s) + Pictures!Holds(work.job, s) /\ Works(s)' = Works(s)
      OBVIOUS
    <3>1. Works(s)' = Works(s)
      BY <1>2, <2>2 DEF Works, Pictures!Holds
    <3>2. Shelved(s)' = Pictures!Holds(work.job, s) + Pictures!Holds(old, s) + Pictures!Holds(page.displayed, s)
                          + Pictures!Holds(completed, s)
      BY <1>2, <2>1, <2>2 DEF Shelved, Pictures!Holds
    <3>3. Pictures!Holds(work.displaced, s) = 0
      BY <1>2 DEF Pictures!Holds
    <3> QED
      BY <3>1, <3>2, <3>3 DEF Shelved, Pictures!Holds
  <2>7. OnePlace'
    <3> SUFFICES ASSUME NEW s \in Serials \ {0} PROVE Shelved(s)' <= 1
      BY DEF OnePlace, Serials, Pictures!Serials
    <3>1. Shelved(s) <= 1 /\ Shelved(s) \in Nat
      BY SharesTyped DEF PicturesInv, OnePlace
    <3>2. s = work.job => Shelved(s) = 0
      BY <1>3 DEF Unseen, Shelved, Pictures!Holds
    <3> QED
      BY <2>6, <3>1, <3>2 DEF Pictures!Holds
  <2>8. references' \in [Serials -> Int] /\ references'[0] = 0
        /\ \A s \in Serials : references'[s] = references[s] + Pictures!Holds(work.job, s)
    <3>1. references \in [Serials -> Int] /\ references[0] = 0 /\ 0 \in Serials
      BY PicturesFacts
    <3>2. references' = [references EXCEPT ![work.job] = references[work.job] + 1]
      BY <2>1
    <3> QED
      BY <1>3, <3>1, <3>2 DEF Pictures!Holds
  <2>9. \A s \in Serials \ {0} : references'[s] = Shelved(s)' + Works(s)'
    <3> SUFFICES ASSUME NEW s \in Serials \ {0} PROVE references'[s] = Shelved(s)' + Works(s)'
      OBVIOUS
    <3>1. references[s] = Shelved(s) + Works(s) /\ Shelved(s) \in Nat /\ Works(s) \in Nat
      BY CountsAreSums, SharesTyped DEF PicturesInv
    <3> QED
      BY <2>6, <2>8, <3>1 DEF Pictures!Holds
  <2>10. Pictures!ReferencesAreHolders'
    BY <2>9 DEF Pictures!ReferencesAreHolders, Serials, Shelved, Works, Pictures!Serials, Pictures!Holds
  <2>11. Ends' = Ends
    BY <1>2, <2>2 DEF Ends
  <2>12. PagesTyped'
    BY <1>2, <1>3, <2>1, <2>2, <2>8, <2>11 DEF PicturesInv, PagesTyped, Serials, WorkType
  <2> QED
    BY <2>3, <2>4, <2>5, <2>7, <2>10, <2>12 DEF PicturesInv
<1>5. CASE ~(work.job = generation /\ ~Pictures!epd_service_cancelled)
  <2>1. work' = [work EXCEPT !.pc = "displace", !.pack = FALSE] /\ UNCHANGED <<references, completed>>
    BY <1>5 DEF Pictures!Publish
  <2>2. work' \in WorkType /\ work'.pc = "displace" /\ work'.job = work.job /\ work'.displaced = work.displaced
    BY <1>1, <2>1 DEF WorkType
  <2>3. WorkerLives'
    BY <1>1, <1>2, <1>3, <2>2 DEF WorkerLives
  <2>4. \A s \in Serials \ {0} : Works(s)' = Works(s)
    BY <1>2, <2>2 DEF Works, Pictures!Holds
  <2>5. Ends' = Ends
    BY <1>2, <2>2 DEF Ends
  <2> QED
    BY <1>1, <1>2, <2>1, <2>2, <2>3, <2>4, <2>5, PicturesQuiet
<1> QED
  BY <1>4, <1>5

\* The worker lets go of a result: of the one it displaced, or of its job.
LEMMA PicturesLetGo ==
  ASSUME PicturesInv, NEW r \in Serials, references' = Pictures!Released(r), work' \in WorkType,
         UNCHANGED <<generation, requested, pending, completed, failed_serial, service, woken, todo, old, page>>,
         work'.displaced \in {0, work.displaced}, work'.job \in {0, work.job},
         work'.pc \notin {"alloc", "decode", "publish"}, WorkerLives', Ends' <= Ends,
         \A s \in Serials \ {0} : Shelved(s)' + Works(s)' = Shelved(s) + Works(s) - Pictures!Holds(r, s),
         \A s \in Serials \ {0} : Shelved(s)' <= Shelved(s)
  PROVE  PicturesInv'
<1>1. SerialsPast' /\ ViewerShows'
  <2>1. 0 <= generation
    BY PicturesFacts
  <2> QED
    BY <2>1 DEF PicturesInv, SerialsPast, ViewerShows
<1>2. NoneYet'
  BY DEF PicturesInv, NoneYet, Unseen
<1>3. OnePlace'
  <2> SUFFICES ASSUME NEW s \in Serials \ {0} PROVE Shelved(s)' <= 1
    BY DEF OnePlace, Serials, Pictures!Serials
  <2>1. Shelved(s) \in Nat /\ Shelved(s)' \in Nat /\ Shelved(s) <= 1 /\ Shelved(s)' <= Shelved(s)
    BY SharesTyped DEF PicturesInv, OnePlace, Shelved, Pictures!Holds
  <2> QED
    BY <2>1
<1>4. references' \in [Serials -> Int] /\ references'[0] = 0
      /\ \A s \in Serials \ {0} : references'[s] = references[s] - Pictures!Holds(r, s)
  BY ReleaseCounts
<1>5. \A s \in Serials \ {0} : references'[s] = Shelved(s)' + Works(s)'
  <2> SUFFICES ASSUME NEW s \in Serials \ {0} PROVE references'[s] = Shelved(s)' + Works(s)'
    OBVIOUS
  <2>1. references[s] = Shelved(s) + Works(s)
    BY CountsAreSums DEF PicturesInv
  <2>2. Shelved(s)' + Works(s)' = Shelved(s) + Works(s) - Pictures!Holds(r, s)
    OBVIOUS
  <2>3. references'[s] = references[s] - Pictures!Holds(r, s)
    BY <1>4
  <2>4. Shelved(s) \in 0..4 /\ Works(s) \in 0..1 /\ Pictures!Holds(r, s) \in 0..1
        /\ Shelved(s)' \in 0..4 /\ Works(s)' \in 0..1
    BY DEF Shelved, Works, Pictures!Holds
  <2> QED
    BY <2>1, <2>2, <2>3, <2>4
<1>6. Pictures!ReferencesAreHolders'
  BY <1>5 DEF Pictures!ReferencesAreHolders, Serials, Shelved, Works, Pictures!Serials, Pictures!Holds
<1>7. generation' + Renewals(todo') + Ends' <= MaxSerial + 3
  <2>1. generation + Renewals(todo) + Ends <= MaxSerial + 3
    BY DEF PicturesInv, PagesTyped
  <2>2. Ends \in 0..1 /\ Ends' \in 0..1 /\ Renewals(todo) \in 0..4 /\ generation \in Nat /\ MaxSerial \in Nat
    BY PicturesFacts DEF Ends
  <2> QED
    BY <2>1, <2>2
<1>8. PagesTyped'
  BY <1>4, <1>7 DEF PicturesInv, PagesTyped, Serials, WorkType
<1> QED
  BY <1>1, <1>2, <1>3, <1>6, <1>8 DEF PicturesInv

\* The worker gives up what it holds.
LEMMA PicturesFree ==
  ASSUME PicturesInv, Pictures!Displace \/ Pictures!Free \/ Pictures!ExitFree
  PROVE  PicturesInv'
<1>1. work \in WorkType /\ WorkerLives
  BY DEF PicturesInv, PagesTyped, WorkType
<1>2. UNCHANGED <<generation, requested, pending, completed, failed_serial, service, woken, todo, old, page>>
  BY DEF Pictures!Displace, Pictures!Free, Pictures!ExitFree, Pictures!Worker
<1>3. work.job \in Serials /\ work.displaced \in Serials /\ 0 \in Serials
  BY PicturesFacts
<1>4. CASE Pictures!Displace
  <2>1. /\ work.pc = "displace" /\ references' = Pictures!Released(work.displaced)
        /\ work' = [work EXCEPT !.pc = IF work.pack THEN "pack" ELSE "free", !.displaced = 0]
    BY <1>4 DEF Pictures!Displace, Pictures!Worker
  <2>2. work' \in WorkType /\ work'.pc \in {"pack", "free"} /\ work'.job = work.job /\ work'.displaced = 0
    BY <1>1, <1>3, <2>1 DEF WorkType
  <2>3. WorkerLives'
    BY <1>1, <1>2, <2>1, <2>2 DEF WorkerLives
  <2>4. \A s \in Serials \ {0} : /\ Works(s)' = Works(s)
                                 /\ Shelved(s)' = Shelved(s) - Pictures!Holds(work.displaced, s)
    BY <1>2, <2>1, <2>2 DEF Works, Shelved, Pictures!Holds
  <2>5. \A s \in Serials \ {0} :
          /\ Shelved(s)' + Works(s)' = Shelved(s) + Works(s) - Pictures!Holds(work.displaced, s)
          /\ Shelved(s)' <= Shelved(s)
    BY <2>4, SharesTyped DEF Pictures!Holds
  <2>6. Ends' <= Ends
    BY <2>1, <2>2 DEF Ends
  <2> QED
    BY <1>2, <1>3, <2>1, <2>2, <2>3, <2>5, <2>6, PicturesLetGo
<1>5. CASE Pictures!Free
  <2>1. /\ work.pc = "free" /\ references' = Pictures!Released(work.job)
        /\ work' = [work EXCEPT !.pc = "loop", !.job = 0]
    BY <1>5 DEF Pictures!Free, Pictures!Worker
  <2>2. work' \in WorkType /\ work'.pc = "loop" /\ work'.job = 0 /\ work'.displaced = work.displaced
    BY <1>1, <1>3, <2>1 DEF WorkType
  <2>3. WorkerLives'
    BY <1>1, <1>2, <2>1, <2>2 DEF WorkerLives
  <2>4. \A s \in Serials \ {0} : /\ Works(s)' = Works(s) - Pictures!Holds(work.job, s)
                                 /\ Shelved(s)' = Shelved(s)
    BY <1>2, <2>1, <2>2 DEF Works, Shelved, Pictures!Holds
  <2>5. \A s \in Serials \ {0} :
          /\ Shelved(s)' + Works(s)' = Shelved(s) + Works(s) - Pictures!Holds(work.job, s)
          /\ Shelved(s)' <= Shelved(s)
    BY <2>4, SharesTyped DEF Pictures!Holds
  <2>6. Ends' <= Ends
    BY <2>1, <2>2 DEF Ends
  <2> QED
    BY <1>2, <1>3, <2>1, <2>2, <2>3, <2>5, <2>6, PicturesLetGo
<1>6. CASE Pictures!ExitFree
  <2>1. /\ work.pc = "exitFree" /\ references' = Pictures!Released(work.displaced)
        /\ work' = [work EXCEPT !.pc = "return", !.displaced = 0]
    BY <1>6 DEF Pictures!ExitFree, Pictures!Worker
  <2>2. work' \in WorkType /\ work'.pc = "return" /\ work'.job = work.job /\ work'.displaced = 0
    BY <1>1, <1>3, <2>1 DEF WorkType
  <2>3. WorkerLives'
    BY <1>1, <1>2, <2>1, <2>2 DEF WorkerLives
  <2>4. \A s \in Serials \ {0} : /\ Works(s)' = Works(s)
                                 /\ Shelved(s)' = Shelved(s) - Pictures!Holds(work.displaced, s)
    BY <1>2, <2>1, <2>2 DEF Works, Shelved, Pictures!Holds
  <2>5. \A s \in Serials \ {0} :
          /\ Shelved(s)' + Works(s)' = Shelved(s) + Works(s) - Pictures!Holds(work.displaced, s)
          /\ Shelved(s)' <= Shelved(s)
    BY <2>4, SharesTyped DEF Pictures!Holds
  <2>6. Ends' <= Ends
    BY <2>1, <2>2 DEF Ends
  <2> QED
    BY <1>2, <1>3, <2>1, <2>2, <2>3, <2>5, <2>6, PicturesLetGo
<1> QED
  BY <1>4, <1>5, <1>6

\* The run ends: what was published comes down, and its generation with it.
LEMMA PicturesExit ==
  ASSUME PicturesInv, Pictures!Exit
  PROVE  PicturesInv'
<1>1. work \in WorkType /\ WorkerLives
  BY DEF PicturesInv, PagesTyped, WorkType
<1>2. /\ work.pc = "exit" /\ work.displaced = 0
      /\ generation' = generation + 1 /\ pending' = FALSE /\ completed' = 0
      /\ work' = [work EXCEPT !.pc = "exitFree", !.displaced = completed]
      /\ UNCHANGED <<requested, failed_serial, references, service, woken, todo, old, page>>
  BY <1>1 DEF Pictures!Exit, Pictures!Worker, Pictures!Cancelled, WorkerLives
<1>3. work' \in WorkType /\ work'.pc = "exitFree" /\ work'.job = work.job /\ work'.displaced = completed
  BY <1>1, <1>2, PicturesFacts DEF WorkType
<1>4. /\ generation \in Nat /\ requested \in Nat /\ completed \in Nat /\ old \in Nat
      /\ work.job \in Nat /\ work.displaced \in Nat /\ page.displayed \in Nat /\ SerialsPast
  BY PicturesFacts DEF PicturesInv
<1>5. SerialsPast'
  BY <1>2, <1>3, <1>4 DEF SerialsPast
<1>6. ViewerShows' /\ WorkerLives'
  BY <1>1, <1>2, <1>3 DEF PicturesInv, ViewerShows, WorkerLives
<1>7. NoneYet'
  <2>1. generation' # 0 /\ generation' # work'.job
        /\ generation' \notin {completed', old', page.displayed', work'.displaced}
    BY <1>2, <1>3, <1>4 DEF SerialsPast
  <2>2. \A i \in DOMAIN todo : i > 1 /\ todo[i].do = "post" => todo[i - 1].do = "clear"
    BY DEF PicturesInv, NoneYet
  <2> QED
    BY <1>2, <1>3, <2>1, <2>2 DEF NoneYet, Unseen
<1>8. OnePlace' /\ Pictures!ReferencesAreHolders'
  <2>1. \A s \in Serials \ {0} : Shelved(s)' = Shelved(s) /\ Works(s)' = Works(s)
    BY <1>2, <1>3 DEF Shelved, Works, Pictures!Holds
  <2> QED
    BY <1>2, <2>1, SharesKept
<1>9. generation' \in Serials /\ generation' + Renewals(todo') + Ends' <= MaxSerial + 3
  <2>1. generation + Renewals(todo) + 1 <= MaxSerial + 3 /\ Ends' = 0
    BY <1>2, <1>3 DEF PicturesInv, PagesTyped, Ends
  <2>2. Renewals(todo) \in 0..4 /\ MaxSerial \in Nat /\ Serials = 0..(MaxSerial + 3)
    BY PicturesFacts
  <2>3. generation + 1 \in Serials
    BY <1>4, <2>1, <2>2
  <2> QED
    BY <1>2, <1>4, <2>1, <2>2, <2>3
<1>10. PagesTyped'
  BY <1>2, <1>3, <1>9, PicturesFacts DEF PicturesInv, PagesTyped, Serials, WorkType
<1> QED
  BY <1>5, <1>6, <1>7, <1>8, <1>10 DEF PicturesInv

\* The worker ends with nothing in hand.
LEMMA PicturesReturn ==
  ASSUME PicturesInv, Pictures!Return
  PROVE  PicturesInv'
<1>1. work \in WorkType /\ WorkerLives
  BY DEF PicturesInv, PagesTyped, WorkType
<1>2. /\ work.pc = "return" /\ service' = "ended" /\ work' = [work EXCEPT !.pc = "none"]
      /\ UNCHANGED <<generation, requested, pending, completed, failed_serial, references, woken, todo, old, page>>
  BY DEF Pictures!Return, Pictures!Worker, Pictures!Go, Pictures!svcVars
<1>3. work' \in WorkType /\ work'.pc = "none" /\ work'.job = work.job /\ work'.displaced = work.displaced
  BY <1>1, <1>2 DEF WorkType
<1>4. SerialsPast' /\ ViewerShows' /\ WorkerLives'
  BY <1>1, <1>2, <1>3 DEF PicturesInv, SerialsPast, ViewerShows, WorkerLives
<1>5. NoneYet'
  BY <1>2, <1>3 DEF PicturesInv, NoneYet, Unseen
<1>6. OnePlace' /\ Pictures!ReferencesAreHolders'
  <2>1. \A s \in Serials \ {0} : Shelved(s)' = Shelved(s) /\ Works(s)' = Works(s)
    BY <1>2, <1>3 DEF Shelved, Works, Pictures!Holds
  <2> QED
    BY <1>2, <2>1, SharesKept
<1>7. Ends' = Ends
  BY <1>2, <1>3 DEF Ends
<1>8. PagesTyped'
  BY <1>2, <1>3, <1>7 DEF PicturesInv, PagesTyped, Serials, WorkType
<1> QED
  BY <1>4, <1>5, <1>6, <1>8 DEF PicturesInv

\* Every result is counted once for each who holds it, whatever the pages, the worker, the
\* card and the service list do, for any number of requests (ReferencesAreHolders of
\* Gallery): no result is freed under the worker that packs its pixels or the page that
\* shows them.
THEOREM PicturesAreCounted == PartsSpec => []ReferencesAreHolders
<1>1. PartsInit => PicturesInv
  <2> SUFFICES ASSUME Pictures!Init PROVE PicturesInv
    BY DEF PartsInit
  <2>1. MaxSerial \in Nat /\ 0 \in Serials /\ Serials \subseteq Int
    BY PartsAssumption DEF PartsAssumption, Serials, Pictures!Serials
  <2>2. references \in [Serials -> Int] /\ references[0] = 0 /\ \A s \in Serials : references[s] = 0
    BY <2>1 DEF Pictures!Init, Serials
  <2>3. page \in [top : {"none", "browser", "viewer"}, started : BOOLEAN, waiting : BOOLEAN,
                  browser : Serials, viewer : Serials, displayed : Serials] /\ page.displayed = 0
    BY <2>1 DEF Pictures!Init, Pictures!NoPage
  <2>4. work \in WorkType /\ work.pc = "none" /\ work.job = 0 /\ work.displaced = 0
    BY <2>1 DEF Pictures!Init, WorkType
  <2>5. todo = <<>> /\ Renewals(<<>>) = 0 /\ Ends = 0
    BY <2>4 DEF Pictures!Init, Renewals, Renews, Ends
  <2>6. PagesTyped
    BY <2>1, <2>2, <2>3, <2>4, <2>5 DEF Pictures!Init, PagesTyped, WorkType
  <2>7. SerialsPast /\ WorkerLives /\ ViewerShows /\ NoneYet
    BY <2>3, <2>4, <2>5 DEF Pictures!Init, SerialsPast, WorkerLives, ViewerShows, NoneYet
  <2>8. \A s \in Serials \ {0} : Shelved(s) = 0 /\ Works(s) = 0
    BY <2>3, <2>4 DEF Pictures!Init, Shelved, Works, Pictures!Holds
  <2>9. OnePlace /\ Pictures!ReferencesAreHolders
    BY <2>2, <2>8, CountsAreSums DEF OnePlace
  <2> QED
    BY <2>6, <2>7, <2>9 DEF PicturesInv
<1>2. PicturesInv /\ [PartsNext]_allVars => PicturesInv'
  <2> SUFFICES ASSUME PicturesInv, [PartsNext]_allVars PROVE PicturesInv'
    OBVIOUS
  <2>1. Pictures!Next \/ UNCHANGED picturesVars
    BY DEF PartsNext, allVars
  <2>2. CASE Pictures!Next
    BY <2>2, PicturesUi, PicturesPages, PicturesPoll, PicturesService, PicturesLoop, PicturesDecode,
       PicturesAllocate, PicturesPublish, PicturesFree, PicturesExit, PicturesReturn
    DEF Pictures!Next, Pictures!run
  <2>3. CASE UNCHANGED picturesVars
    BY <2>3 DEF picturesVars, PicturesInv, PagesTyped, SerialsPast, WorkerLives, ViewerShows, NoneYet, Unseen,
         OnePlace, Shelved, Pictures!ReferencesAreHolders, Pictures!Holds, Serials, Ends
  <2> QED
    BY <2>1, <2>2, <2>3
<1>3. PicturesInv => ReferencesAreHolders
  BY PicturesAreTyped
<1> QED
  BY <1>1, <1>2, <1>3, PTL DEF PartsSpec

----------------------------------------------------------------------------
(* The weather. *)

Tasks ==
  [pc : {"off", "recv", "look", "decide", "sleep", "nap", "network", "fetch", "lookup", "record", "cache",
         "config", "publish", "finish", "end"},
   request : Sky!Request \cup {Sky!Automatic}, config : Sky!Config, info : Sky!Info, ok : BOOLEAN]

FlagsTyped ==
  /\ sync_pending \in BOOLEAN /\ retry_wait \in BOOLEAN /\ online \in BOOLEAN /\ due \in BOOLEAN
  /\ retryOver \in BOOLEAN /\ awake \in BOOLEAN /\ owed \in BOOLEAN /\ fresh \in BOOLEAN
EventsTyped ==
  /\ net_generation \in Nat /\ periods \in Nat /\ net_generation <= MaxEvents
  /\ seen \in [generation : 0..MaxEvents, ready : BOOLEAN]
RequestsTyped ==
  /\ next_ticket \in 0..MaxTicket
  /\ result \in [ticket : 0..MaxTicket, busy : BOOLEAN, success : BOOLEAN]
  /\ requests \in Seq(Sky!Request) /\ Len(requests) <= 2
  /\ lifecycle \in {"off", "on", "stopping", "ended"}
ModelTyped ==
  /\ config_bin \in Sky!Config \cup {Sky!NoFile} /\ saved_config \in Sky!Config \cup {Sky!NoFile}
  /\ config \in Sky!Config /\ info \in Sky!Info
  /\ current_bin \in [of : Sky!Config, info : Sky!Info]
  /\ cities \subseteq Cities
  /\ task \in Tasks

\* What the worker writes and publishes is of one city, and what it publishes it has
\* written before; what it last wrote or read it knows.  A city looked up or recorded is one
\* that was asked for.
OneCity ==
  /\ lifecycle = "off" => task.pc = "off"
  /\ task.pc = "lookup" => task.request \in Sky!Request
  /\ task.pc = "record" => task.config.city \in Cities
  /\ lifecycle # "off" =>
    /\ info.city = config.city
    /\ saved_config \in {config_bin, Sky!NoFile}
    /\ task.pc \in {"cache", "config", "publish"} => task.info.city = task.config.city
    /\ IF task.pc = "publish" THEN config_bin = task.config
       ELSE config_bin = config \/ (saved_config = Sky!NoFile /\ config = Sky!NoConfig)

SkyInv == FlagsTyped /\ EventsTyped /\ RequestsTyped /\ ModelTyped /\ OneCity

\* The flags of the worker, the clock and the network.
LEMMA SkyFlags ==
  ASSUME FlagsTyped, task.ok \in BOOLEAN, Sky!Next
  PROVE  FlagsTyped'
<1> USE DEF Sky!files, Sky!model, Sky!locals, Sky!network, Sky!clock, Sky!history, Sky!Worker, Sky!Go, Sky!Finish,
            Sky!Fault, Sky!UnchangedModel, Sky!Forget, Sky!Get
<1>1. ASSUME Sky!Start PROVE FlagsTyped'
  BY <1>1 DEF FlagsTyped, Sky!Start, Sky!Load
<1>2. ASSUME Sky!Unload PROVE FlagsTyped'
  BY <1>2 DEF FlagsTyped, Sky!Unload
<1>3. ASSUME Sky!PowerFails PROVE FlagsTyped'
  BY <1>3 DEF FlagsTyped, Sky!PowerFails
<1>4. ASSUME Sky!Stop PROVE FlagsTyped'
  BY <1>4 DEF FlagsTyped, Sky!Stop
<1>5. ASSUME Sky!NetworkChanges PROVE FlagsTyped'
  BY <1>5 DEF FlagsTyped, Sky!NetworkChanges
<1>6. ASSUME Sky!PeriodEnds PROVE FlagsTyped'
  BY <1>6 DEF FlagsTyped, Sky!PeriodEnds
<1>7. ASSUME Sky!RetryEnds PROVE FlagsTyped'
  BY <1>7 DEF FlagsTyped, Sky!RetryEnds
<1>8. ASSUME Sky!Receive PROVE FlagsTyped'
  BY <1>8 DEF FlagsTyped, Sky!Receive
<1>9. ASSUME Sky!Look PROVE FlagsTyped'
  BY <1>9 DEF FlagsTyped, Sky!Look
<1>10. ASSUME Sky!WaitNetwork PROVE FlagsTyped'
  BY <1>10 DEF FlagsTyped, Sky!WaitNetwork
<1>11. ASSUME Sky!LookupCity PROVE FlagsTyped'
  BY <1>11 DEF FlagsTyped, Sky!LookupCity
<1>12. ASSUME Sky!Fetch PROVE FlagsTyped'
  BY <1>12 DEF FlagsTyped, Sky!Fetch
<1>13. ASSUME Sky!RecordCity PROVE FlagsTyped'
  BY <1>13 DEF FlagsTyped, Sky!RecordCity
<1>14. ASSUME Sky!SaveCache PROVE FlagsTyped'
  BY <1>14 DEF FlagsTyped, Sky!SaveCache
<1>15. ASSUME Sky!SaveConfig PROVE FlagsTyped'
  BY <1>15 DEF FlagsTyped, Sky!SaveConfig
<1>16. ASSUME Sky!Publish PROVE FlagsTyped'
  BY <1>16 DEF FlagsTyped, Sky!Publish
<1>17. ASSUME Sky!FinishWork PROVE FlagsTyped'
  <2> DEFINE sync == task.request.job \in {"sync", "none"}
             period == due /\ task.request # Sky!Automatic
  <2>1. /\ sync_pending' = IF sync THEN ~task.ok ELSE sync_pending \/ task.ok \/ period
        /\ retry_wait' = IF sync THEN ~task.ok ELSE retry_wait /\ ~task.ok
        /\ retryOver' = IF sync THEN task.ok ELSE retryOver
        /\ due' = (due /\ ~period)
    BY <1>17 DEF Sky!FinishWork
  <2>2. (~task.ok) \in BOOLEAN /\ (sync_pending \/ task.ok \/ period) \in BOOLEAN
        /\ (retry_wait /\ ~task.ok) \in BOOLEAN /\ (due /\ ~period) \in BOOLEAN
    OBVIOUS
  <2> HIDE DEF sync, period
  <2>3. sync_pending' \in BOOLEAN /\ retry_wait' \in BOOLEAN /\ retryOver' \in BOOLEAN /\ due' \in BOOLEAN
    BY <2>1, <2>2 DEF FlagsTyped
  <2>4. fresh' \in BOOLEAN /\ UNCHANGED <<owed, awake, online>>
    BY <1>17 DEF Sky!FinishWork
  <2> QED
    BY <2>3, <2>4 DEF FlagsTyped
<1>18. ASSUME Sky!Decide PROVE FlagsTyped'
  BY <1>18 DEF FlagsTyped, Sky!Decide
<1>19. ASSUME Sky!Wake PROVE FlagsTyped'
  BY <1>19 DEF FlagsTyped, Sky!Wake
<1>20. ASSUME Sky!End PROVE FlagsTyped'
  BY <1>20 DEF FlagsTyped, Sky!End
<1>21. ASSUME NEW job \in Sky!Job, NEW city \in Cities, Sky!weather_request_job(job, city) PROVE FlagsTyped'
  BY <1>21 DEF FlagsTyped, Sky!weather_request_job
<1> QED
  BY <1>1, <1>2, <1>3, <1>4, <1>5, <1>6, <1>7, <1>8, <1>9, <1>10, <1>11, <1>12, <1>13, <1>14, <1>15, <1>16,
     <1>17, <1>18, <1>19, <1>20, <1>21
  DEF Sky!Next, Sky!worker_entry

\* The clock, the network's generations and what the worker has seen of them.
LEMMA SkyEvents ==
  ASSUME EventsTyped, FlagsTyped, Sky!Next
  PROVE  EventsTyped'
<1> USE DEF Sky!files, Sky!model, Sky!locals, Sky!network, Sky!clock, Sky!history, Sky!Worker, Sky!Go, Sky!Finish,
            Sky!Fault, Sky!UnchangedModel, Sky!Forget, Sky!Get
<1>1. 0 \in 0..MaxEvents /\ MaxEvents \in Nat
  BY PartsAssumption DEF PartsAssumption
<1>2. CASE Sky!Start \/ Sky!Unload \/ Sky!PowerFails
  <2>1. seen' = [generation |-> 0, ready |-> FALSE] /\ UNCHANGED <<net_generation, periods>>
    BY <1>2 DEF Sky!Start, Sky!Load, Sky!Unload, Sky!PowerFails
  <2> QED
    BY <1>1, <2>1 DEF EventsTyped
<1>3. CASE Sky!NetworkChanges
  BY <1>1, <1>3 DEF EventsTyped, Sky!NetworkChanges
<1>4. CASE Sky!PeriodEnds
  BY <1>1, <1>4 DEF EventsTyped, Sky!PeriodEnds
<1>5. CASE Sky!Look
  <2>1. /\ seen' = [generation |-> net_generation, ready |-> online]
        /\ UNCHANGED <<net_generation, periods>>
    BY <1>5 DEF Sky!Look
  <2> QED
    BY <1>1, <2>1 DEF EventsTyped, FlagsTyped
<1>6. CASE Sky!Stop \/ Sky!RetryEnds \/ \E job \in Sky!Job, city \in Cities : Sky!weather_request_job(job, city)
  BY <1>6 DEF EventsTyped, Sky!Stop, Sky!RetryEnds, Sky!weather_request_job
<1>7. CASE \/ Sky!Receive \/ Sky!WaitNetwork \/ Sky!LookupCity \/ Sky!Fetch \/ Sky!RecordCity \/ Sky!SaveCache
           \/ Sky!SaveConfig \/ Sky!Publish \/ Sky!FinishWork \/ Sky!Decide \/ Sky!Wake \/ Sky!End
  <2>1. UNCHANGED <<net_generation, periods, seen>>
    BY <1>7 DEF Sky!Receive, Sky!WaitNetwork, Sky!LookupCity, Sky!Fetch, Sky!RecordCity, Sky!SaveCache,
         Sky!SaveConfig, Sky!Publish, Sky!FinishWork, Sky!Decide, Sky!Wake, Sky!End
  <2> QED
    BY <2>1 DEF EventsTyped
<1> QED
  BY <1>2, <1>3, <1>4, <1>5, <1>6, <1>7 DEF Sky!Next, Sky!worker_entry

\* The requests and their answers.
LEMMA SkyRequests ==
  ASSUME RequestsTyped, task \in Tasks, Sky!Next
  PROVE  RequestsTyped'
<1> USE DEF Sky!files, Sky!model, Sky!locals, Sky!network, Sky!clock, Sky!history, Sky!Worker, Sky!Go, Sky!Finish,
            Sky!Fault, Sky!UnchangedModel, Sky!Get
<1>1. MaxTicket \in Nat /\ 0 \in 0..MaxTicket
  BY PartsAssumption DEF PartsAssumption
<1>2. CASE Sky!Unload \/ Sky!PowerFails
  <2>1. result' = Sky!Answer /\ requests' = <<>> /\ lifecycle' = "off" /\ UNCHANGED next_ticket
    BY <1>2 DEF Sky!Unload, Sky!PowerFails, Sky!Forget
  <2>2. <<>> \in Seq(Sky!Request) /\ Len(<<>>) = 0
    OBVIOUS
  <2> QED
    BY <1>1, <2>1, <2>2 DEF RequestsTyped, Sky!Answer
<1>3. ASSUME NEW job \in Sky!Job, NEW city \in Cities, Sky!weather_request_job(job, city)
      PROVE  RequestsTyped'
  <2> DEFINE r == [job |-> job, ticket |-> next_ticket + 1, city |-> city]
  <2>1. /\ Len(requests) < 2 /\ next_ticket < MaxTicket /\ next_ticket' = next_ticket + 1
        /\ result' = [ticket |-> next_ticket + 1, busy |-> TRUE, success |-> FALSE]
        /\ requests' = Append(requests, r) /\ UNCHANGED lifecycle
    BY <1>3 DEF Sky!weather_request_job
  <2>2. next_ticket + 1 \in 1..MaxTicket /\ next_ticket + 1 \in 0..MaxTicket
    BY <1>1, <2>1 DEF RequestsTyped
  <2>3. r \in Sky!Request
    BY <2>2 DEF Sky!Request
  <2> HIDE DEF r
  <2>4. requests' \in Seq(Sky!Request) /\ Len(requests') <= 2
    BY <2>1, <2>3 DEF RequestsTyped
  <2> QED
    BY <2>1, <2>2, <2>4 DEF RequestsTyped
<1>4. CASE Sky!Receive
  <2>1. /\ UNCHANGED <<next_ticket, result, lifecycle>>
        /\ requests' = requests \/ (requests # <<>> /\ requests' = Tail(requests))
    BY <1>4 DEF Sky!Receive
  <2>2. requests' \in Seq(Sky!Request) /\ Len(requests') <= 2
    BY <2>1 DEF RequestsTyped
  <2> QED
    BY <2>1, <2>2 DEF RequestsTyped
<1>5. CASE Sky!FinishWork \/ Sky!End
  <2>1. /\ UNCHANGED <<next_ticket, requests>>
        /\ \E ok \in BOOLEAN : result' \in {result, [result EXCEPT !.busy = FALSE, !.success = ok]}
        /\ lifecycle' \in {lifecycle, "ended"}
    BY <1>5 DEF Sky!FinishWork, Sky!End, Tasks
  <2> QED
    BY <2>1 DEF RequestsTyped
<1>6. CASE Sky!Start \/ Sky!Stop \/ Sky!NetworkChanges \/ Sky!PeriodEnds \/ Sky!RetryEnds
  BY <1>6 DEF RequestsTyped, Sky!Start, Sky!Stop, Sky!NetworkChanges, Sky!PeriodEnds, Sky!RetryEnds
<1>7. CASE \/ Sky!Look \/ Sky!WaitNetwork \/ Sky!LookupCity \/ Sky!Fetch \/ Sky!RecordCity \/ Sky!SaveCache
           \/ Sky!SaveConfig \/ Sky!Publish \/ Sky!Decide \/ Sky!Wake
  <2>1. UNCHANGED <<next_ticket, requests, result, lifecycle>>
    BY <1>7 DEF Sky!Look, Sky!WaitNetwork, Sky!LookupCity, Sky!Fetch, Sky!RecordCity, Sky!SaveCache,
         Sky!SaveConfig, Sky!Publish, Sky!Decide, Sky!Wake
  <2> QED
    BY <2>1 DEF RequestsTyped
<1> QED
  BY <1>2, <1>3, <1>4, <1>5, <1>6, <1>7 DEF Sky!Next, Sky!worker_entry

\* Nothing but the worker's place and work has changed, and it is not publishing.
LEMMA SkyMoves ==
  ASSUME ModelTyped, OneCity, task.pc # "publish", task'.pc # "publish", task' \in Tasks,
         UNCHANGED <<config_bin, saved_config, config, info>>,
         current_bin' \in [of : Sky!Config, info : Sky!Info], cities' \subseteq Cities,
         task'.pc \in {"cache", "config"} => task'.info.city = task'.config.city,
         task'.pc = "lookup" => task'.request \in Sky!Request,
         task'.pc = "record" => task'.config.city \in Cities,
         lifecycle' # "off", lifecycle # "off"
  PROVE  ModelTyped' /\ OneCity'
<1>1. ModelTyped'
  BY DEF ModelTyped
<1>2. OneCity'
  BY DEF OneCity
<1> QED
  BY <1>1, <1>2

\* The worker goes elsewhere with the work it has.
LEMMA TaskGoes ==
  ASSUME NEW t \in Tasks,
         NEW p \in {"recv", "look", "decide", "sleep", "nap", "network", "fetch", "lookup", "record", "cache",
                    "config", "publish", "finish", "end"}
  PROVE  /\ [t EXCEPT !.pc = p] \in Tasks /\ [t EXCEPT !.pc = p].pc = p
         /\ [t EXCEPT !.pc = p].info = t.info /\ [t EXCEPT !.pc = p].config = t.config
BY DEF Tasks

\* A request is taken up.
LEMMA TaskReceives ==
  ASSUME NEW t \in Tasks, NEW r \in Sky!Request
  PROVE  [t EXCEPT !.pc = "look", !.request = r] \in Tasks /\ [t EXCEPT !.pc = "look", !.request = r].pc = "look"
BY DEF Tasks

\* Work is finished, done or given up.
LEMMA TaskEnds ==
  ASSUME NEW t \in Tasks, NEW ok \in BOOLEAN
  PROVE  [t EXCEPT !.pc = "finish", !.ok = ok] \in Tasks /\ [t EXCEPT !.pc = "finish", !.ok = ok].pc = "finish"
BY DEF Tasks

\* The worker takes up work with a configuration and a weather.
LEMMA TaskTakes ==
  ASSUME NEW t \in Tasks, NEW p \in {"network", "fetch", "record", "cache"}, NEW c \in Sky!Config, NEW i \in Sky!Info
  PROVE  /\ [t EXCEPT !.pc = p, !.config = c, !.info = i] \in Tasks
         /\ [t EXCEPT !.pc = p, !.config = c, !.info = i].pc = p
         /\ [t EXCEPT !.pc = p, !.config = c, !.info = i].config = c
         /\ [t EXCEPT !.pc = p, !.config = c, !.info = i].info = i
BY DEF Tasks

\* A worker that does nothing, and a configuration and a weather that say nothing.
LEMMA IdleTyped ==
  /\ Sky!Idle \in Tasks /\ Sky!Idle.pc = "off"
  /\ Sky!NoConfig \in Sky!Config /\ Sky!NoConfig.city = None
  /\ \A city \in Cities \cup {None} : /\ Sky!empty_info(city) \in Sky!Info
                                      /\ Sky!empty_info(city).city = city
<1>1. 0 \in 0..MaxKey
  BY PartsAssumption DEF PartsAssumption
<1>2. Sky!NoConfig \in Sky!Config /\ Sky!NoConfig.city = None
  BY <1>1 DEF Sky!NoConfig, Sky!Config
<1>3. \A city \in Cities \cup {None} : /\ Sky!empty_info(city) \in Sky!Info
                                       /\ Sky!empty_info(city).city = city
  BY DEF Sky!empty_info, Sky!Info
<1>4. Sky!empty_info(None) \in Sky!Info
  BY <1>3
<1>5. Sky!Idle \in Tasks /\ Sky!Idle.pc = "off"
  BY <1>2, <1>4 DEF Sky!Idle, Tasks
<1> QED
  BY <1>2, <1>3, <1>5

\* What others do while the worker works leaves files, model and work alone.
LEMMA SkyOutside ==
  ASSUME SkyInv,
         \/ Sky!Stop \/ Sky!NetworkChanges \/ Sky!PeriodEnds \/ Sky!RetryEnds
         \/ \E job \in Sky!Job, city \in Cities : Sky!weather_request_job(job, city)
  PROVE  ModelTyped' /\ OneCity'
<1>1. UNCHANGED <<config_bin, current_bin, cities, config, info, saved_config, task>>
  BY DEF Sky!Stop, Sky!NetworkChanges, Sky!PeriodEnds, Sky!RetryEnds, Sky!weather_request_job, Sky!files,
         Sky!model
<1>2. lifecycle' = "off" <=> lifecycle = "off"
  BY DEF Sky!Stop, Sky!NetworkChanges, Sky!PeriodEnds, Sky!RetryEnds, Sky!weather_request_job
<1>3. ModelTyped'
  BY <1>1 DEF SkyInv, ModelTyped
<1>4. OneCity'
  BY <1>1, <1>2 DEF SkyInv, OneCity
<1> QED
  BY <1>3, <1>4

\* What is loaded fits the configuration, whatever the two files hold and whichever can be read.
LEMMA SkyLoad ==
  ASSUME SkyInv, Sky!Load
  PROVE  /\ config' \in Sky!Config /\ info' \in Sky!Info /\ info'.city = config'.city
         /\ saved_config' \in Sky!Config \cup {Sky!NoFile} /\ saved_config' \in {config_bin, Sky!NoFile}
         /\ config_bin = config' \/ (saved_config' = Sky!NoFile /\ config' = Sky!NoConfig)
<1> DEFINE read == IF config_bin = Sky!NoFile THEN Sky!NoConfig ELSE config_bin
<1>1. /\ config_bin \in Sky!Config \cup {Sky!NoFile} /\ current_bin \in [of : Sky!Config, info : Sky!Info]
  BY DEF SkyInv, ModelTyped
<1>2. read \in Sky!Config /\ read.city \in Cities \cup {None}
  BY <1>1, IdleTyped DEF Sky!Config
<1>3. Sky!Loaded \in Sky!Info /\ Sky!Loaded.city = read.city
  <2>1. CASE config_bin # Sky!NoFile /\ Sky!weather_config_valid(config_bin) /\ current_bin.of = config_bin
             /\ current_bin.info.city = config_bin.city
    BY <1>1, <2>1 DEF Sky!Loaded
  <2>2. CASE ~(config_bin # Sky!NoFile /\ Sky!weather_config_valid(config_bin) /\ current_bin.of = config_bin
               /\ current_bin.info.city = config_bin.city)
    <3>1. Sky!Loaded = Sky!empty_info(IF config_bin = Sky!NoFile THEN None ELSE config_bin.city)
      BY <2>2 DEF Sky!Loaded
    <3>2. (IF config_bin = Sky!NoFile THEN None ELSE config_bin.city) = read.city
      BY IdleTyped
    <3> QED
      BY <1>2, <3>1, <3>2, IdleTyped
  <2> QED
    BY <2>1, <2>2
<1>4. config_bin = read \/ (config_bin = Sky!NoFile /\ read = Sky!NoConfig)
  OBVIOUS
<1>5. CASE config' = read /\ saved_config' = config_bin /\ info' \in {Sky!Loaded, Sky!empty_info(read.city)}
  <2>1. info' \in Sky!Info /\ info'.city = read.city
    BY <1>2, <1>3, <1>5, IdleTyped
  <2> HIDE DEF read
  <2> QED
    BY <1>1, <1>2, <1>4, <1>5, <2>1
<1>6. CASE config' = Sky!NoConfig /\ saved_config' = Sky!NoFile /\ info' = Sky!empty_info(None)
  BY <1>6, IdleTyped
<1> QED
  BY <1>5, <1>6 DEF Sky!Load

LEMMA SkyStart ==
  ASSUME SkyInv, Sky!Start
  PROVE  ModelTyped' /\ OneCity'
<1>1. /\ lifecycle' = "on" /\ task' = [Sky!Idle EXCEPT !.pc = "recv"] /\ Sky!Load
      /\ UNCHANGED <<config_bin, current_bin, cities>>
  BY DEF Sky!Start, Sky!files
<1>2. /\ config_bin \in Sky!Config \cup {Sky!NoFile} /\ current_bin \in [of : Sky!Config, info : Sky!Info]
      /\ cities \subseteq Cities
  BY DEF SkyInv, ModelTyped
<1>3. task' \in Tasks /\ task'.pc = "recv"
  <2>1. [Sky!Idle EXCEPT !.pc = "recv"] \in Tasks /\ [Sky!Idle EXCEPT !.pc = "recv"].pc = "recv"
    BY IdleTyped, TaskGoes
  <2> QED
    BY <1>1, <2>1
<1>4. ModelTyped'
  BY <1>1, <1>2, <1>3, SkyLoad DEF ModelTyped
<1>5. OneCity'
  BY <1>1, <1>3, SkyLoad DEF OneCity
<1> QED
  BY <1>4, <1>5

\* Unloaded or without power, the module is as it was before its start.
LEMMA SkyForget ==
  ASSUME SkyInv, Sky!Unload \/ Sky!PowerFails
  PROVE  ModelTyped' /\ OneCity'
<1>1. /\ config' = Sky!NoConfig /\ info' = Sky!empty_info(None) /\ saved_config' = Sky!NoFile
      /\ lifecycle' = "off" /\ task' = Sky!Idle
      /\ UNCHANGED <<config_bin, current_bin, cities>>
  BY DEF Sky!Unload, Sky!PowerFails, Sky!Forget, Sky!files
<1>2. ModelTyped'
  BY <1>1, IdleTyped DEF SkyInv, ModelTyped
<1>3. OneCity'
  BY <1>1, IdleTyped DEF OneCity
<1> QED
  BY <1>2, <1>3

\* The turns of the worker that only move it.
LEMMA SkyTurns ==
  ASSUME SkyInv,
         Sky!Receive \/ Sky!WaitNetwork \/ Sky!FinishWork \/ Sky!Wake
  PROVE  ModelTyped' /\ OneCity'
<1>1. /\ ModelTyped /\ OneCity /\ task \in Tasks /\ current_bin \in [of : Sky!Config, info : Sky!Info]
      /\ cities \subseteq Cities /\ requests \in Seq(Sky!Request)
  BY DEF SkyInv, ModelTyped, RequestsTyped
<1>2. /\ UNCHANGED <<config_bin, saved_config, config, info, current_bin, cities, lifecycle>>
      /\ task.pc \in {"recv", "network", "finish", "sleep", "nap"}
  BY DEF Sky!Receive, Sky!WaitNetwork, Sky!FinishWork, Sky!Wake, Sky!Worker, Sky!UnchangedModel, Sky!files,
         Sky!model
<1>3. lifecycle # "off"
  BY <1>1, <1>2 DEF OneCity
<1>4. /\ task' \in Tasks /\ task'.pc \in {"end", "look", "finish", "lookup", "fetch", "recv", "network"}
      /\ task'.pc = "lookup" => task'.request \in Sky!Request
  <2>1. CASE Sky!Receive
    <3>1. \/ task' = [task EXCEPT !.pc = "end"]
          \/ task' = [Sky!Idle EXCEPT !.pc = "look"]
          \/ requests # <<>> /\ task' = [Sky!Idle EXCEPT !.pc = "look", !.request = Head(requests)]
      BY <2>1 DEF Sky!Receive, Sky!Go
    <3>2. requests # <<>> => Head(requests) \in Sky!Request
      BY <1>1
    <3>3. [Sky!Idle EXCEPT !.pc = "look"] \in Tasks /\ [Sky!Idle EXCEPT !.pc = "look"].pc = "look"
      BY IdleTyped, TaskGoes
    <3>4. CASE task' = [task EXCEPT !.pc = "end"]
      BY <1>1, <3>4, TaskGoes
    <3>5. CASE requests # <<>> /\ task' = [Sky!Idle EXCEPT !.pc = "look", !.request = Head(requests)]
      <4> DEFINE r == Head(requests)
      <4>1. r \in Sky!Request
        BY <3>2, <3>5
      <4> HIDE DEF r
      <4>2. /\ [Sky!Idle EXCEPT !.pc = "look", !.request = r] \in Tasks
            /\ [Sky!Idle EXCEPT !.pc = "look", !.request = r].pc = "look"
        BY <4>1, IdleTyped, TaskReceives
      <4> QED
        BY <3>5, <4>2 DEF r
    <3> QED
      BY <3>1, <3>3, <3>4, <3>5
  <2>2. CASE Sky!WaitNetwork
    <3>1. \/ task.request.job = "city" /\ task' = [task EXCEPT !.pc = "lookup"]
          \/ task' = [task EXCEPT !.pc = "fetch"]
          \/ task' = [task EXCEPT !.pc = "finish", !.ok = FALSE]
          \/ task' = task
      BY <2>2 DEF Sky!WaitNetwork, Sky!Go, Sky!Finish
    <3>2. task.pc = "network"
      BY <2>2 DEF Sky!WaitNetwork, Sky!Worker
    <3>3. CASE task' = task
      BY <1>1, <3>2, <3>3
    <3>4. CASE task.request.job = "city" /\ task' = [task EXCEPT !.pc = "lookup"]
      <4>1. task.request \in Sky!Request
        BY <1>1, <3>4 DEF Tasks, Sky!Automatic
      <4>2. task'.request = task.request /\ task' \in Tasks /\ task'.pc = "lookup"
        BY <1>1, <3>4 DEF Tasks
      <4> QED
        BY <4>1, <4>2
    <3>6. CASE task' = [task EXCEPT !.pc = "fetch"]
      BY <1>1, <3>6, TaskGoes
    <3>5. CASE task' = [task EXCEPT !.pc = "finish", !.ok = FALSE]
      BY <1>1, <3>5, TaskEnds
    <3> QED
      BY <3>1, <3>3, <3>4, <3>5, <3>6
  <2>3. CASE Sky!FinishWork \/ Sky!Wake
    <3>1. task' = [task EXCEPT !.pc = "recv"]
      BY <2>3 DEF Sky!FinishWork, Sky!Wake, Sky!Go
    <3> QED
      BY <1>1, <3>1, TaskGoes
  <2> QED
    BY <2>1, <2>2, <2>3
<1> QED
  BY <1>1, <1>2, <1>3, <1>4, SkyMoves

\* The work of a request has the configuration and the weather of the module, but for
\* the city chosen or the credentials imported.
LEMMA SkyLook ==
  ASSUME SkyInv, Sky!Look
  PROVE  ModelTyped' /\ OneCity'
<1> DEFINE start == [task EXCEPT !.config = config, !.info = info]
<1>1. /\ ModelTyped /\ OneCity /\ task \in Tasks /\ config \in Sky!Config /\ info \in Sky!Info
      /\ current_bin \in [of : Sky!Config, info : Sky!Info] /\ cities \subseteq Cities
  BY DEF SkyInv, ModelTyped
<1>2. /\ UNCHANGED <<config_bin, saved_config, config, info, current_bin, cities, lifecycle>>
      /\ task.pc = "look" /\ task' \in Sky!Begun
  BY DEF Sky!Look, Sky!Worker, Sky!UnchangedModel, Sky!files, Sky!model
<1>3. lifecycle # "off" /\ info.city = config.city
  BY <1>1, <1>2 DEF OneCity
<1>4. start \in Tasks /\ start.config = config /\ start.info = info
  BY <1>1 DEF Tasks
<1>5. task.request.job \in Sky!Job \cup {"none"}
  BY <1>1 DEF Tasks, Sky!Request, Sky!Automatic
<1> HIDE DEF start
<1>6. \/ task' = [start EXCEPT !.pc = "network"]
      \/ task' = [start EXCEPT !.pc = "finish", !.ok = FALSE]
      \/ \E key \in 1..MaxKey : task' = [start EXCEPT !.pc = "cache", !.config.key = key]
      \/ task.request.city \in cities /\ task' = [start EXCEPT !.pc = "record", !.config.city = task.request.city]
      \/ task' = [task EXCEPT !.pc = "decide"]
  <2>1. CASE task.request.job = "sync"
    BY <1>2, <2>1 DEF Sky!Begun, start
  <2>2. CASE task.request.job = "import"
    BY <1>2, <2>2 DEF Sky!Begun, start
  <2>3. CASE task.request.job = "history"
    BY <1>2, <2>3 DEF Sky!Begun, start
  <2>4. CASE task.request.job = "city"
    BY <1>2, <2>4 DEF Sky!Begun, start
  <2>5. CASE task.request.job = "none"
    BY <1>2, <2>5 DEF Sky!Begun
  <2> QED
    BY <1>5, <2>1, <2>2, <2>3, <2>4, <2>5 DEF Sky!Job
<1>7. /\ task' \in Tasks /\ task'.pc \in {"network", "finish", "cache", "record", "decide"}
      /\ task'.pc = "cache" => task'.info.city = task'.config.city
      /\ task'.pc = "record" => task'.config.city \in Cities
  <2>1. CASE task' = [start EXCEPT !.pc = "network"]
    BY <1>4, <2>1, TaskGoes
  <2>2. CASE task' = [start EXCEPT !.pc = "finish", !.ok = FALSE]
    BY <1>4, <2>2, TaskEnds
  <2>3. ASSUME NEW key \in 1..MaxKey, task' = [start EXCEPT !.pc = "cache", !.config.key = key]
        PROVE  task' \in Tasks /\ task'.pc = "cache" /\ task'.info.city = task'.config.city
    <3> DEFINE chosen == [config EXCEPT !.key = key]
    <3>1. key \in 0..MaxKey
      BY PartsAssumption DEF PartsAssumption
    <3>2. chosen \in Sky!Config /\ chosen.city = config.city
      BY <1>1, <3>1 DEF Sky!Config
    <3>3. task' = [start EXCEPT !.pc = "cache", !.config = chosen]
      BY <1>4, <2>3 DEF Tasks
    <3> HIDE DEF chosen
    <3>4. task' \in Tasks /\ task'.pc = "cache" /\ task'.info = info /\ task'.config = chosen
      BY <1>4, <3>2, <3>3 DEF Tasks
    <3> QED
      BY <1>3, <3>2, <3>4
  <2>4. CASE /\ task.request.city \in cities
             /\ task' = [start EXCEPT !.pc = "record", !.config.city = task.request.city]
    <3> DEFINE chosen == [config EXCEPT !.city = task.request.city]
    <3>1. chosen \in Sky!Config /\ chosen.city \in Cities
      BY <1>1, <2>4 DEF Sky!Config
    <3>2. task' = [start EXCEPT !.pc = "record", !.config = chosen]
      BY <1>4, <2>4 DEF Tasks
    <3> HIDE DEF chosen
    <3>3. task' \in Tasks /\ task'.pc = "record" /\ task'.config = chosen
      BY <1>4, <3>1, <3>2 DEF Tasks
    <3> QED
      BY <3>1, <3>3
  <2>5. CASE task' = [task EXCEPT !.pc = "decide"]
    BY <1>1, <2>5, TaskGoes
  <2> QED
    BY <1>6, <2>1, <2>2, <2>3, <2>4, <2>5
<1> QED
  BY <1>1, <1>2, <1>3, <1>7, SkyMoves

\* An automatic fetch takes the configuration and the weather of the module.
LEMMA SkyDecide ==
  ASSUME SkyInv, Sky!Decide
  PROVE  ModelTyped' /\ OneCity'
<1>1. /\ ModelTyped /\ OneCity /\ task \in Tasks /\ config \in Sky!Config /\ info \in Sky!Info
      /\ current_bin \in [of : Sky!Config, info : Sky!Info] /\ cities \subseteq Cities
  BY DEF SkyInv, ModelTyped
<1>2. /\ UNCHANGED <<config_bin, saved_config, config, info, current_bin, cities, lifecycle>>
      /\ task.pc = "decide"
  BY DEF Sky!Decide, Sky!Worker, Sky!UnchangedModel, Sky!files, Sky!model
<1>3. lifecycle # "off"
  BY <1>1, <1>2 DEF OneCity
<1>4. \/ task' = [task EXCEPT !.pc = "sleep"]
      \/ task' = [task EXCEPT !.pc = "nap"]
      \/ task' = [task EXCEPT !.pc = "network", !.config = config, !.info = info]
  BY DEF Sky!Decide
<1>5. task' \in Tasks /\ task'.pc \in {"sleep", "nap", "network"}
  <2>1. CASE task' = [task EXCEPT !.pc = "sleep"]
    BY <1>1, <2>1, TaskGoes
  <2>2. CASE task' = [task EXCEPT !.pc = "nap"]
    BY <1>1, <2>2, TaskGoes
  <2>3. CASE task' = [task EXCEPT !.pc = "network", !.config = config, !.info = info]
    <3>1. /\ [task EXCEPT !.pc = "network", !.config = config, !.info = info] \in Tasks
          /\ [task EXCEPT !.pc = "network", !.config = config, !.info = info].pc = "network"
      BY <1>1, TaskTakes
    <3> QED
      BY <2>3, <3>1
  <2> QED
    BY <1>4, <2>1, <2>2, <2>3
<1> QED
  BY <1>1, <1>2, <1>3, <1>5, SkyMoves

\* A city found, and the weather fetched, are those of the configuration in hand.
LEMMA SkyGet ==
  ASSUME SkyInv, Sky!LookupCity \/ Sky!Fetch
  PROVE  ModelTyped' /\ OneCity'
<1>1. /\ ModelTyped /\ OneCity /\ task \in Tasks /\ task.config \in Sky!Config
      /\ current_bin \in [of : Sky!Config, info : Sky!Info] /\ cities \subseteq Cities
  BY DEF SkyInv, ModelTyped, Tasks
<1>2. /\ UNCHANGED <<config_bin, saved_config, config, info, current_bin, cities, lifecycle>>
      /\ task.pc \in {"lookup", "fetch"}
  BY DEF Sky!LookupCity, Sky!Fetch, Sky!Get, Sky!Worker, Sky!UnchangedModel, Sky!files, Sky!model
<1>3. lifecycle # "off"
  BY <1>1, <1>2 DEF OneCity
<1>4. task.pc = "lookup" => task.request.city \in Cities
  BY <1>1 DEF OneCity, Sky!Request
<1>5. \/ task.pc = "lookup" /\ task' = [task EXCEPT !.pc = "record", !.config.city = task.request.city]
      \/ task' = [task EXCEPT !.pc = "cache", !.info = [city |-> task.config.city, valid |-> TRUE]]
      \/ task' = [task EXCEPT !.pc = "finish", !.ok = FALSE]
  BY DEF Sky!LookupCity, Sky!Fetch, Sky!Get, Sky!Finish, Sky!Worker
<1>6. /\ task' \in Tasks /\ task'.pc \in {"record", "cache", "finish"}
      /\ task'.pc = "cache" => task'.info.city = task'.config.city
      /\ task'.pc = "record" => task'.config.city \in Cities
  <2>1. CASE task.pc = "lookup" /\ task' = [task EXCEPT !.pc = "record", !.config.city = task.request.city]
    <3> DEFINE chosen == [task.config EXCEPT !.city = task.request.city]
    <3>1. chosen \in Sky!Config /\ chosen.city \in Cities
      BY <1>1, <1>4, <2>1 DEF Sky!Config
    <3>2. task' = [task EXCEPT !.pc = "record", !.config = chosen]
      BY <1>1, <2>1 DEF Tasks
    <3> HIDE DEF chosen
    <3>3. task' \in Tasks /\ task'.pc = "record" /\ task'.config = chosen
      BY <1>1, <3>1, <3>2 DEF Tasks
    <3> QED
      BY <3>1, <3>3
  <2>2. CASE task' = [task EXCEPT !.pc = "cache", !.info = [city |-> task.config.city, valid |-> TRUE]]
    <3> DEFINE fetched == [city |-> task.config.city, valid |-> TRUE]
    <3>1. fetched \in Sky!Info /\ fetched.city = task.config.city
      BY <1>1 DEF Sky!Info, Sky!Config
    <3>2. task' = [task EXCEPT !.pc = "cache", !.info = fetched]
      BY <2>2
    <3> HIDE DEF fetched
    <3>3. task' \in Tasks /\ task'.pc = "cache" /\ task'.info = fetched /\ task'.config = task.config
      BY <1>1, <3>1, <3>2 DEF Tasks
    <3> QED
      BY <3>1, <3>3
  <2>3. CASE task' = [task EXCEPT !.pc = "finish", !.ok = FALSE]
    BY <1>1, <2>3, TaskEnds
  <2> QED
    BY <1>5, <2>1, <2>2, <2>3
<1> QED
  BY <1>1, <1>2, <1>3, <1>6, SkyMoves

\* The chosen city enters the list with its own weather or with none.
LEMMA SkyRecord ==
  ASSUME SkyInv, Sky!RecordCity
  PROVE  ModelTyped' /\ OneCity'
<1> DEFINE kept == IF task.info.city = task.config.city THEN task.info ELSE Sky!empty_info(task.config.city)
<1>1. /\ ModelTyped /\ OneCity /\ task \in Tasks /\ task.config \in Sky!Config /\ task.info \in Sky!Info
      /\ current_bin \in [of : Sky!Config, info : Sky!Info] /\ cities \subseteq Cities
  BY DEF SkyInv, ModelTyped, Tasks
<1>2. /\ UNCHANGED <<config_bin, saved_config, config, info, current_bin, lifecycle>>
      /\ task.pc = "record"
  BY DEF Sky!RecordCity, Sky!Worker, Sky!model
<1>3. lifecycle # "off"
  BY <1>1, <1>2 DEF OneCity
<1>4. task.config.city \in Cities
  BY <1>1, <1>2 DEF OneCity
<1>5. kept \in Sky!Info /\ kept.city = task.config.city
  BY <1>1, <1>4, IdleTyped
<1>6. \/ cities' = cities \cup {task.config.city} /\ task' = [task EXCEPT !.pc = "cache", !.info = kept]
      \/ cities' = cities /\ task' = [task EXCEPT !.pc = "finish", !.ok = FALSE]
  BY <1>1 DEF Sky!RecordCity, Sky!Finish, Tasks
<1> HIDE DEF kept
<1>7. /\ task' \in Tasks /\ task'.pc \in {"cache", "finish"} /\ cities' \subseteq Cities
      /\ task'.pc = "cache" => task'.info.city = task'.config.city
  <2>1. CASE cities' = cities \cup {task.config.city} /\ task' = [task EXCEPT !.pc = "cache", !.info = kept]
    <3>1. task' \in Tasks /\ task'.pc = "cache" /\ task'.info = kept /\ task'.config = task.config
      BY <1>1, <1>5, <2>1 DEF Tasks
    <3> QED
      BY <1>1, <1>4, <1>5, <2>1, <3>1
  <2>2. CASE cities' = cities /\ task' = [task EXCEPT !.pc = "finish", !.ok = FALSE]
    BY <1>1, <2>2, TaskEnds
  <2> QED
    BY <1>6, <2>1, <2>2
<1> QED
  BY <1>1, <1>2, <1>3, <1>7, SkyMoves

\* The weather is written with the configuration in hand; what is on the way to the
\* configuration's file stays as it is.
LEMMA SkyCache ==
  ASSUME SkyInv, Sky!SaveCache
  PROVE  ModelTyped' /\ OneCity'
<1>1. /\ ModelTyped /\ OneCity /\ task \in Tasks /\ task.config \in Sky!Config /\ task.info \in Sky!Info
      /\ current_bin \in [of : Sky!Config, info : Sky!Info] /\ cities \subseteq Cities
  BY DEF SkyInv, ModelTyped, Tasks
<1>2. /\ UNCHANGED <<config_bin, saved_config, config, info, cities, lifecycle>>
      /\ task.pc = "cache"
  BY DEF Sky!SaveCache, Sky!Worker, Sky!model
<1>3. lifecycle # "off" /\ task.info.city = task.config.city
  BY <1>1, <1>2 DEF OneCity
<1>4. /\ current_bin' = current_bin \/ current_bin' = [of |-> task.config, info |-> task.info]
      /\ task' = [task EXCEPT !.pc = "config"] \/ task' = [task EXCEPT !.pc = "finish", !.ok = FALSE]
  BY DEF Sky!SaveCache, Sky!Go, Sky!Finish
<1>5. current_bin' \in [of : Sky!Config, info : Sky!Info]
  BY <1>1, <1>4
<1>6. /\ task' \in Tasks /\ task'.pc \in {"config", "finish"}
      /\ task'.pc = "config" => task'.info.city = task'.config.city
  <2>1. CASE task' = [task EXCEPT !.pc = "config"]
    BY <1>1, <1>3, <2>1, TaskGoes
  <2>2. CASE task' = [task EXCEPT !.pc = "finish", !.ok = FALSE]
    BY <1>1, <2>2, TaskEnds
  <2> QED
    BY <1>4, <2>1, <2>2
<1> QED
  BY <1>1, <1>2, <1>3, <1>5, <1>6, SkyMoves

LEMMA NoFileIsNone == Sky!NoFile \notin Sky!Config
<1> SUFFICES ASSUME Sky!NoFile \in Sky!Config PROVE FALSE
  OBVIOUS
<1>1. Sky!NoFile.city \in Cities \cup {None}
  BY DEF Sky!Config
<1>2. Sky!NoFile.city = "noFile"
  BY DEF Sky!NoFile
<1> QED
  BY <1>1, <1>2, PartsAssumption DEF PartsAssumption

\* The configuration is written, unless it is the one written last.
LEMMA SkySave ==
  ASSUME SkyInv, Sky!SaveConfig
  PROVE  ModelTyped' /\ OneCity'
<1>1. /\ ModelTyped /\ OneCity /\ task \in Tasks /\ task.config \in Sky!Config
      /\ current_bin \in [of : Sky!Config, info : Sky!Info] /\ cities \subseteq Cities
  BY DEF SkyInv, ModelTyped, Tasks
<1>2. UNCHANGED <<config, info, current_bin, cities, lifecycle>> /\ task.pc = "config"
  BY DEF Sky!SaveConfig, Sky!Worker
<1>3. /\ lifecycle # "off" /\ task.info.city = task.config.city /\ saved_config \in {config_bin, Sky!NoFile}
      /\ info.city = config.city /\ task.config # Sky!NoFile
  BY <1>1, <1>2, NoFileIsNone DEF OneCity
<1>4. \/ /\ task' = [task EXCEPT !.pc = "publish"] /\ config_bin' = task.config /\ saved_config' = task.config
      \/ task' = [task EXCEPT !.pc = "finish", !.ok = FALSE] /\ UNCHANGED <<config_bin, saved_config>>
  BY <1>3 DEF Sky!SaveConfig, Sky!Go, Sky!Finish
<1>5. CASE /\ task' = [task EXCEPT !.pc = "publish"] /\ config_bin' = task.config /\ saved_config' = task.config
  <2>1. /\ task' \in Tasks /\ task'.pc = "publish" /\ task'.info = task.info /\ task'.config = task.config
    BY <1>1, <1>5, TaskGoes
  <2>2. ModelTyped'
    BY <1>1, <1>2, <1>5, <2>1 DEF ModelTyped
  <2>3. OneCity'
    BY <1>2, <1>3, <1>5, <2>1 DEF OneCity
  <2> QED
    BY <2>2, <2>3
<1>6. CASE task' = [task EXCEPT !.pc = "finish", !.ok = FALSE] /\ UNCHANGED <<config_bin, saved_config>>
  <2>1. task' \in Tasks /\ task'.pc = "finish"
    BY <1>1, <1>6, TaskEnds
  <2> QED
    BY <1>1, <1>2, <1>3, <1>6, <2>1, SkyMoves
<1> QED
  BY <1>4, <1>5, <1>6

\* What is published is what was written.
LEMMA SkyPublish ==
  ASSUME SkyInv, Sky!Publish
  PROVE  ModelTyped' /\ OneCity'
<1>1. /\ ModelTyped /\ OneCity /\ task \in Tasks /\ task.config \in Sky!Config /\ task.info \in Sky!Info
  BY DEF SkyInv, ModelTyped, Tasks
<1>2. /\ UNCHANGED <<config_bin, saved_config, current_bin, cities, lifecycle>> /\ task.pc = "publish"
      /\ config' = task.config /\ info' = task.info /\ task' = [task EXCEPT !.pc = "finish", !.ok = TRUE]
  BY DEF Sky!Publish, Sky!Worker, Sky!files, Sky!Finish
<1>3. /\ lifecycle # "off" /\ task.info.city = task.config.city
      /\ saved_config \in {config_bin, Sky!NoFile} /\ config_bin = task.config
  BY <1>1, <1>2 DEF OneCity
<1>4. task' \in Tasks /\ task'.pc = "finish"
  BY <1>1, <1>2, TaskEnds
<1>5. ModelTyped'
  BY <1>1, <1>2, <1>4 DEF ModelTyped
<1>6. OneCity'
  BY <1>2, <1>3, <1>4 DEF OneCity
<1> QED
  BY <1>5, <1>6

\* The worker ends with nothing on the way.
LEMMA SkyEnd ==
  ASSUME SkyInv, Sky!End
  PROVE  ModelTyped' /\ OneCity'
<1>1. /\ ModelTyped /\ OneCity
  BY DEF SkyInv
<1>2. /\ UNCHANGED <<config_bin, saved_config, current_bin, cities, config, info>> /\ task.pc = "end"
      /\ lifecycle' = "ended" /\ task' = Sky!Idle
  BY DEF Sky!End, Sky!files, Sky!model
<1>3. lifecycle # "off"
  BY <1>1, <1>2 DEF OneCity
<1>4. ModelTyped'
  BY <1>1, <1>2, IdleTyped DEF ModelTyped
<1>5. OneCity'
  BY <1>1, <1>2, <1>3, IdleTyped DEF OneCity
<1> QED
  BY <1>4, <1>5

\* The weather shown is that of the configured city, and a restart finds the
\* configuration in use (Weather.NeverMixed).
THEOREM WeatherIsOfItsCity == PartsSpec => []NeverMixed
<1>1. PartsInit => SkyInv
  <2> SUFFICES ASSUME PartsInit PROVE SkyInv
    OBVIOUS
  <2>1. /\ config = Sky!NoConfig /\ info = Sky!empty_info(None) /\ saved_config = Sky!NoFile
        /\ result = Sky!Answer /\ next_ticket = 0 /\ requests = <<>> /\ lifecycle = "off" /\ awake = FALSE
        /\ sync_pending = FALSE /\ retry_wait = FALSE /\ seen = [generation |-> 0, ready |-> FALSE]
        /\ task = Sky!Idle /\ online = FALSE /\ net_generation = 0 /\ due = FALSE /\ retryOver = TRUE
        /\ periods = 0 /\ owed = FALSE /\ fresh = FALSE
    BY DEF PartsInit, Sky!Init
  <2>2. /\ 0 \in 0..MaxEvents /\ 0 \in 0..MaxTicket /\ MaxEvents >= 0 /\ MaxKey \in 0..MaxKey /\ Cities # {}
    BY PartsAssumption DEF PartsAssumption
  <2>3. FlagsTyped
    BY <2>1 DEF FlagsTyped
  <2>4. EventsTyped
    BY <2>1, <2>2 DEF EventsTyped
  <2>5. RequestsTyped
    <3>1. <<>> \in Seq(Sky!Request) /\ Len(<<>>) = 0
      OBVIOUS
    <3> QED
      BY <2>1, <2>2, <3>1 DEF RequestsTyped, Sky!Answer
  <2>6. /\ config_bin \in Sky!Config \cup {Sky!NoFile} /\ cities \subseteq Cities
        /\ current_bin \in [of : Sky!Config, info : Sky!Info]
    <3>1. CASE /\ config_bin = Sky!NoFile /\ cities = {}
               /\ current_bin = [of |-> Sky!NoConfig, info |-> Sky!empty_info(None)]
      BY <3>1, IdleTyped
    <3>2. CASE LET city == CHOOSE city \in Cities : TRUE
               IN /\ config_bin = [key |-> MaxKey, city |-> city] /\ cities = {city}
                  /\ current_bin = [of |-> config_bin, info |-> [city |-> city, valid |-> TRUE]]
      <4> DEFINE chosen == CHOOSE city \in Cities : TRUE
      <4>1. chosen \in Cities
        BY <2>2
      <4>2. /\ config_bin = [key |-> MaxKey, city |-> chosen] /\ cities = {chosen}
            /\ current_bin = [of |-> config_bin, info |-> [city |-> chosen, valid |-> TRUE]]
        BY <3>2
      <4> HIDE DEF chosen
      <4>3. config_bin \in Sky!Config
        BY <2>2, <4>1, <4>2 DEF Sky!Config
      <4>4. [city |-> chosen, valid |-> TRUE] \in Sky!Info
        BY <4>1 DEF Sky!Info
      <4> QED
        BY <4>1, <4>2, <4>3, <4>4
    <3> QED
      BY <3>1, <3>2 DEF PartsInit, Sky!Init
  <2>7. ModelTyped /\ OneCity
    BY <2>1, <2>6, IdleTyped DEF ModelTyped, OneCity
  <2> QED
    BY <2>3, <2>4, <2>5, <2>7 DEF SkyInv
<1>2. SkyInv /\ [PartsNext]_allVars => SkyInv'
  <2> SUFFICES ASSUME SkyInv, [PartsNext]_allVars PROVE SkyInv'
    OBVIOUS
  <2>1. Sky!Next \/ UNCHANGED skyVars
    BY DEF PartsNext, allVars
  <2>2. CASE Sky!Next
    <3>1. task \in Tasks /\ task.ok \in BOOLEAN
      BY DEF SkyInv, ModelTyped, Tasks
    <3>2. FlagsTyped' /\ EventsTyped' /\ RequestsTyped'
      BY <2>2, <3>1, SkyFlags, SkyEvents, SkyRequests DEF SkyInv
    <3>3. ModelTyped' /\ OneCity'
      BY <2>2, SkyOutside, SkyStart, SkyForget, SkyTurns, SkyLook, SkyDecide, SkyGet, SkyRecord, SkyCache, SkySave,
         SkyPublish, SkyEnd
      DEF Sky!Next, Sky!worker_entry
    <3> QED
      BY <3>2, <3>3 DEF SkyInv
  <2>3. CASE UNCHANGED skyVars
    BY <2>3 DEF skyVars, SkyInv, FlagsTyped, EventsTyped, RequestsTyped, ModelTyped, OneCity
  <2> QED
    BY <2>1, <2>2, <2>3
<1>3. SkyInv => NeverMixed
  <2> SUFFICES ASSUME SkyInv PROVE NeverMixed
    OBVIOUS
  <2>1. Sky!TypeOK
    BY DEF SkyInv, FlagsTyped, EventsTyped, RequestsTyped, ModelTyped, Tasks, Sky!TypeOK, Sky!NoFile
  <2>2. Sky!NeverMixed
    BY DEF SkyInv, OneCity, Sky!NeverMixed
  <2> QED
    BY <2>1, <2>2 DEF NeverMixed
<1> QED
  BY <1>1, <1>2, <1>3, PTL DEF PartsSpec

----------------------------------------------------------------------------
(* The keys. *)

\* A set of natural numbers has a least element.
LEMMA LeastElement ==
  ASSUME NEW S, S \subseteq Nat, S # {}
  PROVE  \E x \in S : \A y \in S : x <= y
<1> DEFINE Initials == {0 .. s : s \in S}
<1>1. Initials \subseteq FiniteSubsetsOf(Nat)
  <2>1. \A s \in S : IsFiniteSet(0 .. s)
    BY FS_Interval
  <2> QED  BY <2>1 DEF FiniteSubsetsOf
<1>2. Initials # {}
  OBVIOUS
<1>3. PICK x \in Initials : \A y \in Initials : ~(<<y, x>> \in StrictSubsetOrdering(Nat))
  <2> HIDE DEF Initials
  <2> QED  BY <1>1, <1>2, FS_StrictSubsetOrderingWellFounded, WFMin
<1>4. PICK s \in S : x = 0 .. s
  OBVIOUS
<1>5. ASSUME NEW y \in S, y < s PROVE FALSE
  <2>1. 0 .. y \in Initials
    OBVIOUS
  <2>2. s \in 0 .. s /\ s \notin 0 .. y
    BY <1>5
  <2>3. <<0 .. y, x>> \in StrictSubsetOrdering(Nat)
    BY <1>4, <1>5, <2>2 DEF StrictSubsetOrdering
  <2> QED  BY <1>3, <2>1, <2>3
<1> QED  BY <1>4, <1>5

----------------------------------------------------------------------------
(* The keys: how many presses a sequence of entries stands for. *)

Units(entries, n) == UNION {{i} \X (1 .. entries[i].repeat) : i \in 1 .. n}

\* They are finitely many.
LEMMA PressesAreFinite ==
  ASSUME NEW n \in Nat, NEW entries, \A i \in 1 .. n : entries[i].repeat \in Nat
  PROVE  /\ IsFiniteSet(Units(entries, n))
         /\ Keys!Presses(entries, n) = Cardinality(Units(entries, n))
         /\ Keys!Presses(entries, n) \in Nat
<1> DEFINE all == {{i} \X (1 .. entries[i].repeat) : i \in 1 .. n}
           units == [i \in 1 .. n |-> {i} \X (1 .. entries[i].repeat)]
<1>1. IsFiniteSet(1 .. n)
  BY FS_Interval
<1>2. units \in Surjection(1 .. n, all)
  BY DEF Surjection
<1>3. IsFiniteSet(all)
  <2> HIDE DEF units, all
  <2> QED  BY <1>1, <1>2, FS_Surjection
<1>4. \A i \in 1 .. n : IsFiniteSet({i} \X (1 .. entries[i].repeat))
  <2> TAKE i \in 1 .. n
  <2>1. IsFiniteSet({i})
    BY FS_Singleton
  <2>2. entries[i].repeat \in Int /\ 1 \in Int
    OBVIOUS
  <2>3. IsFiniteSet(1 .. entries[i].repeat)
    BY <2>2, FS_Interval
  <2> QED  BY <2>1, <2>3, FS_Product
<1>5. \A T \in all : IsFiniteSet(T)
  BY <1>4
<1>6. IsFiniteSet(UNION all)
  <2> HIDE DEF all
  <2> QED  BY <1>3, <1>5, FS_UNION
<1>7. Cardinality(UNION all) \in Nat
  <2> HIDE DEF all
  <2> QED  BY <1>6, FS_CardinalityType
<1>8. UNION all = Units(entries, n)
  BY DEF Units
<1> HIDE DEF all
<1>9. Keys!Cardinality(Units(entries, n)) = Cardinality(Units(entries, n))
  BY DEF Keys!Cardinality, Cardinality
<1>10. Keys!Presses(entries, n) = Cardinality(Units(entries, n))
  BY <1>9 DEF Keys!Presses, Units
<1> QED  BY <1>6, <1>7, <1>8, <1>10

\* None without an entry; with one more, as many more as it repeats.
LEMMA PressesGrow ==
  ASSUME NEW n \in Nat, NEW entries, \A i \in 1 .. n + 1 : entries[i].repeat \in Nat
  PROVE  /\ Keys!Presses(entries, 0) = 0
         /\ Keys!Presses(entries, n + 1) = Keys!Presses(entries, n) + entries[n + 1].repeat
<1>1. Units(entries, 0) = {}
  BY DEF Units
<1>2. Keys!Presses(entries, 0) = 0
  BY <1>1, PressesAreFinite, FS_EmptySet
<1> DEFINE r == entries[n + 1].repeat
           more == {n + 1} \X (1 .. r)
<1>3. r \in Nat
  OBVIOUS
<1>4. Units(entries, n + 1) = Units(entries, n) \cup more
  <2>1. 1 .. n + 1 = (1 .. n) \cup {n + 1}
    OBVIOUS
  <2> QED  BY <2>1 DEF Units
<1>5. Units(entries, n) \cap more = {}
  BY DEF Units
<1>6. IsFiniteSet(more) /\ Cardinality(more) = r
  <2>1. IsFiniteSet({n + 1}) /\ Cardinality({n + 1}) = 1
    BY FS_Singleton
  <2>2. r \in Int /\ 1 \in Int
    BY <1>3
  <2>3. IsFiniteSet(1 .. r) /\ Cardinality(1 .. r) = r
    <3> HIDE DEF r
    <3>1. IsFiniteSet(1 .. r) /\ Cardinality(1 .. r) = IF 1 > r THEN 0 ELSE r - 1 + 1
      BY <2>2, FS_Interval
    <3>2. (IF 1 > r THEN 0 ELSE r - 1 + 1) = r
      BY <1>3
    <3> QED  BY <3>1, <3>2
  <2> HIDE DEF r
  <2>4. IsFiniteSet({n + 1} \X (1 .. r)) /\ Cardinality({n + 1} \X (1 .. r)) = Cardinality({n + 1}) * Cardinality(1 .. r)
    BY <2>1, <2>3, FS_Product
  <2>5. 1 * r = r
    BY <1>3
  <2> QED  BY <2>1, <2>3, <2>4, <2>5
<1>7. IsFiniteSet(Units(entries, n)) /\ Keys!Presses(entries, n) = Cardinality(Units(entries, n))
      /\ Keys!Presses(entries, n) \in Nat
  BY PressesAreFinite
<1>8. Keys!Presses(entries, n + 1) = Cardinality(Units(entries, n + 1))
  BY PressesAreFinite, n + 1 \in Nat
<1> HIDE DEF more, r
<1>9. Cardinality(Units(entries, n) \cup more) = Cardinality(Units(entries, n)) + Cardinality(more) - Cardinality({})
  BY <1>5, <1>6, <1>7, FS_Union
<1>10. Keys!Presses(entries, n + 1) = Keys!Presses(entries, n) + r
  <2>1. Cardinality({}) = 0
    BY FS_EmptySet
  <2>2. Keys!Presses(entries, n + 1) = Keys!Presses(entries, n) + r - 0
    BY <1>4, <1>6, <1>7, <1>8, <1>9, <2>1
  <2> QED  BY <1>3, <1>7, <2>2
<1> QED  BY <1>2, <1>10 DEF r

\* Only how often the entries repeat counts.
LEMMA PressesSame ==
  ASSUME NEW n \in Nat, NEW entries, NEW others, \A i \in 1 .. n : entries[i].repeat = others[i].repeat
  PROVE  Keys!Presses(entries, n) = Keys!Presses(others, n)
<1>1. {{i} \X (1 .. entries[i].repeat) : i \in 1 .. n} = {{i} \X (1 .. others[i].repeat) : i \in 1 .. n}
  OBVIOUS
<1> QED  BY <1>1 DEF Keys!Presses

\* More entries stand for no fewer presses.
LEMMA PressesRise ==
  ASSUME NEW n \in Nat, NEW m \in 0 .. n, NEW entries, \A i \in 1 .. n : entries[i].repeat \in Nat
  PROVE  Keys!Presses(entries, m) <= Keys!Presses(entries, n)
<1>1. Units(entries, m) \in SUBSET Units(entries, n)
  BY DEF Units
<1>2. IsFiniteSet(Units(entries, n)) /\ Keys!Presses(entries, n) = Cardinality(Units(entries, n))
      /\ Keys!Presses(entries, m) = Cardinality(Units(entries, m))
  BY PressesAreFinite
<1> QED  BY <1>1, <1>2, FS_Subset

\* What is left of the entries stands for what is left of the presses.
LEMMA PressesOfRest ==
  ASSUME NEW n \in Nat, NEW b \in Nat, NEW entries, NEW rest,
         \A i \in 1 .. n + b : entries[i].repeat \in Nat, \A i \in 1 .. n : rest[i] = entries[i + b]
  PROVE  \A m \in 0 .. n : Keys!Presses(entries, m + b) = Keys!Presses(rest, m) + Keys!Presses(entries, b)
<1> DEFINE Wrong == {m \in 0 .. n : Keys!Presses(entries, m + b) # Keys!Presses(rest, m) + Keys!Presses(entries, b)}
<1>1. SUFFICES ASSUME Wrong # {} PROVE FALSE
  OBVIOUS
<1>2. PICK m \in Wrong : \A k \in Wrong : m <= k
  <2>1. Wrong \subseteq Nat
    OBVIOUS
  <2> HIDE DEF Wrong
  <2> QED  BY <1>1, <2>1, LeastElement
<1>3. Keys!Presses(entries, b) \in Nat
  BY PressesAreFinite
<1>4. m # 0
  <2>1. ASSUME m = 0 PROVE FALSE
    <3>1. Keys!Presses(rest, 0) = 0
      <4>1. Units(rest, 0) = {}
        BY DEF Units
      <4> QED  BY <4>1, PressesAreFinite, FS_EmptySet
    <3>2. 0 + b = b
      OBVIOUS
    <3> QED  BY <1>2, <1>3, <2>1, <3>1, <3>2
  <2> QED  BY <2>1
<1>5. m - 1 \in 0 .. n /\ m - 1 \in Nat /\ m - 1 + b \in Nat /\ m - 1 + 1 = m /\ m - 1 + b + 1 = m + b
      /\ m \in 1 .. n
  BY <1>2, <1>4
<1>6. Keys!Presses(entries, m - 1 + b) = Keys!Presses(rest, m - 1) + Keys!Presses(entries, b)
  BY <1>2, <1>5
<1>7. Keys!Presses(entries, m + b) = Keys!Presses(entries, m - 1 + b) + entries[m + b].repeat
  <2>1. \A i \in 1 .. m - 1 + b + 1 : entries[i].repeat \in Nat
    BY <1>5
  <2> HIDE DEF Wrong
  <2>2. Keys!Presses(entries, m - 1 + b + 1) = Keys!Presses(entries, m - 1 + b) + entries[m - 1 + b + 1].repeat
    BY <1>5, <2>1, PressesGrow
  <2> QED  BY <1>5, <2>2
<1>8. Keys!Presses(rest, m) = Keys!Presses(rest, m - 1) + rest[m].repeat /\ Keys!Presses(rest, m - 1) \in Nat
  <2>1. \A i \in 1 .. m - 1 + 1 : rest[i].repeat \in Nat
    <3> TAKE i \in 1 .. m - 1 + 1
    <3>1. i \in 1 .. n /\ i + b \in 1 .. n + b
      BY <1>5
    <3> QED  BY <3>1
  <2> HIDE DEF Wrong
  <2>2. Keys!Presses(rest, m - 1 + 1) = Keys!Presses(rest, m - 1) + rest[m - 1 + 1].repeat
    BY <1>5, <2>1, PressesGrow
  <2>3. \A i \in 1 .. m - 1 : rest[i].repeat \in Nat
    BY <1>5, <2>1
  <2>4. Keys!Presses(rest, m - 1) \in Nat
    BY <1>5, <2>3, PressesAreFinite
  <2> QED  BY <1>5, <2>2, <2>4
<1>9. rest[m] = entries[m + b] /\ entries[m + b].repeat \in Nat
  BY <1>5
<1>10. Keys!Presses(entries, m + b) = Keys!Presses(rest, m) + Keys!Presses(entries, b)
  <2> HIDE DEF Wrong
  <2> QED  BY <1>3, <1>6, <1>7, <1>8, <1>9
<1> QED  BY <1>2, <1>10

----------------------------------------------------------------------------
(* The keys: entries that stand for presses, in their order. *)

Entries == [key : Keys!Keys, repeat : Nat \ {0}]
Pressed == [key : Keys!Keys, on : {"page", "prompt"}]

Ordered(entries, made) ==
  /\ Len(made) = Keys!Presses(entries, Len(entries))
  /\ \A i \in DOMAIN entries : \A p \in Keys!Presses(entries, i - 1) + 1 .. Keys!Presses(entries, i) :
       made[p].key = entries[i].key

\* What a sequence of entries stands for is a number, entry by entry.
LEMMA Repeats ==
  ASSUME NEW entries \in Seq(Entries)
  PROVE  /\ DOMAIN entries = 1 .. Len(entries) /\ Len(entries) \in Nat
         /\ \A i \in 1 .. Len(entries) : /\ entries[i].repeat \in Nat /\ entries[i].repeat >= 1
                                         /\ Keys!Presses(entries, i - 1) \in Nat /\ Keys!Presses(entries, i) \in Nat
                                         /\ Keys!Presses(entries, i) = Keys!Presses(entries, i - 1) + entries[i].repeat
                                         /\ Keys!Presses(entries, i) <= Keys!Presses(entries, Len(entries))
         /\ Keys!Presses(entries, Len(entries)) \in Nat
<1>1. DOMAIN entries = 1 .. Len(entries) /\ Len(entries) \in Nat
  OBVIOUS
<1>2. \A i \in 1 .. Len(entries) : entries[i].repeat \in Nat /\ entries[i].repeat >= 1
  <2> TAKE i \in 1 .. Len(entries)
  <2>1. entries[i] \in Entries
    OBVIOUS
  <2> QED  BY <2>1 DEF Entries
<1>3. ASSUME NEW i \in 1 .. Len(entries)
      PROVE  /\ Keys!Presses(entries, i - 1) \in Nat /\ Keys!Presses(entries, i) \in Nat
             /\ Keys!Presses(entries, i) = Keys!Presses(entries, i - 1) + entries[i].repeat
             /\ Keys!Presses(entries, i) <= Keys!Presses(entries, Len(entries))
  <2>1. i - 1 \in Nat /\ i \in Nat /\ i - 1 + 1 = i /\ i \in 0 .. Len(entries)
    BY <1>1
  <2>2. \A j \in 1 .. i - 1 + 1 : entries[j].repeat \in Nat
    BY <1>2, <2>1
  <2>3. Keys!Presses(entries, i - 1 + 1) = Keys!Presses(entries, i - 1) + entries[i - 1 + 1].repeat
    BY <2>1, <2>2, PressesGrow
  <2>4. Keys!Presses(entries, i - 1) \in Nat /\ Keys!Presses(entries, i) \in Nat
    <3>1. \A j \in 1 .. i : entries[j].repeat \in Nat
      BY <1>2, <2>1
    <3>2. \A j \in 1 .. i - 1 : entries[j].repeat \in Nat
      BY <2>2, <2>1
    <3>3. Keys!Presses(entries, i) \in Nat
      BY <2>1, <3>1, PressesAreFinite
    <3> QED  BY <2>1, <3>2, <3>3, PressesAreFinite
  <2>5. Keys!Presses(entries, i) <= Keys!Presses(entries, Len(entries))
    BY <1>1, <1>2, <2>1, PressesRise
  <2> QED  BY <2>1, <2>3, <2>4, <2>5
<1>4. Keys!Presses(entries, Len(entries)) \in Nat
  BY <1>1, <1>2, PressesAreFinite
<1> QED  BY <1>1, <1>2, <1>3, <1>4

\* No entries, no presses.
LEMMA NoneOrdered == Ordered(<<>>, <<>>)
<1>1. Units(<<>>, 0) = {}
  BY DEF Units
<1>2. Keys!Presses(<<>>, 0) = 0
  BY <1>1, PressesAreFinite, FS_EmptySet
<1> QED  BY <1>2 DEF Ordered

\* A press with an entry of its own.
LEMMA OneEntryMore ==
  ASSUME NEW entries \in Seq(Entries), NEW made \in Seq(Pressed), Ordered(entries, made),
         NEW e \in Entries, e.repeat = 1, NEW x \in Pressed, x.key = e.key
  PROVE  Ordered(Append(entries, e), Append(made, x))
<1> DEFINE n == Len(entries)
           longer == Append(entries, e)
<1>1. longer \in Seq(Entries) /\ Len(longer) = n + 1 /\ n \in Nat /\ longer[n + 1] = e
      /\ \A i \in 1 .. n : longer[i] = entries[i]
  BY AppendProperties
<1>2. Len(Append(made, x)) = Len(made) + 1 /\ Append(made, x)[Len(made) + 1] = x /\ Len(made) \in Nat
      /\ \A p \in 1 .. Len(made) : Append(made, x)[p] = made[p]
  BY AppendProperties
<1> HIDE DEF longer
<1>3. \A m \in 0 .. n : Keys!Presses(longer, m) = Keys!Presses(entries, m)
  <2> TAKE m \in 0 .. n
  <2>1. \A i \in 1 .. m : longer[i].repeat = entries[i].repeat
    BY <1>1
  <2> QED  BY <1>1, <2>1, PressesSame
<1>4. Keys!Presses(longer, n + 1) = Keys!Presses(longer, n) + 1 /\ n + 1 \in 1 .. n + 1 /\ n + 1 - 1 = n
  <2>1. n + 1 \in 1 .. n + 1 /\ n + 1 - 1 = n
    BY <1>1
  <2>2. Keys!Presses(longer, n + 1) = Keys!Presses(longer, n + 1 - 1) + longer[n + 1].repeat
    BY <1>1, <2>1, Repeats
  <2> QED  BY <1>1, <2>1, <2>2
<1>5. Len(made) = Keys!Presses(entries, n) /\ Keys!Presses(longer, n) = Len(made)
  BY <1>1, <1>3 DEF Ordered
<1>6. Len(Append(made, x)) = Keys!Presses(longer, Len(longer))
  BY <1>1, <1>2, <1>4, <1>5
<1>7. ASSUME NEW i \in DOMAIN longer, NEW p \in Keys!Presses(longer, i - 1) + 1 .. Keys!Presses(longer, i)
      PROVE  Append(made, x)[p].key = longer[i].key
  <2>1. i \in 1 .. n + 1
    BY <1>1
  <2>2. CASE i = n + 1
    <3>1. p = Len(made) + 1
      BY <1>2, <1>4, <1>5, <2>2
    <3> QED  BY <1>1, <1>2, <2>2, <3>1
  <2>3. CASE i # n + 1
    <3>1. i \in 1 .. n /\ i - 1 \in 0 .. n /\ i \in 0 .. n
      BY <1>1, <2>1, <2>3
    <3>2. p \in Keys!Presses(entries, i - 1) + 1 .. Keys!Presses(entries, i)
      BY <1>3, <3>1
    <3>3. Keys!Presses(entries, i - 1) \in Nat /\ Keys!Presses(entries, i) \in Nat
          /\ Keys!Presses(entries, i) <= Keys!Presses(entries, n)
      BY <3>1, Repeats
    <3>4. p \in 1 .. Len(made)
      BY <1>2, <1>5, <3>2, <3>3
    <3>5. made[p].key = entries[i].key
      BY <3>1, <3>2, Repeats DEF Ordered
    <3> QED  BY <1>1, <1>2, <3>1, <3>4, <3>5
  <2> QED  BY <2>2, <2>3
<1> QED  BY <1>6, <1>7 DEF Ordered, longer

\* A press that is counted with the last entry.
LEMMA OnePressMore ==
  ASSUME NEW entries \in Seq(Entries), NEW made \in Seq(Pressed), Ordered(entries, made),
         NEW n \in Nat, n = Len(entries), n # 0,
         NEW counted \in Seq(Entries), Len(counted) = n, \A i \in 1 .. n - 1 : counted[i] = entries[i],
         counted[n].key = entries[n].key, counted[n].repeat = entries[n].repeat + 1,
         NEW x \in Pressed, x.key = entries[n].key
  PROVE  Ordered(counted, Append(made, x))
<1>1. Len(Append(made, x)) = Len(made) + 1 /\ Append(made, x)[Len(made) + 1] = x /\ Len(made) \in Nat
      /\ \A p \in 1 .. Len(made) : Append(made, x)[p] = made[p]
  BY AppendProperties
<1>2. \A m \in 0 .. n - 1 : Keys!Presses(counted, m) = Keys!Presses(entries, m)
  <2> TAKE m \in 0 .. n - 1
  <2>1. \A i \in 1 .. m : counted[i].repeat = entries[i].repeat
    OBVIOUS
  <2> QED  BY <2>1, PressesSame
<1>3. n \in 1 .. n /\ n - 1 \in 0 .. n - 1
  OBVIOUS
<1>4. Keys!Presses(counted, n) = Keys!Presses(counted, n - 1) + (entries[n].repeat + 1)
  <2>1. n \in 1 .. Len(counted)
    BY <1>3
  <2>2. Keys!Presses(counted, n) = Keys!Presses(counted, n - 1) + counted[n].repeat
    BY <2>1, Repeats
  <2> QED  BY <2>2
<1>5. Keys!Presses(entries, n) = Keys!Presses(entries, n - 1) + entries[n].repeat
      /\ Keys!Presses(entries, n - 1) \in Nat /\ entries[n].repeat \in Nat
  BY <1>3, Repeats
<1>6. Len(made) = Keys!Presses(entries, n) /\ Keys!Presses(counted, n) = Len(made) + 1
  BY <1>2, <1>3, <1>4, <1>5 DEF Ordered
<1>7. ASSUME NEW i \in DOMAIN counted, NEW p \in Keys!Presses(counted, i - 1) + 1 .. Keys!Presses(counted, i)
      PROVE  Append(made, x)[p].key = counted[i].key
  <2>1. i \in 1 .. n
    BY Repeats
  <2>2. CASE p = Len(made) + 1
    <3>1. i = n
      <4>1. ASSUME i # n PROVE FALSE
        <5>1. i \in 0 .. n - 1 /\ i \in 1 .. Len(entries)
          BY <2>1, <4>1
        <5>2. Keys!Presses(counted, i) = Keys!Presses(entries, i) /\ Keys!Presses(entries, i) <= Len(made)
              /\ Keys!Presses(entries, i) \in Nat
          BY <1>2, <1>6, <5>1, Repeats
        <5> QED  BY <1>1, <2>2, <5>2
      <4> QED  BY <4>1
    <3> QED  BY <1>1, <2>2, <3>1
  <2>3. CASE p # Len(made) + 1
    <3>1. i - 1 \in 0 .. n - 1 /\ i \in 1 .. Len(entries) /\ i \in 1 .. Len(counted)
      BY <2>1
    <3>2. Keys!Presses(counted, i) \in Nat /\ Keys!Presses(counted, i) <= Len(made) + 1
          /\ Keys!Presses(counted, i - 1) \in Nat
      BY <1>6, <3>1, Repeats
    <3>3. p \in 1 .. Len(made)
      BY <1>1, <2>3, <3>2
    <3>4. p \in Keys!Presses(entries, i - 1) + 1 .. Keys!Presses(entries, i)
      <4>1. Keys!Presses(counted, i - 1) = Keys!Presses(entries, i - 1)
        BY <1>2, <3>1
      <4>2. CASE i = n
        BY <1>6, <3>3, <4>1, <4>2
      <4>3. CASE i # n
        <5>1. i \in 0 .. n - 1
          BY <2>1, <4>3
        <5> QED  BY <1>2, <4>1, <5>1
      <4> QED  BY <4>2, <4>3
    <3>5. made[p].key = entries[i].key
      BY <3>1, <3>4, Repeats DEF Ordered
    <3>6. counted[i].key = entries[i].key
      BY <2>1
    <3> QED  BY <1>1, <3>3, <3>5, <3>6
  <2> QED  BY <2>2, <2>3
<1> QED  BY <1>1, <1>6, <1>7 DEF Ordered

\* What is left when the first presses are handled.
LEMMA RestOfPresses ==
  ASSUME NEW s \in Seq(Pressed), NEW n \in 0 .. Len(s)
  PROVE  /\ SubSeq(s, n + 1, Len(s)) \in Seq(Pressed)
         /\ Len(SubSeq(s, n + 1, Len(s))) = Len(s) - n
         /\ \A i \in 1 .. Len(s) - n : SubSeq(s, n + 1, Len(s))[i] = s[i + n]
OBVIOUS

\* The first entries go with their presses.
LEMMA EntriesGo ==
  ASSUME NEW entries \in Seq(Entries), NEW made \in Seq(Pressed), Ordered(entries, made),
         NEW b \in 0 .. Len(entries), NEW left \in Seq(Entries), Len(left) = Len(entries) - b,
         \A i \in 1 .. Len(left) : left[i] = entries[i + b]
  PROVE  Ordered(left, SubSeq(made, Keys!Presses(entries, b) + 1, Len(made)))
<1> DEFINE n == Len(left)
           gone == Keys!Presses(entries, b)
           others == SubSeq(made, gone + 1, Len(made))
<1>1. n \in Nat /\ b \in Nat /\ n + b = Len(entries)
  BY Repeats
<1>2. \A i \in 1 .. n + b : entries[i].repeat \in Nat
  BY <1>1, Repeats
<1>3. \A m \in 0 .. n : Keys!Presses(entries, m + b) = Keys!Presses(left, m) + gone
  <2> HIDE DEF n
  <2>1. \A i \in 1 .. n : left[i] = entries[i + b]
    BY DEF n
  <2> QED  BY <1>1, <1>2, <2>1, PressesOfRest
<1>4. gone \in Nat /\ Keys!Presses(left, n) \in Nat /\ Len(made) = Keys!Presses(left, n) + gone
  <2>1. Len(made) = Keys!Presses(entries, n + b)
    BY <1>1 DEF Ordered
  <2>2. gone \in Nat
    <3>1. \A i \in 1 .. b : entries[i].repeat \in Nat
      BY <1>1, <1>2
    <3> QED  BY <1>1, <3>1, PressesAreFinite
  <2>3. n \in 0 .. n
    BY <1>1
  <2>4. Keys!Presses(left, n) \in Nat
    BY Repeats
  <2> QED  BY <1>3, <2>1, <2>2, <2>3, <2>4
<1>5. Len(others) = Keys!Presses(left, n) /\ \A p \in 1 .. Keys!Presses(left, n) : others[p] = made[p + gone]
  <2> HIDE DEF gone, n
  <2>1. Len(others) = Len(made) - gone /\ \A p \in 1 .. Len(made) - gone : others[p] = made[p + gone]
    BY <1>4, RestOfPresses
  <2>2. Len(made) - gone = Keys!Presses(left, n)
    BY <1>4
  <2> QED  BY <2>1, <2>2
<1>6. ASSUME NEW i \in DOMAIN left, NEW p \in Keys!Presses(left, i - 1) + 1 .. Keys!Presses(left, i)
      PROVE  others[p].key = left[i].key
  <2>1. i \in 1 .. n /\ i \in 0 .. n /\ i - 1 \in 0 .. n /\ i + b \in 1 .. Len(entries) /\ i - 1 + b = i + b - 1
    BY <1>1, Repeats
  <2>2. Keys!Presses(left, i - 1) \in Nat /\ Keys!Presses(left, i) \in Nat
        /\ Keys!Presses(left, i) <= Keys!Presses(left, n)
    BY <2>1, Repeats
  <2>3. p \in 1 .. Keys!Presses(left, n) /\ p \in Nat
    BY <1>4, <2>2
  <2>4. PICK j \in DOMAIN entries : j = i + b
    BY <2>1, Repeats
  <2>5. Keys!Presses(entries, j - 1) = Keys!Presses(left, i - 1) + gone
        /\ Keys!Presses(entries, j) = Keys!Presses(left, i) + gone
    <3>1. Keys!Presses(entries, i - 1 + b) = Keys!Presses(left, i - 1) + gone
      BY <1>3, <2>1
    <3>2. j - 1 = i - 1 + b
      BY <1>1, <2>1, <2>4
    <3>3. Keys!Presses(entries, j) = Keys!Presses(left, i) + gone
      BY <1>3, <2>1, <2>4
    <3> QED  BY <3>1, <3>2, <3>3
  <2>6. made[p + gone].key = entries[j].key
    <3>1. p + gone \in Keys!Presses(entries, j - 1) + 1 .. Keys!Presses(entries, j)
      <4> HIDE DEF gone, n
      <4> QED  BY <1>4, <2>2, <2>3, <2>5
    <3> HIDE DEF gone
    <3> QED  BY <3>1 DEF Ordered
  <2>7. left[i] = entries[i + b]
    BY <2>1
  <2> QED  BY <1>5, <2>3, <2>4, <2>6, <2>7
<1> QED  BY <1>5, <1>6 DEF Ordered

----------------------------------------------------------------------------
(* The keys: what is handed out was meant for the surface that is shown. *)

KeysTyped ==
  /\ key_queue \in Seq(Entries) /\ batch \in Seq(Entries) /\ presses \in Seq(Pressed)
  /\ dispatch_barrier \in BOOLEAN /\ navigation \in BOOLEAN
  /\ shown \in {"page", "prompt"}

\* Outside the moment in which the prompt is up and the keys are not cleared yet.
MeantForShown == at # "raise" => \A i \in DOMAIN presses : presses[i].on = shown

\* A queued page change waits for the barrier, which is up when a click may queue one.
BarrierUp ==
  /\ navigation => at = "barrier" /\ dispatch_barrier
  /\ at = "release" => dispatch_barrier

KeysInv == KeysTyped /\ MeantForShown /\ BarrierUp

\* A batch stands for a number of presses.
LEMMA CountIsNumber ==
  ASSUME batch \in Seq(Entries)
  PROVE  Keys!Count \in Nat
BY Repeats DEF Keys!Count

\* Presses go from the front, and those that are left were made for the same surface.
LEMMA HandledKeeps ==
  ASSUME KeysTyped, at # "raise", MeantForShown, shown' = shown,
         presses' = SubSeq(presses, Keys!Count + 1, Len(presses))
  PROVE  presses' \in Seq(Pressed) /\ MeantForShown'
<1> DEFINE n == Keys!Count
           left == SubSeq(presses, n + 1, Len(presses))
<1>1. n \in Nat
  BY CountIsNumber DEF KeysTyped
<1>2. left \in Seq(Pressed) /\ \A i \in DOMAIN left : i + n \in DOMAIN presses /\ left[i] = presses[i + n]
  <2>1. presses \in Seq(Pressed)
    BY DEF KeysTyped
  <2> HIDE DEF n
  <2> QED  BY <1>1, <2>1
<1> HIDE DEF left
<1>3. presses' = left
  BY DEF left
<1> QED
  BY <1>2, <1>3 DEF KeysTyped, MeantForShown

\* The buttons' thread.
LEMMA KeysPost ==
  ASSUME KeysInv, NEW key \in Keys!Keys, Keys!action_post(key)
  PROVE  KeysInv'
<1> USE DEF Keys!read, Keys!surface
<1>1. KeysTyped /\ MeantForShown /\ BarrierUp
  BY DEF KeysInv
<1>2. key_queue' \in Seq(Entries)
  <2>1. CASE key_queue' = Append(key_queue, [key |-> key, repeat |-> 1])
    <3>1. [key |-> key, repeat |-> 1] \in Entries
      BY DEF Entries
    <3> QED  BY <1>1, <2>1, <3>1, AppendProperties DEF KeysTyped
  <2>2. CASE key_queue # <<>> /\ key_queue' = [key_queue EXCEPT ![Len(key_queue)].repeat = @ + 1]
    <3> DEFINE last == key_queue[Len(key_queue)]
               more == [last EXCEPT !.repeat = @ + 1]
    <3>1. Len(key_queue) \in 1 .. Len(key_queue) /\ last \in Entries
      BY <1>1, <2>2 DEF KeysTyped
    <3>2. more \in Entries
      BY <3>1 DEF Entries
    <3>3. key_queue' = [key_queue EXCEPT ![Len(key_queue)] = more]
      BY <2>2
    <3> HIDE DEF more
    <3> QED  BY <1>1, <3>1, <3>2, <3>3, ExceptSeq DEF KeysTyped
  <2>3. CASE UNCHANGED key_queue
    BY <1>1, <2>3 DEF KeysTyped
  <2> QED
    BY <2>1, <2>2, <2>3 DEF Keys!action_post
<1>3. presses' \in Seq(Pressed) /\ MeantForShown'
  <2>1. CASE presses' = Append(presses, [key |-> key, on |-> shown])
    <3> DEFINE new == [key |-> key, on |-> shown]
    <3>1. new \in Pressed /\ new.on = shown
      BY <1>1 DEF Pressed, KeysTyped
    <3>2. presses' = Append(presses, new)
      BY <2>1
    <3>3. shown' = shown /\ at' = at
      BY DEF Keys!action_post
    <3> HIDE DEF new
    <3>4. presses' \in Seq(Pressed)
      BY <1>1, <3>1, <3>2, AppendProperties DEF KeysTyped
    <3>5. \A i \in DOMAIN presses' : presses'[i] = new \/ (i \in DOMAIN presses /\ presses'[i] = presses[i])
      BY <1>1, <3>1, <3>2, AppendProperties DEF KeysTyped
    <3> QED  BY <1>1, <3>1, <3>3, <3>4, <3>5 DEF MeantForShown
  <2>2. CASE UNCHANGED presses
    BY <1>1, <2>2 DEF KeysTyped, MeantForShown, Keys!action_post
  <2> QED
    BY <2>1, <2>2 DEF Keys!action_post, Keys!Accepted
<1> QED
  BY <1>1, <1>2, <1>3 DEF KeysInv, KeysTyped, BarrierUp, Keys!action_post

\* A batch is directions, or one entry.
LEMMA BatchSize ==
  ASSUME key_queue \in Seq(Entries)
  PROVE  /\ Keys!Batch \in Nat /\ Keys!Batch <= Len(key_queue)
         /\ key_queue # <<>> => Keys!Batch >= 1
         /\ Keys!Batch = 1 \/ \A i \in 1 .. Keys!Batch : key_queue[i].key \in Keys!Directions
<1> DEFINE others == {i \in DOMAIN key_queue : key_queue[i].key \notin Keys!Directions}
<1>1. others \subseteq Nat /\ Len(key_queue) \in Nat /\ \A i \in others : 1 <= i /\ i <= Len(key_queue)
  OBVIOUS
<1>2. CASE others = {}
  <2>1. Keys!Batch = Len(key_queue)
    BY <1>2 DEF Keys!Batch
  <2>2. \A i \in 1 .. Len(key_queue) : key_queue[i].key \in Keys!Directions
    BY <1>2
  <2>3. key_queue # <<>> => Len(key_queue) >= 1
    BY <1>1
  <2> QED  BY <1>1, <2>1, <2>2, <2>3
<1>3. CASE others # {}
  <2> DEFINE i == CHOOSE i \in others : \A j \in others : i <= j
  <2>1. i \in others /\ \A j \in others : i <= j
    <3> HIDE DEF others
    <3> QED  BY <1>1, <1>3, LeastElement
  <2>2. Keys!Batch = IF i = 1 THEN 1 ELSE i - 1
    BY <1>3 DEF Keys!Batch
  <2> HIDE DEF i
  <2>3. i \in Nat /\ 1 <= i /\ i <= Len(key_queue)
    BY <1>1, <2>1
  <2>4. ASSUME i # 1, NEW k \in 1 .. i - 1 PROVE key_queue[k].key \in Keys!Directions
    <3>1. k \in DOMAIN key_queue /\ ~(i <= k)
      BY <1>1, <2>3, <2>4
    <3> QED  BY <2>1, <3>1
  <2> QED  BY <1>1, <2>2, <2>3, <2>4
<1> QED  BY <1>2, <1>3

\* The reader takes a batch from the front of the ring.
LEMMA KeysTake ==
  ASSUME KeysInv, Keys!Take
  PROVE  KeysInv'
<1> USE DEF Keys!surface
<1>1. KeysTyped /\ MeantForShown /\ BarrierUp
  BY DEF KeysInv
<1>2. Keys!Batch \in Nat /\ Keys!Batch <= Len(key_queue)
  BY <1>1, BatchSize DEF KeysTyped
<1>3. batch' \in Seq(Entries) /\ key_queue' \in Seq(Entries)
  BY <1>1, <1>2 DEF KeysTyped, Keys!Take
<1> QED
  BY <1>1, <1>3 DEF KeysInv, KeysTyped, MeantForShown, BarrierUp, Keys!Take

\* No key waits and none is handed out once the keys are cleared.
LEMMA ClearKeeps ==
  ASSUME KeysInv, Keys!Clear, UNCHANGED navigation, ~navigation, shown' \in {"page", "prompt"},
         at' # "release", batch' \in Seq(Entries)
  PROVE  KeysInv'
<1>1. key_queue' = <<>> /\ presses' = <<>> /\ dispatch_barrier' = FALSE
  BY DEF Keys!Clear
<1>2. key_queue' \in Seq(Entries) /\ presses' \in Seq(Pressed) /\ DOMAIN presses' = {}
  BY <1>1
<1> QED
  BY <1>1, <1>2 DEF KeysInv, KeysTyped, MeantForShown, BarrierUp

\* The keys handed out, and the barrier behind them.
LEMMA KeysDispatch ==
  ASSUME KeysInv, Keys!Directed \/ Keys!Answered \/ Keys!Back \/ Keys!Press
  PROVE  KeysInv'
<1> USE DEF Keys!surface, Keys!Handled
<1>1. KeysTyped /\ MeantForShown /\ BarrierUp
  BY DEF KeysInv
<1>2. at = "dispatch" /\ ~navigation
  BY <1>1 DEF BarrierUp, Keys!Directed, Keys!Answered, Keys!Back, Keys!Press
<1>3. batch' = <<>> /\ batch' \in Seq(Entries)
  <2>1. batch' = <<>>
    BY DEF Keys!Directed, Keys!Answered, Keys!Back, Keys!Press
  <2> QED  BY <2>1
<1>4. ASSUME presses' = SubSeq(presses, Keys!Count + 1, Len(presses)), shown' = shown, key_queue' = key_queue,
             dispatch_barrier' \in BOOLEAN, navigation' \in BOOLEAN,
             navigation' => at' = "barrier" /\ dispatch_barrier', at' = "release" => dispatch_barrier'
      PROVE  KeysInv'
  <2>1. presses' \in Seq(Pressed) /\ MeantForShown'
    BY <1>1, <1>2, <1>4, HandledKeeps
  <2>2. KeysTyped'
    BY <1>1, <1>3, <1>4, <2>1 DEF KeysTyped
  <2>3. BarrierUp'
    BY <1>4 DEF BarrierUp
  <2> QED  BY <2>1, <2>2, <2>3 DEF KeysInv
<1>5. CASE Keys!Directed
  BY <1>1, <1>2, <1>4, <1>5 DEF Keys!Directed, KeysTyped, BarrierUp
<1>6. CASE Keys!Answered
  BY <1>1, <1>2, <1>4, <1>6 DEF Keys!Answered, KeysTyped, BarrierUp
<1>7. CASE Keys!Press
  BY <1>1, <1>2, <1>4, <1>7 DEF Keys!Press, KeysTyped, BarrierUp
<1>8. CASE Keys!Back
  <2>1. CASE /\ shown = "page" /\ Keys!ClickPage
             /\ presses' = SubSeq(presses, Keys!Count + 1, Len(presses))
             /\ dispatch_barrier' = TRUE /\ UNCHANGED <<key_queue, release_pending>>
    BY <1>1, <1>2, <1>4, <1>8, <2>1 DEF Keys!Back, Keys!ClickPage, KeysTyped
  <2>2. CASE /\ shown' = "page" /\ Keys!Clear /\ UNCHANGED navigation
    BY <1>1, <1>2, <1>3, <1>8, <2>2, ClearKeeps DEF Keys!Back
  <2>3. CASE /\ presses' = SubSeq(presses, Keys!Count + 1, Len(presses))
             /\ dispatch_barrier' = TRUE /\ UNCHANGED <<key_queue, release_pending, Keys!surface, navigation>>
    BY <1>1, <1>2, <1>4, <1>8, <2>3 DEF Keys!Back, KeysTyped
  <2> QED  BY <1>8, <2>1, <2>2, <2>3 DEF Keys!Back
<1> QED
  BY <1>5, <1>6, <1>7, <1>8

\* The click of a release, and the page change run at the barrier.
LEMMA KeysRelease ==
  ASSUME KeysInv, Keys!Released \/ Keys!Barrier
  PROVE  KeysInv'
<1> USE DEF Keys!surface
<1>1. KeysTyped /\ MeantForShown /\ BarrierUp
  BY DEF KeysInv
<1>2. CASE Keys!Released
  <2>1. at = "release" /\ ~navigation /\ dispatch_barrier /\ at' = "barrier" /\ batch' = batch
    BY <1>1, <1>2 DEF BarrierUp, Keys!Released
  <2>2. CASE Keys!ClickPage /\ UNCHANGED <<key_queue, dispatch_barrier, presses>>
    <3>1. navigation' \in BOOLEAN /\ shown' = shown /\ dispatch_barrier'
      BY <1>1, <2>1, <2>2 DEF Keys!ClickPage, KeysTyped
    <3> QED
      BY <1>1, <2>1, <2>2, <3>1 DEF KeysInv, KeysTyped, MeantForShown, BarrierUp
  <2>3. CASE Keys!AnswerPrompt
    <3>1. Keys!Clear /\ UNCHANGED navigation /\ shown' \in {"page", "prompt"}
      BY <1>1, <2>3 DEF Keys!AnswerPrompt, KeysTyped
    <3> QED
      BY <1>1, <2>1, <3>1, ClearKeeps DEF KeysTyped
  <2> QED  BY <1>2, <2>2, <2>3 DEF Keys!Released
<1>3. CASE Keys!Barrier
  <2>1. dispatch_barrier' = FALSE /\ at' = "idle" /\ at = "barrier"
    BY <1>3 DEF Keys!Barrier
  <2>2. navigation' = FALSE
    BY <1>1, <1>3 DEF Keys!Barrier, KeysTyped, BarrierUp
  <2>3. UNCHANGED <<key_queue, batch, shown, presses>>
    BY <1>3 DEF Keys!Barrier
  <2> QED
    BY <1>1, <2>1, <2>2, <2>3 DEF KeysInv, KeysTyped, MeantForShown, BarrierUp
<1> QED  BY <1>2, <1>3

\* The rest of the UI loop, between two batches.
LEMMA KeysLoop ==
  ASSUME KeysInv, Keys!epd_input_process \/ Keys!ReadFirst \/ Keys!Redraw \/ Keys!RaisePrompt \/ Keys!ClearRaised
                  \/ Keys!WithdrawPrompt \/ Keys!StorageChanges
  PROVE  KeysInv'
<1> USE DEF Keys!surface, Keys!Loop
<1>1. KeysTyped /\ MeantForShown /\ BarrierUp
  BY DEF KeysInv
<1>2. CASE Keys!epd_input_process \/ Keys!ReadFirst \/ Keys!Redraw
  <2>1. /\ at \in {"idle", "read"} /\ at' \in {"idle", "read", "take", "barrier"}
        /\ UNCHANGED <<key_queue, batch, presses, dispatch_barrier, navigation, shown>>
    BY <1>2 DEF Keys!epd_input_process, Keys!ReadFirst, Keys!Redraw
  <2> QED
    BY <1>1, <2>1 DEF KeysInv, KeysTyped, MeantForShown, BarrierUp
<1>3. CASE Keys!RaisePrompt
  BY <1>1, <1>3 DEF KeysInv, KeysTyped, MeantForShown, BarrierUp, Keys!RaisePrompt
<1>4. CASE Keys!ClearRaised \/ Keys!WithdrawPrompt \/ Keys!StorageChanges
  <2>1. /\ Keys!Clear /\ UNCHANGED <<navigation, batch>> /\ at' = "idle" /\ at \in {"idle", "raise"}
        /\ shown' \in {shown, "page"}
    BY <1>4 DEF Keys!ClearRaised, Keys!WithdrawPrompt, Keys!StorageChanges
  <2>2. ~navigation
    BY <1>1, <2>1 DEF BarrierUp
  <2> QED
    BY <1>1, <2>1, <2>2, ClearKeeps DEF KeysTyped
<1> QED  BY <1>2, <1>3, <1>4

\* Nothing waits at the start, on the first page.
LEMMA KeysStart == PartsInit => KeysInv
<1> SUFFICES ASSUME PartsInit PROVE KeysInv
  OBVIOUS
<1>1. /\ key_queue = <<>> /\ batch = <<>> /\ presses = <<>> /\ dispatch_barrier = FALSE /\ navigation = FALSE
      /\ shown = "page" /\ at = "idle"
  BY DEF PartsInit, Keys!Init
<1>2. /\ key_queue \in Seq(Entries) /\ batch \in Seq(Entries) /\ presses \in Seq(Pressed)
      /\ DOMAIN presses = {}
  BY <1>1
<1> QED
  BY <1>1, <1>2 DEF KeysInv, KeysTyped, MeantForShown, BarrierUp

\* No step of any part breaks the invariant of the keys.
LEMMA KeysNext == KeysInv /\ [PartsNext]_allVars => KeysInv'
<1> SUFFICES ASSUME KeysInv, [PartsNext]_allVars PROVE KeysInv'
  OBVIOUS
<1>1. Keys!Next \/ UNCHANGED keysVars
  BY DEF PartsNext, allVars
<1>2. CASE Keys!Next
  BY <1>2, KeysPost, KeysTake, KeysDispatch, KeysRelease, KeysLoop DEF Keys!Next
<1>3. CASE UNCHANGED keysVars
  BY <1>3 DEF keysVars, KeysInv, KeysTyped, MeantForShown, BarrierUp
<1> QED
  BY <1>1, <1>2, <1>3

\* No key reaches the prompt that was pressed before it stood there, and none meant for it
\* reaches the page below; and none is handed out before the page change of an earlier one
\* has been run: for rings, counters and numbers of controls of any size.
THEOREM KeysAreMeant == PartsSpec => []KeysMeetTheirSurface
<1>1. KeysInv => KeysMeetTheirSurface
  BY DEF KeysInv, MeantForShown, BarrierUp, KeysMeetTheirSurface, Keys!KeysMeetTheirSurface
<1> QED
  BY <1>1, KeysStart, KeysNext, PTL DEF PartsSpec

----------------------------------------------------------------------------
(* The keys: the places of the controls that can be focused. *)

Below(c) == {d \in focusable : d < c}
Eligible == Cardinality(focusable)

ControlsTyped == focusable \subseteq Keys!Control

\* The controls that can be focused are finitely many, and so are those below one.
LEMMA ControlsCount ==
  ASSUME ControlsTyped
  PROVE  /\ \A c \in focusable : c \in Nat /\ c < Controls
         /\ IsFiniteSet(focusable) /\ Eligible \in Nat /\ Keys!Cardinality(focusable) = Eligible
         /\ focusable # {} => Eligible >= 1
         /\ \A c : /\ IsFiniteSet(Below(c)) /\ Keys!Place(c) = Cardinality(Below(c)) /\ Keys!Place(c) \in Nat
<1>1. Controls \in Nat /\ \A c \in focusable : c \in Nat /\ c < Controls
  BY PartsAssumption DEF ControlsTyped, Keys!Control
<1>2. IsFiniteSet(focusable)
  <2>1. focusable \in SUBSET Nat /\ \A c \in focusable : c <= Controls
    BY <1>1
  <2> QED  BY <1>1, <2>1, FS_BoundedSetOfNaturals
<1>3. Eligible \in Nat
  BY <1>2, FS_CardinalityType DEF Eligible
<1>4. Keys!Cardinality(focusable) = Eligible
  BY DEF Keys!Cardinality, Cardinality, Eligible
<1>5. focusable # {} => Eligible >= 1
  BY <1>2, <1>3, FS_EmptySet DEF Eligible
<1>6. ASSUME NEW c
      PROVE  IsFiniteSet(Below(c)) /\ Keys!Place(c) = Cardinality(Below(c)) /\ Keys!Place(c) \in Nat
  <2>1. Below(c) \in SUBSET focusable
    BY DEF Below
  <2>2. IsFiniteSet(Below(c))
    BY <1>2, <2>1, FS_Subset
  <2>3. Keys!Cardinality(Below(c)) = Cardinality(Below(c))
    BY DEF Keys!Cardinality, Cardinality
  <2>4. Cardinality(Below(c)) \in Nat
    BY <2>2, FS_CardinalityType
  <2> QED  BY <2>2, <2>3, <2>4 DEF Keys!Place, Below
<1> QED  BY <1>1, <1>2, <1>3, <1>4, <1>5, <1>6

\* A control that has one less below it than another, and that one: their places follow.
LEMMA PlacesFollow ==
  ASSUME ControlsTyped, NEW c \in focusable, NEW d, Below(d) = Below(c) \cup {c}
  PROVE  Keys!Place(d) = Keys!Place(c) + 1
<1>1. IsFiniteSet(Below(c)) /\ Keys!Place(c) = Cardinality(Below(c)) /\ Keys!Place(d) = Cardinality(Below(d))
  BY ControlsCount
<1>2. c \notin Below(c)
  BY ControlsCount DEF Below
<1> QED  BY <1>1, <1>2, FS_AddElement

\* Places are from 0 to one less than the number of controls, and later for later controls.
LEMMA PlacesBounded ==
  ASSUME ControlsTyped, NEW c \in focusable
  PROVE  Keys!Place(c) \in 0 .. Eligible - 1
<1>1. Below(c) \cup {c} \in SUBSET focusable
  BY DEF Below
<1>2. IsFiniteSet(Below(c)) /\ Keys!Place(c) = Cardinality(Below(c)) /\ Keys!Place(c) \in Nat
      /\ IsFiniteSet(focusable) /\ Eligible \in Nat /\ c \notin Below(c)
  BY ControlsCount DEF Below
<1>3. Cardinality(Below(c) \cup {c}) = Keys!Place(c) + 1
  BY <1>2, FS_AddElement
<1>4. Cardinality(Below(c) \cup {c}) <= Eligible
  BY <1>1, <1>2, FS_Subset DEF Eligible
<1> QED  BY <1>2, <1>3, <1>4

\* Two controls have two places.
LEMMA PlacesDiffer ==
  ASSUME ControlsTyped, NEW c \in focusable, NEW d \in focusable, Keys!Place(c) = Keys!Place(d)
  PROVE  c = d
<1>1. ASSUME NEW x \in focusable, NEW y \in focusable, x < y, Keys!Place(x) = Keys!Place(y)
      PROVE  FALSE
  <2>1. x \in Nat /\ y \in Nat
    BY ControlsCount
  <2>2. \A e \in focusable : e \in Nat
    BY ControlsCount
  <2>3. Below(x) \subseteq Below(y) /\ x \in Below(y) /\ x \notin Below(x)
    <3>1. ASSUME NEW e \in Below(x) PROVE e \in Below(y)
      <4>1. e \in focusable /\ e < x /\ e \in Nat
        BY <2>2, <3>1 DEF Below
      <4>2. e < y
        BY <1>1, <2>1, <4>1
      <4> QED  BY <4>1, <4>2 DEF Below
    <3>2. x \in Below(y)
      BY <1>1 DEF Below
    <3>3. x \notin Below(x)
      BY <2>1 DEF Below
    <3> QED  BY <3>1, <3>2, <3>3
  <2>4. IsFiniteSet(Below(y)) /\ Cardinality(Below(x)) = Cardinality(Below(y))
    BY <1>1, ControlsCount
  <2>5. Below(x) = Below(y)
    BY <2>3, <2>4, FS_Subset
  <2> QED  BY <2>3, <2>5
<1>2. c \in Nat /\ d \in Nat
  BY ControlsCount
<1> QED  BY <1>1, <1>2

\* The control at the place of a control is that control.
LEMMA AtItsPlace ==
  ASSUME ControlsTyped, NEW c \in focusable
  PROVE  Keys!At(Keys!Place(c)) = c
BY PlacesDiffer DEF Keys!At

\* A set of controls has a first and a last.
LEMMA FirstAndLast ==
  ASSUME ControlsTyped, NEW S \in SUBSET focusable, S # {}
  PROVE  /\ \E c \in S : \A d \in S : c <= d
         /\ \E c \in S : \A d \in S : c >= d
<1>1. S \subseteq Nat /\ Controls \in Nat /\ \A c \in S : c < Controls
  BY ControlsCount, PartsAssumption
<1>2. \E c \in S : \A d \in S : c <= d
  BY <1>1, LeastElement
<1> DEFINE Mirror == {Controls - c : c \in S}
<1>3. Mirror \subseteq Nat /\ Mirror # {}
  <2>1. \A c \in S : Controls - c \in Nat
    BY <1>1
  <2> QED  BY <2>1
<1>4. PICK m \in Mirror : \A k \in Mirror : m <= k
  <2> HIDE DEF Mirror
  <2> QED  BY <1>3, LeastElement
<1>5. PICK c \in S : m = Controls - c
  OBVIOUS
<1>6. \A d \in S : c >= d
  <2> TAKE d \in S
  <2>1. Controls - d \in Mirror
    OBVIOUS
  <2>2. Controls - c <= Controls - d
    BY <1>4, <1>5, <2>1
  <2> QED  BY <1>1, <2>2
<1> QED  BY <1>2, <1>6

\* One press forward: the next place, around the end to the first.
LEMMA StepForward ==
  ASSUME ControlsTyped, NEW c \in focusable
  PROVE  /\ Keys!Step(c, "next") \in focusable
         /\ Keys!Place(Keys!Step(c, "next")) = IF Keys!Place(c) = Eligible - 1 THEN 0 ELSE Keys!Place(c) + 1
<1> DEFINE ahead == {d \in focusable : d > c}
           near == IF ahead = {} THEN focusable ELSE ahead
           s == CHOOSE d \in near : \A e \in near : d <= e
<1>1. Keys!Step(c, "next") = s
  BY DEF Keys!Step
<1>2. near \in SUBSET focusable /\ near # {}
  OBVIOUS
<1>3. s \in near /\ \A e \in near : s <= e
  <2> HIDE DEF near
  <2> QED  BY <1>2, FirstAndLast
<1>4. \A d \in focusable : d \in Nat
  BY ControlsCount
<1>5. Keys!Place(c) \in 0 .. Eligible - 1 /\ Eligible \in Nat
  BY PlacesBounded, ControlsCount
<1> HIDE DEF s
<1>6. CASE ahead # {}
  <2>1. s \in focusable /\ s > c /\ \A e \in focusable : e > c => s <= e
    BY <1>3, <1>6
  <2>2. Below(s) = Below(c) \cup {c}
    BY <1>4, <2>1 DEF Below
  <2>3. Keys!Place(s) = Keys!Place(c) + 1
    BY <2>2, PlacesFollow
  <2>4. Keys!Place(s) \in 0 .. Eligible - 1
    BY <2>1, PlacesBounded
  <2> QED  BY <1>1, <1>5, <2>1, <2>3, <2>4
<1>7. CASE ahead = {}
  <2>1. s \in focusable /\ \A e \in focusable : s <= e /\ e <= c
    BY <1>3, <1>4, <1>7
  <2>2. Below(s) = {}
    BY <1>4, <2>1 DEF Below
  <2>3. Keys!Place(s) = 0
    BY <2>2, ControlsCount, FS_EmptySet
  <2>4. Below(c) \cup {c} = focusable /\ c \notin Below(c)
    BY <1>4, <2>1 DEF Below
  <2>5. Keys!Place(c) = Eligible - 1
    <3>1. IsFiniteSet(Below(c)) /\ Keys!Place(c) = Cardinality(Below(c))
      BY ControlsCount
    <3>2. Cardinality(Below(c) \cup {c}) = Cardinality(Below(c)) + 1
      BY <2>4, <3>1, FS_AddElement
    <3>3. Eligible = Keys!Place(c) + 1
      BY <2>4, <3>1, <3>2 DEF Eligible
    <3> QED  BY <1>5, <3>3
  <2> QED  BY <1>1, <2>1, <2>3, <2>5
<1> QED  BY <1>6, <1>7

\* One press back: the place before, around the front to the last.
LEMMA StepBack ==
  ASSUME ControlsTyped, NEW c \in focusable
  PROVE  /\ Keys!Step(c, "prev") \in focusable
         /\ Keys!Place(Keys!Step(c, "prev")) = IF Keys!Place(c) = 0 THEN Eligible - 1 ELSE Keys!Place(c) - 1
<1> DEFINE ahead == {d \in focusable : d < c}
           near == IF ahead = {} THEN focusable ELSE ahead
           s == CHOOSE d \in near : \A e \in near : d >= e
<1>1. Keys!Step(c, "prev") = s
  BY DEF Keys!Step
<1>2. near \in SUBSET focusable /\ near # {}
  OBVIOUS
<1>3. s \in near /\ \A e \in near : s >= e
  <2> HIDE DEF near
  <2> QED  BY <1>2, FirstAndLast
<1>4. \A d \in focusable : d \in Nat
  BY ControlsCount
<1>5. Keys!Place(c) \in 0 .. Eligible - 1 /\ Eligible \in Nat
  BY PlacesBounded, ControlsCount
<1> HIDE DEF s
<1>6. CASE ahead # {}
  <2>1. s \in focusable /\ s < c /\ \A e \in focusable : e < c => s >= e
    BY <1>3, <1>6
  <2>2. Below(c) = Below(s) \cup {s}
    BY <1>4, <2>1 DEF Below
  <2>3. Keys!Place(c) = Keys!Place(s) + 1
    BY <2>1, <2>2, PlacesFollow
  <2>4. Keys!Place(s) \in 0 .. Eligible - 1
    BY <2>1, PlacesBounded
  <2> QED  BY <1>1, <1>5, <2>1, <2>3, <2>4
<1>7. CASE ahead = {}
  <2>1. s \in focusable /\ \A e \in focusable : s >= e
    BY <1>3, <1>4, <1>7
  <2>2. Below(c) = {}
    BY <1>7 DEF Below
  <2>3. Keys!Place(c) = 0
    BY <2>2, ControlsCount, FS_EmptySet
  <2>4. Below(s) \cup {s} = focusable /\ s \notin Below(s)
    BY <1>4, <2>1 DEF Below
  <2>5. Keys!Place(s) = Eligible - 1
    <3>1. IsFiniteSet(Below(s)) /\ Keys!Place(s) = Cardinality(Below(s)) /\ Keys!Place(s) \in Nat
      BY ControlsCount
    <3>2. Cardinality(Below(s) \cup {s}) = Cardinality(Below(s)) + 1
      BY <2>4, <3>1, FS_AddElement
    <3>3. Eligible = Keys!Place(s) + 1
      BY <2>4, <3>1, <3>2 DEF Eligible
    <3> QED  BY <1>5, <3>1, <3>3
  <2> QED  BY <1>1, <2>1, <2>3, <2>5
<1> QED  BY <1>6, <1>7

\* There is a control at every place.
LEMMA PlacesTaken ==
  ASSUME ControlsTyped, NEW k \in 0 .. Eligible - 1
  PROVE  /\ Keys!At(k) \in focusable
         /\ Keys!Place(Keys!At(k)) = k
<1> DEFINE Free == {j \in 0 .. Eligible - 1 : \A c \in focusable : Keys!Place(c) # j}
<1>1. Eligible \in Nat
  BY ControlsCount
<1>2. focusable # {}
  BY <1>1, FS_EmptySet DEF Eligible
<1>3. ASSUME Free # {} PROVE FALSE
  <2>1. PICK j \in Free : \A i \in Free : j <= i
    <3>1. Free \subseteq Nat
      BY <1>1
    <3> HIDE DEF Free
    <3> QED  BY <1>3, <3>1, LeastElement
  <2>2. CASE j = 0
    <3>1. PICK c \in focusable : \A d \in focusable : c <= d
      BY <1>2, FirstAndLast
    <3>2. Below(c) = {}
      BY <3>1, ControlsCount DEF Below
    <3>3. Keys!Place(c) = 0
      BY <3>2, ControlsCount, FS_EmptySet
    <3> QED  BY <2>1, <2>2, <3>3
  <2>3. CASE j # 0
    <3>1. j - 1 \in 0 .. Eligible - 1 /\ j - 1 # Eligible - 1 /\ j - 1 < j /\ j \in Nat
      BY <1>1, <2>1, <2>3
    <3>2. PICK c \in focusable : Keys!Place(c) = j - 1
      BY <2>1, <3>1
    <3>3. Keys!Step(c, "next") \in focusable /\ Keys!Place(Keys!Step(c, "next")) = j - 1 + 1
      BY <3>1, <3>2, StepForward
    <3> QED  BY <2>1, <3>1, <3>3
  <2> QED  BY <2>2, <2>3
<1>4. \E c \in focusable : Keys!Place(c) = k
  BY <1>3
<1> QED  BY <1>4 DEF Keys!At

----------------------------------------------------------------------------
(* The keys: where a batch of directions leads. *)

\* The remainder of the next number.
LEMMA NextRemainder ==
  ASSUME NEW a \in Nat, NEW n \in Nat \ {0}
  PROVE  (a + 1) % n = IF a % n = n - 1 THEN 0 ELSE (a % n) + 1
<1> DEFINE q == a \div n
           r == a % n
           k == (a + 1) \div n
           s == (a + 1) % n
<1>1. q \in Int /\ r \in 0 .. n - 1 /\ a = n * q + r
  OBVIOUS
<1>2. k \in Int /\ s \in 0 .. n - 1 /\ a + 1 = n * k + s
  OBVIOUS
<1> HIDE DEF q, r, k, s
<1>3. n * (k - q) = r + 1 - s /\ k - q \in Int
  BY <1>1, <1>2
<1>4. ASSUME NEW d \in Int, d >= 2 PROVE n * d >= n + n
  BY <1>4
<1>5. ASSUME NEW d \in Int, d <= -1 PROVE n * d <= -n
  BY <1>5
<1>6. k - q \in {0, 1}
  BY <1>1, <1>2, <1>3, <1>4, <1>5
<1>7. s = IF r = n - 1 THEN 0 ELSE r + 1
  <2>1. CASE k - q = 0
    BY <1>1, <1>2, <1>3, <2>1
  <2>2. CASE k - q = 1
    BY <1>1, <1>2, <1>3, <2>2
  <2> QED  BY <1>6, <2>1, <2>2
<1> QED  BY <1>7 DEF r, s

\* What is used of remainders.
LEMMA Remainders ==
  ASSUME NEW n \in Nat \ {0}
  PROVE  /\ \A a \in Nat : a % n \in 0 .. n - 1
         /\ \A a \in 0 .. n - 1 : a % n = a
         /\ \A a \in n .. n + n - 1 : a % n = a - n
OBVIOUS

\* An entry that repeats once more leads one place further.
LEMMA OnePlaceFurther ==
  ASSUME ControlsTyped, focusable # {}, NEW t \in 0 .. Eligible - 1, NEW key \in Keys!Directions, NEW k \in Nat,
         NEW e, e.key = key, e.repeat = k, NEW f, f.key = key, f.repeat = k + 1
  PROVE  /\ Keys!Moved(t, e) \in 0 .. Eligible - 1
         /\ k = 0 => Keys!Moved(t, e) = t
         /\ key = "next" => Keys!Moved(t, f) = IF Keys!Moved(t, e) = Eligible - 1 THEN 0 ELSE Keys!Moved(t, e) + 1
         /\ key = "prev" => Keys!Moved(t, f) = IF Keys!Moved(t, e) = 0 THEN Eligible - 1 ELSE Keys!Moved(t, e) - 1
<1> DEFINE n == Eligible
           q == k % n
           p == (k + 1) % n
<1>1. n \in Nat \ {0} /\ Keys!Cardinality(focusable) = n
  BY ControlsCount
<1>2. q \in 0 .. n - 1 /\ p \in 0 .. n - 1 /\ p = IF q = n - 1 THEN 0 ELSE q + 1
  <2> HIDE DEF n
  <2>1. p = IF q = n - 1 THEN 0 ELSE q + 1
    BY <1>1, NextRemainder, Zenon
  <2>2. k + 1 \in Nat
    OBVIOUS
  <2> QED  BY <1>1, <2>1, <2>2, Remainders, Zenon
<1>3. k = 0 => q = 0
  <2> HIDE DEF n
  <2>1. 0 \in 0 .. n - 1
    BY <1>1
  <2>2. 0 % n = 0
    BY <1>1, <2>1, Remainders, Zenon
  <2> QED  BY <2>2
<1>4. /\ Keys!Moved(t, e) = IF key = "next" THEN (t + q) % n ELSE (t + n - q) % n
      /\ Keys!Moved(t, f) = IF key = "next" THEN (t + p) % n ELSE (t + n - p) % n
  BY <1>1 DEF Keys!Moved
<1>5. t \in 0 .. n - 1
  OBVIOUS
<1> HIDE DEF n, q, p
<1>6. CASE key = "next"
  <2>1. Keys!Moved(t, e) = IF t + q < n THEN t + q ELSE t + q - n
    <3>1. (t + q) % n = IF t + q < n THEN t + q ELSE t + q - n
      BY <1>1, <1>2, <1>5
    <3> QED  BY <1>4, <1>6, <3>1, Zenon
  <2>2. Keys!Moved(t, f) = IF t + p < n THEN t + p ELSE t + p - n
    <3>1. (t + p) % n = IF t + p < n THEN t + p ELSE t + p - n
      BY <1>1, <1>2, <1>5
    <3> QED  BY <1>4, <1>6, <3>1, Zenon
  <2> QED  BY <1>1, <1>2, <1>3, <1>5, <1>6, <2>1, <2>2 DEF n
<1>7. CASE key = "prev"
  <2>1. Keys!Moved(t, e) = IF t + n - q < n THEN t + n - q ELSE t + n - q - n
    <3>1. (t + n - q) % n = IF t + n - q < n THEN t + n - q ELSE t + n - q - n
      BY <1>1, <1>2, <1>5
    <3>2. key # "next"
      BY <1>7
    <3> QED  BY <1>4, <3>1, <3>2, Zenon
  <2>2. Keys!Moved(t, f) = IF t + n - p < n THEN t + n - p ELSE t + n - p - n
    <3>1. (t + n - p) % n = IF t + n - p < n THEN t + n - p ELSE t + n - p - n
      BY <1>1, <1>2, <1>5
    <3>2. key # "next"
      BY <1>7
    <3> QED  BY <1>4, <3>1, <3>2, Zenon
  <2> QED  BY <1>1, <1>2, <1>3, <1>5, <1>7, <2>1, <2>2 DEF n
<1> QED  BY <1>6, <1>7 DEF Keys!Directions

\* An entry leads from a place to a place.
LEMMA MovedIsNumber ==
  ASSUME ControlsTyped, focusable # {}, NEW t \in Nat, NEW e, e.repeat \in Nat
  PROVE  /\ Keys!Moved(t, e) \in Nat
         /\ t \in 0 .. Eligible - 1 => Keys!Moved(t, e) \in 0 .. Eligible - 1
<1> DEFINE n == Eligible
           q == e.repeat % n
<1>1. n \in Nat \ {0} /\ Keys!Cardinality(focusable) = n
  BY ControlsCount
<1>2. Keys!Moved(t, e) = IF e.key = "next" THEN (t + q) % n ELSE (t + n - q) % n
  BY <1>1 DEF Keys!Moved
<1> HIDE DEF n
<1>3. q \in 0 .. n - 1
  BY <1>1, Remainders, Zenon
<1> HIDE DEF q
<1>4. t + q \in Nat /\ t + n - q \in Nat
  BY <1>1, <1>3
<1>5. (t + q) % n \in 0 .. n - 1 /\ (t + n - q) % n \in 0 .. n - 1
  BY <1>1, <1>4, Remainders, Zenon
<1> QED  BY <1>1, <1>2, <1>5 DEF n

\* A function given by its first value and by each next one exists.
LEMMA ByRecursion ==
  \A last \in Nat : \A start \in Nat, G \in [1 .. last -> [Nat -> Nat]] :
    \E f \in [0 .. last -> Nat] : f[0] = start /\ \A i \in 1 .. last : f[i] = G[i][f[i - 1]]
<1> TAKE last \in Nat
<1> TAKE start \in Nat, G \in [1 .. last -> [Nat -> Nat]]
<1> DEFINE Upto(n) == \E f \in [0 .. n -> Nat] : f[0] = start /\ \A i \in 1 .. n : f[i] = G[i][f[i - 1]]
           Short == {n \in 0 .. last : ~Upto(n)}
<1>1. ASSUME Short # {} PROVE FALSE
  <2>1. PICK n \in Short : \A m \in Short : n <= m
    <3>1. Short \subseteq Nat
      OBVIOUS
    <3> HIDE DEF Short
    <3> QED  BY <1>1, <3>1, LeastElement
  <2>2. CASE n = 0
    <3>1. [i \in 0 .. 0 |-> start] \in [0 .. 0 -> Nat] /\ [i \in 0 .. 0 |-> start][0] = start
      OBVIOUS
    <3>2. \A i \in 1 .. 0 : FALSE
      OBVIOUS
    <3>3. Upto(0)
      BY <3>1, <3>2
    <3> QED  BY <2>1, <2>2, <3>3
  <2>3. CASE n # 0
    <3>1. n \in 1 .. last /\ n - 1 \in 0 .. last /\ n - 1 < n
      BY <2>1, <2>3
    <3>2. Upto(n - 1)
      <4>1. n - 1 \notin Short
        <5>1. n \in Nat /\ ~(n <= n - 1)
          BY <3>1
        <5> HIDE DEF Short
        <5> QED  BY <2>1, <5>1
      <4> QED  BY <3>1, <4>1
    <3>3. PICK f \in [0 .. n - 1 -> Nat] : f[0] = start /\ \A i \in 1 .. n - 1 : f[i] = G[i][f[i - 1]]
      BY <3>2
    <3> DEFINE g == [i \in 0 .. n |-> IF i = n THEN G[n][f[n - 1]] ELSE f[i]]
    <3>4. f[n - 1] \in Nat
      BY <3>1
    <3>5. G[n][f[n - 1]] \in Nat
      BY <3>1, <3>4
    <3>6. g \in [0 .. n -> Nat]
      <4>1. ASSUME NEW i \in 0 .. n PROVE (IF i = n THEN G[n][f[n - 1]] ELSE f[i]) \in Nat
        <5>1. i # n => i \in 0 .. n - 1
          BY <3>1
        <5> QED  BY <3>5, <5>1
      <4> QED  BY <4>1
    <3>7. g[0] = start
      BY <3>1, <3>3
    <3>8. ASSUME NEW i \in 1 .. n PROVE g[i] = G[i][g[i - 1]]
      <4>1. i - 1 \in 0 .. n /\ i - 1 # n /\ i \in 0 .. n
        BY <3>1
      <4>2. g[i - 1] = f[i - 1]
        BY <4>1
      <4>3. CASE i = n
        BY <4>1, <4>2, <4>3
      <4>4. CASE i # n
        <5>1. i \in 1 .. n - 1
          BY <3>1, <4>4
        <5> QED  BY <3>3, <4>1, <4>2, <4>4, <5>1
      <4> QED  BY <4>3, <4>4
    <3>9. Upto(n)
      <4> HIDE DEF g
      <4> QED  BY <3>6, <3>7, <3>8
    <3> QED  BY <2>1, <3>9
  <2> QED  BY <2>2, <2>3
<1>2. last \in 0 .. last
  OBVIOUS
<1>3. Upto(last)
  BY <1>1, <1>2
<1> QED  BY <1>3

Start == IF focus \in focusable THEN Keys!Place(focus) ELSE 0

\* Where the batch leads, entry by entry.
LEMMA LandingUnfolds ==
  ASSUME ControlsTyped, focusable # {}, batch \in Seq(Entries), \A i \in DOMAIN batch : batch[i].key \in Keys!Directions
  PROVE  /\ Keys!landing[0] = Start
         /\ \A i \in 1 .. Len(batch) : Keys!landing[i] = Keys!Moved(Keys!landing[i - 1], batch[i])
         /\ \A i \in 0 .. Len(batch) : Keys!landing[i] \in 0 .. Eligible - 1
<1> DEFINE last == Len(batch)
           D == 0 .. Eligible - 1
           G == [i \in 1 .. last |-> [x \in Nat |-> Keys!Moved(x, batch[i])]]
           Landing(f) == [i \in 0 .. Len(batch) |-> IF i = 0 THEN IF focus \in focusable THEN Keys!Place(focus) ELSE 0
                                                    ELSE Keys!Moved(f[i - 1], batch[i])]
<1>1. last \in Nat /\ Eligible \in Nat /\ Eligible >= 1 /\ DOMAIN batch = 1 .. last
  BY ControlsCount
<1>2. Start \in D
  BY <1>1, PlacesBounded DEF Start
<1>3. ASSUME NEW x \in D, NEW i \in 1 .. last PROVE Keys!Moved(x, batch[i]) \in D
  <2>1. batch[i].key \in Keys!Directions /\ batch[i].repeat \in Nat
    BY <1>1, Repeats
  <2> QED  BY <1>1, <2>1, MovedIsNumber
<1>4. G \in [1 .. last -> [Nat -> Nat]]
  <2>1. ASSUME NEW x \in Nat, NEW i \in 1 .. last PROVE Keys!Moved(x, batch[i]) \in Nat
    <3>1. batch[i].repeat \in Nat
      BY <1>1, Repeats
    <3> QED  BY <3>1, MovedIsNumber
  <2> QED  BY <2>1
<1>5. PICK f \in [0 .. last -> Nat] : f[0] = Start /\ \A i \in 1 .. last : f[i] = G[i][f[i - 1]]
  <2>1. Start \in Nat
    BY <1>1, <1>2
  <2> HIDE DEF last, D, G
  <2> QED  BY <1>1, <1>4, <2>1, ByRecursion
<1>6. f = Landing(f)
  <2>1. ASSUME NEW i \in 0 .. last PROVE f[i] = Landing(f)[i]
    <3>1. CASE i = 0
      BY <1>5, <3>1 DEF Start
    <3>2. CASE i # 0
      <4>1. i \in 1 .. last /\ i - 1 \in 0 .. last
        BY <1>1, <3>2
      <4>2. f[i - 1] \in Nat
        BY <4>1
      <4>3. f[i] = Keys!Moved(f[i - 1], batch[i])
        BY <1>5, <4>1, <4>2
      <4> QED  BY <3>2, <4>3
    <3> QED  BY <3>1, <3>2
  <2> QED  BY <2>1
<1>7. Keys!landing = Landing(Keys!landing)
  <2>1. Keys!landing = CHOOSE h : h = Landing(h)
    BY DEF Keys!landing
  <2> HIDE DEF Landing
  <2> QED  BY <1>6, <2>1
<1>8. \A i \in 0 .. last : Keys!landing[i] = IF i = 0 THEN Start ELSE Keys!Moved(Keys!landing[i - 1], batch[i])
  BY <1>7 DEF Start
<1>9. Keys!landing[0] = Start
  BY <1>1, <1>8
<1>10. \A i \in 1 .. last : Keys!landing[i] = Keys!Moved(Keys!landing[i - 1], batch[i])
  BY <1>1, <1>8
<1> DEFINE Out == {i \in 0 .. last : Keys!landing[i] \notin D}
<1>11. ASSUME Out # {} PROVE FALSE
  <2>1. PICK i \in Out : \A j \in Out : i <= j
    <3>1. Out \subseteq Nat
      BY <1>1
    <3> HIDE DEF Out
    <3> QED  BY <1>11, <3>1, LeastElement
  <2>2. i # 0
    BY <1>2, <1>9, <2>1
  <2>3. i \in 1 .. last /\ i - 1 \in 0 .. last /\ i - 1 < i
    BY <1>1, <2>1, <2>2
  <2>4. Keys!landing[i - 1] \in D
    BY <2>1, <2>3
  <2>5. Keys!landing[i] \in D
    BY <1>3, <1>10, <2>3, <2>4
  <2> QED  BY <2>1, <2>5
<1> QED  BY <1>9, <1>10, <1>11

----------------------------------------------------------------------------
(* The keys: where the presses of a batch lead one after the other. *)

\* A press leads to a control that can be focused.
LEMMA StepIsControl ==
  ASSUME ControlsTyped, focusable # {}, NEW c, NEW key
  PROVE  Keys!Step(c, key) \in focusable
<1> DEFINE ahead == {d \in focusable : IF key = "next" THEN d > c ELSE d < c}
           near == IF ahead = {} THEN focusable ELSE ahead
<1>1. near \in SUBSET focusable /\ near # {}
  OBVIOUS
<1>2. Keys!Step(c, key) = CHOOSE d \in near : \A e \in near : IF key = "next" THEN d <= e ELSE d >= e
  BY DEF Keys!Step
<1> HIDE DEF near
<1>3. \E d \in near : \A e \in near : IF key = "next" THEN d <= e ELSE d >= e
  BY <1>1, FirstAndLast
<1> QED  BY <1>1, <1>2, <1>3

\* The walk of the presses is the function its definition says it is.
LEMMA WalkUnfolds ==
  ASSUME ControlsTyped, focus \in focusable, Keys!Count \in Nat
  PROVE  /\ Keys!walked[0] = focus
         /\ \A p \in 1 .. Keys!Count : Keys!walked[p] = Keys!Step(Keys!walked[p - 1], presses[p].key)
<1> DEFINE last == Keys!Count
           G == [p \in 1 .. last |-> [x \in Nat |-> Keys!Step(x, presses[p].key)]]
           Walk(f) == [p \in 0 .. Keys!Count |-> IF p = 0 THEN focus ELSE Keys!Step(f[p - 1], presses[p].key)]
<1>1. last \in Nat /\ focus \in Nat /\ \A c \in focusable : c \in Nat
  BY ControlsCount
<1>2. G \in [1 .. last -> [Nat -> Nat]]
  BY <1>1, StepIsControl
<1>3. PICK f \in [0 .. last -> Nat] : f[0] = focus /\ \A p \in 1 .. last : f[p] = G[p][f[p - 1]]
  <2> HIDE DEF last, G
  <2> QED  BY <1>1, <1>2, ByRecursion
<1>4. f = Walk(f)
  <2>1. ASSUME NEW p \in 0 .. last PROVE f[p] = Walk(f)[p]
    <3>1. CASE p = 0
      BY <1>3, <3>1
    <3>2. CASE p # 0
      <4>1. p \in 1 .. last /\ p - 1 \in 0 .. last
        BY <1>1, <3>2
      <4>2. f[p - 1] \in Nat
        BY <4>1
      <4>3. f[p] = Keys!Step(f[p - 1], presses[p].key)
        BY <1>3, <4>1, <4>2
      <4> QED  BY <3>2, <4>3
    <3> QED  BY <3>1, <3>2
  <2> QED  BY <2>1
<1>5. Keys!walked = Walk(Keys!walked)
  <2>1. Keys!walked = CHOOSE h : h = Walk(h)
    BY DEF Keys!walked
  <2> HIDE DEF Walk
  <2> QED  BY <1>4, <2>1
<1>6. \A p \in 0 .. last :
        Keys!walked[p] = IF p = 0 THEN focus ELSE Keys!Step(Keys!walked[p - 1], presses[p].key)
  BY <1>5
<1> QED  BY <1>1, <1>6

\* What the batch's entries stand for is what waits first.
LEMMA BatchIsFirst ==
  ASSUME batch \in Seq(Entries), key_queue \in Seq(Entries), Ordered(batch \o key_queue, presses),
         NEW i \in 1 .. Len(batch)
  PROVE  \A p \in Keys!Presses(batch, i - 1) + 1 .. Keys!Presses(batch, i) : presses[p].key = batch[i].key
<1> DEFINE entries == batch \o key_queue
<1>1. entries \in Seq(Entries) /\ Len(entries) = Len(batch) + Len(key_queue)
      /\ \A j \in 1 .. Len(batch) + Len(key_queue) :
           entries[j] = IF j <= Len(batch) THEN batch[j] ELSE key_queue[j - Len(batch)]
  BY ConcatProperties
<1>2. Len(batch) \in Nat /\ Len(key_queue) \in Nat
  OBVIOUS
<1> HIDE DEF entries
<1>3. \A j \in 1 .. Len(batch) : j \in 1 .. Len(entries) /\ entries[j] = batch[j]
  BY <1>1, <1>2
<1>4. ASSUME NEW m \in 0 .. Len(batch) PROVE Keys!Presses(entries, m) = Keys!Presses(batch, m)
  <2>1. m \in Nat /\ \A j \in 1 .. m : entries[j].repeat = batch[j].repeat
    BY <1>2, <1>3
  <2> QED  BY <2>1, PressesSame
<1>5. i - 1 \in 0 .. Len(batch) /\ i \in 0 .. Len(batch) /\ i \in DOMAIN entries
  BY <1>1, <1>2, <1>3
<1>6. Ordered(entries, presses)
  BY DEF entries
<1> QED  BY <1>3, <1>4, <1>5, <1>6 DEF Ordered

\* The presses of one entry lead where the entry does.
LEMMA EntryWalked ==
  ASSUME ControlsTyped, focus \in focusable,
         batch \in Seq(Entries), key_queue \in Seq(Entries), Ordered(batch \o key_queue, presses),
         NEW i \in 1 .. Len(batch), batch[i].key \in Keys!Directions,
         Keys!walked[Keys!Presses(batch, i - 1)] \in focusable
  PROVE  /\ Keys!walked[Keys!Presses(batch, i)] \in focusable
         /\ Keys!Place(Keys!walked[Keys!Presses(batch, i)]) =
              Keys!Moved(Keys!Place(Keys!walked[Keys!Presses(batch, i - 1)]), batch[i])
<1> DEFINE s == Keys!Presses(batch, i - 1)
           r == batch[i].repeat
           key == batch[i].key
           t == Keys!Place(Keys!walked[s])
           E(k) == [key |-> key, repeat |-> k]
           Astray == {k \in 0 .. r : ~(/\ Keys!walked[s + k] \in focusable
                                       /\ Keys!Place(Keys!walked[s + k]) = Keys!Moved(t, E(k)))}
<1>1. s \in Nat /\ r \in Nat /\ Keys!Presses(batch, i) = s + r /\ s + r <= Keys!Count /\ Keys!Count \in Nat
  BY Repeats DEF Keys!Count
<1>2. focusable # {} /\ t \in 0 .. Eligible - 1 /\ key \in Keys!Directions
  BY PlacesBounded
<1>3. \A p \in 1 .. Keys!Count : Keys!walked[p] = Keys!Step(Keys!walked[p - 1], presses[p].key)
  BY <1>1, WalkUnfolds
<1>4. \A p \in s + 1 .. s + r : presses[p].key = key
  BY <1>1, BatchIsFirst
<1>5. \A k : E(k).key = key /\ E(k).repeat = k
  OBVIOUS
<1> HIDE DEF s, r, key, t, E
<1>6. ASSUME Astray # {} PROVE FALSE
  <2>1. PICK k \in Astray : \A j \in Astray : k <= j
    <3>1. Astray \subseteq Nat
      BY <1>1
    <3> HIDE DEF Astray
    <3> QED  BY <1>6, <3>1, LeastElement
  <2>2. CASE k = 0
    <3>1. Keys!Moved(t, E(0)) = t
      <4>1. E(0).key = key /\ E(0).repeat = 0 /\ E(1).key = key /\ E(1).repeat = 0 + 1
        BY <1>5
      <4> QED  BY <1>2, <4>1, OnePlaceFurther
    <3>2. s + 0 = s
      BY <1>1
    <3>3. Keys!walked[s] \in focusable /\ Keys!Place(Keys!walked[s]) = t
      BY DEF s, t
    <3> QED  BY <2>1, <2>2, <3>1, <3>2, <3>3
  <2>3. CASE k # 0
    <3>1. k - 1 \in 0 .. r /\ ~(k <= k - 1) /\ k - 1 + 1 = k /\ k \in 0 .. r /\ k - 1 \in Nat
          /\ s + k \in s + 1 .. s + r /\ s + k \in 1 .. Keys!Count
      BY <1>1, <2>1, <2>3
    <3> DEFINE c == Keys!walked[s + (k - 1)]
    <3>2. c \in focusable /\ Keys!Place(c) = Keys!Moved(t, E(k - 1))
      BY <2>1, <3>1
    <3>3. Keys!walked[s + k] = Keys!Step(c, key)
      <4>1. PICK p \in 1 .. Keys!Count : p = s + k
        BY <3>1
      <4>2. p \in s + 1 .. s + r
        BY <3>1, <4>1
      <4>3. p - 1 = s + (k - 1)
        BY <1>1, <3>1, <4>1
      <4>4. Keys!walked[p] = Keys!Step(Keys!walked[p - 1], presses[p].key) /\ presses[p].key = key
        BY <1>3, <1>4, <4>1, <4>2
      <4> QED  BY <4>1, <4>3, <4>4
    <3>4. E(k - 1).key = key /\ E(k - 1).repeat = k - 1 /\ E(k).key = key /\ E(k).repeat = k - 1 + 1
      BY <1>5, <3>1
    <3>5. /\ key = "next" => Keys!Moved(t, E(k)) = IF Keys!Moved(t, E(k - 1)) = Eligible - 1 THEN 0
                                                   ELSE Keys!Moved(t, E(k - 1)) + 1
          /\ key = "prev" => Keys!Moved(t, E(k)) = IF Keys!Moved(t, E(k - 1)) = 0 THEN Eligible - 1
                                                   ELSE Keys!Moved(t, E(k - 1)) - 1
      BY <1>2, <3>1, <3>4, OnePlaceFurther
    <3> HIDE DEF c
    <3>6. CASE key = "next"
      BY <2>1, <3>2, <3>3, <3>5, <3>6, StepForward
    <3>7. CASE key = "prev"
      BY <2>1, <3>2, <3>3, <3>5, <3>7, StepBack
    <3> QED  BY <1>2, <3>6, <3>7 DEF Keys!Directions
  <2> QED  BY <2>2, <2>3
<1>7. r \in 0 .. r
  BY <1>1
<1>8. Keys!walked[s + r] \in focusable /\ Keys!Place(Keys!walked[s + r]) = Keys!Moved(t, E(r))
  BY <1>6, <1>7
<1>9. Keys!Moved(t, E(r)) = Keys!Moved(t, batch[i])
  BY <1>5 DEF Keys!Moved, r, key
<1> QED  BY <1>1, <1>8, <1>9 DEF s, t

\* A whole batch leads where its presses do.
LEMMA BatchWalked ==
  ASSUME ControlsTyped, focus \in focusable,
         batch \in Seq(Entries), key_queue \in Seq(Entries), Ordered(batch \o key_queue, presses),
         \A i \in DOMAIN batch : batch[i].key \in Keys!Directions
  PROVE  Keys!move_focus = Keys!walked[Keys!Count]
<1> DEFINE Astray == {i \in 0 .. Len(batch) : ~(/\ Keys!walked[Keys!Presses(batch, i)] \in focusable
                                                /\ Keys!Place(Keys!walked[Keys!Presses(batch, i)]) = Keys!landing[i])}
<1>1. Len(batch) \in Nat /\ DOMAIN batch = 1 .. Len(batch) /\ Keys!Count = Keys!Presses(batch, Len(batch))
      /\ Keys!Count \in Nat
  BY Repeats DEF Keys!Count
<1>2. Keys!landing[0] = Keys!Place(focus)
      /\ \A i \in 1 .. Len(batch) : Keys!landing[i] = Keys!Moved(Keys!landing[i - 1], batch[i])
  BY LandingUnfolds DEF Start
<1>3. ASSUME Astray # {} PROVE FALSE
  <2>1. PICK i \in Astray : \A j \in Astray : i <= j
    <3>1. Astray \subseteq Nat
      BY <1>1
    <3> HIDE DEF Astray
    <3> QED  BY <1>3, <3>1, LeastElement
  <2>2. CASE i = 0
    <3>1. Keys!Presses(batch, 0) = 0
      <4>1. Units(batch, 0) = {}
        BY DEF Units
      <4> QED  BY <4>1, PressesAreFinite, FS_EmptySet
    <3>2. Keys!walked[0] = focus
      BY <1>1, WalkUnfolds
    <3> QED  BY <1>2, <2>1, <2>2, <3>1, <3>2
  <2>3. CASE i # 0
    <3>1. i - 1 \in 0 .. Len(batch) /\ ~(i <= i - 1) /\ i \in 1 .. Len(batch)
      BY <1>1, <2>1, <2>3
    <3>2. Keys!walked[Keys!Presses(batch, i - 1)] \in focusable
          /\ Keys!Place(Keys!walked[Keys!Presses(batch, i - 1)]) = Keys!landing[i - 1]
      BY <2>1, <3>1
    <3>3. Keys!walked[Keys!Presses(batch, i)] \in focusable
          /\ Keys!Place(Keys!walked[Keys!Presses(batch, i)]) = Keys!Moved(Keys!landing[i - 1], batch[i])
      <4>1. batch[i].key \in Keys!Directions
        BY <1>1, <3>1
      <4> HIDE DEF Astray
      <4> QED  BY <3>1, <3>2, <4>1, EntryWalked
    <3> QED  BY <1>2, <2>1, <3>1, <3>3
  <2> QED  BY <2>2, <2>3
<1>4. Len(batch) \in 0 .. Len(batch)
  BY <1>1
<1>5. Keys!walked[Keys!Count] \in focusable /\ Keys!Place(Keys!walked[Keys!Count]) = Keys!landing[Len(batch)]
  BY <1>1, <1>3, <1>4
<1>6. Keys!move_focus = Keys!At(Keys!landing[Len(batch)])
  BY DEF Keys!move_focus
<1> QED  BY <1>5, <1>6, AtItsPlace

\* The focus stays within the controls.
LEMMA FocusIsControl ==
  ASSUME ControlsTyped, focus \in Keys!Control, batch \in Seq(Entries),
         \A i \in DOMAIN batch : batch[i].key \in Keys!Directions
  PROVE  Keys!move_focus \in Keys!Control
<1>1. CASE focusable = {}
  BY <1>1 DEF Keys!move_focus
<1>2. CASE focusable # {}
  <2>1. Len(batch) \in 0 .. Len(batch)
    OBVIOUS
  <2>2. Keys!landing[Len(batch)] \in 0 .. Eligible - 1
    BY <1>2, <2>1, LandingUnfolds
  <2>3. Keys!At(Keys!landing[Len(batch)]) \in focusable
    BY <2>2, PlacesTaken
  <2> QED  BY <1>2, <2>3 DEF Keys!move_focus, ControlsTyped
<1> QED  BY <1>1, <1>2

----------------------------------------------------------------------------
(* The keys: the ring and the batch in hand stand for the presses that wait. *)

Slots == [key : Keys!Keys, repeat : 1 .. MaxRepeat]

QueueTyped == key_queue \in Seq(Slots) /\ Len(key_queue) <= Capacity
KeyFlags == release_pending \in BOOLEAN /\ dispatch_barrier \in BOOLEAN /\ navigation \in BOOLEAN
SurfaceTyped ==
  /\ at \in {"idle", "read", "take", "dispatch", "release", "barrier", "raise"}
  /\ shown \in {"page", "prompt"}
  /\ focusable \subseteq Keys!Control /\ focus \in Keys!Control

\* There is a batch only while it is handed out, and it begins with the entry looked at,
\* which no press can take away or change in between.
BatchInHand ==
  /\ at # "dispatch" => batch = <<>>
  /\ at \in {"read", "take"} => key_queue # <<>>
  /\ at = "take" => key_queue[1].key = first
  /\ at = "dispatch" => /\ batch # <<>> /\ batch[1].key = first
                        /\ Len(batch) = 1 \/ \A i \in DOMAIN batch : batch[i].key \in Keys!Directions

InOrder == Ordered(batch \o key_queue, presses)

OrderInv == QueueTyped /\ KeyFlags /\ SurfaceTyped /\ BatchInHand /\ InOrder

\* What the invariant says of the sequences, and of their concatenation.
LEMMA WaitingTyped ==
  ASSUME KeysInv, OrderInv
  PROVE  /\ key_queue \in Seq(Slots) /\ key_queue \in Seq(Entries) /\ batch \in Seq(Entries)
         /\ presses \in Seq(Pressed) /\ batch \o key_queue \in Seq(Entries)
         /\ Len(key_queue) \in Nat /\ Len(batch) \in Nat /\ Len(presses) \in Nat
         /\ Len(batch \o key_queue) = Len(batch) + Len(key_queue)
         /\ \A i \in 1 .. Len(batch) + Len(key_queue) :
              (batch \o key_queue)[i] = IF i <= Len(batch) THEN batch[i] ELSE key_queue[i - Len(batch)]
<1>1. key_queue \in Seq(Slots) /\ key_queue \in Seq(Entries) /\ batch \in Seq(Entries) /\ presses \in Seq(Pressed)
  BY DEF KeysInv, KeysTyped, OrderInv, QueueTyped
<1> QED  BY <1>1, ConcatProperties

\* A press that has an entry of its own.
LEMMA OrderAppend ==
  ASSUME KeysInv, OrderInv, NEW key \in Keys!Keys, Len(key_queue) < Capacity,
         key_queue' = Append(key_queue, [key |-> key, repeat |-> 1]), Keys!Accepted(key),
         UNCHANGED Keys!read, UNCHANGED Keys!surface, UNCHANGED navigation
  PROVE  OrderInv'
<1> DEFINE e == [key |-> key, repeat |-> 1]
           x == [key |-> key, on |-> shown]
           entries == batch \o key_queue
<1>1. QueueTyped /\ KeyFlags /\ SurfaceTyped /\ BatchInHand /\ InOrder
  BY DEF OrderInv
<1>2. e \in Slots /\ e \in Entries /\ x \in Pressed /\ x.key = e.key /\ e.repeat = 1
  BY <1>1, PartsAssumption DEF Slots, Entries, Pressed, SurfaceTyped
<1>3. key_queue' = Append(key_queue, e) /\ presses' = Append(presses, x)
      /\ UNCHANGED <<at, first, batch, release_pending, dispatch_barrier, shown, focusable, focus>>
  BY DEF Keys!Accepted, Keys!read, Keys!surface
<1> HIDE DEF e, x
<1>4. key_queue' \in Seq(Slots) /\ key_queue' \in Seq(Entries) /\ Len(key_queue') = Len(key_queue) + 1
      /\ key_queue'[Len(key_queue) + 1] = e /\ \A i \in 1 .. Len(key_queue) : key_queue'[i] = key_queue[i]
  <2>1. key_queue \in Seq(Slots) /\ key_queue \in Seq(Entries)
    BY WaitingTyped
  <2> QED  BY <1>2, <1>3, <2>1, AppendProperties
<1>5. QueueTyped'
  BY <1>4, WaitingTyped, PartsAssumption DEF QueueTyped
<1>6. KeyFlags' /\ SurfaceTyped'
  BY <1>1, <1>3 DEF KeyFlags, SurfaceTyped
<1>7. BatchInHand'
  <2>1. key_queue' # <<>> /\ (key_queue # <<>> => key_queue'[1] = key_queue[1])
    <3>1. Len(key_queue) \in Nat /\ (key_queue # <<>> => 1 \in 1 .. Len(key_queue))
      BY WaitingTyped
    <3> QED  BY <1>4, <3>1
  <2> QED  BY <1>1, <1>3, <2>1 DEF BatchInHand
<1>8. InOrder'
  <2>1. entries \in Seq(Entries) /\ Append(entries, e) \in Seq(Entries)
        /\ Len(Append(entries, e)) = Len(batch) + Len(key_queue) + 1
        /\ Append(entries, e)[Len(batch) + Len(key_queue) + 1] = e
        /\ \A i \in 1 .. Len(batch) + Len(key_queue) : Append(entries, e)[i] = entries[i]
    <3>1. entries \in Seq(Entries) /\ Len(entries) = Len(batch) + Len(key_queue)
      BY WaitingTyped
    <3> HIDE DEF entries
    <3> QED  BY <1>2, <3>1, AppendProperties
  <2>2. /\ batch \o key_queue' \in Seq(Entries) /\ Len(batch \o key_queue') = Len(batch) + Len(key_queue')
        /\ \A i \in 1 .. Len(batch) + Len(key_queue') :
              (batch \o key_queue')[i] = IF i <= Len(batch) THEN batch[i] ELSE key_queue'[i - Len(batch)]
    <3>1. batch \in Seq(Entries) /\ key_queue' \in Seq(Entries)
      BY <1>4, WaitingTyped
    <3> QED  BY <3>1, ConcatProperties
  <2>3. batch \o key_queue' = Append(entries, e)
    <3>1. Len(batch \o key_queue') = Len(batch) + Len(key_queue) + 1
      BY <1>4, <2>2, WaitingTyped
    <3>2. ASSUME NEW i \in 1 .. Len(batch) + Len(key_queue) + 1
          PROVE  (batch \o key_queue')[i] = Append(entries, e)[i]
      <4>1. Len(batch) \in Nat /\ Len(key_queue) \in Nat /\ i \in Nat /\ i \in 1 .. Len(batch) + Len(key_queue')
        BY <1>4, WaitingTyped
      <4>2. CASE i = Len(batch) + Len(key_queue) + 1
        <5>1. ~(i <= Len(batch)) /\ i - Len(batch) = Len(key_queue) + 1
          BY <4>1, <4>2
        <5> QED  BY <1>4, <2>1, <2>2, <4>1, <4>2, <5>1
      <4>3. CASE i # Len(batch) + Len(key_queue) + 1
        <5>1. i \in 1 .. Len(batch) + Len(key_queue)
          BY <4>1, <4>3
        <5>2. Append(entries, e)[i] = IF i <= Len(batch) THEN batch[i] ELSE key_queue[i - Len(batch)]
          BY <2>1, <5>1, WaitingTyped
        <5>3. ~(i <= Len(batch)) => i - Len(batch) \in 1 .. Len(key_queue)
          BY <4>1, <5>1
        <5> QED  BY <1>4, <2>2, <4>1, <5>2, <5>3
      <4> QED  BY <4>2, <4>3
    <3> HIDE DEF entries
    <3> QED  BY <2>1, <2>2, <3>1, <3>2, SeqEqual
  <2>4. Ordered(Append(entries, e), Append(presses, x))
    <3>1. Ordered(entries, presses)
      BY <1>1 DEF InOrder
    <3> HIDE DEF entries
    <3> QED  BY <1>2, <2>1, <3>1, WaitingTyped, OneEntryMore
  <2> QED  BY <1>3, <2>3, <2>4 DEF InOrder
<1> QED  BY <1>5, <1>6, <1>7, <1>8 DEF OrderInv

\* A press that is counted with the last entry.
LEMMA OrderCount ==
  ASSUME KeysInv, OrderInv, NEW key \in Keys!Keys, key_queue # <<>>,
         Keys!Last(key_queue).key = key, Keys!Last(key_queue).repeat < MaxRepeat,
         key_queue' = [key_queue EXCEPT ![Len(key_queue)].repeat = @ + 1], Keys!Accepted(key),
         UNCHANGED Keys!read, UNCHANGED Keys!surface, UNCHANGED navigation
  PROVE  OrderInv'
<1> DEFINE m == Len(key_queue)
           last == key_queue[m]
           more == [last EXCEPT !.repeat = @ + 1]
           x == [key |-> key, on |-> shown]
           n == Len(batch) + m
<1>1. QueueTyped /\ KeyFlags /\ SurfaceTyped /\ BatchInHand /\ InOrder
  BY DEF OrderInv
<1>2. m \in 1 .. m /\ m \in Nat /\ last \in Slots /\ last.key = key /\ last.repeat < MaxRepeat /\ Len(batch) \in Nat
  BY WaitingTyped DEF Keys!Last
<1>3. more \in Slots /\ more.key = key /\ more.repeat = last.repeat + 1 /\ x \in Pressed /\ x.key = key
  BY <1>1, <1>2, PartsAssumption DEF Slots, Pressed, SurfaceTyped
<1>4. key_queue' = [key_queue EXCEPT ![m] = more] /\ presses' = Append(presses, x)
      /\ UNCHANGED <<at, first, batch, release_pending, dispatch_barrier, shown, focusable, focus>>
  BY DEF Keys!Accepted, Keys!read, Keys!surface
<1> HIDE DEF more, x
<1>5. key_queue' \in Seq(Slots) /\ Len(key_queue') = m
      /\ \A j \in 1 .. m : key_queue'[j] = IF j = m THEN more ELSE key_queue[j]
  <2>1. key_queue \in Seq(Slots)
    BY WaitingTyped
  <2>2. m \in 1 .. Len(key_queue) /\ more \in Slots
    BY <1>2, <1>3
  <2>3. [key_queue EXCEPT ![m] = more] \in Seq(Slots) /\ Len([key_queue EXCEPT ![m] = more]) = Len(key_queue)
        /\ \A j \in 1 .. Len(key_queue) : [key_queue EXCEPT ![m] = more][j] = IF j = m THEN more ELSE key_queue[j]
    <3> HIDE DEF m
    <3> QED  BY <2>1, <2>2, ExceptSeq
  <2> QED  BY <1>4, <2>3
<1>6. QueueTyped'
  BY <1>1, <1>5 DEF QueueTyped
<1>7. KeyFlags' /\ SurfaceTyped'
  BY <1>1, <1>4 DEF KeyFlags, SurfaceTyped
<1>8. BatchInHand'
  <2>1. key_queue' # <<>> /\ key_queue'[1].key = key_queue[1].key
    <3>1. 1 \in 1 .. m /\ m # 0
      BY <1>2
    <3>2. key_queue'[1].key = key_queue[1].key
      BY <1>2, <1>3, <1>5, <3>1
    <3>3. key_queue' # <<>>
      BY <1>5, <3>1
    <3> QED  BY <3>2, <3>3
  <2> QED  BY <1>1, <1>4, <2>1 DEF BatchInHand
<1>9. InOrder'
  <2> DEFINE entries == batch \o key_queue
             counted == batch \o key_queue'
  <2>1. entries \in Seq(Entries) /\ Len(entries) = n /\ n \in Nat /\ n # 0
        /\ \A i \in 1 .. n : entries[i] = IF i <= Len(batch) THEN batch[i] ELSE key_queue[i - Len(batch)]
    BY <1>2, WaitingTyped
  <2>2. counted \in Seq(Entries) /\ Len(counted) = n
        /\ \A i \in 1 .. n : counted[i] = IF i <= Len(batch) THEN batch[i] ELSE key_queue'[i - Len(batch)]
    <3>1. key_queue' \in Seq(Entries)
      <4>1. Slots \subseteq Entries
        BY PartsAssumption DEF Slots, Entries
      <4> QED  BY <1>5, <4>1, SeqMonotonic
    <3>2. batch \in Seq(Entries)
      BY WaitingTyped
    <3> QED  BY <1>5, <3>1, <3>2, ConcatProperties
  <2> HIDE DEF entries, counted
  <2>3. n \in 1 .. n /\ ~(n <= Len(batch)) /\ n - Len(batch) = m
    BY <1>2
  <2>4. entries[n] = last /\ counted[n] = more
    BY <1>2, <1>5, <2>1, <2>2, <2>3
  <2>5. ASSUME NEW i \in 1 .. n - 1 PROVE counted[i] = entries[i]
    <3>1. i \in 1 .. n /\ (~(i <= Len(batch)) => i - Len(batch) \in 1 .. m /\ i - Len(batch) # m)
      BY <1>2
    <3> QED  BY <1>5, <2>1, <2>2, <3>1
  <2>6. Ordered(entries, presses)
    BY <1>1 DEF InOrder, entries
  <2>7. Ordered(counted, Append(presses, x))
    <3>1. presses \in Seq(Pressed)
      BY WaitingTyped
    <3> HIDE DEF n, last
    <3> QED  BY <1>2, <1>3, <2>1, <2>2, <2>4, <2>5, <2>6, <3>1, OnePressMore
  <2> QED  BY <1>4, <2>7 DEF InOrder, counted
<1> QED  BY <1>6, <1>7, <1>8, <1>9 DEF OrderInv

\* A press is counted, gets an entry of its own, or is rejected by the full ring.
LEMMA OrderPost ==
  ASSUME KeysInv, OrderInv, NEW key \in Keys!Keys, Keys!action_post(key)
  PROVE  OrderInv'
<1>1. UNCHANGED Keys!read /\ UNCHANGED Keys!surface /\ UNCHANGED navigation
  BY DEF Keys!action_post
<1>2. CASE /\ key_queue # <<>> /\ Keys!Last(key_queue).key = key /\ Keys!Last(key_queue).repeat < MaxRepeat
           /\ key_queue' = [key_queue EXCEPT ![Len(key_queue)].repeat = @ + 1] /\ Keys!Accepted(key)
  BY <1>1, <1>2, OrderCount
<1>3. CASE /\ Len(key_queue) < Capacity /\ Keys!Accepted(key)
           /\ key_queue' = Append(key_queue, [key |-> key, repeat |-> 1])
  BY <1>1, <1>3, OrderAppend
<1>4. CASE UNCHANGED <<key_queue, presses>>
  BY <1>1, <1>4
  DEF OrderInv, QueueTyped, KeyFlags, SurfaceTyped, BatchInHand, InOrder, Keys!read, Keys!surface
<1> QED  BY <1>2, <1>3, <1>4 DEF Keys!action_post

\* Taking a batch out of the ring changes nothing in what the two stand for.
LEMMA OrderTake ==
  ASSUME KeysInv, OrderInv, Keys!Take
  PROVE  OrderInv'
<1> DEFINE b == Keys!Batch
           m == Len(key_queue)
<1>1. QueueTyped /\ KeyFlags /\ SurfaceTyped /\ BatchInHand /\ InOrder
  BY DEF OrderInv
<1>2. at = "take" /\ at' = "dispatch" /\ batch' = SubSeq(key_queue, 1, b) /\ key_queue' = SubSeq(key_queue, b + 1, m)
      /\ UNCHANGED <<first, release_pending, dispatch_barrier, shown, focusable, focus, navigation, presses>>
  BY DEF Keys!Take, Keys!surface
<1>3. batch = <<>> /\ key_queue # <<>> /\ key_queue[1].key = first
  BY <1>1, <1>2 DEF BatchInHand
<1>4. key_queue \in Seq(Slots) /\ key_queue \in Seq(Entries) /\ m \in Nat
  BY WaitingTyped
<1>5. b \in Nat /\ b <= m /\ b >= 1 /\ (b = 1 \/ \A i \in 1 .. b : key_queue[i].key \in Keys!Directions)
  BY <1>3, <1>4, BatchSize
<1> HIDE DEF b
<1>6. batch' \in Seq(Entries) /\ Len(batch') = b /\ \A i \in 1 .. b : batch'[i] = key_queue[i]
  BY <1>2, <1>4, <1>5
<1>7. key_queue' \in Seq(Slots) /\ Len(key_queue') <= m
  BY <1>2, <1>4, <1>5
<1>8. QueueTyped'
  <2>1. Len(key_queue') \in Nat
    BY <1>7
  <2> QED  BY <1>1, <1>4, <1>7, <2>1, PartsAssumption DEF QueueTyped
<1>9. KeyFlags' /\ SurfaceTyped'
  BY <1>1, <1>2 DEF KeyFlags, SurfaceTyped
<1>10. BatchInHand'
  <2>1. 1 \in 1 .. b /\ batch' # <<>> /\ batch'[1].key = first /\ DOMAIN batch' = 1 .. b
    BY <1>3, <1>5, <1>6
  <2>2. Len(batch') = 1 \/ \A i \in DOMAIN batch' : batch'[i].key \in Keys!Directions
    BY <1>5, <1>6, <2>1
  <2> QED  BY <1>2, <2>1, <2>2 DEF BatchInHand
<1>11. InOrder'
  <2>1. batch' \o key_queue' = key_queue
    <3>1. 1 \in 1 .. m + 1 /\ b \in 1 - 1 .. m /\ m \in b .. m
      BY <1>4, <1>5
    <3>2. SubSeq(key_queue, 1, b) \o SubSeq(key_queue, b + 1, m) = SubSeq(key_queue, 1, m)
      BY <1>4, <3>1, ConcatAdjacentSubSeq
    <3> QED  BY <1>2, <1>4, <3>2, SubSeqFull
  <2>2. batch \o key_queue = key_queue
    BY <1>3, <1>4, ConcatEmptySeq
  <2> QED  BY <1>1, <1>2, <2>1, <2>2 DEF InOrder
<1> QED  BY <1>8, <1>9, <1>10, <1>11 DEF OrderInv

\* What is handed out goes with its presses.
LEMMA OrderHandled ==
  ASSUME KeysInv, OrderInv, at = "dispatch", batch' = <<>>, key_queue' = key_queue,
         presses' = SubSeq(presses, Keys!Count + 1, Len(presses)), at' \in {"barrier", "release"},
         KeyFlags', SurfaceTyped'
  PROVE  OrderInv'
<1> DEFINE entries == batch \o key_queue
           b == Len(batch)
<1>1. QueueTyped /\ KeyFlags /\ SurfaceTyped /\ BatchInHand /\ InOrder
  BY DEF OrderInv
<1>2. entries \in Seq(Entries) /\ Len(entries) = b + Len(key_queue) /\ b \in Nat /\ Len(key_queue) \in Nat
      /\ key_queue \in Seq(Entries) /\ presses \in Seq(Pressed) /\ batch \in Seq(Entries)
      /\ \A i \in 1 .. b + Len(key_queue) : entries[i] = IF i <= b THEN batch[i] ELSE key_queue[i - b]
  BY WaitingTyped
<1> HIDE DEF entries
<1>3. b \in 0 .. Len(entries) /\ Len(key_queue) = Len(entries) - b
  BY <1>2
<1>4. \A i \in 1 .. Len(key_queue) : key_queue[i] = entries[i + b]
  <2> TAKE i \in 1 .. Len(key_queue)
  <2>1. i + b \in 1 .. b + Len(key_queue) /\ ~(i + b <= b) /\ i + b - b = i
    BY <1>2
  <2> QED  BY <1>2, <2>1
<1>5. Keys!Presses(entries, b) = Keys!Count
  <2>1. \A i \in 1 .. b : entries[i].repeat = batch[i].repeat
    BY <1>2
  <2> QED  BY <1>2, <2>1, PressesSame DEF Keys!Count
<1>6. Ordered(entries, presses)
  BY <1>1 DEF InOrder, entries
<1>7. Ordered(key_queue, SubSeq(presses, Keys!Count + 1, Len(presses)))
  <2>1. Ordered(key_queue, SubSeq(presses, Keys!Presses(entries, b) + 1, Len(presses)))
    <3> HIDE DEF b
    <3> QED  BY <1>2, <1>3, <1>4, <1>6, EntriesGo
  <2> QED  BY <1>5, <2>1
<1>8. batch' \o key_queue' = key_queue
  BY <1>2, ConcatEmptySeq
<1>9. InOrder'
  BY <1>7, <1>8 DEF InOrder
<1>10. QueueTyped' /\ BatchInHand'
  BY <1>1 DEF QueueTyped, BatchInHand
<1> QED  BY <1>9, <1>10 DEF OrderInv

\* Nothing waits once the keys are cleared.
LEMMA OrderCleared ==
  ASSUME Keys!Clear, batch' = <<>>, at' \in {"idle", "barrier"}, navigation' \in BOOLEAN, SurfaceTyped'
  PROVE  OrderInv'
<1>1. key_queue' = <<>> /\ presses' = <<>> /\ release_pending' = FALSE /\ dispatch_barrier' = FALSE
  BY DEF Keys!Clear
<1>2. <<>> \in Seq(Slots) /\ Len(<<>>) = 0 /\ <<>> \o <<>> = <<>>
  BY EmptySeq, ConcatEmptySeq
<1>3. QueueTyped'
  BY <1>1, <1>2, PartsAssumption DEF QueueTyped
<1>4. InOrder'
  BY <1>1, <1>2, NoneOrdered DEF InOrder
<1>5. KeyFlags' /\ BatchInHand'
  BY <1>1 DEF KeyFlags, BatchInHand
<1> QED  BY <1>3, <1>4, <1>5 DEF OrderInv

\* The keys handed out.
LEMMA OrderDispatch ==
  ASSUME KeysInv, OrderInv, Keys!Directed \/ Keys!Answered \/ Keys!Back \/ Keys!Press
  PROVE  OrderInv'
<1> USE DEF Keys!surface, Keys!Handled
<1>1. QueueTyped /\ KeyFlags /\ SurfaceTyped /\ BatchInHand /\ InOrder
  BY DEF OrderInv
<1>2. at = "dispatch" /\ batch' = <<>> /\ at' \in {"barrier", "release"}
  BY DEF Keys!Directed, Keys!Answered, Keys!Back, Keys!Press
<1>3. CASE Keys!Directed
  <2>1. focus' \in Keys!Control
    <3>1. first \in Keys!Directions /\ (focus' = Keys!move_focus \/ focus' = focus)
      BY <1>3 DEF Keys!Directed
    <3>2. batch \in Seq(Entries)
      BY WaitingTyped
    <3>3. batch # <<>> /\ batch[1].key = first
          /\ (Len(batch) = 1 \/ \A i \in DOMAIN batch : batch[i].key \in Keys!Directions)
      BY <1>1, <1>2 DEF BatchInHand
    <3>4. \A i \in DOMAIN batch : batch[i].key \in Keys!Directions
      BY <3>1, <3>2, <3>3
    <3>5. ControlsTyped /\ focus \in Keys!Control
      BY <1>1 DEF SurfaceTyped, ControlsTyped
    <3>6. Keys!move_focus \in Keys!Control
      BY <3>2, <3>4, <3>5, FocusIsControl
    <3> QED  BY <3>1, <3>5, <3>6
  <2>2. KeyFlags' /\ SurfaceTyped'
    BY <1>1, <1>3, <2>1 DEF Keys!Directed, KeyFlags, SurfaceTyped
  <2> QED
    BY <1>2, <1>3, <2>2, OrderHandled DEF Keys!Directed
<1>4. CASE Keys!Answered
  <2>1. KeyFlags' /\ SurfaceTyped'
    BY <1>1, <1>4 DEF Keys!Answered, KeyFlags, SurfaceTyped
  <2> QED
    BY <1>2, <1>4, <2>1, OrderHandled DEF Keys!Answered
<1>5. CASE Keys!Press
  <2>1. release_pending' \in BOOLEAN
    <3>1. release_pending' = (focus \in focusable)
      BY <1>5 DEF Keys!Press
    <3>2. (focus \in focusable) \in BOOLEAN
      OBVIOUS
    <3> QED  BY <3>1, <3>2
  <2>2. KeyFlags' /\ SurfaceTyped'
    BY <1>1, <1>2, <1>5, <2>1 DEF Keys!Press, KeyFlags, SurfaceTyped
  <2> QED
    BY <1>2, <1>5, <2>2, OrderHandled DEF Keys!Press
<1>6. CASE Keys!Back
  <2>1. at' = "barrier"
    BY <1>6 DEF Keys!Back
  <2>2. CASE /\ shown = "page" /\ Keys!ClickPage
             /\ presses' = SubSeq(presses, Keys!Count + 1, Len(presses))
             /\ dispatch_barrier' = TRUE /\ UNCHANGED <<key_queue, release_pending>>
    <3>1. KeyFlags' /\ SurfaceTyped'
      BY <1>1, <2>1, <2>2 DEF Keys!ClickPage, KeyFlags, SurfaceTyped
    <3> QED  BY <1>2, <2>2, <3>1, OrderHandled
  <2>3. CASE /\ shown' = "page" /\ focusable' \in SUBSET Keys!Control /\ focus' \in Keys!Control
             /\ Keys!Clear /\ UNCHANGED navigation
    <3>1. SurfaceTyped' /\ navigation' \in BOOLEAN
      BY <1>1, <2>1, <2>3 DEF SurfaceTyped, KeyFlags
    <3> QED  BY <1>2, <2>1, <2>3, <3>1, OrderCleared
  <2>4. CASE /\ presses' = SubSeq(presses, Keys!Count + 1, Len(presses))
             /\ dispatch_barrier' = TRUE /\ UNCHANGED <<key_queue, release_pending, Keys!surface, navigation>>
    <3>1. KeyFlags' /\ SurfaceTyped'
      BY <1>1, <2>1, <2>4 DEF KeyFlags, SurfaceTyped
    <3> QED  BY <1>2, <2>4, <3>1, OrderHandled
  <2> QED  BY <1>6, <2>2, <2>3, <2>4 DEF Keys!Back
<1> QED  BY <1>3, <1>4, <1>5, <1>6

\* The click of a release, the barrier and the rest of the UI loop.
LEMMA OrderRest ==
  ASSUME KeysInv, OrderInv,
         Keys!epd_input_process \/ Keys!ReadFirst \/ Keys!Released \/ Keys!Barrier \/ Keys!Redraw \/ Keys!RaisePrompt
         \/ Keys!ClearRaised \/ Keys!WithdrawPrompt \/ Keys!StorageChanges
  PROVE  OrderInv'
<1> USE DEF Keys!surface, Keys!Loop
<1>1. QueueTyped /\ KeyFlags /\ SurfaceTyped /\ BatchInHand /\ InOrder
  BY DEF OrderInv
<1>2. ASSUME UNCHANGED <<key_queue, batch, presses>>, at # "dispatch", KeyFlags', SurfaceTyped', at' # "dispatch",
             at' \in {"read", "take"} => key_queue # <<>>, at' = "take" => key_queue[1].key = first'
      PROVE  OrderInv'
  <2>1. QueueTyped' /\ InOrder'
    BY <1>1, <1>2 DEF QueueTyped, InOrder
  <2>2. BatchInHand'
    BY <1>1, <1>2 DEF BatchInHand
  <2> QED  BY <1>2, <2>1, <2>2 DEF OrderInv
<1>3. CASE Keys!epd_input_process
  <2>1. KeyFlags' /\ SurfaceTyped'
    BY <1>1, <1>3 DEF Keys!epd_input_process, KeyFlags, SurfaceTyped
  <2> QED  BY <1>2, <1>3, <2>1 DEF Keys!epd_input_process
<1>4. CASE Keys!ReadFirst
  <2>1. KeyFlags' /\ SurfaceTyped'
    BY <1>1, <1>4 DEF Keys!ReadFirst, KeyFlags, SurfaceTyped
  <2>2. key_queue # <<>> /\ Head(key_queue) = key_queue[1]
    <3>1. key_queue # <<>>
      BY <1>1, <1>4 DEF BatchInHand, Keys!ReadFirst
    <3> QED  BY <3>1, WaitingTyped
  <2> QED  BY <1>2, <1>4, <2>1, <2>2 DEF Keys!ReadFirst
<1>5. CASE Keys!Released
  <2>1. at = "release" /\ at' = "barrier" /\ batch' = batch /\ batch = <<>>
    BY <1>1, <1>5 DEF Keys!Released, BatchInHand
  <2>2. CASE Keys!ClickPage /\ release_pending' = FALSE /\ UNCHANGED <<key_queue, dispatch_barrier, presses>>
    <3>1. KeyFlags' /\ SurfaceTyped'
      BY <1>1, <2>1, <2>2 DEF Keys!ClickPage, KeyFlags, SurfaceTyped
    <3> QED  BY <1>2, <2>1, <2>2, <3>1
  <2>3. CASE Keys!AnswerPrompt
    <3>1. Keys!Clear /\ navigation' \in BOOLEAN /\ SurfaceTyped'
      BY <1>1, <2>1, <2>3 DEF Keys!AnswerPrompt, KeyFlags, SurfaceTyped
    <3> QED  BY <2>1, <3>1, OrderCleared
  <2> QED  BY <1>5, <2>2, <2>3 DEF Keys!Released
<1>6. CASE Keys!Barrier
  <2>1. KeyFlags' /\ SurfaceTyped'
    BY <1>1, <1>6 DEF Keys!Barrier, KeyFlags, SurfaceTyped
  <2> QED  BY <1>2, <1>6, <2>1 DEF Keys!Barrier
<1>7. CASE Keys!Redraw
  <2>1. KeyFlags' /\ SurfaceTyped'
    BY <1>1, <1>7 DEF Keys!Redraw, KeyFlags, SurfaceTyped
  <2> QED  BY <1>2, <1>7, <2>1 DEF Keys!Redraw
<1>8. CASE Keys!RaisePrompt
  <2>1. 0 \in Keys!Control
    BY PartsAssumption DEF Keys!Control
  <2>2. KeyFlags' /\ SurfaceTyped'
    BY <1>1, <1>8, <2>1 DEF Keys!RaisePrompt, KeyFlags, SurfaceTyped
  <2> QED  BY <1>2, <1>8, <2>2 DEF Keys!RaisePrompt
<1>9. CASE Keys!ClearRaised \/ Keys!WithdrawPrompt \/ Keys!StorageChanges
  <2>1. /\ Keys!Clear /\ UNCHANGED <<navigation, batch>> /\ at' = "idle" /\ at \in {"idle", "raise"}
    BY <1>9 DEF Keys!ClearRaised, Keys!WithdrawPrompt, Keys!StorageChanges
  <2>2. SurfaceTyped'
    BY <1>1, <1>9, <2>1 DEF Keys!ClearRaised, Keys!WithdrawPrompt, Keys!StorageChanges, SurfaceTyped
  <2>3. batch' = <<>> /\ navigation' \in BOOLEAN
    BY <1>1, <2>1 DEF BatchInHand, KeyFlags
  <2> QED  BY <2>1, <2>2, <2>3, OrderCleared
<1> QED  BY <1>3, <1>4, <1>5, <1>6, <1>7, <1>8, <1>9

\* Nothing waits at the start.
LEMMA OrderStarts == PartsInit => KeysInv /\ OrderInv
<1> SUFFICES ASSUME PartsInit PROVE KeysInv /\ OrderInv
  OBVIOUS
<1>1. Keys!Init
  BY DEF PartsInit
<1>2. KeysInv
  BY KeysStart
<1>3. key_queue = <<>> /\ batch = <<>> /\ presses = <<>> /\ at = "idle"
  BY <1>1 DEF Keys!Init
<1>4. <<>> \in Seq(Slots) /\ Len(<<>>) = 0 /\ <<>> \o <<>> = <<>>
  BY EmptySeq, ConcatEmptySeq
<1>5. QueueTyped
  BY <1>3, <1>4, PartsAssumption DEF QueueTyped
<1>6. InOrder
  BY <1>3, <1>4, NoneOrdered DEF InOrder
<1>7. 0 \in Keys!Control
  BY PartsAssumption DEF Keys!Control
<1>8. KeyFlags /\ SurfaceTyped /\ BatchInHand
  BY <1>1, <1>3, <1>7 DEF Keys!Init, KeyFlags, SurfaceTyped, BatchInHand
<1> QED  BY <1>2, <1>5, <1>6, <1>8 DEF OrderInv

\* No step of any part breaks the order.
LEMMA OrderKept == KeysInv /\ OrderInv /\ [PartsNext]_allVars => KeysInv' /\ OrderInv'
<1> SUFFICES ASSUME KeysInv, OrderInv, [PartsNext]_allVars PROVE KeysInv' /\ OrderInv'
  OBVIOUS
<1>1. KeysInv'
  BY KeysNext
<1>2. Keys!Next \/ UNCHANGED keysVars
  BY DEF PartsNext, allVars
<1>3. CASE Keys!Next
  <2>1. ASSUME NEW key \in Keys!Keys, Keys!action_post(key) PROVE OrderInv'
    BY <2>1, OrderPost
  <2>2. CASE Keys!Take
    BY <1>1, <2>2, OrderTake
  <2>3. CASE Keys!Directed \/ Keys!Answered \/ Keys!Back \/ Keys!Press
    BY <1>1, <2>3, OrderDispatch
  <2>4. CASE \/ Keys!epd_input_process \/ Keys!ReadFirst \/ Keys!Released \/ Keys!Barrier \/ Keys!Redraw
             \/ Keys!RaisePrompt \/ Keys!ClearRaised \/ Keys!WithdrawPrompt \/ Keys!StorageChanges
    BY <1>1, <2>4, OrderRest
  <2> QED  BY <1>1, <1>3, <2>1, <2>2, <2>3, <2>4 DEF Keys!Next
<1>4. CASE UNCHANGED keysVars
  <2>1. UNCHANGED <<key_queue, batch, presses>>
    BY <1>4 DEF keysVars
  <2>2. (batch \o key_queue)' = batch \o key_queue /\ presses' = presses
    BY <2>1
  <2>3. InOrder'
    BY <2>2 DEF OrderInv, InOrder
  <2>4. QueueTyped' /\ KeyFlags' /\ SurfaceTyped' /\ BatchInHand'
    BY <1>4 DEF keysVars, OrderInv, QueueTyped, KeyFlags, SurfaceTyped, BatchInHand
  <2> QED  BY <1>1, <2>3, <2>4 DEF OrderInv
<1> QED  BY <1>1, <1>2, <1>3, <1>4

\* The ring and the batch in hand stand for the presses accepted and not handled, in their
\* order, none lost, doubled or overtaken, and a batch is directions or the one other key that
\* was looked at: for rings and counters of any size, and however the presses arrive between
\* the reader's two looks.
THEOREM NoPressIsLost == PartsSpec => []KeysInOrder
<1>1. KeysInv /\ OrderInv => KeysInOrder
  <2> SUFFICES ASSUME KeysInv, OrderInv PROVE KeysInOrder
    OBVIOUS
  <2>1. Keys!TypeOK
    <3>1. {release_pending, dispatch_barrier, navigation} \subseteq BOOLEAN
      BY Zenon DEF OrderInv, KeyFlags
    <3> QED  BY <3>1 DEF OrderInv, QueueTyped, SurfaceTyped, Slots, Keys!TypeOK
  <2>2. Keys!KeysInOrder
    BY DEF OrderInv, InOrder, BatchInHand, Ordered, Keys!KeysInOrder
  <2> QED  BY <2>1, <2>2 DEF KeysInOrder
<1> QED  BY <1>1, OrderStarts, OrderKept, PTL DEF PartsSpec

\* The one move of the focus for a whole batch ends where its presses would have led one after
\* the other: for any number of controls, any of them that can be focused, and counts of presses
\* far beyond that number.
THEOREM FocusIsPressed == PartsSpec => FocusAsPressed
<1>1. ASSUME KeysInv, OrderInv, [PartsNext]_allVars
      PROVE  [(at = "dispatch" /\ first \in Keys!Directions /\ focus \in focusable /\ at' = "barrier") =>
                focus' = Keys!walked[Keys!Count] \/ (shown = "page" /\ focus' = focus)]_Keys!vars
  <2> SUFFICES ASSUME at = "dispatch", first \in Keys!Directions, focus \in focusable, at' = "barrier"
               PROVE  focus' = Keys!walked[Keys!Count] \/ (shown = "page" /\ focus' = focus)
    OBVIOUS
  <2>1. Keys!Next
    <3>1. Keys!Next \/ UNCHANGED keysVars
      BY <1>1 DEF PartsNext, allVars
    <3> QED  BY <3>1 DEF keysVars
  <2>2. Keys!Directed
    BY <2>1 DEF Keys!Next, Keys!action_post, Keys!read, Keys!epd_input_process, Keys!ReadFirst, Keys!Take,
      Keys!Directed, Keys!Answered, Keys!Back, Keys!Press, Keys!Released, Keys!Barrier, Keys!Redraw, Keys!RaisePrompt,
      Keys!ClearRaised, Keys!WithdrawPrompt, Keys!StorageChanges, Keys!Loop, Keys!Directions
  <2>3. focus' = Keys!move_focus \/ (shown = "page" /\ focus' = focus)
    BY <2>2 DEF Keys!Directed
  <2>4. Keys!move_focus = Keys!walked[Keys!Count]
    <3>1. batch \in Seq(Entries) /\ key_queue \in Seq(Entries)
      BY <1>1, WaitingTyped
    <3>2. \A i \in DOMAIN batch : batch[i].key \in Keys!Directions
      <4>1. batch # <<>> /\ batch[1].key = first
            /\ (Len(batch) = 1 \/ \A i \in DOMAIN batch : batch[i].key \in Keys!Directions)
        BY <1>1 DEF OrderInv, BatchInHand
      <4> QED  BY <3>1, <4>1
    <3>3. ControlsTyped /\ Ordered(batch \o key_queue, presses)
      BY <1>1 DEF OrderInv, SurfaceTyped, ControlsTyped, InOrder
    <3> QED  BY <3>1, <3>2, <3>3, BatchWalked
  <2> QED  BY <2>3, <2>4
<1> QED
  BY <1>1, OrderStarts, OrderKept, PTL DEF PartsSpec, FocusAsPressed, Keys!FocusAsPressed

----------------------------------------------------------------------------
(* The files that follow an application from one volume to another. *)

\* What the argument needs of the types.
Shape ==
  /\ there \subseteq Volumes /\ file \in [Volumes -> Content] /\ copy \in Content
  /\ to \in Volumes /\ running \in Volumes \cup {"none", "left"}
  /\ writes \in Number /\ alive \in [Files -> SUBSET (1 .. MaxWrites)]

\* A directory that is not there holds no file.
NoGhosts == \A v \in Volumes \ there : \A f \in Files : file[v][f] = 0

\* Past its check a migration has the application to itself.
Alone == pc \notin {"idle", "check"} => running = "none"

\* Until the copy is published there is nothing where it goes.
FreeTarget == pc \in {"stage", "copy", "publish"} => to \notin there

\* What is being deleted is also in the target.
Covered ==
  pc = "clear" =>
    \A f \in Files : file[Source][f] # 0 => file[Source][f] = file[to][f]

MigrationInv == Shape /\ NoGhosts /\ Alone /\ FreeTarget /\ Covered /\ NothingLost

-----------------------------------------------------------------------------

\* There are two volumes.
LEMMA OtherVolume ==
  ASSUME NEW v \in Volumes
  PROVE  /\ Other(v) \in Volumes /\ Other(v) # v
         /\ \A u \in Volumes : u = v \/ u = Other(v)
BY DEF Other, Volumes

\* Steps that leave the directories and the writes alone.
LEMMA DirectoriesAlone ==
  ASSUME MigrationInv, UNCHANGED <<there, file, writes, alive>>,
         copy' \in Content, to' \in Volumes,
         running' \in Volumes \cup {"none", "left"},
         Alone', FreeTarget', Covered'
  PROVE  MigrationInv'
BY DEF MigrationInv, Shape, NoGhosts, NothingLost

\* The invariant holds before the first move.
LEMMA InvInit == Init => MigrationInv
<1> SUFFICES ASSUME Init PROVE MigrationInv
  OBVIOUS
<1> PICK g \in Files :
      file = [v \in Volumes |-> [f \in Files |-> IF v \in there /\ f = g THEN 1 ELSE 0]]
  BY DEF Init
<1>1. /\ there \subseteq Volumes /\ copy \in Content /\ to \in Volumes
      /\ running \in Volumes \cup {"none", "left"} /\ writes \in Number
  BY DataMigrationAssumption DEF Init, Content, NoFiles, Number, Volumes
<1>2. file \in [Volumes -> Content] /\ \A v \in Volumes : \A f \in Files : file[v][f] \in {0, 1}
  BY DataMigrationAssumption DEF Content, Number
<1>3. alive = [f \in Files |-> {file[v][f] : v \in Volumes} \ {0}]
  BY DEF Init
<1>4. \A f \in Files : alive[f] \subseteq {1}
  BY <1>2, <1>3
<1>5. alive \in [Files -> SUBSET (1 .. MaxWrites)]
  <2>1. {1} \subseteq 1 .. MaxWrites
    BY DataMigrationAssumption
  <2>2. \A f \in Files : alive[f] \in SUBSET (1 .. MaxWrites)
    BY <2>1, <1>4
  <2> QED BY <2>2, <1>3
<1>6. NothingLost
  BY <1>3 DEF NothingLost
<1>7. NoGhosts
  BY DEF NoGhosts
<1>8. pc \in {"idle", "check"}
  BY DEF Init
<1> QED BY <1>1, <1>2, <1>5, <1>6, <1>7, <1>8 DEF MigrationInv, Shape, Alone, FreeTarget, Covered

\* Steps of the migration that change no directory.
LEMMA InvCheck == MigrationInv /\ Check => MigrationInv'
<1> SUFFICES ASSUME MigrationInv, Check PROVE MigrationInv'
  OBVIOUS
<1>1. UNCHANGED <<there, file, writes, alive, copy, to, running>>
  BY DEF Check, Kept, dirVars, Return, Goto
<1>2. /\ pc' \in {"idle", "compare", "stage"}
      /\ pc' # "idle" => running = "none"
      /\ pc' = "stage" => to \notin there
  BY DEF Check, Return, Goto
<1> QED
  BY <1>1, <1>2, DirectoriesAlone
  DEF Alone, FreeTarget, Covered, MigrationInv, Shape

\* Filling the copy touches neither directory.
LEMMA InvFill ==
  ASSUME MigrationInv, ClearStage \/ (\E f \in Files : CopyFile(f)) \/ Copied
  PROVE  MigrationInv'
<1>1. UNCHANGED <<there, file, writes, alive, to, running>>
  BY DEF ClearStage, CopyFile, Copied, Kept, dirVars, Goto
<1>2. /\ pc \in {"stage", "copy"} /\ pc' \in {"copy", "publish"}
  BY DEF ClearStage, CopyFile, Copied, At, Goto
<1>3. copy' \in Content
  <2>1. CASE ClearStage
    BY <2>1, DataMigrationAssumption DEF ClearStage, NoFiles, Content, Number
  <2>2. ASSUME NEW f \in Files, CopyFile(f) PROVE copy' \in Content
    <3>1. Source \in Volumes /\ file[Source][f] \in Number
      BY OtherVolume DEF MigrationInv, Shape, Content, Source
    <3> QED BY <2>2, <3>1 DEF CopyFile, MigrationInv, Shape, Content
  <2>3. CASE Copied
    BY <2>3 DEF Copied, MigrationInv, Shape
  <2> QED BY <2>1, <2>2, <2>3
<1> QED
  BY <1>1, <1>2, <1>3, DirectoriesAlone
  DEF Alone, FreeTarget, Covered, MigrationInv, Shape

\* The target was free, so what is renamed there replaces nothing.
LEMMA InvPublish == MigrationInv /\ Publish => MigrationInv'
<1> SUFFICES ASSUME MigrationInv, Publish PROVE MigrationInv'
  OBVIOUS
<1>1. /\ pc = "publish" /\ pc' = "compare" /\ to \in Volumes /\ to \notin there
      /\ there' = there \cup {to} /\ file' = [file EXCEPT ![to] = copy]
      /\ UNCHANGED <<writes, alive, to, running, copy>>
  BY DEF Publish, At, Goto, Kept, MigrationInv, FreeTarget, Shape
<1>2. Shape'
  BY <1>1 DEF MigrationInv, Shape
<1>3. NoGhosts'
  BY <1>1 DEF MigrationInv, Shape, NoGhosts
<1>4. NothingLost'
  <2> SUFFICES ASSUME NEW f \in Files, NEW n \in alive[f]
               PROVE  \E v \in Volumes : file'[v][f] = n
    BY <1>1 DEF NothingLost
  <2>1. PICK v \in Volumes : file[v][f] = n
    BY DEF MigrationInv, NothingLost
  <2>2. n # 0
    BY DEF MigrationInv, Shape
  <2>3. v # to
    BY <1>1, <2>1, <2>2 DEF MigrationInv, NoGhosts
  <2>4. file'[v] = file[v]
    BY <1>1, <2>3 DEF MigrationInv, Shape
  <2> QED BY <2>1, <2>4
<1> QED
  BY <1>1, <1>2, <1>3, <1>4 DEF MigrationInv, Alone, FreeTarget, Covered

\* The comparison decides between clearing the source and keeping both.
LEMMA InvCompare == MigrationInv /\ Compare => MigrationInv'
<1> SUFFICES ASSUME MigrationInv, Compare PROVE MigrationInv'
  OBVIOUS
<1>1. UNCHANGED <<there, file, writes, alive, copy, to, running>>
  BY DEF Compare, Kept, dirVars, Goto
<1>2. /\ pc = "compare" /\ pc' \in {"clear", "unmark"}
      /\ pc' = "clear" => migration_equal(Source, to)
  BY DEF Compare, At, Goto
<1>3. Covered'
  BY <1>1, <1>2 DEF Covered, Source, migration_equal
<1> QED
  BY <1>1, <1>2, <1>3, DirectoriesAlone DEF Alone, FreeTarget, MigrationInv, Shape

\* A file that is deleted is in the target too.
LEMMA InvClearFile == MigrationInv /\ ClearFile => MigrationInv'
<1> SUFFICES ASSUME MigrationInv, ClearFile PROVE MigrationInv'
  OBVIOUS
<1>1. /\ pc = "clear" /\ pc' = "clear"
      /\ UNCHANGED <<there, writes, alive, copy, to, running>>
  BY DEF ClearFile, At, Goto, Kept
<1>2. CASE UNCHANGED file
  BY <1>1, <1>2, DirectoriesAlone
  DEF Alone, FreeTarget, Covered, MigrationInv, Shape, Source
<1>3. ASSUME NEW f \in Files, file' = [file EXCEPT ![Source][f] = 0]
      PROVE  MigrationInv'
  <2>1. Source \in Volumes /\ to \in Volumes /\ Source # to
    BY OtherVolume DEF MigrationInv, Shape, Source
  <2>2. /\ file'[to] = file[to]
        /\ \A g \in Files : file'[Source][g] = IF g = f THEN 0 ELSE file[Source][g]
        /\ \A v \in Volumes : v # Source => file'[v] = file[v]
    BY <1>3, <2>1 DEF MigrationInv, Shape, Content
  <2>3. file' \in [Volumes -> Content]
    BY <1>3, <2>1, DataMigrationAssumption DEF MigrationInv, Shape, Content, Number
  <2>4. Shape'
    BY <1>1, <2>3 DEF MigrationInv, Shape
  <2>5. NoGhosts'
    BY <1>1, <2>1, <2>2 DEF MigrationInv, NoGhosts
  <2>6. Covered'
    BY <1>1, <2>1, <2>2 DEF MigrationInv, Covered, Source
  <2>7. NothingLost'
    <3> SUFFICES ASSUME NEW g \in Files, NEW n \in alive[g]
                 PROVE  \E v \in Volumes : file'[v][g] = n
      BY <1>1 DEF NothingLost
    <3>1. PICK v \in Volumes : file[v][g] = n
      BY DEF MigrationInv, NothingLost
    <3>2. n # 0
      BY DEF MigrationInv, Shape
    <3>3. CASE v = Source
      <4>1. file[to][g] = n
        BY <1>1, <3>1, <3>2, <3>3 DEF MigrationInv, Covered
      <4> QED BY <4>1, <2>1, <2>2
    <3>4. CASE v # Source
      BY <3>1, <3>4, <2>2
    <3> QED BY <3>3, <3>4
  <2> QED
    BY <1>1, <2>4, <2>5, <2>6, <2>7 DEF MigrationInv, Alone, FreeTarget
<1> QED BY <1>2, <1>3 DEF ClearFile

\* The source's directory goes when it is empty.
LEMMA InvClearDirectory == MigrationInv /\ ClearDirectory => MigrationInv'
<1> SUFFICES ASSUME MigrationInv, ClearDirectory PROVE MigrationInv'
  OBVIOUS
<1>1. /\ pc = "clear" /\ pc' = "unmark" /\ there' = there \ {Source}
      /\ file[Source] = NoFiles
      /\ UNCHANGED <<file, writes, alive, copy, to, running>>
  BY DEF ClearDirectory, At, Goto, Kept
<1>2. \A f \in Files : file[Source][f] = 0
  BY <1>1 DEF NoFiles
<1>3. NoGhosts'
  BY <1>1, <1>2 DEF MigrationInv, NoGhosts
<1>4. Shape' /\ NothingLost'
  BY <1>1 DEF MigrationInv, Shape, NothingLost
<1> QED
  BY <1>1, <1>3, <1>4 DEF MigrationInv, Alone, FreeTarget, Covered

\* Every other way out of the migration.
LEMMA InvLeave == ASSUME MigrationInv, Unmark \/ Fail PROVE MigrationInv'
<1>1. /\ UNCHANGED <<there, file, writes, alive, copy, to, running>> /\ pc' = "idle"
  BY DEF Unmark, Fail, Kept, dirVars, Return
<1> QED
  BY <1>1, DirectoriesAlone DEF Alone, FreeTarget, Covered, MigrationInv, Shape

\* What the application writes replaces only what it wrote there before.
LEMMA InvAppWrites ==
  ASSUME MigrationInv, NEW f \in Files, AppWrites(f) PROVE MigrationInv'
<1> DEFINE r == running
<1>1. /\ r \in Volumes /\ writes < MaxWrites /\ writes' = writes + 1
      /\ there' = there \cup {r}
      /\ file' = [file EXCEPT ![r][f] = writes']
      /\ alive' = [alive EXCEPT ![f] = (@ \ {file[r][f]}) \cup {writes'}]
      /\ UNCHANGED <<copy, pc, to, running>>
  BY DEF AppWrites, platformVars, migrationVars
<1>2. writes' \in Number /\ writes' \in 1 .. MaxWrites
  BY <1>1, DataMigrationAssumption DEF MigrationInv, Shape, Number
<1>3. /\ file'[r][f] = writes'
      /\ \A v \in Volumes, g \in Files : ~(v = r /\ g = f) => file'[v][g] = file[v][g]
      /\ file' \in [Volumes -> Content]
  BY <1>1, <1>2 DEF MigrationInv, Shape, Content
<1>4. /\ alive'[f] = (alive[f] \ {file[r][f]}) \cup {writes'}
      /\ \A g \in Files : g # f => alive'[g] = alive[g]
      /\ alive' \in [Files -> SUBSET (1 .. MaxWrites)]
  BY <1>1, <1>2 DEF MigrationInv, Shape
<1>5. Shape'
  BY <1>1, <1>2, <1>3, <1>4 DEF MigrationInv, Shape
<1>6. NoGhosts'
  BY <1>1, <1>3 DEF MigrationInv, NoGhosts
<1>7. pc \in {"idle", "check"}
  BY <1>1, OtherVolume DEF MigrationInv, Alone, Volumes
<1>8. NothingLost'
  <2> SUFFICES ASSUME NEW g \in Files, NEW n \in alive'[g]
               PROVE  \E v \in Volumes : file'[v][g] = n
    BY DEF NothingLost
  <2>1. CASE g = f /\ n = writes'
    BY <2>1, <1>1, <1>3
  <2>2. CASE ~(g = f /\ n = writes')
    <3>1. n \in alive[g] /\ (g = f => n # file[r][f])
      BY <2>2, <1>4
    <3>2. PICK v \in Volumes : file[v][g] = n
      BY <3>1 DEF MigrationInv, NothingLost
    <3>3. ~(v = r /\ g = f)
      BY <3>1, <3>2
    <3>4. file'[v][g] = n
      BY <3>2, <3>3, <1>3
    <3> QED BY <3>4
  <2> QED BY <2>1, <2>2
<1> QED
  BY <1>1, <1>5, <1>6, <1>7, <1>8 DEF MigrationInv, Alone, FreeTarget, Covered

\* A migration begins at its check, from the platform with nothing under way.
LEMMA InvPlatform ==
  ASSUME MigrationInv,
         \/ \E v \in Volumes : Install(v) \/ Uninstall(v) \/ StartApp(v)
         \/ Load \/ CardReturns \/ PowerFailure
  PROVE  MigrationInv'
<1>1. UNCHANGED <<there, file, writes, alive, copy>>
  BY DEF Install, Uninstall, StartApp, Load, CardReturns, PowerFailure, Idle,
         dirVars, historyVars
<1>2. pc' \in {"idle", "check"}
  BY DEF Install, Uninstall, StartApp, Load, CardReturns, PowerFailure, Idle,
         Still, Call, migrationVars
<1>3. to' \in Volumes
  BY DEF Install, Uninstall, StartApp, Load, CardReturns, PowerFailure, Idle,
         Still, Call, migrationVars, MigrationInv, Shape, Volumes
<1>4. running' \in Volumes \cup {"none", "left"}
  BY DEF Install, Uninstall, StartApp, Load, CardReturns, PowerFailure,
         MigrationInv, Shape
<1> QED
  BY <1>1, <1>2, <1>3, <1>4, DirectoriesAlone
  DEF Alone, FreeTarget, Covered, MigrationInv, Shape

\* The application ends, or the card goes, at any point of it.
LEMMA InvAnytime == ASSUME MigrationInv, StopApp \/ CardLeaves PROVE MigrationInv'
<1>1. UNCHANGED <<there, file, writes, alive, copy, pc, to>>
  BY DEF StopApp, CardLeaves, dirVars, migrationVars, historyVars
<1>2. /\ running' \in Volumes \cup {"none", "left"}
      /\ running = "none" => running' = "none"
  BY DEF StopApp, CardLeaves, MigrationInv, Shape
<1> QED
  BY <1>1, <1>2, DirectoriesAlone
  DEF Alone, FreeTarget, Covered, MigrationInv, Shape, Source

\* Every step keeps the invariant.
LEMMA InvNext == MigrationInv /\ [Next]_vars => MigrationInv'
<1> SUFFICES ASSUME MigrationInv, [Next]_vars PROVE MigrationInv'
  OBVIOUS
<1>1. CASE migrate_data
  BY <1>1, InvCheck, InvFill, InvPublish, InvCompare, InvClearFile,
     InvClearDirectory, InvLeave DEF migrate_data
<1>2. CASE \E f \in Files : AppWrites(f)
  BY <1>2, InvAppWrites
<1>3. CASE \/ \E v \in Volumes : Install(v) \/ Uninstall(v) \/ StartApp(v)
           \/ Load \/ CardReturns \/ PowerFailure
  BY <1>3, InvPlatform
<1>4. CASE StopApp \/ CardLeaves
  BY <1>4, InvAnytime
<1>5. CASE UNCHANGED vars
  <2>1. UNCHANGED <<there, file, writes, alive, copy, pc, to, running>>
    BY <1>5 DEF vars, dirVars, migrationVars, platformVars, historyVars
  <2> QED
    BY <2>1, DirectoriesAlone
    DEF Alone, FreeTarget, Covered, MigrationInv, Shape, Source
<1> QED BY <1>1, <1>2, <1>3, <1>4, <1>5 DEF Next

-----------------------------------------------------------------------------

\* Whatever fails, leaves or stops during a migration (migrate_data), and
\* however often the application changes volume, no content that was never
\* written over disappears: the source is deleted only file by file and only
\* while the published target has the same.
THEOREM NothingIsLost == Spec => []NothingLost
<1>1. MigrationInv => NothingLost
  BY DEF MigrationInv
<1> QED BY InvInit, InvNext, <1>1, PTL DEF Spec


-----------------------------------------------------------------------------
(* An application sees its data.  What makes the claim inductive: where the  *)
(* data are at every point of a migration, and that the platform offers an   *)
(* application only after its migration has come to an end.                  *)

\* The histories of two directories, of data left elsewhere, and of a return to a part,
\* are excepted.
Clean == ~split /\ ~passedOver /\ ~turnedBack

\* All the application ever wrote, and did not write over, is on v.
Whole(v) == \A f \in Files : \A n \in alive[f] : file[v][f] = n

\* An application that StartApp would load, unless it is being looked at.
Offered(v) ==
  /\ storage_app_locate(v) /\ v \in ready /\ (v = "sd" => enabled)
  /\ ~(pc # "idle" /\ to = v)

\* The order in which the platform does things: the applications of a card are
\* enabled while it is there, what runs is installed and not hidden, and data
\* go from where the application is not to where it is.
Order ==
  /\ enabled => available
  /\ running \in Volumes =>
       running \in installed /\ (running = "sd" => "flash" \notin installed)
  /\ pc # "idle" => to \in installed
  /\ pc \notin {"idle", "check"} => Source \notin installed
  /\ pc = "publish" =>
       \A f \in Files : file[Source][f] # 0 => copy[f] = file[Source][f]

\* Where all the data are.
Places ==
  /\ remains \subseteq Volumes \ installed
  /\ \A v \in remains : Whole(Other(v))
  /\ pc \in {"compare", "clear", "unmark"} => Whole(to)
  /\ \A v \in Volumes : Offered(v) => Whole(v)
  /\ running \in Volumes => Whole(running)

WholeInv == Order /\ (Clean => Places)

\* Data that are nowhere else are all here.
LEMMA OnlyHere ==
  ASSUME MigrationInv, NEW v \in Volumes, Other(v) \notin there
  PROVE  Whole(v)
<1> SUFFICES ASSUME NEW f \in Files, NEW n \in alive[f]
             PROVE  file[v][f] = n
  BY DEF Whole
<1>1. PICK u \in Volumes : file[u][f] = n
  BY DEF MigrationInv, NothingLost
<1>2. n # 0
  BY DEF MigrationInv, Shape
<1>3. u # Other(v)
  BY <1>1, <1>2 DEF MigrationInv, NoGhosts
<1> QED BY <1>1, <1>3, OtherVolume

\* Data that are the same on both volumes are all on each.
LEMMA BothTheSame ==
  ASSUME MigrationInv, NEW v \in Volumes,
         \A f \in Files : file[Other(v)][f] # 0 => file[Other(v)][f] = file[v][f]
  PROVE  Whole(v)
<1> SUFFICES ASSUME NEW f \in Files, NEW n \in alive[f]
             PROVE  file[v][f] = n
  BY DEF Whole
<1>1. PICK u \in Volumes : file[u][f] = n
  BY DEF MigrationInv, NothingLost
<1>2. n # 0
  BY DEF MigrationInv, Shape
<1> QED BY <1>1, <1>2, OtherVolume

\* Steps of the migration that leave the published directories alone.
LEMMA DataStays ==
  ASSUME WholeInv, Clean' => Clean,
         UNCHANGED <<file, alive, to, installed, available, enabled, running>>,
         remains' \subseteq remains,
         pc' = "publish" => \A f \in Files : file[Source][f] # 0 => copy'[f] = file[Source][f],
         pc # "idle",
         pc' \notin {"idle", "check"} => Source \notin installed,
         Clean' /\ pc' \in {"compare", "clear", "unmark"} => Whole(to),
         ready' \subseteq ready \cup {to},
         Clean' /\ pc' = "idle" /\ to \in ready' => Whole(to)
  PROVE  WholeInv'
<1>1. Order'
  BY DEF WholeInv, Order, Source
<1>2. \A v : Whole(v)' <=> Whole(v)
  BY DEF Whole
<1>3. ASSUME Clean' PROVE Places'
  <2>1. Clean /\ Places
    BY <1>3 DEF WholeInv
  <2>2. ASSUME NEW v \in Volumes, Offered(v)' PROVE Whole(v)
    <3>1. storage_app_locate(v) /\ (v = "sd" => enabled) /\ v \in ready'
      BY <2>2 DEF Offered, storage_app_locate, storage_available
    <3>2. CASE v = to
      BY <1>3, <2>2, <3>1, <3>2 DEF Offered
    <3>3. CASE v # to
      BY <2>1, <3>1, <3>3 DEF Places, Offered
    <3> QED BY <3>2, <3>3
  <2> QED
    BY <1>2, <1>3, <2>1, <2>2 DEF Places
<1> QED BY <1>1, <1>3 DEF WholeInv

\* What the check finds decides where the data are.
LEMMA WholeCheck == MigrationInv /\ WholeInv /\ Check => WholeInv'
<1> SUFFICES ASSUME MigrationInv, WholeInv, Check PROVE WholeInv'
  OBVIOUS
<1> PICK missed \in BOOLEAN :
      LET kept == missed \/ ~storage_available(Source) \/ Source \in installed IN
      /\ IF ~storage_available(to) THEN Return(FALSE)
         ELSE IF kept \/ Source \notin there \/ HasOwn(to) THEN Return(TRUE)
         ELSE IF running # "none" THEN Return(FALSE)
         ELSE Goto(IF to \in there THEN "compare" ELSE "stage")
      /\ passedOver' = (passedOver \/ (Source \in there /\ kept))
  BY Zenon DEF Check
<1> DEFINE kept == missed \/ ~storage_available(Source) \/ Source \in installed
<1>1. /\ pc = "check"
      /\ UNCHANGED <<file, alive, to, copy, installed, available, enabled, running,
                     remains, turnedBack>>
  BY DEF Check, At, Kept, dirVars, Return, Goto
<1>2. Clean' => Clean /\ ~(Source \in there /\ (kept \/ Apart))
  BY <1>1, Zenon DEF Check, Clean
<1>3. /\ to \in Volumes /\ Source \in Volumes /\ Other(to) = Source
      /\ to \in installed
  BY <1>1, OtherVolume DEF MigrationInv, Shape, Source, WholeInv, Order
<1>4. CASE Return(FALSE)
  <2>1. pc' = "idle" /\ ready' = ready \ {to}
    BY <1>4 DEF Return
  <2> QED BY <1>1, <1>2, <2>1, DataStays
<1>5. CASE Return(TRUE) /\ (kept \/ Source \notin there \/ HasOwn(to))
  <2>1. pc' = "idle" /\ ready' \subseteq ready \cup {to}
    BY <1>5 DEF Return
  <2>2. ASSUME Clean' PROVE Whole(to)
    <3>1. to \notin remains
      BY <1>2, <1>3, <2>2 DEF WholeInv, Places
    <3>2. Source \notin there
      BY <1>2, <1>5, <2>2, <3>1 DEF Apart
    <3> QED BY <1>3, <3>2, OnlyHere
  <2> QED BY <1>1, <1>2, <2>1, <2>2, DataStays
<1>6. CASE ~kept /\ Source \in there /\ ~HasOwn(to)
             /\ Goto(IF to \in there THEN "compare" ELSE "stage")
  <2>1. /\ pc' \in {"compare", "stage"} /\ ready' = ready
        /\ pc' = "compare" => to \in there
    BY <1>6 DEF Goto
  <2>2. ASSUME Clean', pc' = "compare" PROVE Whole(to)
    <3>1. to \in marked
      BY <1>6, <2>1, <2>2 DEF HasOwn
    <3>2. Source \in remains \/ file[to] = file[Source]
      BY <1>2, <1>6, <2>2, <3>1 DEF Apart
    <3>3. CASE Source \in remains
      <4>1. Other(Source) = to
        BY <1>3, OtherVolume
      <4> QED BY <1>2, <2>2, <3>3, <4>1 DEF WholeInv, Places
    <3>4. CASE file[to] = file[Source]
      BY <1>3, <3>4, BothTheSame
    <3> QED BY <3>2, <3>3, <3>4
  <2> QED BY <1>1, <1>2, <1>6, <2>1, <2>2, DataStays
<1> QED
  <2>1. \/ Return(FALSE)
        \/ Return(TRUE) /\ (kept \/ Source \notin there \/ HasOwn(to))
        \/ ~kept /\ Source \in there /\ ~HasOwn(to)
             /\ Goto(IF to \in there THEN "compare" ELSE "stage")
    BY Zenon
  <2> QED BY <1>4, <1>5, <1>6, <2>1

\* The copy is whole before it is published.
LEMMA WholeFill ==
  ASSUME MigrationInv, WholeInv,
         ClearStage \/ (\E f \in Files : CopyFile(f)) \/ Copied
  PROVE  WholeInv'
<1>1. /\ UNCHANGED <<file, alive, to, installed, available, enabled, running,
                     remains, ready, split, passedOver, turnedBack>>
      /\ pc \in {"stage", "copy"} /\ pc' \in {"copy", "publish"}
  BY DEF ClearStage, CopyFile, Copied, At, Goto, Kept, dirVars
<1>2. pc' = "publish" =>
        \A f \in Files : file[Source][f] # 0 => copy'[f] = file[Source][f]
  BY DEF ClearStage, CopyFile, Copied, Goto
<1>3. Clean' => Clean
  BY <1>1 DEF Clean
<1>4. Source \notin installed
  BY <1>1 DEF WholeInv, Order
<1> QED BY <1>1, <1>2, <1>3, <1>4, DataStays

\* The copy takes the place of the directory it was made for.
LEMMA WholePublish == MigrationInv /\ WholeInv /\ Publish => WholeInv'
<1> SUFFICES ASSUME MigrationInv, WholeInv, Publish PROVE WholeInv'
  OBVIOUS
<1>1. /\ pc = "publish" /\ pc' = "compare" /\ file' = [file EXCEPT ![to] = copy]
      /\ UNCHANGED <<alive, to, installed, available, enabled, running, remains,
                     ready, split, passedOver, turnedBack>>
  BY DEF Publish, At, Goto, Kept
<1>2. /\ to \in Volumes /\ Source \in Volumes /\ to \notin there /\ to \in installed
      /\ Source # to /\ Other(to) = Source /\ Other(Source) = to
      /\ running = "none" /\ Source \notin installed
  BY <1>1, OtherVolume
  DEF MigrationInv, Shape, FreeTarget, Alone, Source, WholeInv, Order
<1>3. file'[to] = copy /\ \A v \in Volumes : v # to => file'[v] = file[v]
  BY <1>1, <1>2 DEF MigrationInv, Shape
<1>4. Whole(Source)
  BY <1>2, OnlyHere
<1>5. Whole(to)'
  <2> SUFFICES ASSUME NEW f \in Files, NEW n \in alive[f]
               PROVE  copy[f] = n
    BY <1>1, <1>3 DEF Whole
  <2>1. file[Source][f] = n /\ n # 0
    BY <1>4 DEF Whole, MigrationInv, Shape
  <2> QED BY <1>1, <2>1 DEF WholeInv, Order
<1>6. Order'
  BY <1>1 DEF WholeInv, Order, Source
<1>7. ASSUME Clean' PROVE Places'
  <2>1. Places
    BY <1>1, <1>7 DEF WholeInv, Clean
  <2>2. ASSUME NEW v \in Volumes, Offered(v)' PROVE FALSE
    BY <1>1, <1>2, <2>2, OtherVolume DEF Offered, storage_app_locate, storage_available
  <2>3. \A v \in remains : Other(v) = to
    BY <1>2, <2>1, OtherVolume DEF Places
  <2> QED BY <1>1, <1>2, <1>5, <2>1, <2>2, <2>3 DEF Places, Volumes
<1> QED BY <1>6, <1>7 DEF WholeInv

\* The comparison changes no directory.
LEMMA WholeCompare == MigrationInv /\ WholeInv /\ Compare => WholeInv'
<1> SUFFICES ASSUME MigrationInv, WholeInv, Compare PROVE WholeInv'
  OBVIOUS
<1>1. /\ pc = "compare" /\ pc' \in {"clear", "unmark"}
      /\ UNCHANGED <<file, alive, to, copy, installed, available, enabled, running,
                     remains, ready, split, passedOver, turnedBack>>
  BY DEF Compare, At, Goto, Kept, dirVars
<1>2. Clean' => Clean /\ Whole(to)
  BY <1>1 DEF Clean, WholeInv, Places
<1>3. Source \notin installed
  BY <1>1 DEF WholeInv, Order
<1> QED BY <1>1, <1>2, <1>3, DataStays

\* What is deleted stays whole where it went.
LEMMA WholeClear ==
  ASSUME MigrationInv, WholeInv, ClearFile \/ ClearDirectory
  PROVE  WholeInv'
<1>1. /\ pc = "clear" /\ pc' \in {"clear", "unmark"}
      /\ remains' \subseteq remains \cup {Source}
      /\ UNCHANGED <<alive, to, installed, available, enabled, running, ready,
                     split, passedOver, turnedBack>>
  BY DEF ClearFile, ClearDirectory, At, Goto, Kept
<1>2. /\ to \in Volumes /\ Source \in Volumes /\ to \in installed
      /\ Source # to /\ Other(to) = Source /\ Other(Source) = to
      /\ running = "none" /\ Source \notin installed
  BY <1>1, OtherVolume DEF MigrationInv, Shape, Alone, Source, WholeInv, Order
<1>3. file'[to] = file[to]
  BY <1>2 DEF ClearFile, ClearDirectory, MigrationInv, Shape
<1>4. Order'
  BY <1>1 DEF WholeInv, Order, Source
<1>5. ASSUME Clean' PROVE Places'
  <2>1. Places
    BY <1>1, <1>5 DEF WholeInv, Clean
  <2>2. Whole(to)'
    BY <1>1, <1>3, <2>1 DEF Places, Whole
  <2>3. ASSUME NEW v \in Volumes, Offered(v)' PROVE FALSE
    BY <1>1, <1>2, <2>3, OtherVolume DEF Offered, storage_app_locate, storage_available
  <2>4. remains' \subseteq Volumes \ installed
    BY <1>1, <1>2, <2>1 DEF Places
  <2>5. \A v \in remains' : v = Source
    BY <1>2, <2>4, OtherVolume
  <2> QED BY <1>1, <1>2, <2>2, <2>3, <2>4, <2>5 DEF Places, Volumes
<1> QED BY <1>4, <1>5 DEF WholeInv

\* The end of a move, whole or not.
LEMMA WholeLeave ==
  ASSUME MigrationInv, WholeInv, Unmark \/ Fail
  PROVE  WholeInv'
<1>1. /\ pc # "idle" /\ pc' = "idle"
      /\ UNCHANGED <<file, alive, to, copy, installed, available, enabled, running,
                     remains, split, passedOver, turnedBack>>
  BY DEF Unmark, Fail, At, Kept, dirVars, Return
<1>2. /\ ready' \subseteq ready \cup {to}
      /\ to \in ready' => pc = "unmark"
  BY DEF Unmark, Fail, At, Return
<1>3. Clean' => Clean
  BY <1>1 DEF Clean
<1>4. Clean' /\ to \in ready' => Whole(to)
  BY <1>2, <1>3 DEF WholeInv, Places
<1> QED BY <1>1, <1>2, <1>3, <1>4, DataStays

\* What the application writes is where all of it is.
LEMMA WholeWrites ==
  ASSUME MigrationInv, WholeInv, NEW f \in Files, AppWrites(f)
  PROVE  WholeInv'
<1> DEFINE r == running
<1>1. /\ r \in Volumes /\ writes' = writes + 1
      /\ file' = [file EXCEPT ![r][f] = writes']
      /\ alive' = [alive EXCEPT ![f] = (@ \ {file[r][f]}) \cup {writes'}]
      /\ UNCHANGED <<copy, pc, to, running, installed, available, enabled, ready,
                     remains, split, passedOver, turnedBack>>
  BY DEF AppWrites, platformVars, migrationVars
<1>2. pc \in {"idle", "check"} /\ r \in installed
  BY <1>1, OtherVolume DEF MigrationInv, Alone, Volumes, WholeInv, Order
<1>3. Order'
  BY <1>1, <1>2 DEF WholeInv, Order, Source
<1>4. ASSUME Clean' PROVE Places'
  <2>1. Places
    BY <1>1, <1>4 DEF WholeInv, Clean
  <2>2. Whole(r)'
    <3>1. \A g \in Files : file'[r][g] = IF g = f THEN writes' ELSE file[r][g]
      BY <1>1 DEF MigrationInv, Shape, Content
    <3>2. \A g \in Files : alive'[g] = IF g = f THEN (alive[f] \ {file[r][f]}) \cup {writes'}
                                             ELSE alive[g]
      BY <1>1 DEF MigrationInv, Shape
    <3>3. \A g \in Files : \A n \in alive[g] : file[r][g] = n
      BY <1>1, <2>1 DEF Places, Whole
    <3> SUFFICES ASSUME NEW g \in Files, NEW n \in alive'[g] PROVE file'[r][g] = n
      BY <1>1 DEF Whole
    <3> QED BY <3>1, <3>2, <3>3
  <2>3. ASSUME NEW v \in Volumes, Offered(v)' PROVE v = r
    BY <1>1, <2>3 DEF Offered, storage_app_locate, storage_available, WholeInv, Order,
                      Volumes
  <2>4. ASSUME NEW v \in remains PROVE Other(v) = r
    BY <1>1, <1>2, <2>1, <2>4, OtherVolume DEF Places
  <2> QED BY <1>1, <1>2, <2>1, <2>2, <2>3, <2>4 DEF Places
<1> QED BY <1>3, <1>4 DEF WholeInv

\* The platform: what takes over, or is enabled or started, is looked at first.
LEMMA WholePlatform ==
  ASSUME MigrationInv, WholeInv,
         \/ \E v \in Volumes : Install(v) \/ Uninstall(v) \/ StartApp(v)
         \/ Load \/ CardReturns
  PROVE  WholeInv'
<1>1. /\ pc = "idle" /\ UNCHANGED <<there, file, alive, copy, remains>>
  BY DEF Install, Uninstall, StartApp, Load, CardReturns, Idle, dirVars, historyVars
<1>2. \A v : Whole(v)' <=> Whole(v)
  BY <1>1 DEF Whole
<1>3. ASSUME NEW v \in Volumes, Install(v) PROVE WholeInv'
  <2>1. /\ pc' = "check" /\ to' = v /\ running = "none" /\ running' = "none"
        /\ installed' = installed \cup {v} /\ ~storage_app_locate(Other(v))
        /\ UNCHANGED <<available, enabled, ready, split, passedOver>>
    BY <1>3 DEF Install, Call
  <2>2. Clean' => Clean /\ v \notin remains
    BY <1>3, Zenon DEF Install, Clean
  <2>3. Order'
    BY <1>1, <2>1 DEF WholeInv, Order, Volumes
  <2>4. ASSUME Clean', NEW u \in Volumes, Offered(u)' PROVE Whole(u)
    <3>1. u = Other(v) /\ v # u
      BY <2>1, <2>4, OtherVolume DEF Offered
    <3>2. storage_app_locate(u)
      BY <2>1, <2>4, <3>1 DEF Offered, storage_app_locate, storage_available
    <3> QED BY <2>1, <3>1, <3>2
  <2> QED BY <1>1, <1>2, <2>1, <2>2, <2>3, <2>4 DEF WholeInv, Places, Volumes
<1>4. ASSUME NEW v \in Volumes, Uninstall(v) PROVE WholeInv'
  <2>1. /\ pc' = "idle" /\ running = "none" /\ running' = "none"
        /\ installed' = installed \ {v}
        /\ UNCHANGED <<available, enabled, ready, split, turnedBack>>
    BY <1>1, <1>4 DEF Uninstall, Still, migrationVars
  <2>2. Clean' => Clean /\ ~(v \in there /\ Other(v) \in installed \cap ready)
    BY <1>4, Zenon DEF Uninstall, Clean
  <2>3. Order'
    BY <1>1, <2>1 DEF WholeInv, Order, Volumes
  <2>4. ASSUME Clean', NEW u \in Volumes, Offered(u)' PROVE Whole(u)
    <3>1. /\ u \in installed /\ u \in ready /\ u = Other(v) /\ v = Other(u)
          /\ u = "sd" => enabled
          /\ storage_available(u)
      BY <1>4, <2>1, <2>4, OtherVolume
      DEF Offered, storage_app_locate, storage_available
    <3>2. Other(u) \notin there
      BY <2>2, <2>4, <3>1
    <3> QED BY <3>2, OnlyHere
  <2> QED BY <1>1, <1>2, <2>1, <2>2, <2>3, <2>4 DEF WholeInv, Places, Volumes
<1>5. ASSUME NEW v \in Volumes, StartApp(v) PROVE WholeInv'
  <2>1. /\ pc' = "idle" /\ running' = v
        /\ storage_app_locate(v) /\ v \in ready /\ (v = "sd" => enabled)
        /\ UNCHANGED <<installed, available, enabled, ready, split, passedOver, turnedBack>>
    BY <1>1, <1>5 DEF StartApp, Still, migrationVars, historyVars
  <2>2. Order'
    BY <1>1, <2>1 DEF WholeInv, Order, storage_app_locate
  <2>3. ASSUME Clean' PROVE Places'
    <3>1. Places
      BY <2>1, <2>3 DEF WholeInv, Clean
    <3>2. Offered(v)
      BY <1>1, <2>1 DEF Offered
    <3>3. \A u : Offered(u)' => Offered(u)
      BY <1>1, <2>1 DEF Offered, storage_app_locate, storage_available
    <3> QED BY <1>1, <1>2, <1>5, <2>1, <3>1, <3>2, <3>3 DEF Places
  <2> QED BY <2>2, <2>3 DEF WholeInv
<1>6. CASE Load
  <2>1. /\ UNCHANGED <<installed, available, running, split, passedOver, turnedBack>>
        /\ available /\ enabled' = TRUE
        /\ \/ /\ "sd" \in installed /\ pc' = "check" /\ to' = "sd"
              /\ ready' = ready \ {"sd"}
           \/ /\ "sd" \notin installed /\ pc' = "idle"
              /\ ready' = ready \cup {"sd"}
    BY <1>1, <1>6 DEF Load, Call, Still, migrationVars, historyVars
  <2>2. Order'
    BY <1>1, <2>1 DEF WholeInv, Order
  <2>3. ASSUME Clean' PROVE Places'
    <3>1. Places
      BY <2>1, <2>3 DEF WholeInv, Clean
    <3>2. ASSUME NEW u \in Volumes, Offered(u)' PROVE Offered(u)
      BY <1>1, <2>1, <3>2 DEF Offered, storage_app_locate, storage_available, Volumes
    <3> QED BY <1>1, <1>2, <2>1, <3>1, <3>2 DEF Places
  <2> QED BY <2>2, <2>3 DEF WholeInv
<1>7. CASE CardReturns
  <2>1. /\ pc' = "idle" /\ ~available /\ available' = TRUE
        /\ ready' = ready \cup {"sd"}
        /\ UNCHANGED <<installed, enabled, running, split, passedOver, turnedBack>>
    BY <1>1, <1>7 DEF CardReturns, Still, migrationVars, historyVars
  <2>2. ~enabled
    BY <2>1 DEF WholeInv, Order
  <2>3. Order'
    BY <1>1, <2>1 DEF WholeInv, Order
  <2>4. ASSUME Clean' PROVE Places'
    <3>1. Places
      BY <2>1, <2>4 DEF WholeInv, Clean
    <3>2. ASSUME NEW u \in Volumes, Offered(u)' PROVE Offered(u)
      BY <1>1, <2>1, <2>2, <3>2
      DEF Offered, storage_app_locate, storage_available, Volumes
    <3> QED BY <1>1, <1>2, <2>1, <3>1, <3>2 DEF Places
  <2> QED BY <2>3, <2>4 DEF WholeInv
<1> QED BY <1>3, <1>4, <1>5, <1>6, <1>7

\* A power failure at any point leaves the migration to be carried on.
LEMMA WholePower == MigrationInv /\ WholeInv /\ PowerFailure => WholeInv'
<1> SUFFICES ASSUME MigrationInv, WholeInv, PowerFailure PROVE WholeInv'
  OBVIOUS
<1>1. /\ running' = "none" /\ enabled' = FALSE
      /\ UNCHANGED <<file, alive, installed, remains, split, passedOver, turnedBack>>
      /\ \/ "flash" \in installed /\ pc' = "check" /\ to' = "flash"
         \/ "flash" \notin installed /\ pc' = "idle"
  BY DEF PowerFailure, dirVars, historyVars, Call
<1>2. \A v : Whole(v)' <=> Whole(v)
  BY <1>1 DEF Whole
<1>3. Order'
  BY <1>1 DEF Order, Volumes
<1>4. ASSUME NEW v \in Volumes, Offered(v)' PROVE FALSE
  BY <1>1, <1>4 DEF Offered, storage_app_locate, Volumes
<1> QED BY <1>1, <1>2, <1>3, <1>4 DEF WholeInv, Places, Clean, Volumes

\* So does the end of the application, or the loss of the card.
LEMMA WholeAnytime ==
  ASSUME MigrationInv, WholeInv, StopApp \/ CardLeaves
  PROVE  WholeInv'
<1>1. UNCHANGED <<file, alive, copy, pc, to, installed, remains, split, passedOver, turnedBack>>
  BY DEF StopApp, CardLeaves, dirVars, migrationVars, historyVars
<1>2. \A v : Whole(v)' <=> Whole(v)
  BY <1>1 DEF Whole
<1>3. /\ running' \in Volumes => running' = running
      /\ enabled' => enabled /\ available'
      /\ \A v : v \in ready' => v \in ready
      /\ \A v \in Volumes : storage_app_locate(v)' => storage_app_locate(v)
  <2>1. CASE StopApp
    BY <2>1 DEF StopApp, WholeInv, Order, Volumes, storage_app_locate, storage_available
  <2>2. CASE CardLeaves
    BY <2>2 DEF CardLeaves, Volumes, storage_app_locate, storage_available, historyVars
  <2> QED BY <2>1, <2>2
<1>4. Order'
  BY <1>1, <1>3 DEF WholeInv, Order, Source
<1>5. \A v \in Volumes : Offered(v)' => Offered(v)
  BY <1>1, <1>3 DEF Offered
<1> QED BY <1>1, <1>2, <1>3, <1>4, <1>5 DEF WholeInv, Places, Clean

\* Nothing is out of place before the first move.
LEMMA WholeInit == Init => WholeInv
  BY DEF Init, WholeInv, Order, Places, Offered, storage_app_locate, Volumes

\* Every step keeps the data of an application that runs where it looks for them.
LEMMA WholeNext == MigrationInv /\ WholeInv /\ [Next]_vars => WholeInv'
<1> SUFFICES ASSUME MigrationInv, WholeInv, [Next]_vars PROVE WholeInv'
  OBVIOUS
<1>1. CASE migrate_data
  BY <1>1, WholeCheck, WholeFill, WholePublish, WholeCompare, WholeClear, WholeLeave
  DEF migrate_data
<1>2. CASE \E f \in Files : AppWrites(f)
  BY <1>2, WholeWrites
<1>3. CASE \/ \E v \in Volumes : Install(v) \/ Uninstall(v) \/ StartApp(v)
           \/ Load \/ CardReturns
  BY <1>3, WholePlatform
<1>4. CASE PowerFailure \/ StopApp \/ CardLeaves
  BY <1>4, WholePower, WholeAnytime
<1>5. CASE UNCHANGED vars
  BY <1>5 DEF vars, dirVars, migrationVars, platformVars, historyVars, WholeInv, Order,
     Places, Clean, Whole, Offered, Source, storage_app_locate, storage_available
<1> QED BY <1>1, <1>2, <1>3, <1>4, <1>5 DEF Next

\* An application that runs sees everything it ever wrote, wherever a migration
\* of its data was stopped: it is loaded only from the volume where all of it
\* is (migrate_data, and the gate its callers close).
THEOREM AllIsSeen == Spec => []SeesItsData
<1>1. MigrationInv /\ WholeInv => SeesItsData
  BY DEF WholeInv, Places, Clean, Whole, SeesItsData
<1> QED BY InvInit, InvNext, WholeInit, WholeNext, <1>1, PTL DEF Spec
\* The composition runs the migration as it is: its steps are those of the migration or leave
\* its variables alone, so that both theorems hold of what TLC runs.
THEOREM MigrationRuns == PartsSpec => Spec
<1>1. PartsInit => Init
  BY DEF PartsInit
<1>2. [PartsNext]_allVars => [Next]_vars
  <2> SUFFICES ASSUME [PartsNext]_allVars PROVE Next \/ UNCHANGED vars
    OBVIOUS
  <2>1. CASE PartsNext
    BY <2>1 DEF PartsNext
  <2>2. CASE UNCHANGED allVars
    BY <2>2 DEF allVars
  <2> QED  BY <2>1, <2>2
<1> QED  BY <1>1, <1>2, PTL DEF PartsSpec, Spec
============================================================================
