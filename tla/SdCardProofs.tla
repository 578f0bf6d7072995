---------------------------- MODULE SdCardProofs ----------------------------
(***************************************************************************)
(* Proofs about the card service, for every set of cards and every bound.  *)
(***************************************************************************)
EXTENDS SdCard, TLAPS

USE DEF slotVars, countVars, grantVars, wakeVars, stateVars, viewVars,
        faultVars, releaseVars, hostVars, localVars, userVars,
        Worker, WorkerGrant, WorkerState, PcOnly, LocalOnly, KeepForMount,
        OutsideSlot, OutsideStart, KeepCard, AnswerOnly, OutsideHost, UserOnly,
        Goto

\* Session and release numbers stay in range and never become zero.
LEMMA NextIdType == \A i \in Id : _next_id(i) \in Id /\ _next_id(i) # 0
  BY BoundsAssumption DEF Id, _next_id

\* The helpers of the code keep their part of the state well formed.
LEMMA HelperTypes ==
  ASSUME TypeOK
  PROVE  /\ _invalidate_locked =>
              /\ invalidated' \in BOOLEAN /\ available' \in BOOLEAN
              /\ session' \in Id
         /\ _wake_worker => wakePending' \in BOOLEAN /\ event' \in Nat
         /\ \A s \in States : _set_state(s) => state' \in States /\ overdue' \in BOOLEAN
  <1>1. ASSUME _invalidate_locked
        PROVE  invalidated' \in BOOLEAN /\ available' \in BOOLEAN /\ session' \in Id
    BY <1>1, NextIdType DEF TypeOK, _invalidate_locked
  <1>2. ASSUME _wake_worker PROVE wakePending' \in BOOLEAN /\ event' \in Nat
    BY <1>2 DEF TypeOK, _wake_worker
  <1>3. ASSUME NEW s \in States, _set_state(s)
        PROVE  state' \in States /\ overdue' \in BOOLEAN
    BY <1>3 DEF _set_state
  <1> QED BY <1>1, <1>2, <1>3

\* A fault keeps the types.
LEMMA FaultType ==
  ASSUME TypeOK, NEW from, NEW isFatal \in BOOLEAN, _fault(from, isFatal)
  PROVE  TypeOK'
  BY HelperTypes DEF TypeOK, _fault, States, Points

\* So does debouncing the pin,
LEMMA TypeSample == TypeOK /\ _sample => TypeOK'
  <1> SUFFICES ASSUME TypeOK, _sample PROVE TypeOK'
    OBVIOUS
  <1> USE DEF TypeOK, Points
  <1>1. CASE SampleEdges BY <1>1 DEF SampleEdges
  <1>2. CASE SampleFirst BY <1>2 DEF SampleFirst
  <1>3. CASE SampleSecond BY <1>3 DEF SampleSecond
  <1>4. CASE SampleAccept BY <1>4, HelperTypes DEF SampleAccept
  <1>5. CASE SampleAgain BY <1>5 DEF SampleAgain
  <1> QED BY <1>1, <1>2, <1>3, <1>4, <1>5 DEF _sample

\* the look at the host and the decision what to do,
LEMMA TypeDecide ==
  TypeOK /\ (DecideRetire \/ DecideAbsent \/ DecideAgain \/ DecideKeep \/ DecideProbe)
    => TypeOK'
  <1> SUFFICES ASSUME TypeOK,
                      DecideRetire \/ DecideAbsent \/ DecideAgain \/ DecideKeep
                        \/ DecideProbe
               PROVE  TypeOK'
    OBVIOUS
  <1> USE HelperTypes DEF TypeOK, Points
  <1>1. CASE DecideRetire BY <1>1 DEF DecideRetire, RevokeIfStale, OldCard
  <1>2. CASE DecideAbsent
    <2>1. invalidated' \in BOOLEAN BY <1>2, Zenon DEF DecideAbsent
    <2> QED BY <1>2, <2>1 DEF DecideAbsent, States
  <1>3. CASE DecideAgain BY <1>3 DEF DecideAgain
  <1>4. CASE DecideKeep BY <1>4 DEF DecideKeep
  <1>5. CASE DecideProbe
    <2>1. invalidated' \in BOOLEAN BY <1>5, Zenon DEF DecideProbe
    <2> QED BY <1>5, <2>1 DEF DecideProbe, States
  <1> QED BY <1>1, <1>2, <1>3, <1>4, <1>5

\* a request to the SDK,
LEMMA TypeRequest ==
  ASSUME TypeOK, _request, pc' \in Points
  PROVE  TypeOK'
  BY DEF TypeOK, _request

\* the wait for its outcome,
LEMMA TypeWait ==
  ASSUME TypeOK, NEW from, NEW to \in Points, _wait_change(from, to)
  PROVE  TypeOK'
  <1>1. CASE change # "pending" /\ Goto(from, to) /\ PcOnly
    BY <1>1 DEF TypeOK
  <1>2. CASE change = "pending" /\ _fault(from, TRUE)
    BY <1>2, FaultType
  <1> QED BY <1>1, <1>2 DEF _wait_change

\* probing, mounting and publishing,
LEMMA TypeProbeAndMount ==
  TypeOK /\ (SubmitProbe \/ ProbeOutdated \/ ProbeResult \/ LockForMount \/ LockTimeout
               \/ Mount
               \/ MountOutdated \/ MountFault \/ Publish)
    => TypeOK'
  <1> SUFFICES ASSUME TypeOK,
                      SubmitProbe \/ ProbeOutdated \/ ProbeResult \/ LockForMount
                        \/ LockTimeout \/ Mount \/ MountOutdated \/ MountFault \/ Publish
               PROVE  TypeOK'
    OBVIOUS
  <1>1. CASE SubmitProbe
    BY <1>1, TypeRequest, FaultType DEF SubmitProbe, Points
  <1>2. CASE ProbeOutdated
    BY <1>2, HelperTypes DEF TypeOK, Points, ProbeOutdated
  <1>3. CASE ProbeResult
    <2>1. CASE ProbeUsable /\ Goto("probed", "lock") /\ PcOnly
      BY <2>1 DEF TypeOK, Points
    <2> QED BY <1>3, <2>1, FaultType DEF ProbeResult
  <1>4. CASE LockForMount BY <1>4 DEF LockForMount, TypeOK, Points
  <1>9. CASE LockTimeout BY <1>9, FaultType DEF LockTimeout
  <1>5. CASE Mount
    <2>1. CASE mounted' = TRUE
      <3>1. mounted' \in BOOLEAN BY <2>1, Zenon
      <3> QED BY <1>5, <3>1 DEF TypeOK, Points, Mount
    <2>2. CASE UNCHANGED mounted
      BY <1>5, <2>2 DEF TypeOK, Points, Mount
    <2> QED BY <1>5, <2>1, <2>2 DEF Mount
  <1>6. CASE MountOutdated BY <1>6, HelperTypes DEF TypeOK, Points, MountOutdated
  <1>7. CASE MountFault BY <1>7, FaultType DEF MountFault
  <1>8. CASE Publish
    BY <1>8, NextIdType, HelperTypes DEF TypeOK, Points, States, Publish
  <1> QED BY <1>1, <1>2, <1>3, <1>4, <1>5, <1>6, <1>7, <1>8, <1>9

\* and giving a card back:
LEMMA TypeRetire == TypeOK /\ _retire => TypeOK'
  <1> SUFFICES ASSUME TypeOK, _retire PROVE TypeOK'
    OBVIOUS
  <1>1. CASE RetireAsk
    <2>1. acknowledged' \in BOOLEAN BY <1>1, Zenon DEF RetireAsk
    <2> QED
      BY <1>1, <2>1, HelperTypes, NextIdType DEF TypeOK, Points, States, RetireAsk
  <1>2. CASE DrainOverdue BY <1>2 DEF TypeOK, DrainOverdue
  <1>3. CASE DrainTaken BY <1>3 DEF TypeOK, Points, DrainTaken
  <1>4. CASE DrainOver
    BY <1>4, HelperTypes DEF TypeOK, Points, States, DrainOver
  <1>5. CASE Unmount
    <2>1. mounted' \in BOOLEAN BY <1>5, Zenon DEF Unmount
    <2> QED BY <1>5, <2>1 DEF Unmount, TypeOK, Points
  <1>9. CASE UnmountFault BY <1>9, FaultType DEF UnmountFault
  <1>6. CASE Detach
    <2>1. CASE _fault("detach", TRUE) BY <2>1, FaultType
    <2>2. CASE Goto("detach", "waitRemove") /\ _request
      BY <2>2, TypeRequest DEF Points
    <2>3. CASE Goto("detach", "removed") /\ PcOnly
      BY <2>3 DEF TypeOK, Points
    <2> QED BY <1>6, <2>1, <2>2, <2>3 DEF Detach
  <1>7. CASE _wait_change("waitRemove", "removed")
    BY <1>7, TypeWait DEF Points
  <1>8. CASE Removed
    <2>1. invalidated' \in BOOLEAN BY <1>8, Zenon DEF Removed
    <2>2. releaseId' \in Id BY <1>8, BoundsAssumption DEF Removed, Id
    <2> QED
      BY <1>8, <2>1, <2>2, HelperTypes DEF Removed, TypeOK, Points, States
  <1>10. CASE RemoveFault BY <1>10, FaultType DEF RemoveFault
  <1> QED
    BY <1>1, <1>2, <1>3, <1>4, <1>5, <1>6, <1>7, <1>8, <1>9, <1>10 DEF _retire

\* hence every step of the worker.
LEMMA TypeWorker == TypeOK /\ _worker => TypeOK'
  <1> SUFFICES ASSUME TypeOK, _worker PROVE TypeOK'
    OBVIOUS
  <1>1. CASE TakeEvent BY <1>1 DEF TypeOK, Points, TakeEvent
  <1>2. CASE ClearWake
    <2>1. wakePending' \in BOOLEAN BY <1>2, Zenon DEF ClearWake
    <2> QED BY <1>2, <2>1 DEF TypeOK, Points, ClearWake
  <1>3. CASE _reconcile
    <2>1. CASE Quarantine BY <2>1 DEF TypeOK, Points, Quarantine
    <2>2. CASE ReadStatus
      <3>1. bootChecked' \in BOOLEAN /\ adopted' \in BOOLEAN
        BY <2>2, Zenon DEF ReadStatus
      <3> QED
        BY <2>2, <3>1, HelperTypes DEF TypeOK, Points, States, ReadStatus
    <2>3. CASE _wait_change("waitBoot", "decide") \/ _wait_change("waitProbe", "probed")
      BY <2>3, TypeWait DEF Points
    <2> QED
      BY <1>3, <2>1, <2>2, <2>3, TypeSample, TypeDecide, TypeProbeAndMount
         DEF _reconcile
  <1>4. CASE _retire BY <1>4, TypeRetire
  <1> QED BY <1>1, <1>2, <1>3, <1>4 DEF _worker

\* sdcard_start keeps the types, whichever of its steps fails.
LEMMA TypeStart == TypeOK /\ sdcard_start => TypeOK'
  <1> SUFFICES ASSUME TypeOK, sdcard_start PROVE TypeOK'
    OBVIOUS
  <1> USE DEF TypeOK
  <1>1. CASE StartBegin
    <2>1. /\ invalidated' \in BOOLEAN /\ available' \in BOOLEAN
          /\ wakePending' \in BOOLEAN /\ present' \in BOOLEAN
          /\ mounted' \in BOOLEAN /\ fatal' \in BOOLEAN
          /\ bootChecked' \in BOOLEAN /\ acknowledged' \in BOOLEAN
      BY <1>1, Zenon DEF StartBegin
    <2> QED
      BY <1>1, <2>1, HelperTypes, BoundsAssumption DEF StartBegin, States, Id
  <1>2. CASE StartArm BY <1>2 DEF StartArm
  <1>3. CASE StartResident BY <1>3 DEF StartResident
  <1>4. CASE StartWorker BY <1>4, HelperTypes DEF StartWorker, Points
  <1>5. CASE StartFail
    <2>1. armed' \in BOOLEAN /\ irq' \in BOOLEAN
      BY <1>5, Zenon DEF StartFail
    <2> QED BY <1>5, <2>1, HelperTypes DEF StartFail, States
  <1> QED BY <1>1, <1>2, <1>3, <1>4, <1>5 DEF sdcard_start

\* So do the interrupt, the answers, the slot, the SDK and the users.
LEMMA TypeEnvironment ==
  TypeOK /\ (Environment \/ _pin_irq \/ sdcard_release_complete) => TypeOK'
  <1> SUFFICES ASSUME TypeOK, Environment \/ _pin_irq \/ sdcard_release_complete
               PROVE  TypeOK'
    OBVIOUS
  <1> USE BoundsAssumption DEF TypeOK
  <1>1. CASE _pin_irq
    <2>1. irq' \in BOOLEAN BY <1>1, Zenon DEF _pin_irq
    <2> QED BY <1>1, <2>1, HelperTypes DEF _pin_irq
  <1>2. CASE \E id \in Id : AcceptRelease(id) BY <1>2 DEF AcceptRelease
  <1>3. CASE PostRelease
    <2>1. acking' \in BOOLEAN BY <1>3, Zenon DEF PostRelease
    <2> QED BY <1>3, <2>1 DEF PostRelease
  <1>4. CASE RemoveCard BY <1>4 DEF RemoveCard, Move
  <1>5. CASE \E c \in Cards : InsertCard(c) BY <1>5 DEF InsertCard, Move
  <1>6. CASE SdkIdentify BY <1>6 DEF SdkIdentify
  <1>7. CASE SdkDone
    <2>1. CASE block' \in {FALSE, hostCard # NoCard} /\ UNCHANGED hostCard
      <3>1. block' \in BOOLEAN BY <2>1, Zenon
      <3> QED BY <1>7, <2>1, <3>1 DEF SdkDone
    <2>2. CASE hostCard' = NoCard /\ block' = FALSE
      <3>1. block' \in BOOLEAN BY <2>2, Zenon
      <3> QED BY <1>7, <2>2, <3>1 DEF SdkDone
    <2>3. CASE UNCHANGED <<hostCard, block>>
      BY <1>7, <2>3 DEF SdkDone
    <2> QED BY <1>7, <2>1, <2>2, <2>3 DEF SdkDone
  <1>8. CASE UserEnter BY <1>8 DEF UserEnter
  <1>9. CASE UserLeave BY <1>9 DEF UserLeave
  <1>10. CASE UserClose BY <1>10 DEF UserClose
  <1> QED
    BY <1>1, <1>2, <1>3, <1>4, <1>5, <1>6, <1>7, <1>8, <1>9, <1>10
       DEF Environment, sdcard_release_complete

\* Every variable of the service keeps its type, whatever the slot, the SDK
\* and the users do.
THEOREM TypeCorrect == Spec => []TypeOK
  <1>1. Init => TypeOK
    <2> SUFFICES ASSUME Init PROVE TypeOK
      OBVIOUS
    <2>1. /\ irq \in BOOLEAN /\ armed \in BOOLEAN /\ invalidated \in BOOLEAN
          /\ available \in BOOLEAN /\ wakePending \in BOOLEAN
          /\ overdue \in BOOLEAN /\ present \in BOOLEAN /\ mounted \in BOOLEAN
          /\ fatal \in BOOLEAN /\ bootChecked \in BOOLEAN
          /\ acknowledged \in BOOLEAN /\ acking \in BOOLEAN
          /\ first \in BOOLEAN /\ second \in BOOLEAN /\ adopted \in BOOLEAN
      BY Zenon DEF Init
    <2>2. block \in BOOLEAN
      <3>1. block \in {FALSE, hostCard # NoCard} BY DEF Init
      <3> QED BY <3>1, Zenon
    <2>3. hostCard \in Cards \cup {NoCard} BY DEF Init
    <2> QED
      BY <2>1, <2>2, <2>3, BoundsAssumption DEF Init, TypeOK, States, Points, Id
  <1>2. TypeOK /\ [Next]_vars => TypeOK'
    <2> SUFFICES ASSUME TypeOK, [Next]_vars PROVE TypeOK'
      OBVIOUS
    <2>1. CASE UNCHANGED vars BY <2>1 DEF TypeOK, vars
    <2> QED
      BY <2>1, TypeStart, TypeWorker, TypeEnvironment DEF Next
  <1> QED BY <1>1, <1>2, PTL DEF Spec

-----------------------------------------------------------------------------
\* The protocol of the worker: ProtocolInv is inductive.

\* What the steps below need of the types.
TypeFacts == released \in Nat /\ nextRelease \in Id

USE DEF StartInv, RequestInv, ReleaseHandshake, GrantInv, HostInv, ProtocolInv,
        Retiring, _invalidate_locked, _wake_worker, _set_state, _fault, _request

\* Starting, and failing to start, touches nothing of the card.
LEMMA ProtocolStart == TypeFacts /\ ProtocolInv /\ sdcard_start => ProtocolInv'
  <1> SUFFICES ASSUME ProtocolInv, sdcard_start PROVE ProtocolInv'
    OBVIOUS
  <1>1. CASE StartBegin BY <1>1 DEF StartBegin
  <1>2. CASE StartArm BY <1>2 DEF StartArm
  <1>3. CASE StartResident BY <1>3 DEF StartResident
  <1>4. CASE StartWorker BY <1>4 DEF StartWorker
  <1>5. CASE StartFail BY <1>5 DEF StartFail
  <1> QED BY <1>1, <1>2, <1>3, <1>4, <1>5 DEF sdcard_start

\* A wait ends with the host at rest or the card isolated.
LEMMA ProtocolWait ==
  ASSUME ProtocolInv,
         NEW from, NEW to,
         <<from, to>> \in {<<"waitBoot", "decide">>, <<"waitProbe", "probed">>,
                           <<"waitRemove", "removed">>},
         _wait_change(from, to)
  PROVE  ProtocolInv'
  <1>1. CASE from = "waitBoot" /\ to = "decide" BY <1>1 DEF _wait_change
  <1>2. CASE from = "waitProbe" /\ to = "probed" BY <1>2 DEF _wait_change
  <1>3. CASE from = "waitRemove" /\ to = "removed" BY <1>3 DEF _wait_change
  <1> QED BY <1>1, <1>2, <1>3

\* Debouncing and the look at the host.
LEMMA ProtocolLook ==
  ProtocolInv /\ (TakeEvent \/ ClearWake \/ _sample \/ Quarantine \/ ReadStatus)
    => ProtocolInv'
  <1> SUFFICES ASSUME ProtocolInv,
                      TakeEvent \/ ClearWake \/ _sample \/ Quarantine \/ ReadStatus
               PROVE  ProtocolInv'
    OBVIOUS
  <1>1. CASE TakeEvent BY <1>1 DEF TakeEvent
  <1>2. CASE ClearWake BY <1>2 DEF ClearWake
  <1>3. CASE _sample
    <2>1. CASE SampleEdges BY <2>1 DEF SampleEdges
    <2>2. CASE SampleFirst BY <2>2 DEF SampleFirst
    <2>3. CASE SampleSecond BY <2>3 DEF SampleSecond
    <2>4. CASE SampleAccept BY <2>4 DEF SampleAccept
    <2>5. CASE SampleAgain BY <2>5 DEF SampleAgain
    <2> QED BY <1>3, <2>1, <2>2, <2>3, <2>4, <2>5 DEF _sample
  <1>4. CASE Quarantine BY <1>4 DEF Quarantine
  <1>5. CASE ReadStatus BY <1>5 DEF ReadStatus
  <1> QED BY <1>1, <1>2, <1>3, <1>4, <1>5

\* The decision what to do with the card found.
LEMMA ProtocolDecide ==
  ProtocolInv /\ (DecideRetire \/ DecideAbsent \/ DecideAgain \/ DecideKeep
                    \/ DecideProbe)
    => ProtocolInv'
  <1> SUFFICES ASSUME ProtocolInv,
                      DecideRetire \/ DecideAbsent \/ DecideAgain \/ DecideKeep
                        \/ DecideProbe
               PROVE  ProtocolInv'
    OBVIOUS
  <1>1. CASE DecideRetire BY <1>1 DEF DecideRetire, RevokeIfStale, OldCard
  <1>2. CASE DecideAbsent BY <1>2 DEF DecideAbsent, OldCard
  <1>3. CASE DecideAgain BY <1>3 DEF DecideAgain
  <1>4. CASE DecideKeep BY <1>4 DEF DecideKeep
  <1>5. CASE DecideProbe
    \* a card that is mounted but not granted has been marked for retirement
    <2>1. ~mounted BY <1>5 DEF DecideProbe, Fresh, OldCard
    <2> QED BY <1>5, <2>1 DEF DecideProbe
  <1> QED BY <1>1, <1>2, <1>3, <1>4, <1>5

\* From the probe to the published session.
LEMMA ProtocolMount ==
  ProtocolInv /\ (SubmitProbe \/ ProbeOutdated \/ ProbeResult \/ LockForMount
                    \/ LockTimeout \/ Mount \/ MountOutdated \/ MountFault \/ Publish)
    => ProtocolInv'
  <1> SUFFICES ASSUME ProtocolInv,
                      SubmitProbe \/ ProbeOutdated \/ ProbeResult \/ LockForMount
                        \/ LockTimeout \/ Mount \/ MountOutdated \/ MountFault
                        \/ Publish
               PROVE  ProtocolInv'
    OBVIOUS
  <1>1. CASE SubmitProbe BY <1>1 DEF SubmitProbe
  <1>2. CASE ProbeOutdated BY <1>2 DEF ProbeOutdated
  <1>3. CASE ProbeResult
    BY <1>3, CardsAssumption DEF ProbeResult, ProbeUsable
  <1>4. CASE LockForMount BY <1>4 DEF LockForMount
  <1>5. CASE LockTimeout BY <1>5 DEF LockTimeout
  <1>6. CASE Mount BY <1>6 DEF Mount
  <1>7. CASE MountOutdated BY <1>7 DEF MountOutdated
  <1>8. CASE MountFault BY <1>8 DEF MountFault
  <1>9. CASE Publish BY <1>9 DEF Publish
  <1> QED BY <1>1, <1>2, <1>3, <1>4, <1>5, <1>6, <1>7, <1>8, <1>9

\* From the request to give the card back to its removal.
LEMMA ProtocolRetire == TypeFacts /\ ProtocolInv /\ _retire => ProtocolInv'
  <1> SUFFICES ASSUME TypeFacts, ProtocolInv, _retire PROVE ProtocolInv'
    OBVIOUS
  <1>1. CASE RetireAsk BY <1>1, NextIdType DEF TypeFacts, RetireAsk
  <1>2. CASE DrainOverdue BY <1>2 DEF DrainOverdue
  <1>3. CASE DrainTaken BY <1>3 DEF TypeFacts, DrainTaken
  <1>4. CASE DrainOver BY <1>4 DEF DrainOver
  <1>5. CASE Unmount BY <1>5 DEF Unmount
  <1>6. CASE UnmountFault BY <1>6 DEF UnmountFault
  <1>7. CASE Detach BY <1>7 DEF Detach
  <1>8. CASE _wait_change("waitRemove", "removed") BY <1>8, ProtocolWait
  <1>9. CASE Removed BY <1>9 DEF Removed
  <1>10. CASE RemoveFault BY <1>10 DEF RemoveFault
  <1> QED
    BY <1>1, <1>2, <1>3, <1>4, <1>5, <1>6, <1>7, <1>8, <1>9, <1>10 DEF _retire

\* What the interrupt, the platform, the SDK and the users do.
LEMMA ProtocolOthers ==
  TypeFacts /\ ProtocolInv /\ (Environment \/ _pin_irq \/ sdcard_release_complete)
    => ProtocolInv'
  <1> SUFFICES ASSUME TypeFacts, ProtocolInv,
                      Environment \/ _pin_irq \/ sdcard_release_complete
               PROVE  ProtocolInv'
    OBVIOUS
  <1>1. CASE _pin_irq BY <1>1 DEF _pin_irq
  <1>2. CASE \E id \in Id : AcceptRelease(id)
    BY <1>2 DEF TypeFacts, AcceptRelease
  <1>3. CASE PostRelease BY <1>3 DEF TypeFacts, PostRelease
  <1>4. CASE RemoveCard BY <1>4 DEF RemoveCard, Move
  <1>5. CASE \E c \in Cards : InsertCard(c) BY <1>5 DEF InsertCard, Move
  <1>6. CASE SdkIdentify BY <1>6 DEF SdkIdentify
  <1>7. CASE SdkDone BY <1>7 DEF SdkDone
  <1>8. CASE UserEnter BY <1>8 DEF UserEnter
  <1>9. CASE UserLeave BY <1>9 DEF UserLeave
  <1>10. CASE UserClose BY <1>10 DEF UserClose
  <1> QED
    BY <1>1, <1>2, <1>3, <1>4, <1>5, <1>6, <1>7, <1>8, <1>9, <1>10
       DEF Environment, sdcard_release_complete

USE DEF _worker, _reconcile

\* The invariant holds at boot, whatever the SDK has done by then,
LEMMA ProtocolInit == Init => ProtocolInv
  BY DEF Init

\* and every step preserves it.
LEMMA ProtocolStep == TypeFacts /\ ProtocolInv /\ [Next]_vars => ProtocolInv'
  <1> SUFFICES ASSUME TypeFacts, ProtocolInv, [Next]_vars PROVE ProtocolInv'
    OBVIOUS
  <1>1. CASE UNCHANGED vars BY <1>1 DEF vars
  <1>2. CASE _worker
    <2>1. CASE \/ _wait_change("waitBoot", "decide")
               \/ _wait_change("waitProbe", "probed")
      BY <2>1, ProtocolWait
    <2> HIDE DEF ProtocolInv
    <2> QED
      BY <1>2, <2>1, ProtocolLook, ProtocolDecide, ProtocolMount, ProtocolRetire
  <1> QED
    BY <1>1, <1>2, ProtocolStart, ProtocolOthers DEF Next

\* The types imply the facts used above.
LEMMA TypeGivesFacts == TypeOK => TypeFacts
  BY DEF TypeOK, TypeFacts

\* Every reachable state satisfies the protocol of the worker.
THEOREM ProtocolHolds == Spec => []ProtocolInv
  <1> HIDE DEF ProtocolInv
  <1> QED
    BY ProtocolInit, ProtocolStep, TypeGivesFacts, TypeCorrect, PTL DEF Spec

\* An answer counts for the request being drained and for no other, whatever
\* the threads of the platform call and when.
THEOREM HandshakeCorrect == Spec => []ReleaseHandshake
  <1>1. ProtocolInv => ReleaseHandshake
    OBVIOUS
  <1> HIDE DEF ProtocolInv, ReleaseHandshake
  <1> QED BY <1>1, ProtocolHolds, PTL

-----------------------------------------------------------------------------
(* A session is of the inserted card.  What makes the claim inductive: an    *)
(* edge not handled yet is known to be (irq), a handled one makes the counts *)
(* differ, and a card that left has been withdrawn before another comes.     *)

\* The points past the worker's first look at the host.
Looked == {"waitBoot", "decide", "submit", "waitProbe", "probed", "lock", "mount",
           "publish", "mountFailed", "retire"} \cup Retiring

\* The points between the decision for a card and its publication.
Trying == {"submit", "waitProbe", "probed", "lock", "mount", "publish",
           "mountFailed"}

\* The edge handler is heard of: it is armed before the worker exists, counts
\* beyond every count the worker took, and withdraws the card it saw leave.
EdgesHeard ==
  /\ wEdges <= edges
  /\ lifecycle = 2 => armed
  /\ pc = "off" => wEdges = 0 /\ ~bootChecked
  /\ available \/ pc \in Looked => bootChecked
  /\ pc = "compare" /\ second /\ wEdges = edges /\ ~irq => pin
  /\ (bootChecked \/ pc = "status") /\ ~pin /\ ~irq
       => invalidated \/ (hostCard = NoCard /\ bootChecked)

\* The card object of the SDK is of the inserted card unless it was withdrawn.
HostIsInserted ==
  /\ available => ~invalidated
  /\ pc \in Trying /\ wEdges = edges => ~invalidated
  /\ hostCard # NoCard /\ (~invalidated \/ ~bootChecked) => hostCard = card

SlotInv == EdgesHeard /\ HostIsInserted

\* What the steps below need of the types.
Counts == edges \in Nat /\ wEdges \in Nat

\* The counters are numbers.
LEMMA TypeGivesCounts == TypeOK => Counts
  BY DEF TypeOK, Counts

USE DEF Looked, Trying, EdgesHeard, HostIsInserted, SlotInv, Counts

\* Until the worker has looked the host knows no card but the inserted one.
LEMMA SlotStart ==
  Counts /\ ProtocolInv /\ SlotInv /\ sdcard_start => SlotInv'
  <1> SUFFICES ASSUME Counts, ProtocolInv, SlotInv, sdcard_start PROVE SlotInv'
    OBVIOUS
  <1>1. CASE StartBegin
    <2>1. pc = "off" BY <1>1 DEF StartBegin
    <2>2. /\ edges' = 0 /\ lifecycle' = 1 /\ ~available' /\ ~bootChecked'
          /\ UNCHANGED <<pin, card, irq, armed, hostCard, pc, wEdges, second>>
      BY <1>1 DEF StartBegin
    <2> QED BY <2>1, <2>2
  <1>2. CASE StartArm BY <1>2 DEF StartArm
  <1>3. CASE StartResident BY <1>3 DEF StartResident
  <1>4. CASE StartWorker BY <1>4 DEF StartWorker
  <1>5. CASE StartFail BY <1>5 DEF StartFail
  <1> QED BY <1>1, <1>2, <1>3, <1>4, <1>5 DEF sdcard_start

\* A fault, and a wait for the SDK, end with the card withdrawn or go on.
LEMMA SlotFault ==
  ASSUME Counts, ProtocolInv, SlotInv, NEW from, NEW isFatal,
         from # "off", _fault(from, isFatal)
  PROVE  SlotInv'
  OBVIOUS

\* The host's waiting for a change of the card.
LEMMA SlotWait ==
  ASSUME Counts, ProtocolInv, SlotInv,
         NEW from, NEW to,
         <<from, to>> \in {<<"waitBoot", "decide">>, <<"waitProbe", "probed">>,
                           <<"waitRemove", "removed">>},
         _wait_change(from, to)
  PROVE  SlotInv'
  <1>1. from # "off" OBVIOUS
  <1>2. CASE _fault(from, TRUE) BY <1>1, <1>2, SlotFault
  <1>3. CASE Goto(from, to) /\ PcOnly BY <1>3
  <1> QED BY <1>2, <1>3 DEF _wait_change

\* Debouncing: two readings agree, and no edge was counted since before them.
LEMMA SlotLook ==
  Counts /\ ProtocolInv /\ SlotInv
    /\ (TakeEvent \/ ClearWake \/ _sample \/ Quarantine \/ ReadStatus)
    => SlotInv'
  <1> SUFFICES ASSUME Counts, ProtocolInv, SlotInv,
                      TakeEvent \/ ClearWake \/ _sample \/ Quarantine \/ ReadStatus
               PROVE  SlotInv'
    OBVIOUS
  <1>1. CASE TakeEvent BY <1>1 DEF TakeEvent
  <1>2. CASE ClearWake BY <1>2 DEF ClearWake
  <1>3. CASE _sample
    <2>1. CASE SampleEdges BY <2>1 DEF SampleEdges
    <2>2. CASE SampleFirst BY <2>2 DEF SampleFirst
    <2>3. CASE SampleSecond BY <2>3 DEF SampleSecond
    <2>4. CASE SampleAccept BY <2>4 DEF SampleAccept, Steady
    <2>5. CASE SampleAgain BY <2>5 DEF SampleAgain
    <2> QED BY <1>3, <2>1, <2>2, <2>3, <2>4, <2>5 DEF _sample
  <1>4. CASE Quarantine BY <1>4 DEF Quarantine
  <1>5. CASE ReadStatus BY <1>5 DEF ReadStatus
  <1> QED BY <1>1, <1>2, <1>3, <1>4, <1>5

\* A card is tried only while no edge has been counted and it is not withdrawn.
LEMMA SlotDecide ==
  Counts /\ ProtocolInv /\ SlotInv
    /\ (DecideRetire \/ DecideAbsent \/ DecideAgain \/ DecideKeep \/ DecideProbe)
    => SlotInv'
  <1> SUFFICES ASSUME Counts, ProtocolInv, SlotInv,
                      DecideRetire \/ DecideAbsent \/ DecideAgain \/ DecideKeep
                        \/ DecideProbe
               PROVE  SlotInv'
    OBVIOUS
  <1>1. CASE DecideRetire BY <1>1 DEF DecideRetire, RevokeIfStale
  <1>2. CASE DecideAbsent BY <1>2 DEF DecideAbsent, OldCard
  <1>3. CASE DecideAgain BY <1>3 DEF DecideAgain
  <1>4. CASE DecideKeep BY <1>4 DEF DecideKeep
  <1>5. CASE DecideProbe BY <1>5 DEF DecideProbe, Fresh, Stale, OldCard
  <1> QED BY <1>1, <1>2, <1>3, <1>4, <1>5

\* Probing and mounting, with another look before each step.
LEMMA SlotMount ==
  Counts /\ ProtocolInv /\ SlotInv
    /\ (SubmitProbe \/ ProbeOutdated \/ ProbeResult \/ LockForMount \/ LockTimeout
          \/ Mount \/ MountOutdated \/ MountFault \/ Publish)
    => SlotInv'
  <1> SUFFICES ASSUME Counts, ProtocolInv, SlotInv,
                      SubmitProbe \/ ProbeOutdated \/ ProbeResult \/ LockForMount
                        \/ LockTimeout \/ Mount \/ MountOutdated \/ MountFault
                        \/ Publish
               PROVE  SlotInv'
    OBVIOUS
  <1>1. CASE SubmitProbe BY <1>1 DEF SubmitProbe
  <1>2. CASE ProbeOutdated BY <1>2 DEF ProbeOutdated
  <1>3. CASE ProbeResult BY <1>3 DEF ProbeResult
  <1>4. CASE LockForMount BY <1>4 DEF LockForMount
  <1>5. CASE LockTimeout BY <1>5 DEF LockTimeout
  <1>6. CASE Mount BY <1>6 DEF Mount
  <1>7. CASE MountOutdated BY <1>7 DEF MountOutdated
  <1>8. CASE MountFault BY <1>8 DEF MountFault
  <1>9. CASE Publish BY <1>9 DEF Publish, _current
  <1> QED BY <1>1, <1>2, <1>3, <1>4, <1>5, <1>6, <1>7, <1>8, <1>9

\* Giving a card back.
LEMMA SlotRetire ==
  Counts /\ ProtocolInv /\ SlotInv /\ _retire => SlotInv'
  <1> SUFFICES ASSUME Counts, ProtocolInv, SlotInv, _retire PROVE SlotInv'
    OBVIOUS
  <1>1. CASE RetireAsk BY <1>1 DEF RetireAsk
  <1>2. CASE DrainOverdue BY <1>2 DEF DrainOverdue
  <1>3. CASE DrainTaken BY <1>3 DEF DrainTaken
  <1>4. CASE DrainOver BY <1>4 DEF DrainOver
  <1>5. CASE Unmount BY <1>5 DEF Unmount
  <1>6. CASE UnmountFault BY <1>6 DEF UnmountFault
  <1>7. CASE Detach BY <1>7 DEF Detach
  <1>8. CASE _wait_change("waitRemove", "removed") BY <1>8, SlotWait
  <1>9. CASE Removed BY <1>9 DEF Removed
  <1>10. CASE RemoveFault BY <1>10 DEF RemoveFault
  <1> QED
    BY <1>1, <1>2, <1>3, <1>4, <1>5, <1>6, <1>7, <1>8, <1>9, <1>10 DEF _retire

\* The slot and its interrupt.
LEMMA SlotOthers ==
  Counts /\ ProtocolInv /\ SlotInv
    /\ (Environment \/ _pin_irq \/ sdcard_release_complete)
    => SlotInv'
  <1> SUFFICES ASSUME Counts, ProtocolInv, SlotInv,
                      Environment \/ _pin_irq \/ sdcard_release_complete
               PROVE  SlotInv'
    OBVIOUS
  <1>1. CASE _pin_irq BY <1>1 DEF _pin_irq
  <1>2. CASE \E id \in Id : AcceptRelease(id) BY <1>2 DEF AcceptRelease
  <1>3. CASE PostRelease BY <1>3 DEF PostRelease
  <1>4. CASE RemoveCard BY <1>4 DEF RemoveCard, Move
  <1>5. ASSUME NEW c \in Cards, InsertCard(c) PROVE SlotInv'
    <2>1. ~pin /\ pin' BY <1>5, Zenon DEF InsertCard, Move
    <2>2. /\ card' = c
          /\ c # card => ~irq /\ bootChecked
          /\ irq' => irq \/ armed
          /\ irq \/ armed => irq'
      BY <1>5, Zenon DEF InsertCard, Move
    <2>3. UNCHANGED <<armed, lifecycle, edges, wEdges, second, pc, available,
                      invalidated, bootChecked, hostCard>>
      BY <1>5 DEF InsertCard, Move
    <2>4. EdgesHeard' BY <2>1, <2>2, <2>3
    <2>5. HostIsInserted' BY <2>1, <2>2, <2>3
    <2> QED BY <2>4, <2>5
  <1>6. CASE SdkIdentify BY <1>6 DEF SdkIdentify
  <1>7. CASE SdkDone BY <1>7 DEF SdkDone
  <1>8. CASE UserEnter BY <1>8 DEF UserEnter
  <1>9. CASE UserLeave BY <1>9 DEF UserLeave
  <1>10. CASE UserClose BY <1>10 DEF UserClose
  <1> QED
    BY <1>1, <1>2, <1>3, <1>4, <1>5, <1>6, <1>7, <1>8, <1>9, <1>10
       DEF Environment, sdcard_release_complete

\* The invariant holds at boot, whatever card the SDK has found by then,
LEMMA SlotInit == Init => SlotInv
  BY DEF Init

\* and every step preserves it.
LEMMA SlotStep ==
  Counts /\ ProtocolInv /\ SlotInv /\ [Next]_vars => SlotInv'
  <1> SUFFICES ASSUME Counts, ProtocolInv, SlotInv, [Next]_vars PROVE SlotInv'
    OBVIOUS
  <1>1. CASE UNCHANGED vars BY <1>1 DEF vars
  <1> HIDE DEF ProtocolInv, SlotInv, Counts
  <1>2. CASE _worker
    <2>1. CASE \/ _wait_change("waitBoot", "decide")
               \/ _wait_change("waitProbe", "probed")
      BY <2>1, SlotWait
    <2> QED BY <1>2, <2>1, SlotLook, SlotDecide, SlotMount, SlotRetire
  <1> QED BY <1>1, <1>2, SlotStart, SlotOthers DEF Next

\* A session only ever speaks of the card that is in the slot, however often
\* cards are swapped while the worker probes or mounts (sdcard.c:437-484).
THEOREM SessionIsCurrent == Spec => []SessionIsOfInsertedCard
  <1>1. ProtocolInv /\ SlotInv => SessionIsOfInsertedCard
    BY DEF SessionIsOfInsertedCard
  <1> HIDE DEF ProtocolInv, SlotInv, Counts
  <1> QED
    BY <1>1, SlotInit, SlotStep, TypeGivesCounts, TypeCorrect, ProtocolHolds, PTL
       DEF Spec
-----------------------------------------------------------------------------
(* What a step may never do, and that the service implements the lease it    *)
(* offers the platform (CardLease).  Both follow from the invariants above,  *)
(* one group of actions at a time.                                           *)

FatalStep ==
  fatal => /\ fatal' /\ ~available'
           /\ mounted' = mounted /\ ~Requested

UnmountStep ==
  mounted /\ ~mounted' =>
    /\ acknowledged /\ ~available
    /\ files = 0 /\ io = "free"

RequestStep ==
  Requested =>
    /\ ~mounted
    /\ op' = (IF pc = "submit" THEN "probe" ELSE "remove")
    /\ op' = "remove" => releaseId # 0 /\ acknowledged

LeaseStep == [Lease!Next]_(Lease!leaseVars)

StepGuarantee == FatalStep /\ UnmountStep /\ RequestStep /\ LeaseStep

\* What the steps need of the types.
Typed == /\ nextRelease \in Id /\ session \in Id
         /\ available \in BOOLEAN /\ mounted \in BOOLEAN
         /\ acknowledged \in BOOLEAN

\* The type invariant gives them.
LEMMA TypeGivesTyped == TypeOK => Typed
  BY DEF TypeOK, Typed

\* A new request never gets the number that means none.
LEMMA RequestNumber == Typed => _next_id(nextRelease) # 0
  BY NextIdType DEF Typed

USE DEF slotVars, countVars, grantVars, wakeVars, stateVars, viewVars,
        faultVars, releaseVars, hostVars, localVars, userVars, vars,
        Worker, WorkerGrant, WorkerState, PcOnly, LocalOnly, KeepForMount,
        OutsideSlot, OutsideStart, KeepCard, AnswerOnly, OutsideHost, UserOnly,
        Goto, _invalidate_locked, _wake_worker, _set_state, _fault, _request,
        StartInv, RequestInv, ReleaseHandshake, GrantInv, HostInv, ProtocolInv,
        Retiring, Requested,
        FatalStep, UnmountStep, RequestStep, LeaseStep, StepGuarantee, Typed,
        Lease!Next, Lease!leaseVars, Lease!Mount, Lease!Grant, Lease!Revoke,
        Lease!Withdraw, Lease!Ask, Lease!Answer, Lease!Unmount, Lease!Finish,
        Lease!Following, _next_id

\* Until the service runs the lease is at rest.
LEMMA GuaranteeStart ==
  Typed /\ ProtocolInv /\ sdcard_start => StepGuarantee
  <1> SUFFICES ASSUME Typed, ProtocolInv, sdcard_start PROVE StepGuarantee
    OBVIOUS
  <1>1. CASE StartBegin
    <2>1. pc = "off" BY <1>1 DEF StartBegin
    <2>2. ~available /\ ~mounted /\ ~acknowledged /\ ~fatal BY <2>1
    <2>3. UNCHANGED <<available, mounted, acknowledged>>
      BY <1>1, <2>2, Zenon DEF StartBegin
    <2>4. UNCHANGED <<session, releaseId, nextRelease>>
      BY <1>1, <2>1 DEF StartBegin
    <2>5. ~Requested BY <1>1 DEF StartBegin
    <2> QED BY <2>2, <2>3, <2>4, <2>5
  <1>2. CASE StartArm BY <1>2 DEF StartArm
  <1>3. CASE StartResident BY <1>3 DEF StartResident
  <1>4. CASE StartWorker BY <1>4 DEF StartWorker
  <1>5. CASE StartFail BY <1>5 DEF StartFail
  <1> QED BY <1>1, <1>2, <1>3, <1>4, <1>5 DEF sdcard_start

\* Looking at the slot and the host only ever withdraws the grant.
LEMMA GuaranteeLook ==
  Typed /\ ProtocolInv /\ (TakeEvent \/ ClearWake \/ _sample \/ Quarantine \/ ReadStatus)
    => StepGuarantee
  <1> SUFFICES ASSUME Typed, ProtocolInv,
                      TakeEvent \/ ClearWake \/ _sample \/ Quarantine \/ ReadStatus
               PROVE  StepGuarantee
    OBVIOUS
  <1>1. CASE TakeEvent \/ ClearWake BY <1>1 DEF TakeEvent, ClearWake
  <1>2. CASE _sample
    <2>1. CASE SampleEdges \/ SampleFirst \/ SampleSecond \/ SampleAgain
      BY <2>1 DEF SampleEdges, SampleFirst, SampleSecond, SampleAgain
    <2>2. CASE SampleAccept BY <2>2 DEF SampleAccept
    <2> QED BY <1>2, <2>1, <2>2 DEF _sample
  <1>3. CASE Quarantine \/ ReadStatus BY <1>3 DEF Quarantine, ReadStatus
  <1> QED BY <1>1, <1>2, <1>3

\* Deciding what to do with the card may withdraw the grant, no more.
LEMMA GuaranteeDecide ==
  Typed /\ ProtocolInv /\ (DecideRetire \/ DecideAbsent \/ DecideAgain \/ DecideKeep
                             \/ DecideProbe)
    => StepGuarantee
  BY DEF DecideRetire, RevokeIfStale, DecideAbsent, DecideAgain, DecideKeep,
         DecideProbe

\* Waiting for the SDK leaves the lease alone, or isolates the card.
LEMMA GuaranteeWait ==
  ASSUME Typed, ProtocolInv,
         NEW from \in {"waitBoot", "waitProbe", "waitRemove"}, NEW to,
         _wait_change(from, to)
  PROVE  StepGuarantee
  <1>1. CASE change # "pending" /\ Goto(from, to) /\ PcOnly BY <1>1
  <1>2. CASE change = "pending" /\ _fault(from, TRUE) BY <1>2
  <1> QED BY <1>1, <1>2 DEF _wait_change

\* The only mount is of an ungranted, unrequested medium; the only grant is of
\* a mounted one.
LEMMA GuaranteeMount ==
  Typed /\ ProtocolInv /\ (SubmitProbe \/ ProbeOutdated \/ ProbeResult \/ LockForMount
                             \/ LockTimeout \/ Mount \/ MountOutdated \/ MountFault
                             \/ Publish)
    => StepGuarantee
  <1> SUFFICES ASSUME Typed, ProtocolInv,
                      SubmitProbe \/ ProbeOutdated \/ ProbeResult \/ LockForMount
                        \/ LockTimeout \/ Mount \/ MountOutdated \/ MountFault
                        \/ Publish
               PROVE  StepGuarantee
    OBVIOUS
  <1>1. CASE SubmitProbe BY <1>1 DEF SubmitProbe
  <1>2. CASE ProbeOutdated BY <1>2 DEF ProbeOutdated
  <1>3. CASE ProbeResult BY <1>3 DEF ProbeResult
  <1>4. CASE LockForMount \/ LockTimeout BY <1>4 DEF LockForMount, LockTimeout
  <1>5. CASE Mount BY <1>5 DEF Mount
  <1>6. CASE MountOutdated \/ MountFault BY <1>6 DEF MountOutdated, MountFault
  <1>7. CASE Publish BY <1>7 DEF Publish
  <1> QED BY <1>1, <1>2, <1>3, <1>4, <1>5, <1>6, <1>7

\* Asking, unmounting and finishing are the lease's own steps.
LEMMA GuaranteeRetire == Typed /\ ProtocolInv /\ _retire => StepGuarantee
  <1> SUFFICES ASSUME Typed, ProtocolInv, _retire PROVE StepGuarantee
    OBVIOUS
  <1>1. CASE RetireAsk BY <1>1 DEF RetireAsk
  <1>2. CASE DrainOverdue \/ DrainTaken \/ DrainOver
    BY <1>2 DEF DrainOverdue, DrainTaken, DrainOver
  <1>3. CASE Unmount BY <1>3 DEF Unmount
  <1>4. CASE UnmountFault \/ RemoveFault BY <1>4 DEF UnmountFault, RemoveFault
  <1>5. CASE Detach BY <1>5 DEF Detach
  <1>6. CASE _wait_change("waitRemove", "removed") BY <1>6, GuaranteeWait
  <1>7. CASE Removed BY <1>7 DEF Removed
  <1> QED BY <1>1, <1>2, <1>3, <1>4, <1>5, <1>6, <1>7 DEF _retire

\* The platform answers; the interrupt withdraws; the others see no lease.
LEMMA GuaranteeOthers ==
  Typed /\ ProtocolInv /\ (Environment \/ _pin_irq \/ sdcard_release_complete)
    => StepGuarantee
  <1> SUFFICES ASSUME Typed, ProtocolInv,
                      Environment \/ _pin_irq \/ sdcard_release_complete
               PROVE  StepGuarantee
    OBVIOUS
  <1>1. CASE _pin_irq
    <2>1. CASE pin /\ UNCHANGED <<removals, grantVars>> BY <1>1, <2>1 DEF _pin_irq
    <2>2. CASE removals' = removals + 1 /\ _invalidate_locked
      BY <1>1, <2>2 DEF _pin_irq
    <2> QED BY <1>1, <2>1, <2>2 DEF _pin_irq
  <1>2. ASSUME NEW id \in Id, AcceptRelease(id) PROVE StepGuarantee
    <2>1. releaseId # 0 /\ ~acknowledged /\ acknowledged' = TRUE
      BY <1>2 DEF AcceptRelease
    <2>2. UNCHANGED <<available, session, mounted, releaseId, nextRelease>>
      BY <1>2 DEF AcceptRelease
    <2>3. FatalStep /\ UnmountStep /\ RequestStep BY <1>2 DEF AcceptRelease
    <2>4. Lease!Answer BY <2>1, <2>2
    <2> QED BY <2>3, <2>4
  <1>3. CASE PostRelease BY <1>3 DEF PostRelease
  <1>4. CASE RemoveCard \/ \E c \in Cards : InsertCard(c)
    BY <1>4 DEF RemoveCard, InsertCard, Move
  <1>5. CASE SdkIdentify BY <1>5 DEF SdkIdentify
  <1>7. CASE SdkDone BY <1>7 DEF SdkDone
  <1>6. CASE UserEnter \/ UserLeave \/ UserClose
    BY <1>6 DEF UserEnter, UserLeave, UserClose
  <1> QED
    BY <1>1, <1>2, <1>3, <1>4, <1>5, <1>6, <1>7
       DEF Environment, sdcard_release_complete

\* A stuttering step of the service is one of the lease.
LEMMA GuaranteeStutter ==
  ProtocolInv /\ UNCHANGED vars => StepGuarantee
  OBVIOUS

\* Every step of the service keeps what a step promises.
LEMMA GuaranteeStep == Typed /\ ProtocolInv /\ [Next]_vars => StepGuarantee
  <1> SUFFICES ASSUME Typed, ProtocolInv, [Next]_vars PROVE StepGuarantee
    OBVIOUS
  <1>1. CASE _wait_change("waitBoot", "decide") \/ _wait_change("waitProbe", "probed")
    BY <1>1, GuaranteeWait
  <1> HIDE DEF StepGuarantee, ProtocolInv, Typed, vars
  <1>2. CASE _worker
    BY <1>1, <1>2, GuaranteeLook, GuaranteeDecide, GuaranteeMount, GuaranteeRetire
       DEF _worker, _reconcile
  <1> QED
    BY <1>2, GuaranteeStart, GuaranteeOthers, GuaranteeStutter DEF Next

\* The service starts where the lease starts.
LEMMA LeaseInit == Init => Lease!Init
  BY DEF Init, Lease!Init

\* After a fatal fault the service never publishes, mounts, unmounts or asks
\* the SDK for anything again.
THEOREM FatalIsolated == Spec => FatalIsolation
  <1>1. Typed /\ ProtocolInv /\ [Next]_vars
          => (fatal => /\ fatal' /\ ~available'
                       /\ mounted' = mounted /\ ~Requested)
    BY GuaranteeStep
  <1> HIDE DEF ProtocolInv, Typed, Requested, vars
  <1> QED
    BY <1>1, TypeCorrect, TypeGivesTyped, ProtocolHolds, PTL
       DEF Spec, FatalIsolation

\* The file system is detached only from users who answered the request, left
\* the I/O lock and closed their files.
THEOREM UnmountsCleanly == Spec => CleanUnmount
  <1>1. Typed /\ ProtocolInv /\ [Next]_vars
          => (mounted /\ ~mounted' => /\ acknowledged /\ ~available
                                      /\ files = 0 /\ io = "free")
    BY GuaranteeStep
  <1> HIDE DEF ProtocolInv, Typed, vars
  <1> QED
    BY <1>1, TypeCorrect, TypeGivesTyped, ProtocolHolds, PTL
       DEF Spec, CleanUnmount

\* The SDK is asked to probe only for an empty host and to remove only a card
\* the platform has given back, never under a mounted file system.
THEOREM RequestsMeanIntent == Spec => RequestMeansIntent
  <1>1. Typed /\ ProtocolInv /\ [Next]_vars
          => (Requested =>
                /\ ~mounted
                /\ op' = (IF pc = "submit" THEN "probe" ELSE "remove")
                /\ op' = "remove" => releaseId # 0 /\ acknowledged)
    BY GuaranteeStep
  <1> HIDE DEF ProtocolInv, Typed, Requested, vars
  <1> QED
    BY <1>1, TypeCorrect, TypeGivesTyped, ProtocolHolds, PTL
       DEF Spec, RequestMeansIntent

\* The service implements the lease: every step of its threads, of the SDK and
\* of the slot is a step of the lease or leaves the lease alone.
THEOREM ImplementsLease == Spec => LeaseSpec
  <1>1. Typed /\ ProtocolInv /\ [Next]_vars => [Lease!Next]_(Lease!leaseVars)
    BY GuaranteeStep
  <1> HIDE DEF ProtocolInv, Typed, vars, Lease!Next, Lease!leaseVars
  <1> QED
    BY <1>1, LeaseInit, TypeCorrect, TypeGivesTyped, ProtocolHolds, PTL
       DEF Spec, LeaseSpec, Lease!Spec
=============================================================================
