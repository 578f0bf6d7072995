------------------------------- MODULE SdCard -------------------------------
(***************************************************************************)
(* The SD card service, components/sdcard/src/sdcard.c: the detect-pin     *)
(* interrupt, the worker thread that probes, mounts, retires and unmounts  *)
(* cards, and the acknowledgement call of the platform, with the SDK's     *)
(* mmcsd host and the file users it runs against.                          *)
(*                                                                         *)
(* One action is one stretch of a thread between two points where the      *)
(* interrupt handler, the SDK detector or another thread can be observed.  *)
(* Adjacent critical sections are one action where the handler commutes    *)
(* with the code between them.                                             *)
(*                                                                         *)
(* Abstracted: the error stage and number (only RELEASE_WAIT is read       *)
(* elsewhere: "overdue"), the revision counter, logging, delays.  Not      *)
(* modelled: errors of rt_sem_take other than a timeout and of             *)
(* rt_sem_release, which need a semaphore detached or at its limit.        *)
(***************************************************************************)
EXTENDS Naturals

CONSTANTS Cards,      \* the cards that may be put into the slot
          SdMemory,   \* those that are SD memory cards (not SDIO combos)
          NoCard,     \* the SDK host holds no card object
          MaxId,      \* largest session and release number (2^32 - 1)
          MaxMoves,   \* bound: how often the pin level may change
          MaxFiles    \* bound: files the users hold open on the card

ASSUME CardsAssumption ==
  SdMemory \subseteq Cards /\ NoCard \notin Cards
ASSUME BoundsAssumption ==
  MaxId \in Nat \ {0} /\ MaxMoves \in Nat /\ MaxFiles \in Nat

VARIABLES
  \* the slot: pin level, the card in it or the one that left it last, an edge
  \* waiting for the handler, edge interrupt enabled, pin changes so far
  pin, card, irq, armed, moves,
  \* s_card, as written by the handler too
  edges, removals, invalidated, available, session, wakePending, event,
  \* s_card, as written by the worker and by sdcard_start
  state, overdue, lifecycle, present, mounted, releaseId,
  fatal, faultRemovals, observed, bootChecked,
  \* the release handshake; acking: an answer is accepted but not yet posted
  nextRelease, acknowledged, acking, released,
  \* the SDK host: change request, what it does, card object, block device
  change, op, hostCard, block,
  \* the worker: control point ("off" until started) and locals
  pc, wEdges, first, second, adopted,
  tried,     \* history: removals seen when a card was last tried
  \* the I/O lock and the files open on the card
  io, files

slotVars    == <<pin, card, irq, armed, moves>>
countVars   == <<edges, removals>>
grantVars   == <<invalidated, available, session>>
wakeVars    == <<wakePending, event>>
stateVars   == <<state, overdue>>
viewVars    == <<lifecycle, present, mounted, releaseId>>
faultVars   == <<fatal, faultRemovals, observed, bootChecked>>
releaseVars == <<nextRelease, acknowledged, acking, released>>
hostVars    == <<change, op, hostCard, block>>
localVars   == <<wEdges, first, second, adopted, tried>>
userVars    == <<io, files>>

vars == <<slotVars, countVars, grantVars, wakeVars, stateVars, viewVars,
          faultVars, releaseVars, hostVars, pc, localVars, userVars>>

Id == 0 .. MaxId

States == {"ABSENT", "PROBING", "READY", "DRAINING", "UNMOUNTING", "FAULT"}

Points ==
  {"off", "sem", "clear", "sample", "first", "second", "compare", "status",
   "waitBoot", "decide", "submit", "waitProbe", "probed", "lock", "mount",
   "publish", "mountFailed", "retire", "drain", "drained", "unmount",
   "detach", "waitRemove", "removed"}

TypeOK ==
  /\ pin \in BOOLEAN /\ card \in Cards /\ irq \in BOOLEAN
  /\ armed \in BOOLEAN /\ moves \in 0 .. MaxMoves
  /\ edges \in Nat /\ removals \in Nat
  /\ invalidated \in BOOLEAN /\ available \in BOOLEAN /\ session \in Id
  /\ wakePending \in BOOLEAN /\ event \in Nat
  /\ state \in States /\ overdue \in BOOLEAN
  /\ lifecycle \in 0 .. 2 /\ present \in BOOLEAN /\ mounted \in BOOLEAN
  /\ releaseId \in Id
  /\ fatal \in BOOLEAN /\ faultRemovals \in Nat /\ observed \in Nat
  /\ bootChecked \in BOOLEAN
  /\ nextRelease \in Id /\ acknowledged \in BOOLEAN /\ acking \in BOOLEAN
  /\ released \in Nat
  /\ change \in {"none", "pending", "done"} /\ op \in {"probe", "remove"}
  /\ hostCard \in Cards \cup {NoCard} /\ block \in BOOLEAN
  /\ pc \in Points /\ wEdges \in Nat /\ tried \in Nat
  /\ first \in BOOLEAN /\ second \in BOOLEAN /\ adopted \in BOOLEAN
  /\ io \in {"free", "worker", "user"} /\ files \in 0 .. MaxFiles

-----------------------------------------------------------------------------
\* Helpers of the code.

_next_id(i) == IF i = MaxId THEN 1 ELSE i + 1

\* Withdraw the session in force, if any.
_invalidate_locked ==
  /\ invalidated' = TRUE
  /\ available' = FALSE
  /\ session' = IF available THEN _next_id(session) ELSE session

\* Post the worker's event unless a post is already outstanding.
_wake_worker ==
  /\ wakePending' = TRUE
  /\ event' = IF wakePending THEN event ELSE event + 1

_set_state(s) == state' = s /\ overdue' = FALSE

\* (seeded fault) trusts the pin level alone
CurrentByLevel == pin

_current == wEdges = edges /\ pin

Goto(from, to) == pc = from /\ pc' = to

\* What a step of the worker leaves alone.
Worker      == UNCHANGED <<slotVars, countVars, viewVars, releaseVars,
                           hostVars, userVars>>
WorkerGrant == Worker /\ UNCHANGED <<stateVars, faultVars, localVars>>
WorkerState == Worker /\ UNCHANGED <<faultVars, localVars>>
PcOnly      == WorkerGrant /\ UNCHANGED <<grantVars, wakeVars>>

\* (seeded fault) records the removals of now, not those of the sample
FaultForgetsRemoval(from, isFatal) ==
  /\ Goto(from, "sem")
  /\ _invalidate_locked
  /\ fatal' = isFatal /\ faultRemovals' = removals
  /\ _set_state("FAULT")
  /\ Worker /\ UNCHANGED <<wakeVars, observed, bootChecked, localVars>>

\* A fault ends the current pass of the worker.
_fault(from, isFatal) ==
  /\ Goto(from, "sem")
  /\ _invalidate_locked
  /\ fatal' = isFatal /\ faultRemovals' = observed
  /\ _set_state("FAULT")
  /\ Worker /\ UNCHANGED <<wakeVars, observed, bootChecked, localVars>>

-----------------------------------------------------------------------------
\* The slot.  A card is not exchanged faster than the handler runs, nor between
\* the SDK's boot probe and the worker's first look at the host: until then
\* only the same card can come back, which is contact bounce.

OutsideSlot ==
  UNCHANGED <<stateVars, viewVars, faultVars, releaseVars, hostVars, pc,
              localVars, userVars>>

Move ==
  /\ moves < MaxMoves
  /\ moves' = moves + 1
  /\ pin' = ~pin
  /\ irq' = (irq \/ armed)
  /\ OutsideSlot /\ UNCHANGED <<armed, countVars, grantVars, wakeVars>>

RemoveCard == pin /\ Move /\ UNCHANGED card

InsertCard(c) ==
  /\ ~pin
  /\ c # card => ~irq /\ bootChecked
  /\ card' = c
  /\ Move

\* The edge handler.
_pin_irq ==
  /\ irq
  /\ irq' = FALSE
  /\ edges' = edges + 1
  /\ \/ pin /\ UNCHANGED <<removals, grantVars>>
     \/ ~pin /\ removals' = removals + 1 /\ _invalidate_locked
  /\ _wake_worker
  /\ OutsideSlot /\ UNCHANGED <<pin, card, armed, moves>>

-----------------------------------------------------------------------------
\* sdcard_start, on the boot thread.

OutsideStart == UNCHANGED <<pin, card, moves, hostVars, localVars, userVars>>
KeepCard == UNCHANGED <<countVars, grantVars, present, mounted, releaseId,
                        faultVars, releaseVars>>

StartBegin ==
  /\ lifecycle = 0
  /\ lifecycle' = 1
  /\ edges' = 0 /\ removals' = 0 /\ observed' = 0 /\ faultRemovals' = 0
  /\ invalidated' = FALSE /\ available' = FALSE /\ session' = 0
  /\ wakePending' = FALSE /\ event' = 0 /\ released' = 0
  /\ _set_state("ABSENT")
  /\ present' = FALSE /\ mounted' = FALSE /\ releaseId' = 0
  /\ fatal' = FALSE /\ bootChecked' = FALSE
  /\ nextRelease' = 0 /\ acknowledged' = FALSE
  /\ OutsideStart /\ UNCHANGED <<irq, armed, acking, pc>>

\* rt_pin_irq_enable: edges are reported from here on.
StartArm ==
  /\ lifecycle = 1 /\ ~armed
  /\ armed' = TRUE
  /\ OutsideStart /\ KeepCard
  /\ UNCHANGED <<irq, wakeVars, stateVars, lifecycle, pc>>

StartResident ==
  /\ lifecycle = 1 /\ armed
  /\ lifecycle' = 2
  /\ OutsideStart /\ KeepCard
  /\ UNCHANGED <<irq, armed, wakeVars, stateVars, pc>>

StartWorker ==
  /\ lifecycle = 2
  /\ Goto("off", "sem")
  /\ _wake_worker
  /\ OutsideStart /\ KeepCard
  /\ UNCHANGED <<irq, armed, stateVars, lifecycle>>

\* Any failing step unwinds; a later call may try again.
StartFail ==
  /\ lifecycle # 0 /\ pc = "off"
  /\ lifecycle' = 0
  /\ armed' = FALSE /\ irq' = FALSE
  /\ _set_state("FAULT")
  /\ OutsideStart /\ KeepCard /\ UNCHANGED <<wakeVars, pc>>

sdcard_start ==
  StartBegin \/ StartArm \/ StartResident \/ StartWorker \/ StartFail

-----------------------------------------------------------------------------
\* The worker: wait for the event, then one pass of _reconcile.

TakeEvent ==
  /\ Goto("sem", "clear")
  /\ event > 0
  /\ event' = event - 1
  /\ WorkerGrant /\ UNCHANGED <<grantVars, wakePending>>

\* (seeded fault) an isolated card is reconciled again
ClearWakeAlways ==
  /\ Goto("clear", "sample")
  /\ wakePending' = FALSE
  /\ WorkerGrant /\ UNCHANGED <<grantVars, event>>

\* Wakes are posted again from here on.  After a fatal fault nothing is done.
ClearWake ==
  /\ Goto("clear", IF fatal THEN "sem" ELSE "sample")
  /\ wakePending' = FALSE
  /\ WorkerGrant /\ UNCHANGED <<grantVars, event>>

LocalOnly == Worker /\ UNCHANGED <<grantVars, wakeVars, stateVars, faultVars,
                                   adopted, tried>>

SampleEdges ==
  /\ Goto("sample", "first")
  /\ wEdges' = edges
  /\ LocalOnly /\ UNCHANGED <<first, second>>

SampleFirst ==
  /\ Goto("first", "second")
  /\ first' = pin
  /\ LocalOnly /\ UNCHANGED <<wEdges, second>>

SampleSecond ==
  /\ Goto("second", "compare")
  /\ second' = pin
  /\ LocalOnly /\ UNCHANGED <<wEdges, first>>

\* Two equal readings with no edge in between count.
Steady == first = second /\ wEdges = edges

SampleAccept ==
  /\ Goto("compare", "status")
  /\ Steady
  /\ present' = second
  /\ observed' = removals
  /\ \/ second /\ UNCHANGED grantVars
     \/ ~second /\ _invalidate_locked
  /\ UNCHANGED <<slotVars, countVars, wakeVars, stateVars, lifecycle, mounted,
                 releaseId, fatal, faultRemovals, bootChecked, releaseVars,
                 hostVars, localVars, userVars>>

SampleAgain == Goto("compare", "sample") /\ ~Steady /\ PcOnly

_sample ==
  SampleEdges \/ SampleFirst \/ SampleSecond \/ SampleAccept \/ SampleAgain

\* A card that failed and has not left the slot is not tried again.
Quarantined == state = "FAULT" /\ present /\ faultRemovals = removals

Quarantine == Goto("status", "sem") /\ Quarantined /\ PcOnly

\* Read the host and adopt what the SDK started before the service did.  From
\* "decide" on the host is quiet until the worker's next request, so the local
\* status of the code equals the host's.
ReadStatus ==
  /\ ~Quarantined
  /\ bootChecked' = TRUE
  /\ \/ /\ change = "pending" /\ Goto("status", "waitBoot")
        /\ adopted' = TRUE
        /\ _set_state("PROBING")
     \/ /\ change # "pending" /\ Goto("status", "decide")
        /\ adopted' = (~bootChecked /\ change # "none")
        /\ UNCHANGED stateVars
  /\ Worker /\ UNCHANGED <<grantVars, wakeVars, fatal, faultRemovals, observed,
                           wEdges, first, second, tried>>

\* _wait_change: the poll ends when the request is no longer pending, or its
\* budget runs out, which isolates the host for good.
_wait_change(from, to) ==
  \/ change # "pending" /\ Goto(from, to) /\ PcOnly
  \/ change = "pending" /\ _fault(from, TRUE)

-----------------------------------------------------------------------------
\* _reconcile once the status is known.

Stale   == wEdges # edges                \* an edge arrived since the sample
Expired == invalidated \/ Stale
OldCard == hostCard # NoCard \/ mounted  \* there is something to give back

\* "if (edges != s_card.edges) _invalidate_locked()"
RevokeIfStale ==
  \/ Stale /\ _invalidate_locked
  \/ ~Stale /\ UNCHANGED grantVars

DecideRetire ==
  /\ Goto("decide", "retire")
  /\ OldCard /\ (Expired \/ ~pin)
  /\ RevokeIfStale
  /\ WorkerGrant /\ UNCHANGED wakeVars

\* With no old card nothing is published, so clearing the flag is all.
DecideAbsent ==
  /\ Goto("decide", "sem")
  /\ ~pin /\ ~OldCard
  /\ invalidated' = FALSE
  /\ _set_state("ABSENT")
  /\ WorkerState /\ UNCHANGED <<available, session, wakeVars>>

DecideAgain ==
  /\ Goto("decide", "sem")
  /\ pin /\ ~OldCard /\ Stale
  /\ _invalidate_locked
  /\ _wake_worker
  /\ WorkerGrant

\* (seeded fault) overlooks that the old card was withdrawn
FreshByEdges == pin /\ ~Stale

Fresh == pin /\ ~Stale /\ (OldCard => ~invalidated)

\* The card in the slot is the published one already.
DecideKeep == Goto("decide", "sem") /\ Fresh /\ available /\ PcOnly

\* Probe, or take over the card object or the boot result already there.
DecideProbe ==
  /\ Goto("decide", IF hostCard = NoCard /\ ~adopted THEN "submit" ELSE "probed")
  /\ Fresh /\ ~available
  /\ invalidated' = FALSE
  /\ _set_state("PROBING")
  /\ tried' = removals
  /\ Worker /\ UNCHANGED <<available, session, wakeVars, faultVars, wEdges,
                           first, second, adopted>>

\* (seeded fault) requests whatever the host holds
RequestRepeats ==
  /\ change' = "pending"
  /\ op' = "probe"
  /\ UNCHANGED <<slotVars, countVars, grantVars, wakeVars, stateVars, viewVars,
                 faultVars, releaseVars, hostCard, block, localVars, userVars>>

\* sdcard_port_request: a host without a card probes, one with a card removes.
_request ==
  /\ change' = "pending"
  /\ op' = IF hostCard = NoCard THEN "probe" ELSE "remove"
  /\ UNCHANGED <<slotVars, countVars, grantVars, wakeVars, stateVars, viewVars,
                 faultVars, releaseVars, hostCard, block, localVars, userVars>>

SubmitProbe ==
  \/ Goto("submit", "waitProbe") /\ _request
  \/ _fault("submit", FALSE)       \* the detector's mailbox is full

\* An edge since the sample: the result may be of another card.
ProbeOutdated ==
  /\ ~_current
  /\ _invalidate_locked
  /\ \/ hostCard # NoCard /\ Goto("probed", "retire") /\ UNCHANGED wakeVars
     \/ hostCard = NoCard /\ Goto("probed", "sem") /\ _wake_worker
  /\ WorkerGrant

ProbeUsable == hostCard \in SdMemory /\ block

ProbeResult ==
  /\ _current
  /\ \/ ProbeUsable /\ Goto("probed", "lock") /\ PcOnly
     \/ ~ProbeUsable /\ _fault("probed", FALSE)

KeepForMount == UNCHANGED <<slotVars, countVars, grantVars, wakeVars, stateVars,
                            faultVars, releaseVars, hostVars, localVars, files>>

\* Take the I/O lock shared with every file user, then look again.
LockForMount ==
  /\ io = "free"
  /\ \/ _current /\ Goto("lock", "mount") /\ io' = "worker"
     \/ ~_current /\ Goto("lock", "retire") /\ UNCHANGED io
  /\ KeepForMount /\ UNCHANGED viewVars

LockTimeout == _fault("lock", FALSE)

\* dfs_mount, either way, and release of the lock.
Mount ==
  /\ \/ Goto("mount", "publish") /\ mounted' = TRUE
     \/ Goto("mount", "mountFailed") /\ UNCHANGED mounted
  /\ io' = "free"
  /\ KeepForMount /\ UNCHANGED <<lifecycle, present, releaseId>>

MountOutdated ==
  /\ Goto("publish", "retire") \/ Goto("mountFailed", "retire")
  /\ ~_current
  /\ _invalidate_locked
  /\ WorkerGrant /\ UNCHANGED wakeVars

MountFault == _current /\ _fault("mountFailed", FALSE)

Publish ==
  /\ Goto("publish", "sem")
  /\ _current
  /\ available' = TRUE
  /\ session' = _next_id(session)
  /\ _set_state("READY")
  /\ WorkerState /\ UNCHANGED <<invalidated, wakeVars>>

_reconcile ==
  \/ _sample \/ Quarantine \/ ReadStatus \/ _wait_change("waitBoot", "decide")
  \/ DecideRetire \/ DecideAbsent \/ DecideAgain \/ DecideKeep \/ DecideProbe
  \/ SubmitProbe \/ _wait_change("waitProbe", "probed")
  \/ ProbeOutdated \/ ProbeResult \/ LockForMount \/ LockTimeout \/ Mount
  \/ MountOutdated \/ MountFault \/ Publish

-----------------------------------------------------------------------------
\* _retire: ask for the card, wait for the answer, unmount, detach.

RetireAsk ==
  /\ Goto("retire", "drain")
  /\ _invalidate_locked
  /\ nextRelease' = _next_id(nextRelease)
  /\ releaseId' = nextRelease'
  /\ acknowledged' = FALSE
  /\ _set_state("DRAINING")
  /\ UNCHANGED <<slotVars, countVars, wakeVars, lifecycle, present, mounted,
                 faultVars, acking, released, hostVars, localVars, userVars>>

\* (seeded fault) goes on without an answer
DrainGivesUp ==
  /\ Goto("drain", "drained")
  /\ overdue' = TRUE
  /\ WorkerState /\ UNCHANGED <<grantVars, wakeVars, state>>

\* 35 s without an answer are reported, and waited beyond.
DrainOverdue ==
  /\ pc = "drain" /\ ~overdue
  /\ overdue' = TRUE
  /\ WorkerState /\ UNCHANGED <<pc, grantVars, wakeVars, state>>

DrainTaken ==
  /\ Goto("drain", "drained")
  /\ released > 0
  /\ released' = released - 1
  /\ UNCHANGED <<slotVars, countVars, grantVars, wakeVars, stateVars, viewVars,
                 faultVars, nextRelease, acknowledged, acking, hostVars,
                 localVars, userVars>>

DrainOver ==
  /\ Goto("drained", "unmount")
  /\ _set_state("UNMOUNTING")
  /\ WorkerState /\ UNCHANGED <<grantVars, wakeVars>>

\* (seeded fault) open files are not looked for
UnmountBlindly ==
  /\ Goto("unmount", "detach")
  /\ io = "free"
  /\ mounted' = FALSE
  /\ UNCHANGED <<slotVars, countVars, grantVars, wakeVars, stateVars, lifecycle,
                 present, releaseId, faultVars, releaseVars, hostVars,
                 localVars, userVars>>

\* Under the I/O lock: no file may be open.
Unmount ==
  /\ Goto("unmount", "detach")
  /\ io = "free" /\ files = 0
  /\ mounted' = FALSE
  /\ UNCHANGED <<slotVars, countVars, grantVars, wakeVars, stateVars, lifecycle,
                 present, releaseId, faultVars, releaseVars, hostVars,
                 localVars, userVars>>

\* The lock is not to be had, a file is open, or dfs_unmount fails.
UnmountFault == _fault("unmount", TRUE)

\* Have the SDK drop its card object.  That it has one follows from HostInv, so
\* the code's way past a host without one is not taken.
Detach ==
  /\ hostCard # NoCard
  /\ \/ change # "pending" /\ Goto("detach", "waitRemove") /\ _request
     \/ _fault("detach", TRUE)               \* the request was refused

\* Retired: an insertion meanwhile is reconciled by the next pass.
Removed ==
  /\ Goto("removed", "sem")
  /\ hostCard = NoCard /\ ~block
  /\ releaseId' = 0
  /\ invalidated' = FALSE
  /\ _set_state("ABSENT")
  /\ _wake_worker
  /\ UNCHANGED <<slotVars, countVars, available, session, lifecycle, present,
                 mounted, faultVars, releaseVars, hostVars, localVars, userVars>>

RemoveFault == (hostCard # NoCard \/ block) /\ _fault("removed", TRUE)

_retire ==
  \/ RetireAsk \/ DrainOverdue \/ DrainTaken \/ DrainOver
  \/ Unmount \/ UnmountFault \/ Detach
  \/ _wait_change("waitRemove", "removed") \/ Removed \/ RemoveFault

_worker == TakeEvent \/ ClearWake \/ _reconcile \/ _retire

-----------------------------------------------------------------------------
\* sdcard_release_complete(id), from any platform thread: accept at most one
\* answer, and only to the current request, then post it.

AnswerOnly == UNCHANGED <<slotVars, countVars, grantVars, wakeVars, stateVars,
                          viewVars, faultVars, nextRelease, hostVars, pc,
                          localVars, userVars>>

\* (seeded fault) answers a request twice
AcceptTwice(id) ==
  /\ lifecycle = 2 /\ state = "DRAINING"
  /\ id # 0 /\ id = releaseId
  /\ acknowledged' = TRUE
  /\ acking' = TRUE
  /\ AnswerOnly /\ UNCHANGED released

AcceptRelease(id) ==
  /\ lifecycle = 2 /\ state = "DRAINING"
  /\ id # 0 /\ id = releaseId
  /\ ~acknowledged
  /\ acknowledged' = TRUE
  /\ acking' = TRUE
  /\ AnswerOnly /\ UNCHANGED released

PostRelease ==
  /\ acking
  /\ acking' = FALSE
  /\ released' = released + 1
  /\ AnswerOnly /\ UNCHANGED acknowledged

sdcard_release_complete == (\E id \in Id : AcceptRelease(id)) \/ PostRelease

-----------------------------------------------------------------------------
\* The SDK's mmcsd detector works off a pending request; the outcome shows
\* with "done".  A probe may find the card, or fail; a removal may be refused.

OutsideHost == UNCHANGED <<slotVars, countVars, grantVars, wakeVars, stateVars,
                           viewVars, faultVars, releaseVars, op, pc, localVars,
                           userVars>>

SdkIdentify ==
  /\ change = "pending" /\ op = "probe" /\ hostCard = NoCard
  /\ pin
  /\ hostCard' = card
  /\ OutsideHost /\ UNCHANGED <<change, block>>

SdkDone ==
  /\ change = "pending"
  /\ change' = "done"
  /\ \/ /\ op = "probe"
        /\ block' \in {FALSE, hostCard # NoCard}
        /\ UNCHANGED hostCard
     \/ op = "remove" /\ hostCard' = NoCard /\ block' = FALSE
     \/ op = "remove" /\ UNCHANGED <<hostCard, block>>
  /\ OutsideHost

-----------------------------------------------------------------------------
\* File users take the I/O lock, check the snapshot, then work under the lock;
\* the handler may withdraw the card while they do.  Closing needs no check.

UserOnly == UNCHANGED <<slotVars, countVars, grantVars, wakeVars, stateVars,
                        viewVars, faultVars, releaseVars, hostVars, pc,
                        localVars>>

UserEnter ==
  /\ io = "free" /\ available
  /\ io' = "user"
  /\ UserOnly /\ UNCHANGED files

UserLeave ==
  /\ io = "user"
  /\ io' = "free"
  /\ \/ UNCHANGED files
     \/ files < MaxFiles /\ files' = files + 1
  /\ UserOnly

UserClose ==
  /\ files > 0
  /\ files' = files - 1
  /\ UserOnly /\ UNCHANGED io

-----------------------------------------------------------------------------
\* Boot: the SDK may not have looked yet, be looking, or have looked.
Init ==
  /\ pin \in BOOLEAN /\ card \in Cards
  /\ irq = FALSE /\ armed = FALSE /\ moves = 0
  /\ edges = 0 /\ removals = 0
  /\ invalidated = FALSE /\ available = FALSE /\ session = 0
  /\ wakePending = FALSE /\ event = 0
  /\ state = "ABSENT" /\ overdue = FALSE
  /\ lifecycle = 0 /\ present = FALSE /\ mounted = FALSE /\ releaseId = 0
  /\ fatal = FALSE /\ faultRemovals = 0 /\ observed = 0 /\ bootChecked = FALSE
  /\ nextRelease = 0 /\ acknowledged = FALSE /\ acking = FALSE /\ released = 0
  /\ change \in {"none", "pending", "done"} /\ op = "probe"
  /\ hostCard \in (IF change = "done" /\ pin THEN {NoCard, card} ELSE {NoCard})
  /\ block \in {FALSE, hostCard # NoCard}
  /\ pc = "off" /\ wEdges = 0 /\ tried = 0
  /\ first = FALSE /\ second = FALSE /\ adopted = FALSE
  /\ io = "free" /\ files = 0

Environment ==
  \/ RemoveCard \/ (\E c \in Cards : InsertCard(c))
  \/ SdkIdentify \/ SdkDone
  \/ UserEnter \/ UserLeave \/ UserClose

Next ==
  sdcard_start \/ _pin_irq \/ _worker \/ sdcard_release_complete \/ Environment

\* The handler, the worker and the detector run whenever they can; the users
\* finish what they are doing, close their files and answer every request.
Fairness ==
  /\ WF_vars(_pin_irq) /\ WF_vars(_worker) /\ WF_vars(SdkDone)
  /\ WF_vars(UserLeave) /\ WF_vars(UserClose)
  /\ WF_vars(sdcard_release_complete)

Spec == Init /\ [][Next]_vars
FairSpec == Spec /\ Fairness

-----------------------------------------------------------------------------
\* Properties

\* A session only ever speaks of the card that is in the slot: while the card
\* is available and no edge waits for the handler, the card the SDK probed and
\* the worker mounted is the one inserted, however often cards were swapped
\* while the worker was probing or mounting (sdcard.c:437-484).
SessionIsOfInsertedCard ==
  available /\ ~irq =>
    pin /\ mounted /\ hostCard = card

\* An answer counts for one request only: at most one post is under way, it
\* belongs to the request being drained, and the worker passes the drain only
\* when that request was answered (sdcard.c:258-283, 522-547).
ReleaseHandshake ==
  /\ acking \/ released > 0 =>
       acknowledged /\ pc = "drain" /\ releaseId # 0
  /\ released + (IF acking THEN 1 ELSE 0) <= 1
  /\ pc \in {"drained", "unmount", "detach", "waitRemove", "removed"} =>
       acknowledged /\ released = 0

\* The file system is detached only from users who answered, closed their
\* files and are not inside the I/O lock (sdcard.c:285-312).
CleanUnmount ==
  [][mounted /\ ~mounted' =>
       /\ acknowledged /\ ~available
       /\ files = 0 /\ io = "free"]_vars

\* The one SDK entry point probes or removes according to what the host holds,
\* so each request must be the one the worker means: a probe for an empty
\* host, a removal only of a retired card, and never under a mounted file
\* system (sdcard.c:320-332, 414-426).
Requested == change # "pending" /\ change' = "pending"
RequestMeansIntent ==
  [][Requested =>
       /\ ~mounted
       /\ op' = (IF pc = "submit" THEN "probe" ELSE "remove")
       /\ op' = "remove" => releaseId # 0 /\ acknowledged
    ]_vars

\* A fatal fault isolates the card until reboot: no session, no mount or
\* unmount, no further request to the SDK (sdcard.c:212-214, 357-360).
FatalIsolation ==
  [][fatal =>
       /\ fatal' /\ ~available'
       /\ mounted' = mounted /\ ~Requested]_vars

\* The service implements the lease it offers the platform.
Lease == INSTANCE CardLease WITH
           granted <- available, token <- session, request <- releaseId,
           answered <- acknowledged, last <- nextRelease
LeaseSpec == Lease!Spec

\* The inductive invariant behind the handshake, the lease and the action
\* properties above: what each control point of the worker may rely on.
Retiring == {"drain", "drained", "unmount", "detach", "waitRemove", "removed"}

\* Until the worker exists nothing of the card has been touched.
StartInv ==
  /\ lifecycle # 2 => pc = "off"
  /\ pc = "off" => /\ session = 0 /\ nextRelease = 0 /\ releaseId = 0
                   /\ ~mounted /\ ~acknowledged

\* A request is open exactly while the worker retires, or froze doing so.
RequestInv ==
  /\ state = "DRAINING" => pc \in {"drain", "drained"}
  /\ pc \in Retiring => releaseId # 0
  /\ releaseId # 0 => pc \in Retiring \/ fatal
  /\ fatal => pc \in {"sem", "clear"}

\* Only a mounted card is granted; one that is not granted is on its way in or
\* marked for retirement.
GrantInv ==
  /\ available =>
       /\ mounted /\ ~fatal
       /\ pc \in {"sem", "clear", "sample", "first", "second", "compare",
                  "status", "waitBoot", "decide", "retire"}
  /\ mounted /\ ~available => invalidated \/ pc = "publish"
  /\ pc \in {"submit", "waitProbe", "probed", "lock", "mount", "mountFailed",
             "detach", "waitRemove", "removed"} => ~mounted
  /\ pc = "publish" => mounted

\* The host stands still unless the worker waits for it, and holds a card
\* whenever the worker has one to mount or to give back.
HostInv ==
  /\ mounted => hostCard # NoCard /\ change # "pending"
  /\ pc \in {"lock", "mount", "publish", "mountFailed", "retire", "drain",
             "drained", "unmount", "detach"} => hostCard # NoCard
  /\ pc \in {"decide", "submit", "probed", "lock", "mount", "publish",
             "mountFailed", "retire", "drain", "drained", "unmount", "detach",
             "removed"} => change # "pending"
  /\ pc = "submit" => hostCard = NoCard

\* Held in every reachable state; proved inductive in SdCardProofs.
ProtocolInv ==
  StartInv /\ RequestInv /\ ReleaseHandshake /\ GrantInv /\ HostInv

\* Where the service may rest: isolated; with the inserted card published, or
\* refused since it was tried; or with an empty slot and nothing left mounted
\* or known to the SDK.
Settled ==
  \/ fatal
  \/ pin /\ available
  \/ pin /\ state = "FAULT" /\ removals = tried
  \/ ~pin /\ state = "ABSENT" /\ ~mounted /\ hostCard = NoCard

\* Once the slot is left alone the service comes to rest in such a state: no
\* edge, wake-up or answer is lost (sdcard.c:104-114, 346, 499-511).
Settles == <>[](pc = "off" \/ Settled)
=============================================================================
