----------------------------- MODULE AppService -----------------------------
(***************************************************************************)
(* Background services of applications, src/services/app_service.c, with   *)
(* the module references of src/ui/platform/app_module.c that keep their   *)
(* code loaded.  A service has up to three executions inside its module:   *)
(* a worker thread, a step the UI thread calls, and shell commands.  A     *)
(* stopped service is freed, and its module unloaded, only when all three  *)
(* are over.  The board page (modules/board/app_main.c), which re-reads    *)
(* the published summaries when their revision moved, is here too.         *)
(*                                                                         *)
(* One action is one critical section of the code, with the private work   *)
(* before it.  A service is named by its id: at most one of an id exists.  *)
(*                                                                         *)
(* Abstracted: the UI deadlines (epd_service_ui_request), flush, and what  *)
(* a module does with its time.  An allocation or a thread that is not to  *)
(* be had leaves app_service_start and app_module_open without effect.     *)
(***************************************************************************)
EXTENDS Naturals, FiniteSets

CONSTANTS Services,     \* application ids
          HasRun,       \* those with a worker thread
          HasUi,        \* with a UI step
          HasCommand,   \* with a shell command
          Network,      \* subscribed to network events
          Modules,      \* loaded from a file, not built in
          OnCard,       \* installed on the card, which may be withdrawn
          Shells,       \* threads that issue commands
          Texts,        \* summaries a service may publish
          NoText,       \* no summary
          MaxRevision,  \* bound: starts and publications stop here
          NoService

ASSUME DefinitionAssumption ==
  /\ Services = HasRun \cup HasUi          \* app_service_start refuses others
  /\ HasCommand \subseteq Services
  /\ Network \subseteq HasRun
  /\ OnCard \subseteq Modules /\ Modules \subseteq Services
  /\ NoService \notin Services /\ NoText \notin Texts
  /\ MaxRevision \in Nat
  /\ IsFiniteSet(Shells)

VARIABLES
  \* struct epd_service
  listed, stopping, worker_done, ui_done, callers, wakeup, subscription, summary,
  revision,     \* summary_revision
  \* app_module.c: references to a module's code, those of them held by pages,
  \* and whether the session the module was loaded under still holds
  refs, page, valid,
  worker,       \* the worker threads' control points
  sawStop,      \* the module's run function was told to return
  shell,        \* the service each shell is in a command of
  \* the UI thread: control point, services still to visit, the one visited
  \* and the snapshot taken of it
  ui, todo, current, uStopping, uCallers, uDone,
  \* the board page: revision last shown, texts shown, revision being read
  seen, shown, reading

serviceVars == <<listed, stopping, worker_done, ui_done, callers, wakeup,
                 subscription, summary>>
moduleVars  == <<refs, page, valid>>
workerVars  == <<worker, sawStop>>
visitVars   == <<todo, current, uStopping, uCallers, uDone>>
boardVars   == <<seen, shown, reading>>
vars == <<serviceVars, revision, moduleVars, workerVars, shell, ui, visitVars,
          boardVars>>

Events == {"wake", "network", "stop"}

TypeOK ==
  /\ listed \subseteq Services /\ stopping \subseteq Services
  /\ worker_done \subseteq Services /\ ui_done \subseteq Services
  /\ callers \in [Services -> Nat]
  /\ wakeup \in [Services -> SUBSET Events]
  /\ subscription \subseteq Services
  /\ summary \in [Services -> Texts \cup {NoText}]
  /\ revision \in Nat
  /\ refs \in [Services -> Nat]
  /\ page \subseteq Services /\ valid \subseteq Services
  /\ worker \in [Services -> {"none", "run", "recv", "drain", "blocked",
                              "unsubscribe", "last", "done"}]
  /\ sawStop \subseteq Services
  /\ shell \in [Shells -> Services \cup {NoService}]
  /\ ui \in {"idle", "next", "check", "callback", "finish", "board"}
  /\ todo \subseteq Services /\ current \in Services \cup {NoService}
  /\ uStopping \in BOOLEAN /\ uCallers \in Nat /\ uDone \in BOOLEAN
  /\ seen \in Nat /\ reading \in Nat
  /\ shown \in [Services -> Texts \cup {NoText}]

\* f with the value of s replaced.
Put(f, s, v) == [f EXCEPT ![s] = v]

\* The service was stopped, or its module's card is gone.
epd_service_cancelled(s) == s \in stopping \/ (s \in Modules /\ s \notin valid)

\* What epd_app_summary_read finds.
Visible(s) == IF s \in listed /\ s \notin stopping THEN summary[s] ELSE NoText

AsIs == UNCHANGED <<serviceVars, revision>>

-----------------------------------------------------------------------------
\* Stopping and starting.

app_service_stop(s) ==
  /\ stopping' = stopping \cup {s}
  /\ revision' = IF s \in stopping THEN revision ELSE revision + 1
  /\ wakeup' = Put(wakeup, s, wakeup[s] \cup {"stop"})

\* (seeded fault) the service relies on the reference of the page
PinNothing(s, loaded) == loaded

\* The references to a module once its service holds one of its own.
PinModule(s, loaded) == IF s \in Modules THEN loaded + 1 ELSE loaded

\* Start s, whose module has "loaded" references by now.
app_service_start(s, loaded) ==
  /\ s \notin listed
  /\ revision < MaxRevision
  /\ listed' = listed \cup {s}
  /\ stopping' = stopping \ {s}
  /\ worker_done' = (worker_done \ {s}) \cup ({s} \ HasRun)
  /\ ui_done' = (ui_done \ {s}) \cup ({s} \ HasUi)
  /\ callers' = Put(callers, s, 0)
  /\ wakeup' = Put(wakeup, s, {})
  /\ subscription' = subscription \cup ({s} \cap Network)
  /\ summary' = Put(summary, s, NoText)
  /\ revision' = revision + 1
  /\ refs' = Put(refs, s, PinModule(s, loaded))
  /\ worker' = Put(worker, s, IF s \in HasRun THEN "run" ELSE "none")
  /\ sawStop' = sawStop \ {s}

-----------------------------------------------------------------------------
\* The UI thread between two passes: pages open and close, services start.

UiFree == ui = "idle" /\ UNCHANGED <<shell, ui, visitVars, boardVars>>

\* module_open: a module already loaded is opened again only under the session
\* it was loaded under.  The background service of the application starts with
\* it, unless the application has none or it is still there.
OpenPage(s) ==
  /\ UiFree
  /\ s \in Modules \ page
  /\ refs[s] = 0 \/ s \in valid
  /\ valid' = valid \cup {s}
  /\ page' = page \cup {s}
  /\ \/ app_service_start(s, refs[s] + 1)
     \/ /\ refs' = Put(refs, s, refs[s] + 1)
        /\ AsIs /\ UNCHANGED workerVars

\* An open page, or the firmware, starts the service itself.
StartService(s) ==
  /\ UiFree
  /\ s \in Modules => s \in page /\ s \in valid
  /\ app_service_start(s, refs[s])
  /\ UNCHANGED <<page, valid>>

ClosePage(s) ==
  /\ UiFree
  /\ s \in page
  /\ page' = page \ {s}
  /\ refs' = Put(refs, s, refs[s] - 1)
  /\ AsIs /\ UNCHANGED <<valid, workerVars>>

\* The installer, a page or the release of the card stops a service.
StopService(s) ==
  /\ UiFree
  /\ s \in listed
  /\ app_service_stop(s)
  /\ UNCHANGED <<listed, worker_done, ui_done, callers, subscription, summary,
                 moduleVars, workerVars>>

-----------------------------------------------------------------------------
\* app_service_process, once per round of the UI thread.

OnlyUi == UNCHANGED <<shell, moduleVars, workerVars, boardVars>>

Begin ==
  /\ ui = "idle" /\ ui' = "next"
  /\ todo' = listed
  /\ OnlyUi /\ AsIs /\ UNCHANGED <<current, uStopping, uCallers, uDone>>

\* The three facts are read together, under the interrupt guard.
Visit(s) ==
  /\ ui = "next" /\ ui' = "check"
  /\ s \in todo
  /\ todo' = todo \ {s}
  /\ current' = s
  /\ uStopping' = (s \in stopping)
  /\ uCallers' = callers[s]
  /\ uDone' = (s \in worker_done)
  /\ OnlyUi /\ AsIs

End ==
  /\ ui = "next" /\ todo = {}
  /\ ui' = "idle" /\ current' = NoService
  /\ OnlyUi /\ AsIs /\ UNCHANGED <<todo, uStopping, uCallers, uDone>>

\* (seeded fault) the cleanup waits for the commands only
MayCallSoon(stopped) == stopped => uCallers = 0

MayCall(stopped) == stopped => uDone /\ uCallers = 0

\* A service whose card is gone is stopped here; then its UI step is called,
\* put off, or over.
Check ==
  /\ ui = "check"
  /\ \/ /\ ~uStopping /\ epd_service_cancelled(current)
        /\ app_service_stop(current)
        /\ uStopping' = TRUE
     \/ /\ uStopping \/ ~epd_service_cancelled(current)
        /\ UNCHANGED <<stopping, revision, wakeup, uStopping>>
  /\ ui' = IF current \notin HasUi \ ui_done THEN "finish"
           ELSE IF MayCall(uStopping') THEN "callback" ELSE "next"
  /\ OnlyUi /\ UNCHANGED <<listed, worker_done, ui_done, callers, subscription,
                           summary, todo, current, uCallers, uDone>>

\* ui_process of the module returns; "done" only once told to stop.
CallbackMore ==
  /\ ui = "callback" /\ ui' = "finish"
  /\ OnlyUi /\ AsIs /\ UNCHANGED visitVars

CallbackDone(s) ==
  /\ ui = "callback" /\ ui' = "finish"
  /\ s = current /\ uStopping
  /\ stopping' = stopping \cup {s} /\ ui_done' = ui_done \cup {s}
  /\ OnlyUi /\ UNCHANGED <<listed, worker_done, callers, wakeup, subscription,
                           summary, revision, visitVars>>

Over == uDone /\ current \in ui_done /\ uCallers = 0

\* Off the list, its reference given back, its memory freed.
Finish ==
  /\ ui = "finish" /\ ui' = "next"
  /\ \/ /\ Over
        /\ listed' = listed \ {current}
        /\ revision' = revision + 1
        /\ refs' = Put(refs, current, IF current \in Modules
                                        THEN refs[current] - 1 ELSE refs[current])
     \/ ~Over /\ UNCHANGED <<listed, revision, refs>>
  /\ UNCHANGED <<stopping, worker_done, ui_done, callers, wakeup, subscription,
                 summary, page, valid, workerVars, shell, visitVars, boardVars>>

app_service_process ==
  \/ Begin \/ (\E s \in Services : Visit(s)) \/ End \/ Check
  \/ CallbackMore \/ (\E s \in Services : CallbackDone(s)) \/ Finish

-----------------------------------------------------------------------------
\* The worker threads.

Elsewhere == UNCHANGED <<moduleVars, shell, ui, visitVars, boardVars>>
WorkerGoto(s, from, to) == worker[s] = from /\ worker' = Put(worker, s, to)

epd_service_publish_summary(s, text) ==
  /\ worker[s] = "run"
  /\ revision < MaxRevision
  /\ s \notin stopping /\ summary[s] # text
  /\ summary' = Put(summary, s, text)
  /\ revision' = revision + 1
  /\ Elsewhere
  /\ UNCHANGED <<listed, stopping, worker_done, ui_done, callers, wakeup,
                 subscription, workerVars>>

\* epd_service_wait: a stop is reported without waiting.
Wait(s) ==
  /\ s \notin sawStop
  /\ \/ /\ epd_service_cancelled(s)
        /\ worker[s] = "run"
        /\ sawStop' = sawStop \cup {s}
        /\ UNCHANGED worker
     \/ /\ ~epd_service_cancelled(s)
        /\ WorkerGoto(s, "run", "recv")
        /\ UNCHANGED sawStop
  /\ Elsewhere /\ AsIs

Receive(s) ==
  /\ WorkerGoto(s, "recv", "run")
  /\ wakeup[s] # {}
  /\ wakeup' = Put(wakeup, s, {})
  /\ sawStop' = IF "stop" \in wakeup[s] THEN sawStop \cup {s} ELSE sawStop
  /\ Elsewhere
  /\ UNCHANGED <<listed, stopping, worker_done, ui_done, callers, subscription,
                 summary, revision>>

\* The module's run function returns, told to or by itself; the wrapper marks
\* the service stopping, so that no command enters it any more.
RunReturns(s) ==
  /\ WorkerGoto(s, "run", "drain")
  /\ stopping' = stopping \cup {s}
  /\ revision' = IF s \in stopping THEN revision ELSE revision + 1
  /\ Elsewhere
  /\ UNCHANGED <<listed, worker_done, ui_done, callers, wakeup, subscription,
                 summary, sawStop>>

\* (seeded fault) the subscription is forgotten
DrainSubscribed(s) ==
  /\ WorkerGoto(s, "drain", IF callers[s] = 0 THEN "last" ELSE "blocked")
  /\ Elsewhere /\ AsIs /\ UNCHANGED sawStop

Drain(s) ==
  /\ WorkerGoto(s, "drain", IF callers[s] = 0 THEN "unsubscribe" ELSE "blocked")
  /\ Elsewhere /\ AsIs /\ UNCHANGED sawStop

DrainWoken(s) ==
  /\ WorkerGoto(s, "blocked", "drain")
  /\ "wake" \in wakeup[s]
  /\ wakeup' = Put(wakeup, s, wakeup[s] \ {"wake"})
  /\ Elsewhere
  /\ UNCHANGED <<listed, stopping, worker_done, ui_done, callers, subscription,
                 summary, revision, sawStop>>

Unsubscribe(s) ==
  /\ WorkerGoto(s, "unsubscribe", "last")
  /\ subscription' = subscription \ {s}
  /\ Elsewhere
  /\ UNCHANGED <<listed, stopping, worker_done, ui_done, callers, wakeup,
                 summary, revision, sawStop>>

\* The last touch of the service by its thread.
RunDone(s) ==
  /\ WorkerGoto(s, "last", "done")
  /\ worker_done' = worker_done \cup {s}
  /\ Elsewhere
  /\ UNCHANGED <<listed, stopping, ui_done, callers, wakeup, subscription,
                 summary, revision, sawStop>>

\* What a thread's own progress is made of: once told to stop, a module's run
\* function returns.
Progress(s) ==
  \/ Wait(s) \/ Receive(s) \/ (s \in sawStop /\ RunReturns(s))
  \/ Drain(s) \/ DrainWoken(s) \/ Unsubscribe(s) \/ RunDone(s)

run(s) ==
  \/ \E text \in Texts : epd_service_publish_summary(s, text)
  \/ RunReturns(s) \/ Progress(s)

\* A page wakes the worker; the network tells its subscribers of a change.
Notify(s, event) ==
  /\ \/ event = "network" /\ s \in subscription
     \/ event = "wake" /\ s \in page \cap listed
  /\ wakeup' = Put(wakeup, s, wakeup[s] \cup {event})
  /\ UNCHANGED workerVars /\ Elsewhere
  /\ UNCHANGED <<listed, stopping, worker_done, ui_done, callers, subscription,
                 summary, revision>>

-----------------------------------------------------------------------------
\* Shell commands, the card, and the board page.

Outside == UNCHANGED <<revision, moduleVars, workerVars, ui, visitVars, boardVars>>

\* app_service_command: found and counted under one interrupt guard ...
EnterCommand(c, s) ==
  /\ shell[c] = NoService
  /\ s \in listed \cap HasCommand /\ ~epd_service_cancelled(s)
  /\ callers' = Put(callers, s, callers[s] + 1)
  /\ shell' = Put(shell, c, s)
  /\ Outside
  /\ UNCHANGED <<listed, stopping, worker_done, ui_done, wakeup, subscription,
                 summary>>

\* (seeded fault) the worker is not woken
LeaveSilently(c, s) ==
  /\ s # NoService /\ shell[c] = s
  /\ callers' = Put(callers, s, callers[s] - 1)
  /\ UNCHANGED wakeup
  /\ shell' = Put(shell, c, NoService)
  /\ Outside
  /\ UNCHANGED <<listed, stopping, worker_done, ui_done, subscription, summary>>

\* ... and given up, waking the worker, under another.
LeaveCommand(c, s) ==
  /\ s # NoService /\ shell[c] = s
  /\ callers' = Put(callers, s, callers[s] - 1)
  /\ wakeup' = Put(wakeup, s, wakeup[s] \cup {"wake"})
  /\ shell' = Put(shell, c, NoService)
  /\ Outside
  /\ UNCHANGED <<listed, stopping, worker_done, ui_done, subscription, summary>>

\* The sessions of the card end together.
CardGone ==
  /\ \E s \in OnCard : refs[s] > 0 /\ s \in valid
  /\ valid' = valid \ OnCard
  /\ AsIs /\ UNCHANGED <<refs, page, workerVars, shell, ui, visitVars, boardVars>>

\* The board: the revision first, then the texts one by one.
BoardBegin ==
  /\ ui = "idle" /\ seen # revision
  /\ ui' = "board"
  /\ reading' = revision /\ todo' = Services
  /\ AsIs
  /\ UNCHANGED <<moduleVars, workerVars, shell, current, uStopping, uCallers,
                 uDone, seen, shown>>

BoardRead(s) ==
  /\ ui = "board" /\ s \in todo
  /\ todo' = todo \ {s}
  /\ shown' = Put(shown, s, Visible(s))
  /\ AsIs
  /\ UNCHANGED <<moduleVars, workerVars, shell, ui, current, uStopping, uCallers,
                 uDone, seen, reading>>

\* (seeded fault) the revision is read last
BoardEndLate ==
  /\ ui = "board" /\ todo = {}
  /\ ui' = "idle" /\ seen' = revision
  /\ AsIs /\ UNCHANGED <<moduleVars, workerVars, shell, visitVars, shown, reading>>

BoardEnd ==
  /\ ui = "board" /\ todo = {}
  /\ ui' = "idle" /\ seen' = reading
  /\ AsIs /\ UNCHANGED <<moduleVars, workerVars, shell, visitVars, shown, reading>>

board == BoardBegin \/ (\E s \in Services : BoardRead(s)) \/ BoardEnd

-----------------------------------------------------------------------------
Init ==
  /\ listed = {} /\ revision = 0
  /\ stopping = {}
  /\ worker_done = {}
  /\ ui_done = {}
  /\ callers = [s \in Services |-> 0]
  /\ wakeup = [s \in Services |-> {}]
  /\ subscription = {}
  /\ summary = [s \in Services |-> NoText]
  /\ refs = [s \in Services |-> 0] /\ page = {}
  /\ valid = {}
  /\ worker = [s \in Services |-> "none"]
  /\ sawStop = {}
  /\ shell = [c \in Shells |-> NoService]
  /\ ui = "idle" /\ todo = {} /\ current = NoService
  /\ uStopping = FALSE /\ uCallers = 0 /\ uDone = FALSE
  /\ seen = 0 /\ reading = 0 /\ shown = [s \in Services |-> NoText]

Next ==
  \/ \E s \in Services :
       \/ OpenPage(s) \/ StartService(s) \/ ClosePage(s) \/ StopService(s)
       \/ run(s)
       \/ \E event \in Events : Notify(s, event)
       \/ \E c \in Shells : EnterCommand(c, s) \/ LeaveCommand(c, s)
  \/ app_service_process \/ CardGone \/ board

\* The UI thread keeps calling app_service_process, each thread of a service
\* runs, a module's run function obeys a stop, its UI step
\* finishes when told to often enough, and commands return.
Fairness ==
  /\ WF_vars(app_service_process) /\ WF_vars(board)
  /\ \A s \in Services :
       /\ WF_vars(Progress(s)) /\ SF_vars(CallbackDone(s))
       /\ \A c \in Shells : WF_vars(LeaveCommand(c, s))

Spec == Init /\ [][Next]_vars
FairSpec == Spec /\ Fairness

-----------------------------------------------------------------------------
\* Properties

\* Nothing touches a service once it is freed: not its worker, not a command
\* in flight, not the network that was to notify it, not the UI step.
NoUseAfterFree ==
  /\ TypeOK
  /\ \A s \in Services :
       /\ worker[s] \notin {"none", "done"} => s \in listed
       /\ s \in subscription => s \in listed
  /\ \A c \in Shells : shell[c] # NoService => shell[c] \in listed
  /\ ui \in {"check", "callback", "finish"} => current \in listed

\* The code of a module stays loaded while any of the three is inside it,
\* whatever happens to its page and its card.
CodeStaysLoaded ==
  /\ \A s \in Modules : worker[s] \in {"run", "recv"} => refs[s] > 0
  /\ \A c \in Shells : shell[c] \in Modules => refs[shell[c]] > 0
  /\ ui = "callback" /\ current \in Modules => refs[current] > 0

\* "UI cleanup cannot race a worker or a command still in module code."
UiCleanupAlone ==
  ui = "callback" /\ uStopping =>
    /\ worker[current] \in {"none", "done"}
    /\ \A c \in Shells : shell[c] # current

\* A page that shows the current revision shows the current summaries: those
\* of running services, and none of a service that stops.
SummaryIsCurrent ==
  ui # "board" /\ seen = revision => \A s \in Services : shown[s] = Visible(s)

\* A service told to stop is freed in the end: no wake-up is lost between the
\* worker, the commands it waits for, and the UI thread that waits for both.
\* So is a service whose card is gone, which nobody stopped.
StopCompletes ==
  /\ \A s \in Services : (s \in listed /\ s \in stopping) ~> s \notin listed
  /\ \A s \in OnCard : (s \in listed /\ s \notin valid) ~> s \notin listed
=============================================================================
