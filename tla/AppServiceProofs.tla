-------------------------- MODULE AppServiceProofs --------------------------
(***************************************************************************)
(* Proofs about the background services, for any services, modules and     *)
(* shells and any number of starts and publications.                       *)
(*                                                                         *)
(* All parts of the inductive invariant hold together: the counters are    *)
(* never negative because they count pages and shells, the shells are      *)
(* inside living services because the UI thread frees a service on what it *)
(* read of it earlier, and that is safe because of what the marks say.     *)
(***************************************************************************)
EXTENDS AppService, FiniteSetTheorems, TLAPS

\* A command runs in the module of its service.  The definitions of the
\* applications that have one (src/modules/books/app_main.c, weather/weather.c)
\* have a worker too, which the UI thread waits for; app_service_start does not
\* ask for it.  Without a worker the number of callers the UI thread read may be
\* old when the loss of the card makes it stop the service.
CommandsHaveWorkers == HasCommand \cap OnCard \subseteq HasRun

\* Where a service is on its way from its start to its end.  The marks of a
\* finished part are only ever set by that part, and a restart resets them all.
Stages ==
  \A s \in Services :
    /\ worker[s] \notin {"none", "done"} => s \in listed
    /\ worker[s] \notin {"none", "run", "recv"} => s \in stopping
    /\ s \in worker_done => worker[s] = IF s \in HasRun THEN "done" ELSE "none"
    /\ s \notin HasRun => worker[s] = "none"
    /\ s \in subscription =>
         worker[s] \in {"run", "recv", "drain", "blocked", "unsubscribe"}
    /\ s \in ui_done \cap HasUi => s \in stopping

\* The shells in a command of s.
Inside(s) == {c \in Shells : shell[c] = s}

\* The counter of a service is the number of shells inside it, and those are
\* inside services that are there.
Commands ==
  /\ \A s \in Services : callers[s] = Cardinality(Inside(s))
  /\ \A c \in Shells : shell[c] # NoService => shell[c] \in listed \cap HasCommand

One(condition) == IF condition THEN 1 ELSE 0

\* A module has one reference per page and one per service, and a module that
\* is not on the card keeps the session it was loaded under.
References ==
  /\ page \subseteq Modules
  /\ \A s \in Services : refs[s] = One(s \in page) + One(s \in listed \cap Modules)
  /\ (listed \cup page) \cap (Modules \ OnCard) \subseteq valid

Visiting == ui \in {"check", "callback", "finish"}

\* What the UI thread knows of the service it visits.  Its snapshot is old, but
\* not stale: what it says of the end of the worker stays true, and that of
\* the callers once the service is stopping.
Snapshot ==
  /\ ui \in {"next", "check", "callback", "finish"} => todo \subseteq listed
  /\ Visiting =>
       /\ current \in listed \ todo
       /\ uStopping => current \in stopping
       /\ current \in stopping \ HasRun => uStopping
       /\ uDone => current \in worker_done
       /\ uDone /\ current \in HasRun => uStopping
       /\ current \in ui_done \cap HasUi => uStopping
       /\ uStopping /\ uDone /\ uCallers = 0 => callers[current] = 0
  /\ ui = "callback" => (uStopping => uDone /\ uCallers = 0)

\* What the board shows is the summaries of the revision it read, or that
\* revision is past.
Board ==
  /\ seen <= revision /\ reading <= revision
  /\ ui # "board" /\ seen = revision =>
       \A s \in Services : shown[s] = Visible(s)
  /\ ui = "board" /\ reading = revision =>
       \A s \in Services \ todo : shown[s] = Visible(s)

IInv == TypeOK /\ Stages /\ Commands /\ References /\ Snapshot /\ Board

-----------------------------------------------------------------------------
\* Helpers.

\* A function with one value changed.
LEMMA PutValue ==
  ASSUME NEW S, NEW T, NEW f \in [S -> T], NEW s \in S, NEW v \in T
  PROVE  /\ Put(f, s, v) \in [S -> T]
         /\ Put(f, s, v)[s] = v
         /\ \A t \in S \ {s} : Put(f, s, v)[t] = f[t]
  BY DEF Put

\* The shells inside a service are finitely many.
LEMMA InsideIsFinite ==
  ASSUME NEW s
  PROVE  /\ IsFiniteSet(Inside(s)) /\ Cardinality(Inside(s)) \in Nat
         /\ Cardinality(Inside(s)) = 0 <=> Inside(s) = {}
  <1>1. Inside(s) \in SUBSET Shells BY DEF Inside
  <1>2. IsFiniteSet(Inside(s)) BY <1>1, DefinitionAssumption, FS_Subset
  <1> QED BY <1>2, FS_CardinalityType, FS_EmptySet

\* Nobody is inside a service whose callers are none.
LEMMA NobodyInside ==
  ASSUME Commands, NEW s \in Services, callers[s] = 0
  PROVE  \A c \in Shells : shell[c] # s
  BY InsideIsFinite DEF Commands, Inside

\* The steps one by one.
LEMMA NextSteps ==
  ASSUME [Next]_vars
  PROVE  \/ \E s \in Services :
              \/ OpenPage(s) \/ StartService(s) \/ ClosePage(s) \/ StopService(s)
              \/ \E text \in Texts : epd_service_publish_summary(s, text)
              \/ Wait(s) \/ Receive(s) \/ RunReturns(s) \/ Drain(s)
              \/ DrainWoken(s) \/ Unsubscribe(s) \/ RunDone(s)
              \/ \E event \in Events : Notify(s, event)
              \/ \E c \in Shells : EnterCommand(c, s) \/ LeaveCommand(c, s)
              \/ Visit(s) \/ CallbackDone(s) \/ BoardRead(s)
         \/ Begin \/ End \/ Check \/ CallbackMore \/ Finish \/ CardGone
         \/ BoardBegin \/ BoardEnd
         \/ UNCHANGED vars
  BY Zenon DEF Next, run, Progress, app_service_process, board

\* The invariant holds when nothing runs.
LEMMA InvInit == Init => IInv
  <1> SUFFICES ASSUME Init PROVE IInv
    OBVIOUS
  <1> USE DEF Init
  <1>1. TypeOK
    <2>1. uStopping \in BOOLEAN /\ uDone \in BOOLEAN BY Zenon
    <2> QED BY <2>1 DEF TypeOK
  <1>2. Stages BY DEF Stages
  <1>3. Commands
    <2>1. \A s \in Services : Inside(s) = {} BY DefinitionAssumption DEF Inside
    <2> QED BY <2>1, FS_EmptySet DEF Commands
  <1>4. References BY DEF References, One
  <1>5. Snapshot BY DEF Snapshot, Visiting
  <1>6. Board BY DEF Board, Visible
  <1> QED BY <1>1, <1>2, <1>3, <1>4, <1>5, <1>6 DEF IInv

-----------------------------------------------------------------------------
\* The types.

\* A start keeps the types.
LEMMA StartType ==
  ASSUME TypeOK, NEW s \in Services, NEW loaded \in Nat,
         app_service_start(s, loaded)
  PROVE  /\ listed' \subseteq Services /\ stopping' \subseteq Services
         /\ worker_done' \subseteq Services /\ ui_done' \subseteq Services
         /\ callers' \in [Services -> Nat]
         /\ wakeup' \in [Services -> SUBSET Events]
         /\ subscription' \subseteq Services
         /\ summary' \in [Services -> Texts \cup {NoText}]
         /\ revision' \in Nat /\ refs' \in [Services -> Nat]
         /\ worker' \in [Services -> {"none", "run", "recv", "drain", "blocked",
                                      "unsubscribe", "last", "done"}]
         /\ sawStop' \subseteq Services
  BY DEF TypeOK, app_service_start, Put, PinModule, Events

\* Every step keeps the types.
LEMMA TypeStep == IInv /\ [Next]_vars => TypeOK'
  <1> SUFFICES ASSUME IInv, [Next]_vars PROVE TypeOK'
    OBVIOUS
  <1> USE DEF AsIs, UiFree, OnlyUi, Elsewhere, Outside, serviceVars, moduleVars,
              workerVars, visitVars, boardVars
  <1>0. TypeOK BY DEF IInv
  <1>1. ASSUME NEW s \in Services, OpenPage(s) PROVE TypeOK'
    <2>1. refs[s] + 1 \in Nat BY <1>0 DEF TypeOK
    <2>2. CASE app_service_start(s, refs[s] + 1)
      BY <1>0, <1>1, <2>1, <2>2, StartType DEF OpenPage, TypeOK
    <2>3. CASE refs' = Put(refs, s, refs[s] + 1) /\ AsIs /\ UNCHANGED workerVars
      BY <1>0, <1>1, <2>1, <2>3 DEF OpenPage, TypeOK, Put
    <2> QED BY <1>1, <2>2, <2>3 DEF OpenPage
  <1>2. ASSUME NEW s \in Services, StartService(s) PROVE TypeOK'
    <2>1. refs[s] \in Nat BY <1>0 DEF TypeOK
    <2> QED BY <1>0, <1>2, <2>1, StartType DEF StartService, TypeOK
  <1>3. ASSUME NEW s \in Services, ClosePage(s) PROVE TypeOK'
    <2>1. refs[s] - 1 \in Nat
      BY <1>3 DEF ClosePage, IInv, References, TypeOK, One
    <2> QED BY <1>0, <1>3, <2>1 DEF ClosePage, TypeOK, Put
  <1>4. ASSUME NEW s \in Services, StopService(s) PROVE TypeOK'
    BY <1>0, <1>4 DEF StopService, app_service_stop, TypeOK, Put, Events
  <1>5. ASSUME NEW s \in Services, NEW text \in Texts,
               epd_service_publish_summary(s, text)
        PROVE  TypeOK'
    BY <1>0, <1>5 DEF epd_service_publish_summary, TypeOK, Put
  <1>6. ASSUME NEW s \in Services,
               \/ Wait(s) \/ Receive(s) \/ RunReturns(s) \/ Drain(s)
               \/ DrainWoken(s) \/ Unsubscribe(s) \/ RunDone(s)
        PROVE  TypeOK'
    BY <1>0, <1>6 DEF Wait, Receive, RunReturns, Drain, DrainWoken, Unsubscribe,
                      RunDone, WorkerGoto, TypeOK, Put
  <1>7. ASSUME NEW s \in Services, NEW event \in Events, Notify(s, event)
        PROVE  TypeOK'
    BY <1>0, <1>7 DEF Notify, TypeOK, Put
  <1>8. ASSUME NEW s \in Services, NEW c \in Shells, EnterCommand(c, s)
        PROVE  TypeOK'
    BY <1>0, <1>8 DEF EnterCommand, TypeOK, Put
  <1>9. ASSUME NEW s \in Services, NEW c \in Shells, LeaveCommand(c, s)
        PROVE  TypeOK'
    <2>1. callers[s] - 1 \in Nat
      <3>1. c \in Inside(s) BY <1>9 DEF LeaveCommand, Inside
      <3>2. callers[s] = Cardinality(Inside(s)) BY DEF IInv, Commands
      <3> QED BY <3>1, <3>2, InsideIsFinite
    <2> QED BY <1>0, <1>9, <2>1 DEF LeaveCommand, TypeOK, Put, Events
  <1>10. ASSUME NEW s \in Services, Visit(s) PROVE TypeOK'
    <2>1. uStopping' \in BOOLEAN /\ uDone' \in BOOLEAN
      <3>1. uStopping' = (s \in stopping) /\ uDone' = (s \in worker_done)
        BY <1>10, Zenon DEF Visit
      <3> QED BY <3>1
    <2>2. uCallers' \in Nat BY <1>0, <1>10 DEF Visit, TypeOK
    <2> QED BY <1>0, <1>10, <2>1, <2>2 DEF Visit, TypeOK
  <1>11. CASE Check
    <2>1. uStopping' \in BOOLEAN BY <1>0, <1>11, Zenon DEF Check, TypeOK
    <2>2. ui' \in {"idle", "next", "check", "callback", "finish", "board"}
      BY <1>11 DEF Check
    <2>3. CASE ~uStopping /\ epd_service_cancelled(current)
      <3>1. current \in Services BY <1>11 DEF Check, IInv, Snapshot, Visiting, TypeOK
      <3> QED BY <1>0, <1>11, <2>1, <2>2, <2>3, <3>1
              DEF Check, app_service_stop, TypeOK, Put, Events
    <2>4. CASE ~(~uStopping /\ epd_service_cancelled(current))
      <3>1. UNCHANGED <<stopping, revision, wakeup>>
        BY <1>11, <2>4, Zenon DEF Check
      <3> QED BY <1>0, <1>11, <2>1, <2>2, <3>1 DEF Check, TypeOK
    <2> QED BY <2>3, <2>4
  <1>12. CASE Finish
    <2>1. CASE Over
      <3>1. current \in Services /\ current \in listed
        BY <1>12 DEF Finish, IInv, Snapshot, Visiting, TypeOK
      <3>2. current \in Modules => refs[current] - 1 \in Nat
        BY <3>1 DEF IInv, References, One, TypeOK
      <3> QED BY <1>0, <1>12, <2>1, <3>1, <3>2 DEF Finish, TypeOK, Put
    <2>2. CASE ~Over BY <1>0, <1>12, <2>2 DEF Finish, TypeOK
    <2> QED BY <2>1, <2>2
  <1>13. ASSUME NEW s \in Services, CallbackDone(s) \/ BoardRead(s) PROVE TypeOK'
    BY <1>0, <1>13 DEF CallbackDone, BoardRead, Visible, TypeOK, Put
  <1>14. CASE \/ Begin \/ End \/ CallbackMore \/ CardGone \/ BoardBegin
              \/ BoardEnd \/ UNCHANGED vars
    BY <1>0, <1>14
       DEF Begin, End, CallbackMore, CardGone, BoardBegin, BoardEnd, vars, TypeOK
  <1> QED BY <1>1, <1>2, <1>3, <1>4, <1>5, <1>6, <1>7, <1>8, <1>9, <1>10, <1>11,
             <1>12, <1>13, <1>14, NextSteps

-----------------------------------------------------------------------------
\* The stages of the services.

\* Every step keeps every service in order between its start and its end.
LEMMA StagesStep == IInv /\ [Next]_vars => Stages'
  <1> SUFFICES ASSUME IInv, [Next]_vars PROVE Stages'
    OBVIOUS
  <1> USE DEF AsIs, UiFree, OnlyUi, Elsewhere, Outside, serviceVars, moduleVars,
              workerVars, visitVars, boardVars
  <1> DEFINE stageVars == <<listed, stopping, worker_done, ui_done, subscription,
                            worker>>
  <1>0. TypeOK /\ Stages BY DEF IInv
  <1>1. ASSUME NEW s \in Services, NEW loaded, app_service_start(s, loaded)
        PROVE  Stages'
    BY <1>0, <1>1, DefinitionAssumption DEF app_service_start, TypeOK, Stages, Put
  <1>2. ASSUME NEW s \in Services, OpenPage(s) \/ StartService(s) PROVE Stages'
    <2>1. CASE UNCHANGED stageVars BY <1>0, <2>1 DEF Stages
    <2>2. CASE \E loaded : app_service_start(s, loaded) BY <1>1, <2>2
    <2> QED BY <1>2, <2>1, <2>2, Zenon DEF OpenPage, StartService
  <1>3. ASSUME NEW s \in Services, StopService(s) PROVE Stages'
    BY <1>0, <1>3 DEF StopService, app_service_stop, Stages
  <1>4. ASSUME NEW s \in Services,
               \/ Wait(s) \/ Receive(s) \/ RunReturns(s) \/ Drain(s)
               \/ DrainWoken(s) \/ Unsubscribe(s) \/ RunDone(s)
        PROVE  Stages'
    BY <1>0, <1>4 DEF Wait, Receive, RunReturns, Drain, DrainWoken, Unsubscribe,
                      RunDone, WorkerGoto, TypeOK, Stages, Put
  <1>5. CASE Check
    BY <1>0, <1>5 DEF Check, app_service_stop, Stages
  <1>6. ASSUME NEW s \in Services, CallbackDone(s) PROVE Stages'
    BY <1>0, <1>6 DEF CallbackDone, Stages
  <1>7. CASE Finish
    <2>1. current \in listed /\ (uDone => current \in worker_done)
      BY <1>7 DEF Finish, IInv, Snapshot, Visiting
    <2> QED BY <1>0, <1>7, <2>1 DEF Finish, Over, Stages, TypeOK
  <1>8. ASSUME NEW s \in Services, ClosePage(s) PROVE Stages'
    BY <1>0, <1>8 DEF ClosePage, Stages
  <1>9. ASSUME NEW s \in Services,
               \/ \E text \in Texts : epd_service_publish_summary(s, text)
               \/ \E event \in Events : Notify(s, event)
               \/ \E c \in Shells : EnterCommand(c, s) \/ LeaveCommand(c, s)
               \/ Visit(s) \/ BoardRead(s)
        PROVE  Stages'
    BY <1>0, <1>9 DEF epd_service_publish_summary, Notify, EnterCommand,
                      LeaveCommand, Visit, BoardRead, Stages
  <1>10. CASE \/ Begin \/ End \/ CallbackMore \/ CardGone \/ BoardBegin
              \/ BoardEnd \/ UNCHANGED vars
    BY <1>0, <1>10
       DEF Begin, End, CallbackMore, CardGone, BoardBegin, BoardEnd, vars, Stages
  <1> QED BY <1>2, <1>3, <1>4, <1>5, <1>6, <1>7, <1>8, <1>9, <1>10, NextSteps

-----------------------------------------------------------------------------
\* The commands and their counters.

\* What the UI thread frees, nobody is inside of.
LEMMA FreedIsQuiet ==
  ASSUME IInv, Finish, Over
  PROVE  /\ current \in Services /\ current \in listed
         /\ worker[current] \in {"none", "done"} /\ current \notin subscription
         /\ callers[current] = 0
  <1>1. /\ current \in Services /\ current \in listed /\ current \in ui_done
        /\ uDone /\ uCallers = 0 /\ current \in worker_done
    BY DEF Finish, Over, IInv, TypeOK, Snapshot, Visiting
  <1>2. uStopping
    <2>1. current \in HasRun \/ current \in HasUi BY <1>1, DefinitionAssumption
    <2> QED BY <1>1, <2>1 DEF Finish, IInv, Snapshot, Visiting
  <1>3. callers[current] = 0 BY <1>1, <1>2 DEF Finish, IInv, Snapshot, Visiting
  <1>4. worker[current] \in {"none", "done"} BY <1>1 DEF IInv, Stages
  <1> QED BY <1>1, <1>3, <1>4 DEF IInv, Stages

\* Every step keeps the counters equal to the shells inside, and those inside services that are there.
LEMMA CommandsStep == IInv /\ [Next]_vars => Commands'
  <1> SUFFICES ASSUME IInv, [Next]_vars PROVE Commands'
    OBVIOUS
  <1> USE DEF AsIs, UiFree, OnlyUi, Elsewhere, Outside, serviceVars, moduleVars,
              workerVars, visitVars, boardVars
  <1>0. TypeOK /\ Commands BY DEF IInv
  <1>1. ASSUME NEW s \in Services, NEW loaded, app_service_start(s, loaded),
               UNCHANGED shell
        PROVE  Commands'
    <2>1. Inside(s) = {}
      BY <1>0, <1>1, DefinitionAssumption DEF app_service_start, Commands, Inside
    <2>2. Cardinality(Inside(s)) = 0 BY <2>1, FS_EmptySet
    <2>3. \A t \in Services : Inside(t)' = Inside(t) BY <1>1 DEF Inside
    <2>4. callers'[s] = 0 /\ \A t \in Services \ {s} : callers'[t] = callers[t]
      BY <1>0, <1>1 DEF app_service_start, Put, TypeOK
    <2>5. \A t \in Services : callers'[t] = Cardinality(Inside(t))
      BY <1>0, <2>2, <2>4 DEF Commands
    <2>6. listed \subseteq listed' BY <1>1 DEF app_service_start
    <2> QED BY <1>0, <1>1, <2>3, <2>5, <2>6 DEF Commands
  <1>2. ASSUME UNCHANGED <<callers, shell>>, listed \subseteq listed'
        PROVE  Commands'
    <2>1. \A t \in Services : Inside(t)' = Inside(t) BY <1>2 DEF Inside
    <2> QED BY <1>0, <1>2, <2>1 DEF Commands
  <1>3. ASSUME NEW s \in Services, OpenPage(s) \/ StartService(s)
        PROVE  Commands'
    <2>1. CASE UNCHANGED <<callers, shell, listed>> BY <1>2, <2>1
    <2>2. CASE UNCHANGED shell /\ \E loaded : app_service_start(s, loaded)
      BY <1>1, <2>2
    <2> QED BY <1>3, <2>1, <2>2, Zenon DEF OpenPage, StartService
  <1>4. ASSUME NEW s \in Services, NEW c \in Shells, EnterCommand(c, s)
        PROVE  Commands'
    <2>1. s # NoService BY DefinitionAssumption
    <2>2. c \notin Inside(s) /\ Inside(s)' = Inside(s) \cup {c}
      BY <1>0, <1>4, <2>1 DEF EnterCommand, Inside, Put, TypeOK
    <2>3. Cardinality(Inside(s)') = Cardinality(Inside(s)) + 1
      BY <2>2, InsideIsFinite, FS_AddElement
    <2>4. \A t \in Services \ {s} : Inside(t)' = Inside(t)
      BY <1>0, <1>4, DefinitionAssumption DEF EnterCommand, Inside, Put, TypeOK
    <2>5. \A t \in Services : callers'[t] = Cardinality(Inside(t)')
      BY <1>0, <1>4, <2>3, <2>4 DEF EnterCommand, Commands, Put, TypeOK
    <2>6. \A d \in Shells : shell'[d] # NoService
                              => shell'[d] \in listed' \cap HasCommand
      BY <1>0, <1>4 DEF EnterCommand, Commands, Put, TypeOK
    <2> QED BY <2>5, <2>6 DEF Commands
  <1>5. ASSUME NEW s \in Services, NEW c \in Shells, LeaveCommand(c, s)
        PROVE  Commands'
    <2>1. c \in Inside(s) /\ Inside(s)' = Inside(s) \ {c}
      BY <1>0, <1>5 DEF LeaveCommand, Inside, Put, TypeOK
    <2>2. Cardinality(Inside(s)') = Cardinality(Inside(s)) - 1
      BY <2>1, InsideIsFinite, FS_RemoveElement
    <2>3. \A t \in Services \ {s} : Inside(t)' = Inside(t)
      BY <1>0, <1>5, DefinitionAssumption DEF LeaveCommand, Inside, Put, TypeOK
    <2>4. \A t \in Services : callers'[t] = Cardinality(Inside(t)')
      BY <1>0, <1>5, <2>2, <2>3 DEF LeaveCommand, Commands, Put, TypeOK
    <2>5. \A d \in Shells : shell'[d] # NoService
                              => shell'[d] \in listed' \cap HasCommand
      BY <1>0, <1>5 DEF LeaveCommand, Commands, Put, TypeOK
    <2> QED BY <2>4, <2>5 DEF Commands
  <1>6. CASE Finish
    <2>1. UNCHANGED <<callers, shell>> BY <1>6 DEF Finish
    <2>2. CASE Over
      <3>1. \A c \in Shells : shell[c] # current
        BY <1>0, <1>6, <2>2, FreedIsQuiet, NobodyInside
      <3>2. listed' = listed \ {current} BY <1>6, <2>2, Zenon DEF Finish
      <3>3. \A t \in Services : Inside(t)' = Inside(t) BY <2>1 DEF Inside
      <3> QED BY <1>0, <2>1, <3>1, <3>2, <3>3 DEF Commands
    <2>3. CASE ~Over
      <3>1. listed' = listed BY <1>6, <2>3, Zenon DEF Finish
      <3> QED BY <1>2, <2>1, <3>1
    <2> QED BY <2>2, <2>3
  <1>7. ASSUME NEW s \in Services,
               \/ ClosePage(s) \/ StopService(s)
               \/ \E text \in Texts : epd_service_publish_summary(s, text)
               \/ \E event \in Events : Notify(s, event)
               \/ Visit(s) \/ CallbackDone(s) \/ BoardRead(s)
        PROVE  Commands'
    <2>1. UNCHANGED <<callers, shell>> /\ listed \subseteq listed'
      BY <1>7 DEF ClosePage, StopService, epd_service_publish_summary, Notify,
                  Visit, CallbackDone, BoardRead
    <2> QED BY <1>2, <2>1
  <1>8. ASSUME NEW s \in Services,
               \/ Wait(s) \/ Receive(s) \/ RunReturns(s) \/ Drain(s)
               \/ DrainWoken(s) \/ Unsubscribe(s) \/ RunDone(s)
        PROVE  Commands'
    <2>1. UNCHANGED <<callers, shell>> /\ listed \subseteq listed'
      BY <1>8 DEF Wait, Receive, RunReturns, Drain, DrainWoken, Unsubscribe, RunDone
    <2> QED BY <1>2, <2>1
  <1>9. CASE \/ Begin \/ End \/ Check \/ CallbackMore \/ CardGone \/ BoardBegin
             \/ BoardEnd \/ UNCHANGED vars
    <2>1. UNCHANGED <<callers, shell>> /\ listed \subseteq listed'
      BY <1>9 DEF Begin, End, Check, CallbackMore, CardGone, BoardBegin, BoardEnd,
                  vars
    <2> QED BY <1>2, <2>1
  <1> QED BY <1>3, <1>4, <1>5, <1>6, <1>7, <1>8, <1>9, NextSteps

-----------------------------------------------------------------------------
\* The references to the modules.

\* Every step keeps the references to a module equal to the pages and services that hold them.
LEMMA ReferencesStep == IInv /\ [Next]_vars => References'
  <1> SUFFICES ASSUME IInv, [Next]_vars PROVE References'
    OBVIOUS
  <1> USE DEF AsIs, UiFree, OnlyUi, Elsewhere, Outside, serviceVars, moduleVars,
              workerVars, visitVars, boardVars
  <1>0. TypeOK /\ References BY DEF IInv
  <1>1. ASSUME NEW s \in Services, OpenPage(s) PROVE References'
    <2>1. CASE app_service_start(s, refs[s] + 1)
      BY <1>0, <1>1, <2>1 DEF OpenPage, app_service_start, PinModule, References,
                              One, Put, TypeOK
    <2>2. CASE refs' = Put(refs, s, refs[s] + 1) /\ AsIs
      BY <1>0, <1>1, <2>2 DEF OpenPage, References, One, Put, TypeOK
    <2> QED BY <1>1, <2>1, <2>2 DEF OpenPage
  <1>2. ASSUME NEW s \in Services, StartService(s) PROVE References'
    BY <1>0, <1>2 DEF StartService, app_service_start, PinModule, References,
                      One, Put, TypeOK
  <1>3. ASSUME NEW s \in Services, ClosePage(s) PROVE References'
    BY <1>0, <1>3 DEF ClosePage, References, One, Put, TypeOK
  <1>4. CASE Finish
    <2>1. CASE Over
      <3>1. current \in Services /\ current \in listed BY <1>4, <2>1, FreedIsQuiet
      <3> QED BY <1>0, <1>4, <2>1, <3>1 DEF Finish, References, One, Put, TypeOK
    <2>2. CASE ~Over BY <1>0, <1>4, <2>2 DEF Finish, References
    <2> QED BY <2>1, <2>2
  <1>5. CASE CardGone BY <1>0, <1>5 DEF CardGone, References
  <1>6. ASSUME UNCHANGED <<listed, refs, page, valid>> PROVE References'
    BY <1>0, <1>6 DEF References
  <1>7. ASSUME NEW s \in Services,
               \/ StopService(s)
               \/ \E text \in Texts : epd_service_publish_summary(s, text)
               \/ \E event \in Events : Notify(s, event)
               \/ \E c \in Shells : EnterCommand(c, s) \/ LeaveCommand(c, s)
               \/ Visit(s) \/ CallbackDone(s) \/ BoardRead(s)
        PROVE  References'
    <2>1. UNCHANGED <<listed, refs, page, valid>>
      BY <1>7 DEF StopService, epd_service_publish_summary, Notify, EnterCommand,
                  LeaveCommand, Visit, CallbackDone, BoardRead
    <2> QED BY <1>6, <2>1
  <1>8. ASSUME NEW s \in Services,
               \/ Wait(s) \/ Receive(s) \/ RunReturns(s) \/ Drain(s)
               \/ DrainWoken(s) \/ Unsubscribe(s) \/ RunDone(s)
        PROVE  References'
    <2>1. UNCHANGED <<listed, refs, page, valid>>
      BY <1>8 DEF Wait, Receive, RunReturns, Drain, DrainWoken, Unsubscribe, RunDone
    <2> QED BY <1>6, <2>1
  <1>9. CASE \/ Begin \/ End \/ Check \/ CallbackMore \/ BoardBegin \/ BoardEnd
             \/ UNCHANGED vars
    <2>1. UNCHANGED <<listed, refs, page, valid>>
      BY <1>9 DEF Begin, End, Check, CallbackMore, BoardBegin, BoardEnd, vars
    <2> QED BY <1>6, <2>1
  <1> QED BY <1>1, <1>2, <1>3, <1>4, <1>5, <1>7, <1>8, <1>9, NextSteps

-----------------------------------------------------------------------------
\* The snapshot of the UI thread.

\* Nobody is inside a service without a command.
LEMMA NoCommandNoCallers ==
  ASSUME TypeOK, Commands, NEW s \in Services \ HasCommand
  PROVE  callers[s] = 0
  <1>1. Inside(s) = {} BY DefinitionAssumption DEF Commands, Inside
  <1> QED BY <1>1, FS_EmptySet DEF Commands

\* A service the UI thread finds cancelled but not stopped has lost its card.
LEMMA CancelledIsOnCard ==
  ASSUME IInv, ui = "check", ~uStopping, epd_service_cancelled(current),
         uDone, CommandsHaveWorkers
  PROVE  callers[current] = 0
  <1>1. /\ current \in Services /\ current \in listed /\ current \notin HasRun
    BY DEF IInv, TypeOK, Snapshot, Visiting
  <1>2. CASE current \in OnCard
    <2>1. current \notin HasCommand BY <1>1, <1>2 DEF CommandsHaveWorkers
    <2> QED BY <1>1, <2>1, NoCommandNoCallers DEF IInv
  <1>3. CASE current \notin OnCard
    BY <1>1, <1>3 DEF epd_service_cancelled, IInv, References, Snapshot, Visiting
  <1> QED BY <1>2, <1>3

\* Every step keeps what the UI thread knows of the service it visits from going stale.
LEMMA SnapshotStep ==
  ASSUME CommandsHaveWorkers
  PROVE  IInv /\ [Next]_vars => Snapshot'
  <1> SUFFICES ASSUME IInv, [Next]_vars PROVE Snapshot'
    OBVIOUS
  <1> USE DEF AsIs, UiFree, OnlyUi, Elsewhere, Outside, serviceVars, moduleVars,
              workerVars, visitVars, boardVars
  <1>0. TypeOK /\ Snapshot BY DEF IInv
  <1>1. ASSUME NEW s \in Services, \/ OpenPage(s) \/ StartService(s) \/ ClosePage(s)
                                   \/ StopService(s)
        PROVE  Snapshot'
    BY <1>1 DEF OpenPage, StartService, ClosePage, StopService, Snapshot, Visiting
  <1>2. ASSUME NEW s \in Services,
               \/ \E text \in Texts : epd_service_publish_summary(s, text)
               \/ \E event \in Events : Notify(s, event)
               \/ Wait(s) \/ Receive(s) \/ RunReturns(s) \/ Drain(s)
               \/ DrainWoken(s) \/ Unsubscribe(s) \/ RunDone(s)
        PROVE  Snapshot'
    <2>1. /\ UNCHANGED <<listed, ui_done, callers, ui, todo, current, uStopping,
                         uCallers, uDone>>
          /\ stopping \subseteq stopping' /\ worker_done \subseteq worker_done'
          /\ stopping' \ HasRun = stopping \ HasRun
      BY <1>0, <1>2 DEF epd_service_publish_summary, Notify, Wait, Receive, RunReturns,
                  Drain, DrainWoken, Unsubscribe, RunDone, WorkerGoto,
                  IInv, Stages
    <2> QED BY <1>0, <2>1 DEF Snapshot, Visiting
  <1>3. ASSUME NEW s \in Services, NEW c \in Shells, EnterCommand(c, s)
        PROVE  Snapshot'
    <2>1. UNCHANGED <<listed, stopping, worker_done, ui_done, ui, todo, current,
                      uStopping, uCallers, uDone>>
      BY <1>3 DEF EnterCommand
    <2>2. s \notin stopping BY <1>3 DEF EnterCommand, epd_service_cancelled
    <2>3. \A t \in Services \ {s} : callers'[t] = callers[t]
      BY <1>0, <1>3 DEF EnterCommand, Put, TypeOK
    <2> QED BY <1>0, <2>1, <2>2, <2>3 DEF Snapshot, Visiting, TypeOK
  <1>4. ASSUME NEW s \in Services, NEW c \in Shells, LeaveCommand(c, s)
        PROVE  Snapshot'
    <2>1. UNCHANGED <<listed, stopping, worker_done, ui_done, ui, todo, current,
                      uStopping, uCallers, uDone>>
      BY <1>4 DEF LeaveCommand
    <2>2. callers[s] # 0 BY <1>4, NobodyInside DEF LeaveCommand, IInv
    <2>3. \A t \in Services \ {s} : callers'[t] = callers[t]
      BY <1>0, <1>4 DEF LeaveCommand, Put, TypeOK
    <2> QED BY <1>0, <2>1, <2>2, <2>3 DEF Snapshot, Visiting, TypeOK
  <1>5. CASE Begin BY <1>0, <1>5 DEF Begin, Snapshot, Visiting
  <1>6. ASSUME NEW s \in Services, Visit(s) PROVE Snapshot'
    <2>1. /\ s \in listed /\ s \notin todo' /\ todo' \subseteq listed
          /\ current' = s /\ ui' = "check" /\ uCallers' = callers[s]
          /\ UNCHANGED <<listed, stopping, worker_done, ui_done, callers>>
      BY <1>0, <1>6 DEF Visit, Snapshot
    <2>2. (uStopping' <=> s \in stopping) /\ (uDone' <=> s \in worker_done)
      BY <1>6, Zenon DEF Visit
    <2>3. /\ s \in worker_done /\ s \in HasRun => s \in stopping
          /\ s \in ui_done \cap HasUi => s \in stopping
      BY DEF IInv, Stages
    <2> QED BY <2>1, <2>2, <2>3 DEF Snapshot, Visiting
  <1>7. CASE End BY <1>0, <1>7 DEF End, Snapshot, Visiting
  <1>8. CASE Check
    <2>1. /\ UNCHANGED <<listed, worker_done, ui_done, callers, todo, current,
                         uCallers, uDone>>
          /\ ui = "check" /\ stopping \subseteq stopping'
      BY <1>8 DEF Check, app_service_stop
    <2>2. ui' \in {"next", "callback", "finish"} BY <1>8 DEF Check
    <2>3. ui' = "callback" => MayCall(uStopping') BY <1>8, Zenon DEF Check
    <2>4. ui' = "callback" => (uStopping' => uDone /\ uCallers = 0)
      BY <2>3 DEF MayCall
    <2>5. CASE ~uStopping /\ epd_service_cancelled(current)
      <3>1. uStopping' /\ current \in stopping'
        BY <1>8, <2>5, Zenon DEF Check, app_service_stop
      <3>2. uDone /\ uCallers = 0 => callers[current] = 0
        BY <2>1, <2>5, CancelledIsOnCard
      <3> QED BY <1>0, <2>1, <2>2, <2>4, <3>1, <3>2 DEF Snapshot, Visiting
    <2>6. CASE ~(~uStopping /\ epd_service_cancelled(current))
      <3>1. UNCHANGED <<uStopping, stopping>> BY <1>8, <2>6, Zenon DEF Check
      <3> QED BY <1>0, <2>1, <2>2, <2>4, <3>1 DEF Snapshot, Visiting
    <2> QED BY <2>5, <2>6
  <1>9. CASE CallbackMore BY <1>0, <1>9 DEF CallbackMore, Snapshot, Visiting
  <1>10. ASSUME NEW s \in Services, CallbackDone(s) PROVE Snapshot'
    BY <1>0, <1>10 DEF CallbackDone, Snapshot, Visiting
  <1>11. CASE Finish
    <2>1. ui' = "next" /\ todo' = todo /\ listed \ {current} \subseteq listed'
      BY <1>11 DEF Finish
    <2>2. ui = "finish" BY <1>11 DEF Finish
    <2> QED BY <1>0, <2>1, <2>2 DEF Snapshot, Visiting
  <1>12. CASE CardGone BY <1>0, <1>12 DEF CardGone, Snapshot, Visiting
  <1>13. CASE BoardBegin \/ BoardEnd
    BY <1>13 DEF BoardBegin, BoardEnd, Snapshot, Visiting
  <1>14. ASSUME NEW s \in Services, BoardRead(s) PROVE Snapshot'
    BY <1>14 DEF BoardRead, Snapshot, Visiting
  <1>15. CASE UNCHANGED vars BY <1>0, <1>15 DEF vars, Snapshot, Visiting
  <1> QED BY <1>1, <1>2, <1>3, <1>4, <1>5, <1>6, <1>7, <1>8, <1>9, <1>10, <1>11,
             <1>12, <1>13, <1>14, <1>15, NextSteps

-----------------------------------------------------------------------------
\* The board.

\* A step that leaves the summaries alone, or counts the revision up.
LEMMA BoardKept ==
  ASSUME IInv, UNCHANGED <<boardVars, ui, todo>>, revision' \in Nat,
         \/ revision' > revision
         \/ revision' = revision /\ \A s \in Services : Visible(s)' = Visible(s)
  PROVE  Board'
  BY DEF IInv, TypeOK, Board, boardVars

\* Every step keeps the board at the summaries of its revision, or that revision in the past.
LEMMA BoardStep == IInv /\ [Next]_vars => Board'
  <1> SUFFICES ASSUME IInv, [Next]_vars PROVE Board'
    OBVIOUS
  <1> USE DEF AsIs, UiFree, OnlyUi, Elsewhere, Outside, serviceVars, moduleVars,
              workerVars, visitVars, boardVars
  <1>0. TypeOK /\ Board /\ revision' \in Nat BY TypeStep DEF IInv, TypeOK
  <1>1. ASSUME NEW s \in Services,
               \/ OpenPage(s) \/ StartService(s) \/ ClosePage(s) \/ StopService(s)
               \/ \E text \in Texts : epd_service_publish_summary(s, text)
        PROVE  Board'
    <2>1. UNCHANGED <<boardVars, ui, todo>>
      BY <1>1 DEF OpenPage, StartService, ClosePage, StopService,
                  epd_service_publish_summary
    <2>2. \/ revision' = revision + 1
          \/ revision' = revision /\ UNCHANGED <<listed, summary, stopping>>
          \/ revision' = revision /\ UNCHANGED <<listed, summary>>
                /\ s \in stopping /\ stopping' = stopping \cup {s}
      BY <1>1 DEF OpenPage, StartService, ClosePage, StopService,
                  epd_service_publish_summary, app_service_start, app_service_stop
    <2> QED BY <1>0, <2>1, <2>2, BoardKept DEF Visible, TypeOK
  <1>2. ASSUME NEW s \in Services,
               \/ Wait(s) \/ Receive(s) \/ RunReturns(s) \/ Drain(s)
               \/ DrainWoken(s) \/ Unsubscribe(s) \/ RunDone(s)
        PROVE  Board'
    <2>1. UNCHANGED <<boardVars, ui, todo, listed, summary>>
      BY <1>2 DEF Wait, Receive, RunReturns, Drain, DrainWoken, Unsubscribe, RunDone
    <2>2. \/ revision' = revision + 1
          \/ revision' = revision /\ UNCHANGED stopping
          \/ revision' = revision /\ s \in stopping /\ stopping' = stopping \cup {s}
      BY <1>2 DEF Wait, Receive, RunReturns, Drain, DrainWoken, Unsubscribe, RunDone
    <2> QED BY <1>0, <2>1, <2>2, BoardKept DEF Visible, TypeOK
  <1>3. ASSUME NEW s \in Services,
               \/ \E event \in Events : Notify(s, event)
               \/ \E c \in Shells : EnterCommand(c, s) \/ LeaveCommand(c, s)
        PROVE  Board'
    <2>1. UNCHANGED <<boardVars, ui, todo, listed, summary, stopping, revision>>
      BY <1>3 DEF Notify, EnterCommand, LeaveCommand
    <2> QED BY <1>0, <2>1, BoardKept DEF Visible
  <1>4. ASSUME NEW s \in Services, Visit(s) \/ CallbackDone(s) PROVE Board'
    <2>1. /\ UNCHANGED <<boardVars, listed, summary, revision>>
          /\ ui # "board" /\ ui' # "board"
      BY <1>4 DEF Visit, CallbackDone
    <2>2. stopping' = stopping
      <3>1. CASE Visit(s) BY <3>1 DEF Visit
      <3>2. CASE CallbackDone(s)
        BY <3>2 DEF CallbackDone, IInv, Snapshot, Visiting
      <3> QED BY <1>4, <3>1, <3>2
    <2> QED BY <1>0, <2>1, <2>2 DEF Board, Visible
  <1>5. CASE Begin \/ End \/ CallbackMore \/ CardGone \/ UNCHANGED vars
    BY <1>0, <1>5 DEF Begin, End, CallbackMore, CardGone, vars, Board, Visible
  <1>6. CASE Check
    <2>1. /\ UNCHANGED <<boardVars, listed, summary>>
          /\ ui # "board" /\ ui' # "board"
      BY <1>6 DEF Check
    <2>2. \/ UNCHANGED <<revision, stopping>>
          \/ stopping' = stopping \cup {current}
             /\ revision' = IF current \in stopping THEN revision ELSE revision + 1
      BY <1>6 DEF Check, app_service_stop
    <2> QED BY <1>0, <2>1, <2>2 DEF Board, Visible, TypeOK
  <1>7. CASE Finish
    <2>1. /\ UNCHANGED <<boardVars, summary, stopping>>
          /\ ui # "board" /\ ui' # "board"
          /\ revision' = revision + 1 \/ UNCHANGED <<revision, listed>>
      BY <1>7 DEF Finish
    <2> QED BY <1>0, <2>1 DEF Board, Visible, TypeOK
  <1>8. CASE BoardBegin BY <1>0, <1>8 DEF BoardBegin, Board, TypeOK
  <1>9. ASSUME NEW s \in Services, BoardRead(s) PROVE Board'
    <2>1. /\ UNCHANGED <<listed, stopping, summary, revision, seen, reading, ui>>
          /\ ui = "board" /\ todo' = todo \ {s}
      BY <1>9 DEF BoardRead
    <2>2. shown'[s] = Visible(s) /\ \A t \in Services \ {s} : shown'[t] = shown[t]
      BY <1>0, <1>9 DEF BoardRead, Put, TypeOK
    <2>3. \A t \in Services : Visible(t)' = Visible(t) BY <2>1 DEF Visible
    <2> QED BY <1>0, <2>1, <2>2, <2>3 DEF Board
  <1>10. CASE BoardEnd BY <1>0, <1>10 DEF BoardEnd, Board, Visible, TypeOK
  <1> QED BY <1>1, <1>2, <1>3, <1>4, <1>5, <1>6, <1>7, <1>8, <1>9, <1>10, NextSteps

-----------------------------------------------------------------------------
\* The invariant, and what follows from it.

\* The invariant holds throughout, of commands that have workers.
LEMMA Inductive ==
  ASSUME CommandsHaveWorkers
  PROVE  Spec => []IInv
  <1>1. IInv /\ [Next]_vars => IInv'
    BY TypeStep, StagesStep, CommandsStep, ReferencesStep, SnapshotStep, BoardStep
       DEF IInv
  <1> QED BY <1>1, InvInit, PTL DEF Spec

\* Nothing touches a service once app_service_process has freed it: neither its
\* worker, nor a command in flight, nor the network that notifies it, nor the
\* UI step; and every variable of app_service.c keeps its type.
THEOREM FreedIsUntouched ==
  ASSUME CommandsHaveWorkers
  PROVE  Spec => []NoUseAfterFree
  <1>1. IInv => NoUseAfterFree
    BY DefinitionAssumption
       DEF IInv, Stages, Commands, Snapshot, Visiting, NoUseAfterFree
  <1> QED BY <1>1, Inductive, PTL

\* The code of a module stays loaded while the worker, a command or the UI step
\* is inside it, whatever happens to its page and its card.
THEOREM LoadedWhileInside ==
  ASSUME CommandsHaveWorkers
  PROVE  Spec => []CodeStaysLoaded
  <1>1. IInv => CodeStaysLoaded
    <2> SUFFICES ASSUME IInv PROVE CodeStaysLoaded
      OBVIOUS
    <2>1. \A s \in Modules \cap listed : refs[s] > 0
      BY DefinitionAssumption DEF IInv, References, One
    <2> QED BY <2>1, DefinitionAssumption
            DEF IInv, Stages, Commands, Snapshot, Visiting, CodeStaysLoaded
  <1> QED BY <1>1, Inductive, PTL

\* The UI step of a stopped service is called only after its worker and all its
\* commands are out: "UI cleanup cannot race a worker or a command still in
\* module code" (app_service.c:301), for services whose commands have a worker.
THEOREM CleanupIsAlone ==
  ASSUME CommandsHaveWorkers
  PROVE  Spec => []UiCleanupAlone
  <1>1. IInv => UiCleanupAlone
    <2> SUFFICES ASSUME IInv, ui = "callback", uStopping
                 PROVE  /\ worker[current] \in {"none", "done"}
                        /\ \A c \in Shells : shell[c] # current
      BY DEF UiCleanupAlone
    <2>1. /\ current \in Services /\ uDone /\ current \in worker_done
          /\ callers[current] = 0
      BY DEF IInv, TypeOK, Snapshot, Visiting
    <2> QED BY <2>1, NobodyInside DEF IInv, Stages
  <1> QED BY <1>1, Inductive, PTL

\* A board page that shows the current revision shows the current summaries.
THEOREM BoardIsCurrent ==
  ASSUME CommandsHaveWorkers
  PROVE  Spec => []SummaryIsCurrent
  <1>1. IInv => SummaryIsCurrent BY DEF IInv, Board, SummaryIsCurrent
  <1> QED BY <1>1, Inductive, PTL
=============================================================================
