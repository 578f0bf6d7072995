------------------------------ MODULE Platform ------------------------------
(***************************************************************************)
(* The platform as a user of the card: the pass of the UI thread           *)
(* (src/ui/ui_app.c), with the launcher that answers the release requests  *)
(* of the card (src/ui/launcher.c), the prompt that enables the            *)
(* applications of a card (app_card.c), the catalogue that loads           *)
(* applications and starts their services (app_catalog.c, app_module.c)    *)
(* and the installer's part on the UI thread (app_installer.c).  They run  *)
(* against the recovery and job threads of the installer, the threads of   *)
(* the services, and the card, which is known by the lease it promises.    *)
(*                                                                         *)
(* One action is one stretch of the UI thread between two looks at what    *)
(* the other threads change.                                               *)
(*                                                                         *)
(* Abstracted: the file operations of a job and of a recovery, which       *)
(* succeed or fail (AppInstaller), the calls into a service (AppService),  *)
(* the ELF loader (what passed the checks loads), the refresh of the       *)
(* display, which is always over at last.  A job updates an application    *)
(* or fails to remove one: every application stays installed.              *)
(***************************************************************************)
EXTENDS Naturals, FiniteSets

CONSTANTS Apps,        \* the dynamic applications
          NoApp,
          OnCard,      \* those installed on the card, the others on flash
          Background,  \* those with a background service
          MaxId,       \* bound: session and request numbers
          MaxCards,    \* bound: cards mounted
          MaxJobs      \* bound: jobs started

ASSUME PlatformAssumption ==
  /\ NoApp \notin Apps /\ OnCard \subseteq Apps /\ Background \subseteq Apps
  /\ MaxCards \in Nat /\ MaxJobs \in Nat /\ MaxId \in Nat /\ 2 * MaxCards <= MaxId

VARIABLES
  \* the card by its lease, see CardLease
  granted, token, mounted, request, answered, last,
  state,            \* of the card: "steady" unless it is being released
  overdue,          \* the answer is late
  cards,            \* cards mounted so far
  changed,          \* storage_revision differs from the one observed
  stale,            \* background_revision differs from app_catalog_revision
  \* the prompt, the session it is about and the session enabled
  modal, prompt_session, apps_session,
  \* the installer: volumes recovered, the recovery thread and its session
  ready, recovery_session, recovery_pending, recovery, recovering,
  migrated,         \* history: the session whose data was last prepared
  \* the job: control point of its thread and what it shares with the UI
  job, job_id, job_session, needs_prepare, exit_sent, prepare_ok, jobs,
  \* applications: with a page, the state of each service, session of the code
  pages, service, session,
  \* the UI thread: control point, request answered, locals of a load
  ui, releasing, acknowledged, target, page, seen, todo

leaseVars  == <<granted, token, mounted, request, answered, last>>
cardVars   == <<leaseVars, state, overdue, cards>>
promptVars == <<modal, prompt_session, apps_session>>
threadVars == <<recovery, recovering, migrated>>
readyVars  == <<ready, recovery_session>>
jobVars    == <<job, job_id, job_session, needs_prepare, exit_sent, prepare_ok, jobs>>
appVars    == <<pages, service, session>>
loadVars   == <<target, page, seen, todo>>
uiVars     == <<ui, releasing, acknowledged, loadVars>>

vars == <<cardVars, changed, stale, promptVars, readyVars, recovery_pending,
          threadVars, jobVars, appVars, uiVars>>

Id == 0 .. MaxId
Volumes == {"flash", "sd"}

TypeOK ==
  /\ granted \in BOOLEAN /\ token \in Id /\ mounted \in BOOLEAN
  /\ request \in Id /\ answered \in BOOLEAN /\ last \in Id
  /\ state \in {"steady", "draining", "unmounting", "fault"}
  /\ overdue \in BOOLEAN /\ cards \in 0 .. MaxCards
  /\ changed \in BOOLEAN /\ stale \in BOOLEAN
  /\ modal \in {"none", "asked", "loading"}
  /\ prompt_session \in Id /\ apps_session \in Id
  /\ ready \subseteq Volumes /\ recovery_session \in Id
  /\ recovery_pending \in BOOLEAN
  /\ recovery \in {"off", "start", "recover", "prepare", "migrate", "valid",
                   "set", "done"}
  /\ recovering \in Id /\ migrated \in Id
  /\ job \in {"off", "wait", "run", "finish"} /\ job_id \in Apps \cup {NoApp}
  /\ job_session \in Id /\ needs_prepare \in BOOLEAN /\ exit_sent \in BOOLEAN
  /\ prepare_ok \in BOOLEAN /\ jobs \in 0 .. MaxJobs
  /\ pages \subseteq Apps
  /\ service \in [Apps -> {"none", "running", "stopping", "done"}]
  /\ session \in [Apps -> Id]
  /\ ui \in {"card", "storage", "installer", "stop", "exit", "input",
             "services", "jobs", "catalog", "next", "open", "read", "load", "start"}
  /\ releasing \in Id /\ acknowledged \in BOOLEAN
  /\ target \in Apps \cup {NoApp} /\ page \in BOOLEAN /\ seen \in Id
  /\ todo \subseteq Background

-----------------------------------------------------------------------------
\* What the card's snapshot tells (storage.c).

Volume(a) == IF a \in OnCard THEN "sd" ELSE "flash"

storage_session_valid(volume, s) == volume = "flash" \/ (granted /\ s = token)

storage_apps_enabled(volume) == volume = "flash" \/ (granted /\ apps_session = token)

storage_release_requested == state = "draining"

storage_release_timed_out == state = "draining" /\ overdue

\* A drain that takes too long no longer holds up the rest of the platform.
storage_changing == state = "unmounting" \/ (state = "draining" /\ ~overdue)

-----------------------------------------------------------------------------
\* The installer as the UI thread sees it.

app_installer_busy == job # "off" \/ recovery # "off"

app_installer_volume_ready(volume) ==
  /\ volume \in ready
  /\ volume = "sd" => granted /\ recovery_session = token

app_installer_blocks(a) ==
  \/ storage_release_requested \/ storage_changing
  \/ ~app_installer_volume_ready(Volume(a)) \/ ~storage_apps_enabled(Volume(a))
  \/ job # "off" /\ job_id = a

\* Nobody holds the storage lock.
LockFree == recovery \in {"off", "start"} /\ job # "run"

\* The code of an application is in memory: a page or a service holds it, or
\* the load under way has got that far.
Loaded(a) ==
  \/ a \in pages \/ service[a] # "none"
  \/ ui \in {"load", "start"} /\ target = a

\* What is no longer loaded has no session; one loaded now has the session s.
Sessions(a, s) ==
  session' = [b \in Apps |-> IF ~Loaded(b)' THEN 0
                             ELSE IF b = a THEN s ELSE session[b]]
Forget == Sessions(NoApp, 0)

Goto(from, to) == ui = from /\ ui' = to

\* epd_service_cancelled: told to stop, or loaded from a card that is gone.
epd_service_cancelled(a) ==
  service[a] = "stopping" \/ ~storage_session_valid(Volume(a), session[a])

Stopped(a) == IF service[a] = "running" THEN "stopping" ELSE service[a]

Elsewhere == UNCHANGED <<cardVars, threadVars>>
Locals == UNCHANGED <<releasing, acknowledged, loadVars>>

-----------------------------------------------------------------------------
\* The card.  Its lease says what it may do; the platform sees every step as a
\* change of the revision.

Lease == INSTANCE CardLease

Card == UNCHANGED <<stale, promptVars, readyVars, recovery_pending, threadVars,
                    jobVars, appVars, uiVars>>
Seen == changed' = TRUE /\ Card

MountCard ==
  /\ state = "steady" /\ cards < MaxCards /\ cards' = cards + 1
  /\ Lease!Mount
  /\ Seen /\ UNCHANGED <<state, overdue>>

PublishCard ==
  /\ state = "steady" /\ token < MaxId - 1 /\ Lease!Grant
  /\ Seen /\ UNCHANGED <<state, overdue, cards>>

\* The card leaves the slot, or loses contact.
LoseCard ==
  /\ Lease!Revoke
  /\ Seen /\ UNCHANGED <<state, overdue, cards>>

\* Also for a card that was probed and never mounted.
AskForRelease ==
  /\ state = "steady" /\ last < MaxId /\ Lease!Ask
  /\ state' = "draining" /\ overdue' = FALSE
  /\ Seen /\ UNCHANGED cards

\* 35 s without an answer: it is reported, and the wait goes on.
ReleaseOverdue ==
  /\ state = "draining" /\ ~answered /\ ~overdue
  /\ overdue' = TRUE
  /\ Seen /\ UNCHANGED <<leaseVars, state, cards>>

TakeAnswer ==
  /\ state = "draining" /\ answered
  /\ state' = "unmounting" /\ overdue' = FALSE
  /\ Seen /\ UNCHANGED <<leaseVars, cards>>

UnmountCard ==
  /\ state = "unmounting" /\ LockFree /\ Lease!Unmount
  /\ Seen /\ UNCHANGED <<state, overdue, cards>>

FinishRelease ==
  /\ state = "unmounting" /\ Lease!Finish
  /\ state' = "steady"
  /\ Seen /\ UNCHANGED <<overdue, cards>>

\* Open files, or a failed unmount or removal: the card is out of use for good.
FailRelease ==
  /\ state = "unmounting"
  /\ state' = "fault"
  /\ Seen /\ UNCHANGED <<leaseVars, overdue, cards>>

CardStep ==
  \/ MountCard \/ PublishCard \/ LoseCard \/ AskForRelease \/ ReleaseOverdue
  \/ TakeAnswer \/ UnmountCard \/ FinishRelease \/ FailRelease

-----------------------------------------------------------------------------
\* recover_card, on a thread of its own.

Recovery(from, to) == recovery = from /\ recovery' = to
Beside == UNCHANGED <<cardVars, changed, promptVars, recovery_pending, jobVars,
                      appVars, uiVars>>

\* Under the storage lock, and for the session of this moment.
RecoverBegin ==
  /\ Recovery("start", "recover") /\ LockFree
  /\ recovering' = token
  /\ Beside /\ UNCHANGED <<stale, readyVars, migrated>>

\* volume_ready_set
SetReady ==
  /\ Recovery("set", "done")
  /\ ready' = ready \cup {"sd"} /\ recovery_session' = token
  /\ Beside /\ UNCHANGED <<stale, recovering, migrated>>

SetNotReady(from) ==
  /\ Recovery(from, "done")
  /\ ready' = ready \ {"sd"} /\ UNCHANGED recovery_session
  /\ Beside /\ UNCHANGED <<stale, recovering, migrated>>

\* recover_locked
RecoverJournal ==
  \/ /\ granted /\ Recovery("recover", "prepare")
     /\ Beside /\ UNCHANGED <<stale, readyVars, recovering, migrated>>
  \/ SetNotReady("recover")

\* prepare_data has nothing to do for a card whose applications are not enabled.
PrepareData ==
  /\ Recovery("prepare", IF storage_apps_enabled("sd") THEN "migrate" ELSE "valid")
  /\ Beside /\ UNCHANGED <<stale, readyVars, recovering, migrated>>

MigrateData ==
  \/ /\ granted /\ Recovery("migrate", "valid")
     /\ migrated' = recovering
     /\ Beside /\ UNCHANGED <<stale, readyVars, recovering>>
  \/ SetNotReady("migrate")

StillValid ==
  \/ /\ storage_session_valid("sd", recovering) /\ Recovery("valid", "set")
     /\ Beside /\ UNCHANGED <<stale, readyVars, recovering, migrated>>
  \/ ~storage_session_valid("sd", recovering) /\ SetNotReady("valid")

RecoverEnd ==
  /\ Recovery("done", "off")
  /\ recovering' = 0 /\ stale' = TRUE
  /\ Beside /\ UNCHANGED <<readyVars, migrated>>

recover_card ==
  \/ RecoverBegin \/ RecoverJournal \/ PrepareData \/ MigrateData \/ StillValid
  \/ SetReady \/ RecoverEnd

-----------------------------------------------------------------------------
\* worker, the thread of a job.

Job(from, to) == job = from /\ job' = to
JobRest == UNCHANGED <<cardVars, changed, promptVars, recovery_pending, threadVars,
                       appVars, uiVars, needs_prepare, exit_sent, jobs>>

\* The UI has let go of the application, or given up; the card may have gone.
JobPrepared ==
  /\ ~needs_prepare
  /\ \/ prepare_ok /\ LockFree /\ storage_session_valid(Volume(job_id), job_session)
        /\ Job("wait", "run")
     \/ prepare_ok /\ ~storage_session_valid(Volume(job_id), job_session)
        /\ Job("wait", "finish")
     \/ ~prepare_ok /\ Job("wait", "finish")
  /\ JobRest /\ UNCHANGED <<stale, readyVars, job_id, job_session, prepare_ok>>

\* Under the storage lock: the transaction, which may leave its volume recovered
\* or not; volume_ready_set takes the session of that moment.
JobTransaction ==
  /\ Job("run", "finish")
  /\ \/ /\ ready' = ready \cup {Volume(job_id)}
        /\ Volume(job_id) = "sd" => granted
        /\ recovery_session' = IF Volume(job_id) = "sd" THEN token ELSE recovery_session
     \/ ready' = ready \ {Volume(job_id)} /\ UNCHANGED recovery_session
  /\ JobRest /\ UNCHANGED <<stale, job_id, job_session, prepare_ok>>

\* (seeded fault) the catalogue is not told of a job that failed
JobEndSilently ==
  /\ Job("finish", "off")
  /\ job_id' = NoApp /\ job_session' = 0 /\ prepare_ok' = FALSE
  /\ JobRest /\ UNCHANGED <<stale, readyVars>>

\* The catalogue is told before the result, also of a job that failed.
JobEnd ==
  /\ Job("finish", "off")
  /\ job_id' = NoApp /\ job_session' = 0 /\ prepare_ok' = FALSE
  /\ stale' = TRUE
  /\ JobRest /\ UNCHANGED readyVars

worker == JobPrepared \/ JobTransaction \/ JobEnd

\* The thread of a service that was told to stop, or whose card is gone, ends.
ServiceEnds(a) ==
  /\ service[a] \in {"running", "stopping"} /\ epd_service_cancelled(a)
  /\ service' = [service EXCEPT ![a] = "done"]
  /\ UNCHANGED <<cardVars, changed, stale, promptVars, readyVars, recovery_pending,
                 threadVars, jobVars, pages, session, uiVars>>

-----------------------------------------------------------------------------
\* app_card_process, at the start of a pass: the prompt for a card with
\* applications, and the end of loading.

Modal == IF storage_session_valid("sd", prompt_session) THEN modal ELSE "none"

Dismiss == modal' = "none" /\ prompt_session' = 0

MayPrompt ==
  /\ Modal = "none" /\ granted /\ ~storage_changing /\ ~app_installer_busy
  /\ ~(storage_apps_enabled("sd") /\ app_installer_volume_ready("sd"))

app_card_process ==
  /\ Goto("card", "storage")
  /\ \/ Modal = "none" /\ Dismiss /\ UNCHANGED stale
     \/ MayPrompt /\ modal' = "asked" /\ prompt_session' = token /\ UNCHANGED stale
     \/ /\ Modal = "asked" \/ (Modal = "loading" /\ app_installer_busy)
        /\ UNCHANGED <<modal, prompt_session, stale>>
     \/ /\ Modal = "loading" /\ ~app_installer_busy
        /\ IF app_installer_volume_ready("sd")
             THEN Dismiss /\ stale' = TRUE
             ELSE modal' = "asked" /\ UNCHANGED <<prompt_session, stale>>
  /\ Elsewhere /\ Locals
  /\ UNCHANGED <<changed, apps_session, readyVars, recovery_pending, jobVars, appVars>>

-----------------------------------------------------------------------------
\* launcher_storage_process: a request is answered before anything else.

Calm == UNCHANGED <<promptVars, jobVars, appVars, loadVars>> /\ Elsewhere

\* (seeded fault) a job that waits for the UI is not seen to
ReleaseWithoutInstaller ==
  /\ storage_release_requested
  /\ releasing = request => ~acknowledged
  /\ Goto("storage", "stop")
  /\ releasing' = request /\ acknowledged' = FALSE
  /\ stale' = (stale \/ releasing # request)
  /\ Calm /\ UNCHANGED <<changed, readyVars, recovery_pending>>

\* A request that is not answered yet; the first pass that sees it notes it.
ReleaseRequested ==
  /\ storage_release_requested
  /\ releasing = request => ~acknowledged
  /\ Goto("storage", "installer")
  /\ releasing' = request /\ acknowledged' = FALSE
  /\ stale' = (stale \/ releasing # request)
  /\ Calm /\ UNCHANGED <<changed, readyVars, recovery_pending>>

ReleaseAnswered ==
  /\ storage_release_requested /\ releasing = request /\ acknowledged
  /\ Goto("storage", "card")
  /\ Calm /\ UNCHANGED <<changed, stale, readyVars, recovery_pending, releasing, acknowledged>>

ReleaseOver ==
  /\ ~storage_release_requested
  /\ releasing' = 0 /\ acknowledged' = FALSE
  /\ Calm

StillChanging ==
  /\ ReleaseOver /\ storage_changing /\ Goto("storage", "card")
  /\ UNCHANGED <<changed, stale, readyVars, recovery_pending>>

\* app_installer_storage_changed: the card is to be recovered once more before
\* anything of it runs.
storage_changed ==
  /\ ready' = ready \ {"sd"} /\ UNCHANGED recovery_session
  /\ recovery_pending' = granted

StorageNoticed ==
  /\ ReleaseOver /\ ~storage_changing /\ Goto("storage", "input")
  /\ IF changed THEN changed' = FALSE /\ stale' = TRUE /\ storage_changed
                ELSE UNCHANGED <<changed, stale, readyVars, recovery_pending>>

launcher_storage_process ==
  ReleaseRequested \/ ReleaseAnswered \/ StillChanging \/ StorageNoticed

-----------------------------------------------------------------------------
\* app_installer_process.

start_card_recovery ==
  IF recovery_pending /\ ~app_installer_busy /\ ~storage_changing
    THEN /\ recovery_pending' = FALSE
         /\ recovery' = IF granted THEN "start" ELSE recovery
    ELSE UNCHANGED <<recovery_pending, recovery>>

\* The application of a waiting job is sent away once; the job goes on when it
\* is gone, or after 35 s without it.
PrepareJob ==
  /\ needs_prepare /\ exit_sent' = TRUE
  /\ pages' = IF exit_sent THEN pages ELSE pages \ {job_id}
  /\ service' = IF exit_sent THEN service
                ELSE [service EXCEPT ![job_id] = Stopped(job_id)]
  /\ LET alive == job_id \in pages' \/ service'[job_id] # "none" IN
       \/ needs_prepare' = FALSE /\ prepare_ok' = ~alive
       \/ alive /\ UNCHANGED <<needs_prepare, prepare_ok>>

app_installer_process(from, to) ==
  /\ Goto(from, to)
  /\ start_card_recovery
  /\ \/ PrepareJob
     \/ ~needs_prepare
        /\ UNCHANGED <<needs_prepare, exit_sent, prepare_ok, pages, service>>
  /\ UNCHANGED <<cardVars, changed, stale, promptVars, readyVars, recovering,
                 migrated, job, job_id, job_session, jobs>>
  /\ Locals
  /\ Forget

-----------------------------------------------------------------------------
\* app_catalog_release_storage: the job's wait is ended first, then everything
\* loaded is told to go, from flash too.

Apart == UNCHANGED <<cardVars, changed, promptVars, readyVars, recovery_pending,
                     threadVars, jobVars>>

\* A service that ended is freed; one whose card is gone, or that is meant, is
\* told to stop.
app_service_process(from, to, meant) ==
  /\ Goto(from, to)
  /\ service' = [a \in Apps |-> IF service[a] = "done" THEN "none"
                               ELSE IF a \in meant \/ epd_service_cancelled(a)
                                 THEN Stopped(a) ELSE service[a]]
  /\ Apart /\ Locals /\ UNCHANGED <<stale, pages>>
  /\ Forget

\* app_service_stop_modules and app_service_process
StopServices == app_service_process("stop", "exit", Apps)

\* (seeded fault) the installer is not asked
EmptyButForTheInstaller == \A a \in Apps : service[a] = "none"

\* The pages being left, only a service can still hold an application.
Empty == (\A a \in Apps : service[a] = "none") /\ ~app_installer_busy

\* The pages are left; the services come back when the release is over.  With
\* all of it gone the request is answered, otherwise the pass goes on only if
\* the answer is overdue.
ReleaseStorage ==
  /\ ui = "exit"
  /\ pages' = {}
  /\ stale' = TRUE
  /\ IF Empty THEN /\ ui' = "card"
                   /\ IF request = releasing THEN Lease!Answer /\ acknowledged' = TRUE
                                             ELSE UNCHANGED <<leaseVars, acknowledged>>
              ELSE /\ ui' = IF storage_release_timed_out THEN "input" ELSE "card"
                   /\ UNCHANGED <<leaseVars, acknowledged>>
  /\ UNCHANGED <<state, overdue, cards, changed, promptVars, readyVars, recovery_pending,
                 threadVars, jobVars, service, releasing, loadVars>>
  /\ Forget

-----------------------------------------------------------------------------
\* epd_input_process: what the user does, with the prompt in front of the rest.

Input == ui = "input"

NoInput ==
  /\ Goto("input", "services")
  /\ Calm /\ UNCHANGED <<changed, stale, readyVars, recovery_pending, releasing, acknowledged>>

\* "Load" or "Cancel" (answer of app_card.c); a press after the session ended
\* only dismisses the prompt.
AnswerPrompt ==
  /\ modal = "asked" /\ Goto("input", "services")
  /\ \/ /\ storage_session_valid("sd", prompt_session)
        /\ apps_session' = prompt_session
        /\ modal' = "loading" /\ UNCHANGED prompt_session
        /\ ready' = ready \ {"sd"} /\ UNCHANGED recovery_session
        /\ IF ~app_installer_busy /\ ~storage_changing
             THEN recovery' = "start" /\ recovery_pending' = FALSE
             ELSE UNCHANGED recovery /\ recovery_pending' = TRUE
     \/ Dismiss /\ UNCHANGED <<apps_session, readyVars, recovery, recovery_pending>>
  /\ Locals
  /\ UNCHANGED <<cardVars, changed, stale, recovering, migrated, jobVars, appVars>>

OpenPage(a) ==
  /\ modal = "none" /\ a \notin pages
  /\ Goto("input", "open") /\ target' = a /\ page' = TRUE
  /\ Apart /\ UNCHANGED <<stale, appVars, releasing, acknowledged, seen, todo>>

\* A page is left: module_close.
ClosePage(a) ==
  /\ modal = "none" /\ a \in pages
  /\ Goto("input", "services") /\ pages' = pages \ {a}
  /\ Apart /\ Locals /\ UNCHANGED <<stale, service>>
  /\ Forget

app_installer_start(a) ==
  /\ modal = "none" /\ Goto("input", "services")
  /\ jobs < MaxJobs /\ jobs' = jobs + 1
  /\ ~app_installer_busy /\ app_installer_volume_ready(Volume(a))
  /\ ~storage_release_requested /\ ~storage_changing
  /\ job' = "wait" /\ job_id' = a /\ job_session' = token
  /\ needs_prepare' = TRUE /\ exit_sent' = FALSE /\ prepare_ok' = FALSE
  /\ Elsewhere /\ Locals
  /\ UNCHANGED <<changed, stale, promptVars, readyVars, recovery_pending, appVars>>

epd_input_process ==
  \/ NoInput \/ AnswerPrompt
  \/ \E a \in Apps : OpenPage(a) \/ ClosePage(a) \/ app_installer_start(a)

-----------------------------------------------------------------------------
\* app_catalog_process: the background services that should run are started.

app_service_stopping == \E a \in Apps : service[a] \in {"stopping", "done"}

app_catalog_process ==
  /\ ui = "catalog"
  /\ IF storage_changing \/ app_installer_busy \/ app_service_stopping \/ ~stale
       THEN ui' = "card" /\ UNCHANGED <<stale, todo>>
       ELSE /\ ui' = "next" /\ stale' = FALSE
            /\ todo' = {a \in Background : /\ app_installer_volume_ready(Volume(a))
                                           /\ storage_apps_enabled(Volume(a))}
  /\ Apart /\ UNCHANGED <<appVars, releasing, acknowledged, target, page, seen>>

StartNext ==
  /\ ui = "next"
  /\ \/ todo = {} /\ ui' = "card" /\ UNCHANGED <<target, todo>>
     \/ \E a \in todo :
          /\ todo' = todo \ {a}
          /\ IF service[a] # "none" THEN UNCHANGED <<ui, target>>
                                    ELSE ui' = "open" /\ target' = a
  /\ Apart /\ UNCHANGED <<stale, appVars, releasing, acknowledged, page, seen>>

-----------------------------------------------------------------------------
\* module_open and app_module_open.

\* Back to the page's caller, or to the next service.
LoadEnds ==
  /\ ui' = IF page THEN "services" ELSE "next"
  /\ target' = NoApp /\ page' = FALSE /\ seen' = 0
  /\ UNCHANGED <<releasing, acknowledged, todo>>

OpenModule ==
  /\ ui = "open"
  /\ IF app_installer_blocks(target)
       THEN LoadEnds
       ELSE ui' = "read" /\ UNCHANGED <<releasing, acknowledged, loadVars>>
  /\ Apart /\ UNCHANGED <<stale, appVars>>

\* The package is read under the storage lock; code already in memory is used
\* again only while its session lasts.
ReadModule ==
  /\ ui = "read" /\ LockFree
  /\ Apart /\ UNCHANGED <<stale, pages, service>>
  /\ IF /\ storage_apps_enabled(Volume(target))
        /\ Loaded(target) => storage_session_valid(Volume(target), session[target])
       THEN /\ ui' = "load" /\ seen' = token
            /\ UNCHANGED <<releasing, acknowledged, target, page, todo>>
            /\ Sessions(target, IF Volume(target) = "sd" THEN token ELSE 0)
       ELSE LoadEnds /\ UNCHANGED session

\* "Removal may race a successful final read."
LoadModule ==
  /\ ui = "load"
  /\ Apart /\ UNCHANGED <<stale, pages, service>>
  /\ IF storage_session_valid(Volume(target), seen)
       THEN ui' = "start" /\ UNCHANGED <<releasing, acknowledged, loadVars, session>>
       ELSE LoadEnds /\ Forget

\* app_service_start, which looks at the session once more; the page, or the
\* service alone, keeps the code.
StartModule ==
  /\ ui = "start" /\ LoadEnds
  /\ LET starts == target \in Background /\ service[target] = "none"
         valid  == storage_session_valid(Volume(target), session[target])
     IN  /\ service' = IF starts /\ valid THEN [service EXCEPT ![target] = "running"]
                                          ELSE service
         /\ pages' = IF page /\ (starts => valid) THEN pages \cup {target} ELSE pages
  /\ Apart /\ UNCHANGED stale
  /\ Forget

module_open == OpenModule \/ ReadModule \/ LoadModule \/ StartModule

-----------------------------------------------------------------------------
\* ui_app_process: the pass.

UiStep ==
  \/ app_card_process \/ launcher_storage_process
  \/ app_installer_process("installer", "stop") \/ StopServices \/ ReleaseStorage
  \/ epd_input_process
  \/ app_service_process("services", "jobs", {})
  \/ app_installer_process("jobs", "catalog")
  \/ app_catalog_process \/ StartNext \/ module_open

Init ==
  /\ Lease!Init /\ state = "steady" /\ overdue = FALSE /\ cards = 0
  /\ changed = TRUE /\ stale = TRUE
  /\ modal = "none" /\ prompt_session = 0 /\ apps_session = 0
  /\ ready = {"flash"} /\ recovery_session = 0 /\ recovery_pending = FALSE
  /\ recovery = "off" /\ recovering = 0 /\ migrated = 0
  /\ job = "off" /\ job_id = NoApp /\ job_session = 0
  /\ needs_prepare = FALSE /\ exit_sent = FALSE /\ prepare_ok = FALSE /\ jobs = 0
  /\ pages = {} /\ service = [a \in Apps |-> "none"] /\ session = [a \in Apps |-> 0]
  /\ ui = "card" /\ releasing = 0 /\ acknowledged = FALSE
  /\ target = NoApp /\ page = FALSE /\ seen = 0 /\ todo = {}

Next ==
  \/ CardStep \/ recover_card \/ worker \/ UiStep
  \/ \E a \in Apps : ServiceEnds(a)

\* Each subscript holds what every step of its action changes.
Fairness ==
  /\ WF_<<ui, todo>>(UiStep) /\ WF_<<recovery, job>>(recover_card \/ worker)
  /\ WF_service(\E a \in Apps : ServiceEnds(a))

Spec == Init /\ [][Next]_vars
FairSpec == Spec /\ Fairness

-----------------------------------------------------------------------------
\* Properties

\* Once a release is answered nothing of the platform is left that could use a
\* volume, and while no card is mounted no code of a card is in memory:
\* whatever was being opened, started, installed or recovered meanwhile.
AnswerMeansEmpty ==
  /\ TypeOK
  /\ state \in {"draining", "unmounting"} /\ answered =>
       /\ \A a \in Apps : ~Loaded(a)
       /\ job # "run" /\ LockFree
  /\ \A a \in OnCard : Loaded(a) => mounted /\ ~(request # 0 /\ answered)

\* "Gate execution again until migration and journal recovery have finished":
\* no code of a card runs before a recovery prepared its data.
GateHolds == \A a \in OnCard : Loaded(a) => session[a] = migrated

\* The card's worker, the thread of a job and the user before the prompt each
\* wait for a pass of the UI thread that waits for others in turn; none of them
\* waits for ever, whatever was loaded or under way when the wait began.
NobodyWaitsForEver ==
  /\ (request # 0) ~> answered
  /\ (job # "off") ~> (job = "off")
  /\ (modal = "loading") ~> (modal # "loading")

\* The services on flash, which go with every release, come back after it, and
\* after every job, if their volume is in order and the prompt is left alone.
ServicesReturn ==
  <>[](state \in {"steady", "fault"} /\ "flash" \in ready /\ modal # "loading") =>
    \A a \in Background \ OnCard : []<>(service[a] = "running")
=============================================================================
