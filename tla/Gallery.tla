------------------------------ MODULE Gallery ------------------------------
(***************************************************************************)
(* The picture application (src/modules/gallery): a worker that lists      *)
(* directories and decodes pictures (gallery_service.c) for the pages of   *)
(* gallery_ui.c.  One request at a time is current, named by its serial;   *)
(* its result is counted, for the worker goes on reading the pixels it has *)
(* published while the page shows them or has thrown them away.            *)
(*                                                                         *)
(* A step is one stretch with interrupts off, or the work between two of   *)
(* them.  What a page does within one callback is the list `todo`, which   *)
(* the worker interleaves with.  A result is named by the serial of its    *)
(* request: no request is taken twice.  What is listed or decoded, and the *)
(* errors a result carries as text, are left out.                          *)
(***************************************************************************)
EXTENDS Naturals, Sequences, FiniteSets

CONSTANT MaxSerial  \* bound: no page begins anything once generation has reached it

VARIABLES generation, requested, pending, completed, failed_serial,
          references, \* one count for each result, 0 for one that is freed or was never made
          service,    \* "off", "on", "lost" (its card session is gone), "stopping", "ended"
          woken,      \* its event: woken or stopped since the worker last waited
          work,       \* the worker: where it is, its job, and a result it displaced
          todo, old,  \* the page's callback: what is still to do, a result it has to free
          page        \* the pages: which is on top, what each has asked for, what is shown

svcVars == <<generation, requested, pending, completed, failed_serial, references>>
vars == <<svcVars, service, woken, work, todo, old, page>>

Serials == 0..(MaxSerial + 3)
NoPage == [top |-> "none", started |-> FALSE, waiting |-> FALSE,
           browser |-> 0, viewer |-> 0, displayed |-> 0]

TypeOK ==
  /\ {generation, requested, completed, failed_serial, old} \subseteq Serials
  /\ references \in [Serials -> 0..2]
  /\ {pending, woken} \subseteq BOOLEAN
  /\ service \in {"off", "on", "lost", "stopping", "ended"}
  /\ work \in [pc : {"none", "loop", "wait", "alloc", "decode", "publish", "displace", "pack", "free",
                     "exit", "exitFree", "return"},
               job : Serials, displaced : Serials, pack : BOOLEAN]

Init ==
  /\ generation = 0 /\ requested = 0 /\ pending = FALSE /\ completed = 0 /\ failed_serial = 0
  /\ references = [s \in Serials |-> 0]
  /\ service = "off" /\ woken = FALSE
  /\ work = [pc |-> "none", job |-> 0, displaced |-> 0, pack |-> FALSE]
  /\ todo = <<>> /\ old = 0 /\ page = NoPage

epd_service_cancelled == service \in {"lost", "stopping"}

\* gallery_result_free; 0 is no result.
Released(s) == IF s = 0 THEN references ELSE [references EXCEPT ![s] = @ - 1]

\* gallery_cancel, up to the release of what it took out.
Cancelled ==
  /\ generation' = generation + 1
  /\ pending' = FALSE
  /\ completed' = 0
  /\ UNCHANGED <<requested, failed_serial>>

----------------------------------------------------------------------------
(* The pages, on the UI thread. *)

UiIdle == todo = <<>> /\ old = 0
MayAsk == UiIdle /\ generation < MaxSerial

CancelRequest(serial) == [do |-> "cancel", serial |-> serial, for |-> "none"]
Cancel == [do |-> "clear", serial |-> 0, for |-> "none"]
Submit(kind) == <<Cancel, [do |-> "post", serial |-> 0, for |-> kind]>>
Release == [do |-> "release", serial |-> 0, for |-> "none"]
Stop == [do |-> "stop", serial |-> 0, for |-> "none"]

NextTodo == todo' = Tail(todo)

gallery_cancel_request ==
  /\ Head(todo).do = "cancel"
  /\ IF Head(todo).serial # 0 /\ Head(todo).serial = generation
     THEN Cancelled /\ old' = completed
     ELSE UNCHANGED <<generation, requested, pending, completed, failed_serial, old>>
  /\ UNCHANGED <<references, service, woken, page>>

gallery_cancel ==
  /\ Head(todo).do = "clear"
  /\ Cancelled
  /\ old' = completed
  /\ UNCHANGED <<references, service, woken, page>>

\* (seeded fault) The worker is not woken.
SubmitUnwoken ==
  /\ Head(todo).do = "post"
  /\ LET ok == service = "on"
         serial == IF ok THEN generation ELSE 0
     IN /\ requested' = IF ok THEN generation ELSE requested
        /\ pending' = (pending \/ ok)
        /\ page' = IF Head(todo).for = "browser"
                   THEN [page EXCEPT !.browser = serial, !.waiting = TRUE]
                   ELSE [page EXCEPT !.viewer = serial, !.waiting = TRUE]
  /\ UNCHANGED <<generation, completed, failed_serial, references, service, woken, old>>

\* The second half of gallery_submit; the page keeps what it returns.
gallery_submit ==
  /\ Head(todo).do = "post"
  /\ LET ok == service = "on"
         serial == IF ok THEN generation ELSE 0
     IN /\ requested' = IF ok THEN generation ELSE requested
        /\ pending' = (pending \/ ok)
        /\ woken' = (woken \/ ok)
        /\ page' = IF Head(todo).for = "browser"
                   THEN [page EXCEPT !.browser = serial, !.waiting = TRUE]
                   ELSE [page EXCEPT !.viewer = serial, !.waiting = TRUE]
  /\ UNCHANGED <<generation, completed, failed_serial, references, service, old>>

\* release_image.
release_image ==
  /\ Head(todo).do = "release"
  /\ old' = page.displayed
  /\ page' = [page EXCEPT !.displayed = 0]
  /\ UNCHANGED <<svcVars, service, woken>>

\* app_service_stop; nothing happens if the service is not there.
gallery_stop ==
  /\ Head(todo).do = "stop"
  /\ service' = IF service \in {"on", "lost"} THEN "stopping" ELSE service
  /\ woken' = TRUE
  /\ UNCHANGED <<svcVars, old, page>>

UiStep ==
  /\ UNCHANGED work
  /\ \/ /\ old # 0
        /\ references' = Released(old) /\ old' = 0
        /\ UNCHANGED <<generation, requested, pending, completed, failed_serial, service, woken, todo, page>>
     \/ /\ old = 0 /\ todo # <<>>
        /\ NextTodo
        /\ \/ gallery_cancel_request \/ gallery_cancel \/ gallery_submit \/ release_image \/ gallery_stop

Begin(steps, newPage) ==
  /\ todo' = steps
  /\ page' = newPage
  /\ UNCHANGED <<svcVars, service, woken, work, old>>

OpenBrowser ==
  /\ UiIdle /\ page.top = "none"
  /\ Begin(<<>>, [NoPage EXCEPT !.top = "browser"])

\* The service starts with the page, or at a later poll if an earlier one still ends.
gallery_start ==
  /\ MayAsk /\ page.top = "browser" /\ ~page.started /\ service = "off"
  /\ service' = "on" /\ woken' = FALSE
  /\ work' = [work EXCEPT !.pc = "loop"]
  /\ page' = [page EXCEPT !.started = TRUE]
  /\ todo' = <<CancelRequest(page.browser)>> \o Submit("browser")
  /\ UNCHANGED <<svcVars, old>>

browser_scan ==
  /\ MayAsk /\ page.top = "browser" /\ page.started
  /\ Begin(<<CancelRequest(page.browser)>> \o Submit("browser"), [page EXCEPT !.browser = 0, !.waiting = FALSE])

\* The page that goes is paused and the page that comes is resumed, in either order.
Turn(from, to, kind) ==
  \E steps \in {<<CancelRequest(from)>> \o Submit(kind), Submit(kind) \o <<CancelRequest(from)>>} :
    Begin(steps, to)

OpenViewer ==
  /\ MayAsk /\ page.top = "browser" /\ page.started
  /\ Turn(page.browser, [page EXCEPT !.top = "viewer", !.waiting = FALSE, !.viewer = 0], "viewer")

LeaveViewer ==
  /\ MayAsk /\ page.top = "viewer"
  /\ \E steps \in {<<CancelRequest(page.viewer), Release>> \o Submit("browser"),
                   Submit("browser") \o <<CancelRequest(page.viewer), Release>>} :
       Begin(steps, [page EXCEPT !.top = "browser", !.waiting = FALSE])

\* The viewer finds its file's storage gone.
LoseStorage ==
  /\ MayAsk /\ page.top = "viewer"
  /\ Begin(<<CancelRequest(page.viewer), Release>>, [page EXCEPT !.waiting = FALSE])

CloseBrowser ==
  /\ MayAsk /\ page.top = "browser"
  /\ Begin(<<CancelRequest(page.browser), Cancel, Stop>>, NoPage)

\* browser_poll and viewer_poll: gallery_take, and gallery_failed when there is nothing.
Mine == IF page.top = "viewer" THEN page.viewer ELSE page.browser

Poll ==
  /\ UiIdle /\ page.waiting
  /\ page.top = "browser" => page.browser # 0
  /\ completed # 0 \/ (Mine # 0 /\ failed_serial = Mine)
  /\ completed' = 0
  /\ IF completed = Mine /\ completed # 0
     THEN \E shown \in IF page.top = "viewer" THEN BOOLEAN ELSE {FALSE} :
            /\ page' = [page EXCEPT !.waiting = FALSE, !.displayed = IF shown THEN completed ELSE @]
            /\ old' = IF shown THEN page.displayed ELSE completed
     ELSE /\ old' = completed
          /\ page' = [page EXCEPT !.waiting = ~(Mine # 0 /\ failed_serial = Mine)]
  /\ UNCHANGED <<generation, requested, pending, failed_serial, references, service, woken, work, todo>>

----------------------------------------------------------------------------
(* The worker. *)

Go(pc) == work' = [work EXCEPT !.pc = pc]
Worker(pc) == work.pc = pc /\ UNCHANGED <<todo, old, page>>

Loop ==
  /\ Worker("loop")
  /\ IF epd_service_cancelled THEN Go("exit") /\ UNCHANGED pending
     ELSE IF pending THEN work' = [work EXCEPT !.pc = "alloc", !.job = requested] /\ pending' = FALSE
     ELSE Go("wait") /\ UNCHANGED pending
  /\ UNCHANGED <<generation, requested, completed, failed_serial, references, service, woken>>

Wait ==
  /\ Worker("wait")
  /\ woken \/ epd_service_cancelled
  /\ woken' = (woken /\ epd_service_cancelled)
  /\ Go("loop")
  /\ UNCHANGED <<svcVars, service>>

Allocate ==
  /\ Worker("alloc")
  /\ \/ /\ references' = [references EXCEPT ![work.job] = 1]
        /\ Go("decode") /\ UNCHANGED failed_serial
     \/ failed_serial' = work.job /\ Go("loop") /\ UNCHANGED references
  /\ UNCHANGED <<generation, requested, pending, completed, service, woken>>

\* scan, or gallery_decode and gallery_render: only an image that came out well is packed.
Decode ==
  /\ Worker("decode")
  /\ \E ok \in BOOLEAN : work' = [work EXCEPT !.pc = "publish", !.pack = ok]
  /\ UNCHANGED <<svcVars, service, woken>>

\* (seeded fault) The page's reference is not counted: the worker's is handed over.
PublishUncounted ==
  /\ Worker("publish")
  /\ IF work.job = generation /\ ~epd_service_cancelled
     THEN /\ completed' = work.job
          /\ work' = [work EXCEPT !.pc = "displace", !.displaced = completed]
          /\ UNCHANGED references
     ELSE /\ work' = [work EXCEPT !.pc = "displace", !.pack = FALSE]
          /\ UNCHANGED <<references, completed>>
  /\ UNCHANGED <<generation, requested, pending, failed_serial, service, woken>>

Publish ==
  /\ Worker("publish")
  /\ IF work.job = generation /\ ~epd_service_cancelled
     THEN /\ references' = [references EXCEPT ![work.job] = @ + 1]
          /\ completed' = work.job
          /\ work' = [work EXCEPT !.pc = "displace", !.displaced = completed]
     ELSE /\ work' = [work EXCEPT !.pc = "displace", !.pack = FALSE]
          /\ UNCHANGED <<references, completed>>
  /\ UNCHANGED <<generation, requested, pending, failed_serial, service, woken>>

Displace ==
  /\ Worker("displace")
  /\ references' = Released(work.displaced)
  /\ work' = [work EXCEPT !.pc = IF work.pack THEN "pack" ELSE "free", !.displaced = 0]
  /\ UNCHANGED <<generation, requested, pending, completed, failed_serial, service, woken>>

\* gallery_cache_pack reads the pixels; what it makes of them is saved after the release.
Pack ==
  /\ Worker("pack")
  /\ work' = [work EXCEPT !.pc = "free", !.pack = FALSE]
  /\ UNCHANGED <<svcVars, service, woken>>

Free ==
  /\ Worker("free")
  /\ references' = Released(work.job)
  /\ work' = [work EXCEPT !.pc = "loop", !.job = 0]
  /\ UNCHANGED <<generation, requested, pending, completed, failed_serial, service, woken>>

\* The run ends with gallery_cancel and forgets the worker; then the service is collected.
Exit ==
  /\ Worker("exit")
  /\ Cancelled
  /\ work' = [work EXCEPT !.pc = "exitFree", !.displaced = completed]
  /\ UNCHANGED <<references, service, woken>>

ExitFree ==
  /\ Worker("exitFree")
  /\ references' = Released(work.displaced)
  /\ work' = [work EXCEPT !.pc = "return", !.displaced = 0]
  /\ UNCHANGED <<generation, requested, pending, completed, failed_serial, service, woken>>

Return ==
  /\ Worker("return")
  /\ service' = "ended"
  /\ Go("none")
  /\ UNCHANGED <<svcVars, woken>>

run == Loop \/ Wait \/ Allocate \/ Decode \/ Publish \/ Displace \/ Pack \/ Free \/ Exit \/ ExitFree \/ Return

(* The service list (app_service.c), and the card. *)
app_service_process ==
  /\ \/ service = "lost" /\ service' = "stopping" /\ woken' = TRUE
     \/ service = "ended" /\ service' = "off" /\ UNCHANGED woken
  /\ UNCHANGED <<svcVars, work, todo, old, page>>

LoseCard ==
  /\ service = "on"
  /\ service' = "lost"
  /\ UNCHANGED <<svcVars, woken, work, todo, old, page>>

----------------------------------------------------------------------------
Next ==
  \/ UiStep \/ OpenBrowser \/ gallery_start \/ browser_scan \/ OpenViewer \/ LeaveViewer
  \/ LoseStorage \/ CloseBrowser \/ Poll
  \/ run \/ app_service_process \/ LoseCard

Spec == Init /\ [][Next]_vars

\* The UI thread runs its callbacks to the end and its timers; the worker is scheduled.
Fairness == WF_vars(UiStep) /\ WF_vars(Poll) /\ WF_vars(run) /\ WF_vars(app_service_process)

\* 1 if s is what somebody holds there, 0 if not.
Holds(holder, s) == IF holder = s THEN 1 ELSE 0

\* Every result has as many references as there are who hold it: none is freed under the
\* worker that packs its pixels or the page that shows them, and none stays behind when
\* the last has let go, whatever requests, cancels, pages and the end of the service do
\* in between (gallery_result_free, gallery_service.c:23-32, 196-212).
ReferencesAreHolders ==
  \A s \in Serials \ {0} :
    references[s] = Holds(completed, s) + Holds(old, s) + Holds(page.displayed, s) + Holds(work.displaced, s)
                    + IF work.pc \in {"decode", "publish", "displace", "pack", "free"}
                      THEN Holds(work.job, s) ELSE 0

\* A page that waits for its list or its picture is answered, with the result or the
\* failure, as long as the service runs: no request is lost between the worker's look at
\* `pending` and its sleep, and none is cancelled in the name of an older one
\* (gallery_service.c:45-58, 154-161; browser_poll, gallery_ui.c:172-220).
PageIsAnswered ==
  (page.waiting /\ service = "on") ~> (~page.waiting \/ service # "on")
=============================================================================
