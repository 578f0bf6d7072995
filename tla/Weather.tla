------------------------------ MODULE Weather ------------------------------
(***************************************************************************)
(* The weather application's service (src/modules/weather): one worker     *)
(* serves the requests of the pages and the shell, one at a time, and      *)
(* fetches by itself after the start, after the network changed, after the *)
(* configuration changed and every half hour, with a retry after five      *)
(* seconds.  Configuration and last weather are kept in two files, which   *)
(* are replaced one after the other.                                       *)
(*                                                                         *)
(* A configuration is a version of the credentials and a city, the weather *)
(* the city it is of and whether there is any.  Replacing a file either    *)
(* takes effect and says so or does neither (DurableFile).  What the       *)
(* server sends, and the list of cities but for its members, are left out. *)
(***************************************************************************)
EXTENDS Naturals, Sequences

CONSTANTS Cities, None,
          MaxKey,                              \* versions of the credentials; 0: none imported
          MaxTicket, MaxEvents, MaxFaults      \* bounds; events: network changes and half hours

VARIABLES config_bin, current_bin, cities,   \* the files
          config, info, saved_config, result, next_ticket, requests,   \* the module
          lifecycle,  \* "off" (module unloaded), "on", "stopping", "ended"
          awake,      \* its event holds a wake or a network change
          sync_pending, retry_wait, seen,    \* the worker's own: `seen` is generation, network_was_ready
          task,       \* where it is, its request, its copy of configuration and weather, what it fetches
          online, net_generation,            \* the network
          due, retryOver,                    \* the clock: half an hour, five seconds
          faults, periods,
          owed, fresh \* history: a fetch is owed; the one under way began after all that asked for it

files == <<config_bin, current_bin, cities>>
model == <<config, info, saved_config>>
locals == <<sync_pending, retry_wait, seen>>
network == <<online, net_generation>>
clock == <<due, retryOver, periods>>
history == <<owed, fresh>>
vars == <<files, model, result, next_ticket, requests, lifecycle, awake, locals, task, network, clock, faults,
          history>>

Config == [key : 0..MaxKey, city : Cities \cup {None}]
Info == [city : Cities \cup {None}, valid : BOOLEAN]
empty_info(city) == [city |-> city, valid |-> FALSE]
NoConfig == [key |-> 0, city |-> None]
weather_config_valid(c) == c.key > 0

Job == {"sync", "import", "city", "history"}
Request == [job : Job, ticket : 1..MaxTicket, city : Cities]
Automatic == [job |-> "none", ticket |-> 0, city |-> None]
Idle == [pc |-> "off", request |-> Automatic, config |-> NoConfig, info |-> empty_info(None), ok |-> FALSE]
Answer == [ticket |-> 0, busy |-> FALSE, success |-> FALSE]

TypeOK ==
  /\ config_bin \in Config \cup {[key |-> 0, city |-> "noFile"]}
  /\ config \in Config /\ saved_config \in Config \cup {[key |-> 0, city |-> "noFile"]}
  /\ current_bin \in [of : Config, info : Info] /\ info \in Info
  /\ cities \subseteq Cities
  /\ result \in [ticket : 0..MaxTicket, busy : BOOLEAN, success : BOOLEAN]
  /\ requests \in Seq(Request) /\ Len(requests) <= 2
  /\ lifecycle \in {"off", "on", "stopping", "ended"}
  /\ seen \in [generation : 0..MaxEvents, ready : BOOLEAN]
  /\ task.pc \in {"off", "recv", "look", "decide", "sleep", "nap", "network", "fetch", "lookup",
                  "record", "cache", "config", "publish", "finish", "end"}
  /\ {sync_pending, retry_wait, online, due, retryOver, awake, owed, fresh} \subseteq BOOLEAN

NoFile == [key |-> 0, city |-> "noFile"]

\* Nothing imported yet, or a city chosen in an earlier life, with its weather.
Init ==
  /\ \/ /\ config_bin = NoFile /\ cities = {}
        /\ current_bin = [of |-> NoConfig, info |-> empty_info(None)]
     \/ LET city == CHOOSE city \in Cities : TRUE
        IN /\ config_bin = [key |-> MaxKey, city |-> city] /\ cities = {city}
           /\ current_bin = [of |-> config_bin, info |-> [city |-> city, valid |-> TRUE]]
  /\ config = NoConfig /\ info = empty_info(None) /\ saved_config = NoFile
  /\ result = Answer /\ next_ticket = 0 /\ requests = <<>>
  /\ lifecycle = "off" /\ awake = FALSE
  /\ sync_pending = FALSE /\ retry_wait = FALSE /\ seen = [generation |-> 0, ready |-> FALSE]
  /\ task = Idle
  /\ online = FALSE /\ net_generation = 0
  /\ due = FALSE /\ retryOver = TRUE /\ periods = 0
  /\ faults = 0
  /\ owed = FALSE /\ fresh = FALSE

weather_cancelled == lifecycle # "on"

\* (seeded fault) The cached weather is taken for the configuration's.
LoadUnchecked == current_bin.info

\* The weather weather_store_load finds, after the checks of weather_service_init.
Loaded ==
  IF config_bin # NoFile /\ weather_config_valid(config_bin) /\ current_bin.of = config_bin
     /\ current_bin.info.city = config_bin.city
  THEN current_bin.info
  ELSE empty_info(IF config_bin = NoFile THEN None ELSE config_bin.city)

Fault == faults < MaxFaults /\ faults' = faults + 1

\* weather_store_load.  A file that cannot be read is none: without its weather the module
\* starts with the configuration alone, without its configuration as if nothing was imported.
Load ==
  \/ /\ config' = IF config_bin = NoFile THEN NoConfig ELSE config_bin
     /\ saved_config' = config_bin
     /\ \/ info' = Loaded /\ UNCHANGED faults
        \/ info' = empty_info(config'.city) /\ Fault
  \/ /\ config' = NoConfig /\ saved_config' = NoFile /\ info' = empty_info(None)
     /\ Fault

\* The module is loaded and its service started.
Start ==
  /\ lifecycle = "off"
  /\ lifecycle' = "on" /\ awake' = FALSE
  /\ Load
  /\ sync_pending' = TRUE /\ retry_wait' = FALSE /\ seen' = [generation |-> 0, ready |-> FALSE]
  /\ task' = [Idle EXCEPT !.pc = "recv"]
  /\ due' = FALSE
  /\ owed' = TRUE /\ fresh' = FALSE
  /\ UNCHANGED <<files, result, next_ticket, requests, network, retryOver, periods>>

\* What the module holds is gone: it is unloaded, or the power fails.
Forget ==
  /\ config' = NoConfig /\ info' = empty_info(None) /\ saved_config' = NoFile
  /\ result' = Answer /\ requests' = <<>>
  /\ lifecycle' = "off" /\ awake' = FALSE
  /\ sync_pending' = FALSE /\ retry_wait' = FALSE /\ seen' = [generation |-> 0, ready |-> FALSE]
  /\ task' = Idle
  /\ due' = FALSE /\ owed' = FALSE /\ fresh' = FALSE
  /\ UNCHANGED <<files, next_ticket, network, retryOver, periods>>

Unload == lifecycle = "ended" /\ Forget /\ UNCHANGED faults

PowerFails ==
  /\ lifecycle # "off" /\ faults < MaxFaults
  /\ faults' = faults + 1
  /\ Forget

Stop ==
  /\ lifecycle = "on"
  /\ lifecycle' = "stopping"
  /\ UNCHANGED <<files, model, result, next_ticket, requests, awake, locals, task, network, clock, faults, history>>

----------------------------------------------------------------------------
(* The pages and the shell. *)

weather_request_job(job, city) ==
  /\ lifecycle = "on" /\ task.pc # "off"
  /\ ~result.busy
  /\ Len(requests) < 2 /\ next_ticket < MaxTicket
  /\ next_ticket' = next_ticket + 1
  /\ result' = [ticket |-> next_ticket + 1, busy |-> TRUE, success |-> FALSE]
  /\ requests' = Append(requests, [job |-> job, ticket |-> next_ticket + 1, city |-> city])
  /\ awake' = TRUE
  /\ UNCHANGED <<files, model, lifecycle, locals, task, network, clock, faults, history>>

----------------------------------------------------------------------------
(* The environment. *)

NetworkChanges ==
  /\ net_generation + periods < MaxEvents
  /\ net_generation' = net_generation + 1
  /\ online' \in {TRUE, ~online}
  /\ awake' = (awake \/ lifecycle \in {"on", "stopping"})
  /\ owed' = (owed \/ (online' /\ lifecycle = "on"))
  /\ fresh' = (fresh /\ ~online')
  /\ UNCHANGED <<files, model, result, next_ticket, requests, lifecycle, locals, task, clock, faults>>

PeriodEnds ==
  /\ net_generation + periods < MaxEvents /\ lifecycle = "on" /\ ~due
  /\ periods' = periods + 1
  /\ due' = TRUE
  /\ owed' = (owed \/ ~fresh)
  /\ UNCHANGED <<files, model, result, next_ticket, requests, lifecycle, awake, locals, task, network, retryOver,
                 faults, fresh>>

RetryEnds ==
  /\ ~retryOver
  /\ retryOver' = TRUE
  /\ UNCHANGED <<files, model, result, next_ticket, requests, lifecycle, awake, locals, task, network, due, periods,
                 faults, history>>

----------------------------------------------------------------------------
(* The worker. *)

Worker(pc) == task.pc = pc /\ UNCHANGED <<next_ticket, lifecycle, network, periods>>
Go(pc) == task' = [task EXCEPT !.pc = pc]
Finish(ok) == task' = [task EXCEPT !.pc = "finish", !.ok = ok]
UnchangedModel == UNCHANGED <<files, model, result, history>>

Receive ==
  /\ Worker("recv")
  /\ IF weather_cancelled
     THEN Go("end") /\ UNCHANGED requests
     ELSE IF requests = <<>>
     THEN task' = [Idle EXCEPT !.pc = "look"] /\ UNCHANGED requests
     ELSE task' = [Idle EXCEPT !.pc = "look", !.request = Head(requests)] /\ requests' = Tail(requests)
  /\ UNCHANGED <<awake, locals, due, retryOver, faults>> /\ UnchangedModel

\* The network is looked at; run_request copies the model and takes the job's first step.
Begun ==
  LET job == task.request.job
      start == [task EXCEPT !.config = config, !.info = info]
      Fail == [start EXCEPT !.pc = "finish", !.ok = FALSE]
  IN CASE job = "sync" ->
            {IF weather_config_valid(config) /\ config.city # None THEN [start EXCEPT !.pc = "network"] ELSE Fail}
       [] job = "import" ->   \* from the card: a good file or none
            {Fail} \cup {[start EXCEPT !.pc = "cache", !.config.key = key] : key \in 1..MaxKey}
       [] job = "history" ->
            {IF task.request.city \in cities
             THEN [start EXCEPT !.pc = "record", !.config.city = task.request.city] ELSE Fail}
       [] job = "city" ->
            {IF weather_config_valid(config) THEN [start EXCEPT !.pc = "network"] ELSE Fail}
       [] job = "none" -> {[task EXCEPT !.pc = "decide"]}

Look ==
  /\ Worker("look")
  /\ sync_pending' = (sync_pending \/ net_generation # seen.generation \/ (online /\ ~seen.ready))
  /\ seen' = [generation |-> net_generation, ready |-> online]
  /\ task' \in Begun
  /\ UNCHANGED <<requests, awake, retry_wait, due, retryOver, faults>> /\ UnchangedModel

\* wait_network: fifteen seconds, in which the event is taken without looking what it was.
WaitNetwork ==
  /\ Worker("network")
  /\ IF weather_cancelled THEN Finish(FALSE) /\ UNCHANGED <<awake, fresh>>
     ELSE IF online
     THEN /\ Go(IF task.request.job = "city" THEN "lookup" ELSE "fetch")
          /\ fresh' = (task.request.job # "city")
          /\ UNCHANGED awake
     ELSE /\ \/ awake /\ UNCHANGED task
             \/ Finish(FALSE)
          /\ awake' = FALSE
          /\ UNCHANGED fresh
  /\ UNCHANGED <<files, model, result, owed, requests, locals, due, retryOver, faults>>

\* get_json, whose pause between two attempts takes the event too.
Get(pc, then) ==
  /\ Worker(pc)
  /\ \/ online /\ ~weather_cancelled /\ task' = then /\ UNCHANGED <<faults, awake>>
     \/ (~online \/ weather_cancelled) /\ Finish(FALSE) /\ awake' \in {awake, FALSE} /\ UNCHANGED faults
     \/ Fault /\ Finish(FALSE) /\ awake' \in {awake, FALSE}
  /\ UNCHANGED <<requests, locals, due, retryOver>> /\ UnchangedModel

\* lookup_city, and the two requests of refresh that must succeed.
LookupCity == Get("lookup", [task EXCEPT !.pc = "record", !.config.city = task.request.city])
Fetch == Get("fetch", [task EXCEPT !.pc = "cache", !.info = [city |-> task.config.city, valid |-> TRUE]])

\* weather_history_record with a chosen city, and the weather that goes with it.
RecordCity ==
  /\ Worker("record")
  /\ \/ /\ cities' = cities \cup {task.config.city}
        /\ task' = [task EXCEPT !.pc = "cache",
                      !.info = IF @.city = task.config.city THEN @ ELSE empty_info(task.config.city)]
        /\ UNCHANGED faults
     \/ Fault /\ Finish(FALSE) /\ UNCHANGED cities
  /\ UNCHANGED <<config_bin, current_bin, model, result, history, requests, awake, locals, due, retryOver>>

\* weather_store_save: the weather first, the configuration last; refresh looks once
\* more whether it is cancelled.
SaveCache ==
  /\ Worker("cache")
  /\ LET cancelled == weather_cancelled /\ task.request.job \in {"sync", "none"}
     IN \/ /\ ~cancelled
           /\ current_bin' = [of |-> task.config, info |-> task.info]
           /\ Go("config") /\ UNCHANGED faults
        \/ cancelled /\ Finish(FALSE) /\ UNCHANGED <<current_bin, faults>>
        \/ ~cancelled /\ Fault /\ Finish(FALSE) /\ UNCHANGED current_bin
  /\ UNCHANGED <<config_bin, cities, model, result, history, requests, awake, locals, due, retryOver>>

SaveConfig ==
  /\ Worker("config")
  /\ \/ task.config = saved_config /\ Go("publish") /\ UNCHANGED <<config_bin, saved_config, faults>>
     \/ /\ task.config # saved_config
        /\ config_bin' = task.config /\ saved_config' = task.config
        /\ Go("publish") /\ UNCHANGED faults
     \/ task.config # saved_config /\ Fault /\ Finish(FALSE) /\ UNCHANGED <<config_bin, saved_config>>
  /\ UNCHANGED <<current_bin, cities, config, info, result, history, requests, awake, locals, due, retryOver>>

\* A fetch that succeeded pays what was owed when it began; a new configuration owes one.
Publish ==
  /\ Worker("publish")
  /\ config' = task.config /\ info' = task.info
  /\ Finish(TRUE)
  /\ owed' = IF task.request.job \in {"sync", "none"} THEN owed /\ ~fresh ELSE TRUE
  /\ UNCHANGED <<files, saved_config, result, fresh, requests, awake, locals, due, retryOver, faults>>

\* (seeded fault) After a fetch of its own the worker goes to sleep at once.
FinishAsleep ==
  /\ Worker("finish")
  /\ fresh' = FALSE
  /\ LET sync == task.request.job \in {"sync", "none"}
         period == due /\ task.request # Automatic
     IN /\ sync_pending' = IF sync THEN ~task.ok ELSE sync_pending \/ task.ok \/ period
        /\ retry_wait' = IF sync THEN ~task.ok ELSE retry_wait /\ ~task.ok
        /\ retryOver' = IF sync THEN task.ok ELSE retryOver
        /\ due' = (due /\ ~period)
  /\ IF task.request = Automatic
     THEN Go("sleep") /\ UNCHANGED result
     ELSE Go("recv") /\ result' = [result EXCEPT !.busy = FALSE, !.success = task.ok]
  /\ UNCHANGED <<files, model, owed, requests, awake, seen, faults>>

\* The end of run_request and of the turn of the loop, or that of an automatic fetch.
FinishWork ==
  /\ Worker("finish")
  /\ fresh' = FALSE
  /\ LET sync == task.request.job \in {"sync", "none"}
         period == due /\ task.request # Automatic
     IN /\ sync_pending' = IF sync THEN ~task.ok ELSE sync_pending \/ task.ok \/ period
        /\ retry_wait' = IF sync THEN ~task.ok ELSE retry_wait /\ ~task.ok
        /\ retryOver' = IF sync THEN task.ok ELSE retryOver
        /\ due' = (due /\ ~period)
  /\ result' = IF task.request = Automatic THEN result
               ELSE [result EXCEPT !.busy = FALSE, !.success = task.ok]
  /\ Go("recv")
  /\ UNCHANGED <<files, model, owed, requests, awake, seen, faults>>

\* No request: fetch, or sleep until something happens or the retry is due ("nap").
Decide ==
  /\ Worker("decide")
  /\ sync_pending' = (sync_pending \/ due)
  /\ due' = FALSE
  /\ task' = IF ~sync_pending' \/ ~seen.ready THEN [task EXCEPT !.pc = "sleep"]
             ELSE IF retry_wait /\ ~retryOver THEN [task EXCEPT !.pc = "nap"]
             ELSE IF ~weather_config_valid(config) \/ config.city = None THEN [task EXCEPT !.pc = "sleep"]
             ELSE [task EXCEPT !.pc = "network", !.config = config, !.info = info]
  /\ UNCHANGED <<requests, awake, retry_wait, seen, retryOver, faults>> /\ UnchangedModel

Wake ==
  /\ task.pc \in {"sleep", "nap"} /\ Worker(task.pc)
  /\ awake \/ weather_cancelled \/ due \/ (task.pc = "nap" /\ retryOver)
  /\ awake' = (awake /\ weather_cancelled)
  /\ Go("recv")
  /\ UNCHANGED <<requests, locals, due, retryOver, faults>> /\ UnchangedModel

End ==
  /\ task.pc = "end"
  /\ result' = [result EXCEPT !.busy = FALSE, !.success = FALSE]
  /\ lifecycle' = "ended"
  /\ task' = Idle
  /\ UNCHANGED <<files, model, next_ticket, requests, awake, locals, network, clock, faults, history>>

worker_entry ==
  \/ Receive \/ Look \/ WaitNetwork \/ LookupCity \/ Fetch \/ RecordCity
  \/ SaveCache \/ SaveConfig \/ Publish \/ FinishWork \/ Decide \/ Wake \/ End

----------------------------------------------------------------------------
Next ==
  \/ Start \/ Stop \/ Unload \/ PowerFails
  \/ \E job \in Job, city \in Cities : weather_request_job(job, city)
  \/ NetworkChanges \/ PeriodEnds \/ RetryEnds
  \/ worker_entry

Spec == Init /\ [][Next]_vars

\* The worker is scheduled, a call to the server ends, five seconds pass.
Fairness == WF_vars(worker_entry) /\ WF_vars(RetryEnds)

\* The weather shown is that of the configuration's city, whatever stopped between the
\* two files, and the configuration in use is the one a restart would find, but for the
\* moment between saving and publishing (weather_store.c:35-41, 45-58; weather.c:321-327).
\* A start that cannot read the configuration goes on without one, beside the file that may
\* well be whole, until another is saved over it (weather_store.c:34, weather.c:445).
NeverMixed ==
  lifecycle # "off" =>
    /\ info.city = config.city
    /\ task.pc # "publish" => config_bin = config \/ (saved_config = NoFile /\ config = NoConfig)

\* Who waits for a result gets it, though other waits of the worker swallow the event that
\* announced the request, and without waiting for the half hour (weather.c:127-137, 142-154).
BusyIsAnswered == result.busy ~> ~result.busy

\* What asks for fresh weather, a start, a network that came or changed, a new city or
\* new credentials, the half hour, is followed by a fetch that began later, as long as
\* the network stays and the server answers (worker_entry 365-431).  A half hour that ends
\* during a fetch that began after all the rest is taken to be served by that (404).
CanSync == lifecycle = "on" /\ online /\ weather_config_valid(config) /\ config.city # None
SyncFollows == (owed /\ CanSync) ~> (~owed \/ ~CanSync)
=============================================================================
