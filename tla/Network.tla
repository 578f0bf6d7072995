------------------------------ MODULE Network ------------------------------
(***************************************************************************)
(* The network service (src/src/services/net/network.c): it picks the     *)
(* interface the device goes out by, numbers each connection with a       *)
(* generation and tells its subscribers when that changes.                *)
(*                                                                         *)
(* Three kinds of threads meet here.  The TCP/IP thread owns the          *)
(* interfaces: it changes them, calls netif_changed before or after the   *)
(* change, and runs sample.  The worker asks for a sample, publishes it    *)
(* and sleeps until the wakeup event.  Anyone else selects a source,       *)
(* registers an interface, each under the lock, or notifies of a change of *)
(* the PAN, and wakes the worker only after that: owed holds the threads   *)
(* that still have to send the wakeup.  Of some changes of the PAN nobody  *)
(* is told.                                                                *)
(*                                                                         *)
(* A lease is a number of the model, one for every time DHCP binds an      *)
(* interface; two leases may give the same address, and the code never     *)
(* sees the number.                                                        *)
(***************************************************************************)
EXTENDS Integers

CONSTANTS Clients,      \* the subscribers of network_subscribe
          MaxChanges,   \* bound: changes of the environment and of the API
          MaxFaults     \* bound: calls of tcpip_callback that are refused

ASSUME NetworkBounds == MaxChanges \in Nat /\ MaxFaults \in Nat

VARIABLES
    netif,       \* per source: is it up with a link and a gateway; its lease
    leases,      \* how many leases were given
    going,       \* the source whose interface is being taken down
    panReady,    \* btpan_is_network_ready()
    heard,       \* history: what it answered when last looked at or told of
    dns,         \* whose servers the resolver of lwIP uses
    route,       \* netif_default, by its source
    interfaces,  \* is an interface registered for the source
    resolvers,   \* the servers kept for a source; "AUTO": dns_valid is false
    epochs,      \* epochs[source]
    selected,    \* the source the settings ask for
    owed,        \* threads past the lock that have not called network_changed
    wakeup,      \* the worker's event
    first,       \* the listener is not installed yet
    pc,          \* the worker
    candidate,   \* candidate and sampled_epoch
    state,       \* state and active_epoch
    generation,  \* state.generation
    subscribers, \* the list of subscriptions, by client
    event,       \* the event each client waits on
    looking,     \* the client was woken and has not taken a snapshot yet
    seen,        \* the generation of the client's last snapshot
    changes, faults

pan == <<panReady, heard>>
tcpipVars  == <<netif, leases, going, pan>>
lockedVars == <<interfaces, resolvers, epochs, selected>>
workerVars == <<route, first, pc, candidate, state, generation>>
clientVars == <<subscribers, event, looking, seen>>
vars == <<netif, leases, going, pan, dns, route, interfaces, resolvers,
          epochs, selected, owed, wakeup, first, pc, candidate, state,
          generation, subscribers, event, looking, seen, changes, faults>>

Sources == {"PAN", "WIFI"}
Choices == Sources \cup {"AUTO"}

\* Two leases may carry the same address; 0 is "any".
Address(lease) == (lease + 1) \div 2

NoRoute == [ready |-> FALSE, source |-> "AUTO", address |-> 0, epoch |-> 0,
            lease |-> 0]

-----------------------------------------------------------------------------
\* What a source offers while Bluetooth is ready or not, and which one the order
\* of sample picks.

Offers(s, ready) ==
    /\ selected \in {"AUTO", s}
    /\ interfaces[s]
    /\ s = "PAN" => ready
    /\ netif[s].up /\ netif[s].lease # 0

Chosen(ready) == IF Offers("WIFI", ready) THEN "WIFI"
                 ELSE IF Offers("PAN", ready) THEN "PAN" ELSE "AUTO"

Reading(ready) ==
    LET source == Chosen(ready)
    IN IF source = "AUTO" THEN NoRoute
       ELSE [ready |-> TRUE, source |-> source,
             address |-> Address(netif[source].lease),
             epoch |-> epochs[source], lease |-> netif[source].lease]

\* (seeded fault) An interface that came back with its address is the same.
SameAddress(a, b) ==
    \A field \in {"ready", "source", "address"} : a[field] = b[field]

\* The comparison of the worker; it cannot see the lease.
SameRoute(a, b) ==
    \A field \in {"ready", "source", "address", "epoch"} : a[field] = b[field]

TcpipIdle == going = "AUTO" /\ "netif" \notin owed

-----------------------------------------------------------------------------
Init ==
    /\ netif = [s \in Sources |-> [up |-> FALSE, lease |-> 0]]
    /\ leases = 0 /\ going = "AUTO" /\ panReady = FALSE /\ heard = FALSE
    /\ dns = "AUTO" /\ route = "AUTO"
    /\ interfaces = [s \in Sources |-> s = "PAN"]
    /\ resolvers = [s \in Sources |-> "AUTO"]
    /\ epochs = [s \in Sources |-> 0]
    /\ selected = "AUTO"
    /\ owed = {} /\ wakeup = FALSE
    /\ first = TRUE /\ pc = "ask"
    /\ candidate = NoRoute /\ state = NoRoute /\ generation = 0
    /\ subscribers = {}
    /\ event = [c \in Clients |-> FALSE]
    /\ looking = [c \in Clients |-> FALSE]
    /\ seen = [c \in Clients |-> 0]
    /\ changes = 0 /\ faults = 0

-----------------------------------------------------------------------------
\* A thread that will wake the worker, from its critical section to the wakeup.

Begin(thread) ==
    /\ changes < MaxChanges
    /\ changes' = changes + 1
    /\ thread \notin owed
    /\ UNCHANGED <<wakeup, workerVars, clientVars, faults>>

network_changed(thread) ==
    /\ thread \in owed
    /\ owed' = owed \ {thread}
    /\ wakeup' = TRUE
    /\ UNCHANGED <<tcpipVars, lockedVars, workerVars, clientVars, dns, changes, faults>>

-----------------------------------------------------------------------------
(* The TCP/IP thread.  lwIP calls netif_changed once its listener is there. *)

netif_changed(s, bound) ==
    IF first \/ ~interfaces[s]
    THEN /\ UNCHANGED <<epochs, resolvers>>
         /\ owed' = IF first THEN owed ELSE owed \cup {"netif"}
    ELSE /\ epochs' = [epochs EXCEPT ![s] = @ + 1]
         /\ resolvers' = IF bound THEN [resolvers EXCEPT ![s] = dns'] ELSE resolvers
         /\ owed' = owed \cup {"netif"}

\* DHCP binds an interface: its DNS servers first, then the lease.  A driver
\* registers its interface before it brings it up.
Bind(s) ==
    /\ Begin("netif") /\ TcpipIdle
    /\ interfaces[s]
    /\ leases' = leases + 1
    /\ netif' = [netif EXCEPT ![s] = [up |-> TRUE, lease |-> leases']]
    /\ dns' = s
    /\ netif_changed(s, TRUE)
    /\ UNCHANGED <<going, pan, interfaces, selected>>

\* A link comes back with the lease it had, or an interface loses its address.
Relink(s) ==
    /\ Begin("netif") /\ TcpipIdle
    /\ \/ ~netif[s].up /\ netif' = [netif EXCEPT ![s].up = TRUE]
       \/ netif[s].lease # 0 /\ netif' = [netif EXCEPT ![s].lease = 0]
    /\ netif_changed(s, FALSE)
    /\ UNCHANGED <<leases, going, pan, dns, interfaces, selected>>

\* An interface goes down: the callback comes first, then the change.
GoDown(s) ==
    /\ Begin("netif") /\ TcpipIdle
    /\ netif[s].up
    /\ going' = s
    /\ netif_changed(s, FALSE)
    /\ UNCHANGED <<netif, leases, pan, dns, interfaces, selected>>

Down ==
    /\ going # "AUTO" /\ "netif" \notin owed
    /\ netif' = [netif EXCEPT ![going].up = FALSE]
    /\ going' = "AUTO"
    /\ UNCHANGED <<leases, pan, dns, lockedVars, owed, wakeup, workerVars,
                   clientVars, changes, faults>>

\* A thread of Bluetooth notifies, mostly of a change of what btpan_is_network_ready
\* answers (btpan_notify_state).
PanChanges ==
    /\ Begin("pan")
    /\ panReady' \in BOOLEAN /\ heard' = panReady'
    /\ owed' = owed \cup {"pan"}
    /\ UNCHANGED <<netif, leases, going, dns, lockedVars>>

\* The answer changes and nobody is told: the switch is turned (btpan_enable), whose
\* worker may find it turned back, or the state equals the one notified last.
PanTurns ==
    /\ Begin("page")
    /\ panReady' = ~panReady
    /\ UNCHANGED <<netif, leases, going, heard, dns, lockedVars, owed>>

-----------------------------------------------------------------------------
(* The calls of the settings and of the drivers. *)

network_select(source) ==
    /\ Begin("api")
    /\ selected' = source
    /\ owed' = owed \cup {"api"}
    /\ UNCHANGED <<tcpipVars, dns, interfaces, resolvers, epochs>>

network_register_interface(s) ==
    /\ Begin("api")
    /\ interfaces' = [interfaces EXCEPT ![s] = ~@]   \* a name, or ""
    /\ resolvers' = [resolvers EXCEPT ![s] = "AUTO"]
    /\ epochs' = [epochs EXCEPT ![s] = @ + 1]
    /\ owed' = owed \cup {"api"}
    /\ UNCHANGED <<tcpipVars, dns, selected>>

network_set_dns(s) ==
    /\ Begin("api")
    /\ resolvers' = [resolvers EXCEPT ![s] = s]
    /\ epochs' = [epochs EXCEPT ![s] = @ + 1]
    /\ owed' = owed \cup {"api"}
    /\ UNCHANGED <<tcpipVars, dns, interfaces, selected>>

-----------------------------------------------------------------------------
(* The worker. *)

\* tcpip_callback queues the sample, or is refused: tried again 100 ms later.
Ask ==
    /\ pc = "ask"
    /\ \/ faults < MaxFaults /\ faults' = faults + 1 /\ UNCHANGED pc
       \/ pc' = "sampling" /\ UNCHANGED faults
    /\ UNCHANGED <<tcpipVars, lockedVars, clientVars, dns, owed, wakeup, route,
                   first, candidate, state, generation, changes>>

sample ==
    /\ pc = "sampling" /\ TcpipIdle
    /\ first' = FALSE
    /\ candidate' = Reading(panReady) /\ heard' = panReady
    /\ route' = Chosen(panReady)
    /\ dns' = IF route' # "AUTO" /\ resolvers[route'] # "AUTO"
              THEN resolvers[route'] ELSE dns
    /\ pc' = "publish"
    /\ UNCHANGED <<netif, leases, going, panReady, lockedVars, clientVars, owed, wakeup, state,
                   generation, changes, faults>>

Publish ==
    /\ pc = "publish"
    /\ pc' = "wait"
    /\ IF SameRoute(state, candidate)
       THEN UNCHANGED <<state, generation, event>>
       ELSE /\ state' = candidate
            /\ generation' = generation + 1
            /\ event' = [c \in Clients |-> event[c] \/ c \in subscribers]
    /\ UNCHANGED <<tcpipVars, lockedVars, dns, owed, wakeup, route, first,
                   candidate, subscribers, looking, seen, changes, faults>>

\* (seeded fault) The event is received without RT_EVENT_FLAG_CLEAR.
WakeKeepsEvent ==
    /\ pc = "wait" /\ wakeup
    /\ pc' = "ask"
    /\ UNCHANGED <<tcpipVars, lockedVars, clientVars, dns, owed, wakeup, route,
                   first, candidate, state, generation, changes, faults>>

Wake ==
    /\ pc = "wait" /\ wakeup
    /\ wakeup' = FALSE
    /\ pc' = "ask"
    /\ UNCHANGED <<tcpipVars, lockedVars, clientVars, dns, owed, route, first,
                   candidate, state, generation, changes, faults>>

-----------------------------------------------------------------------------
(* The subscribers. *)

ClientStep == UNCHANGED <<tcpipVars, lockedVars, workerVars, dns, owed, wakeup,
                          changes, faults>>

\* (seeded fault) A new subscriber is told only of the next change.
SubscribeSilently(c) ==
    /\ ClientStep
    /\ c \notin subscribers
    /\ subscribers' = subscribers \cup {c}
    /\ UNCHANGED <<event, looking, seen>>

\* The initial event also tells a subscriber of a network already ready.
network_subscribe(c) ==
    /\ ClientStep
    /\ c \notin subscribers
    /\ subscribers' = subscribers \cup {c}
    /\ event' = [event EXCEPT ![c] = TRUE]
    /\ UNCHANGED <<looking, seen>>

\* The client ends, and its event with it.
network_unsubscribe(c) ==
    /\ ClientStep
    /\ c \in subscribers
    /\ subscribers' = subscribers \ {c}
    /\ event' = [event EXCEPT ![c] = FALSE]
    /\ looking' = [looking EXCEPT ![c] = FALSE]
    /\ seen' = [seen EXCEPT ![c] = 0]

\* rt_event_recv with RT_EVENT_FLAG_CLEAR, then the snapshot.
Receive(c) ==
    /\ ClientStep
    /\ event[c]
    /\ event' = [event EXCEPT ![c] = FALSE]
    /\ looking' = [looking EXCEPT ![c] = TRUE]
    /\ UNCHANGED <<subscribers, seen>>

network_snapshot(c) ==
    /\ ClientStep
    /\ looking' = [looking EXCEPT ![c] = FALSE]
    /\ seen' = [seen EXCEPT ![c] = generation]
    /\ UNCHANGED <<subscribers, event>>

-----------------------------------------------------------------------------
Environment ==
    \/ \E s \in Sources : Bind(s) \/ Relink(s) \/ GoDown(s)
    \/ PanChanges \/ PanTurns

Api ==
    \/ \E source \in Choices : network_select(source)
    \/ \E s \in Sources : network_register_interface(s) \/ network_set_dns(s)

\* What runs to its end once it is begun.
Service ==
    \/ \E thread \in {"netif", "pan", "api"} : network_changed(thread)
    \/ Down \/ Ask \/ sample \/ Publish \/ Wake

\* A client sleeps on its event and then looks.
Client(c) == \/ network_subscribe(c) \/ network_unsubscribe(c)
             \/ Receive(c) \/ (looking[c] /\ network_snapshot(c))

Next == Environment \/ Api \/ Service
        \/ \E c \in Clients : Client(c) \/ network_snapshot(c)

Spec == Init /\ [][Next]_vars

-----------------------------------------------------------------------------
Routes == [ready : BOOLEAN, source : Choices, address : Nat, epoch : Nat, lease : Nat]

TypeOK ==
    /\ netif \in [Sources -> [up : BOOLEAN, lease : Nat]]
    /\ leases \in Nat /\ going \in Choices /\ panReady \in BOOLEAN /\ heard \in BOOLEAN
    /\ dns \in Choices /\ route \in Choices
    /\ interfaces \in [Sources -> BOOLEAN]
    /\ resolvers \in [Sources -> Choices]
    /\ epochs \in [Sources -> Nat]
    /\ selected \in Choices
    /\ owed \subseteq {"netif", "pan", "api"} /\ wakeup \in BOOLEAN
    /\ first \in BOOLEAN /\ pc \in {"ask", "sampling", "publish", "wait"}
    /\ candidate \in Routes /\ state \in Routes /\ generation \in Nat
    /\ subscribers \subseteq Clients
    /\ event \in [Clients -> BOOLEAN]
    /\ looking \in [Clients -> BOOLEAN]
    /\ seen \in [Clients -> Nat]
    /\ changes \in Nat /\ faults \in Nat

\* Nobody owes the worker a wakeup and none is pending.
Quiet == owed = {} /\ ~wakeup /\ going = "AUTO"

\* When the worker sleeps and nobody owes it a wakeup, what it published is
\* what the interfaces offer now, down to the very lease: the default route
\* and the resolver belong to it, and no change fell between the sample on
\* the TCP/IP thread and its publication.  Whether Bluetooth is ready it knows
\* as of its last sample or the last notification: a switch turned off and on
\* in between is not notified (bt_pan.c:97-106, 601), and the network stays as
\* it was sampled until something else wakes the worker.
QuietMeansCurrent ==
    pc = "wait" /\ Quiet =>
        LET offer == Reading(heard) chosen == Chosen(heard)
        IN /\ SameRoute(state, offer) /\ state.lease = offer.lease
           /\ route = chosen
           /\ chosen # "AUTO" /\ resolvers[chosen] # "AUTO" => dns = chosen

\* A subscriber that sleeps with no event pending has seen the generation
\* that is current: subscribing and publishing lose no change.
NoMissedChange ==
    \A c \in subscribers : ~event[c] /\ ~looking[c] => seen[c] = generation
=============================================================================
