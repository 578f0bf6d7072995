--------------------------- MODULE NetworkProofs ---------------------------
(***************************************************************************)
(* Proofs about the network service and the time worker, for any set of   *)
(* subscribers, any number of changes and any number of refused calls.     *)
(***************************************************************************)
EXTENDS NetworkTime, TLAPS

USE DEF pan, tcpipVars, lockedVars, workerVars, clientVars

\* The steps of the service one by one.
LEMMA NextSteps ==
  ASSUME [Next]_vars
  PROVE  \/ \E s \in Sources : Bind(s) \/ Relink(s) \/ GoDown(s)
         \/ PanChanges \/ PanTurns \/ Down \/ Ask \/ sample \/ Publish \/ Wake
         \/ \E source \in Choices : network_select(source)
         \/ \E s \in Sources : network_register_interface(s) \/ network_set_dns(s)
         \/ \E thread \in {"netif", "pan", "api"} : network_changed(thread)
         \/ \E c \in Clients : \/ network_subscribe(c) \/ network_unsubscribe(c)
                               \/ Receive(c) \/ network_snapshot(c)
         \/ UNCHANGED vars
  BY Zenon DEF Next, Environment, Api, Service, Client, vars

-----------------------------------------------------------------------------

\* What the worker reads is a route, and what is chosen a choice.
LEMMA ReadingType ==
  ASSUME TypeOK, NEW ready \in BOOLEAN
  PROVE  Reading(ready) \in Routes /\ Chosen(ready) \in Choices
  BY DEF TypeOK, Reading, Routes, Chosen, NoRoute, Address, Choices, Sources

\* Truth values: what Zenon sees and the SMT translation does not.
LEMMA FlagType ==
  ASSUME NEW S, NEW f \in [S -> BOOLEAN], NEW e \in S
  PROVE  /\ [f EXCEPT ![e] = TRUE] \in [S -> BOOLEAN]
         /\ [f EXCEPT ![e] = FALSE] \in [S -> BOOLEAN]
  BY Zenon

\* The interface table with one entry changed.
LEMMA UpType ==
  ASSUME NEW f \in [Sources -> [up : BOOLEAN, lease : Nat]], NEW s \in Sources,
         NEW n \in Nat, NEW b \in BOOLEAN
  PROVE  /\ [f EXCEPT ![s] = [up |-> b, lease |-> n]]
                \in [Sources -> [up : BOOLEAN, lease : Nat]]
         /\ [f EXCEPT ![s].up = b] \in [Sources -> [up : BOOLEAN, lease : Nat]]
         /\ [f EXCEPT ![s].lease = n] \in [Sources -> [up : BOOLEAN, lease : Nat]]
  OBVIOUS

\* The types hold when nothing is up.
LEMMA TypeInit == Init => TypeOK
  <1> SUFFICES ASSUME Init PROVE TypeOK
    OBVIOUS
  <1> USE DEF Init
  <1>1. panReady \in BOOLEAN /\ heard \in BOOLEAN /\ wakeup \in BOOLEAN /\ first \in BOOLEAN
    BY Zenon
  <1>2. NoRoute \in Routes BY DEF NoRoute, Routes, Choices, Sources
  <1>3. netif \in [Sources -> [up : BOOLEAN, lease : Nat]] BY DEF Sources
  <1>4. interfaces \in [Sources -> BOOLEAN] /\ event \in [Clients -> BOOLEAN]
          /\ looking \in [Clients -> BOOLEAN]
    BY Zenon
  <1>5. resolvers \in [Sources -> Choices] BY DEF Sources, Choices
  <1> QED BY <1>1, <1>2, <1>3, <1>4, <1>5 DEF TypeOK, Choices

\* The callback of lwIP, whether its listener is there or not,
LEMMA CallbackType ==
  ASSUME TypeOK, NEW s \in Sources, NEW bound \in BOOLEAN,
         netif_changed(s, bound), dns' \in Choices
  PROVE  /\ owed' \subseteq {"netif", "pan", "api"}
         /\ epochs' \in [Sources -> Nat]
         /\ resolvers' \in [Sources -> Choices]
  <1>1. CASE first \/ ~interfaces[s]
    <2>1. /\ UNCHANGED <<epochs, resolvers>>
          /\ owed' = owed \/ owed' = owed \cup {"netif"}
      BY <1>1, Zenon DEF netif_changed
    <2> QED BY <2>1 DEF TypeOK
  <1>2. CASE ~(first \/ ~interfaces[s])
    <2>1. /\ epochs' = [epochs EXCEPT ![s] = @ + 1]
          /\ owed' = owed \cup {"netif"}
          /\ \/ resolvers' = [resolvers EXCEPT ![s] = dns']
             \/ resolvers' = resolvers
      BY <1>2, Zenon DEF netif_changed
    <2> QED BY <2>1 DEF TypeOK
  <1> QED BY <1>1, <1>2

\* the changes of the interfaces, of the PAN and of the settings,
LEMMA TypeChanges ==
  ASSUME TypeOK,
         \/ \E s \in Sources : Bind(s) \/ Relink(s) \/ GoDown(s)
         \/ PanChanges \/ PanTurns \/ Down
         \/ \E source \in Choices : network_select(source)
         \/ \E s \in Sources : network_register_interface(s) \/ network_set_dns(s)
  PROVE  TypeOK'
  <1> USE DEF TypeOK, Begin, Choices, Sources
  <1>0. TRUE \in BOOLEAN /\ FALSE \in BOOLEAN OBVIOUS
  <1>1. ASSUME NEW s \in Sources, Bind(s) PROVE TypeOK'
    <2>1. netif' \in [Sources -> [up : BOOLEAN, lease : Nat]]
      BY <1>0, <1>1, UpType DEF Bind
    <2>2. netif_changed(s, TRUE) /\ dns' = s BY <1>1 DEF Bind
    <2>3. dns' \in Choices BY <2>2
    <2> HIDE DEF TypeOK
    <2>4. /\ owed' \subseteq {"netif", "pan", "api"} /\ epochs' \in [Sources -> Nat]
          /\ resolvers' \in [Sources -> Choices]
      BY <1>0, <2>2, <2>3, CallbackType
    <2> QED BY <1>1, <2>1, <2>3, <2>4 DEF Bind, TypeOK
  <1>2. ASSUME NEW s \in Sources, Relink(s) PROVE TypeOK'
    <2>1. netif' \in [Sources -> [up : BOOLEAN, lease : Nat]]
      <3>1. \/ netif' = [netif EXCEPT ![s].up = TRUE]
            \/ netif' = [netif EXCEPT ![s].lease = 0]
        BY <1>2, Zenon DEF Relink
      <3>2. netif \in [Sources -> [up : BOOLEAN, lease : Nat]] OBVIOUS
      <3> HIDE DEF TypeOK
      <3>3. 0 \in Nat OBVIOUS
      <3>4. /\ [netif EXCEPT ![s].up = TRUE] \in [Sources -> [up : BOOLEAN, lease : Nat]]
            /\ [netif EXCEPT ![s].lease = 0] \in [Sources -> [up : BOOLEAN, lease : Nat]]
        BY <1>0, <3>2, <3>3, UpType
      <3> QED BY <3>1, <3>4, Zenon
    <2>2. netif_changed(s, FALSE) /\ dns' \in Choices BY <1>2 DEF Relink
    <2> HIDE DEF TypeOK
    <2>3. /\ owed' \subseteq {"netif", "pan", "api"} /\ epochs' \in [Sources -> Nat]
          /\ resolvers' \in [Sources -> Choices]
      BY <1>0, <2>2, CallbackType
    <2> QED BY <1>2, <2>1, <2>3 DEF Relink, TypeOK
  <1>3. ASSUME NEW s \in Sources, GoDown(s) PROVE TypeOK'
    <2>1. netif_changed(s, FALSE) /\ dns' \in Choices BY <1>3 DEF GoDown
    <2> HIDE DEF TypeOK
    <2>2. /\ owed' \subseteq {"netif", "pan", "api"} /\ epochs' \in [Sources -> Nat]
          /\ resolvers' \in [Sources -> Choices]
      BY <1>0, <2>1, CallbackType
    <2> QED BY <1>3, <2>2 DEF GoDown, TypeOK
  <1>4. CASE PanChanges BY <1>4 DEF PanChanges
  <1>9. CASE PanTurns
    <2>1. panReady' \in BOOLEAN BY <1>9, Zenon DEF PanTurns
    <2> QED BY <1>9, <2>1 DEF PanTurns
  <1>5. CASE Down
    <2>1. going \in Sources /\ netif \in [Sources -> [up : BOOLEAN, lease : Nat]]
      BY <1>5 DEF Down
    <2>2. netif' = [netif EXCEPT ![going].up = FALSE] BY <1>5, Zenon DEF Down
    <2>3. netif' \in [Sources -> [up : BOOLEAN, lease : Nat]]
      <3> HIDE DEF TypeOK, Sources
      <3>1. 0 \in Nat OBVIOUS
      <3> QED BY <1>0, <2>1, <2>2, <3>1, UpType
    <2>4. going' \in Choices /\ UNCHANGED <<leases, pan, dns, lockedVars, owed,
             wakeup, workerVars, clientVars, changes, faults>>
      BY <1>5 DEF Down
    <2> QED BY <2>3, <2>4
  <1>6. ASSUME NEW source \in Choices, network_select(source) PROVE TypeOK'
    BY <1>6 DEF network_select
  <1>7. ASSUME NEW s \in Sources, network_register_interface(s) PROVE TypeOK'
    BY <1>7 DEF network_register_interface
  <1>8. ASSUME NEW s \in Sources, network_set_dns(s) PROVE TypeOK'
    BY <1>8 DEF network_set_dns
  <1> QED BY <1>1, <1>2, <1>3, <1>4, <1>5, <1>6, <1>7, <1>8, <1>9

\* and the steps of the worker and of the subscribers keep the types.
LEMMA TypeStep == TypeOK /\ [Next]_vars => TypeOK'
  <1> SUFFICES ASSUME TypeOK, [Next]_vars PROVE TypeOK'
    OBVIOUS
  <1> USE DEF TypeOK
  <1>1. CASE Ask
    <2>1. pc' \in {"ask", "sampling"} /\ faults' \in Nat BY <1>1 DEF Ask
    <2>2. UNCHANGED <<tcpipVars, lockedVars, clientVars, dns, owed, wakeup, route,
                      first, candidate, state, generation, changes>>
      BY <1>1, Zenon DEF Ask
    <2> QED BY <2>1, <2>2
  <1>2. CASE sample
    <2>1. Reading(panReady) \in Routes /\ Chosen(panReady) \in Choices
      BY ReadingType
    <2>2. first' \in BOOLEAN BY <1>2, Zenon DEF sample
    <2>3. dns' \in Choices /\ route' \in Choices
      BY <1>2, <2>1 DEF sample, Choices, Sources
    <2> QED BY <1>2, <2>1, <2>2, <2>3 DEF sample
  <1>3. CASE Publish
    <2>1. event' \in [Clients -> BOOLEAN] BY <1>3, Zenon DEF Publish
    <2> QED BY <1>3, <2>1 DEF Publish
  <1>4. CASE Wake
    <2>1. wakeup' \in BOOLEAN BY <1>4, Zenon DEF Wake
    <2> QED BY <1>4, <2>1 DEF Wake
  <1>5. ASSUME NEW thread \in {"netif", "pan", "api"}, network_changed(thread)
        PROVE  TypeOK'
    BY <1>5 DEF network_changed
  <1>6. ASSUME NEW c \in Clients,
               \/ network_subscribe(c) \/ network_unsubscribe(c)
               \/ Receive(c) \/ network_snapshot(c)
        PROVE  TypeOK'
    <2>1. ClientStep /\ subscribers' \subseteq Clients
      BY <1>6 DEF network_subscribe, network_unsubscribe, Receive, network_snapshot
    <2>2. event' \in [Clients -> BOOLEAN] /\ looking' \in [Clients -> BOOLEAN]
      BY <1>6, FlagType, Zenon
         DEF network_subscribe, network_unsubscribe, Receive, network_snapshot
    <2>3. seen' \in [Clients -> Nat]
      BY <1>6 DEF network_subscribe, network_unsubscribe, Receive, network_snapshot
    <2> QED BY <2>1, <2>2, <2>3 DEF ClientStep
  <1>7. CASE UNCHANGED vars BY <1>7 DEF vars
  <1> QED BY <1>1, <1>2, <1>3, <1>4, <1>5, <1>6, <1>7, NextSteps, TypeChanges

\* Every variable of network.c, of the interfaces and of the subscribers
\* keeps its type.
THEOREM TypeCorrect == Spec => []TypeOK
  BY TypeInit, TypeStep, PTL DEF Spec

-----------------------------------------------------------------------------
(* The route that is published is the current one.  What makes the claim     *)
(* inductive: an epoch of a registered interface stands for one lease, a     *)
(* sample that no change followed is what the interfaces offer, and while a  *)
(* thread of the TCP/IP stack is between its callback and its change either  *)
(* the wakeup is still to come or no sample can be taken.                    *)

\* A route names the lease its epoch stood for, while that epoch lasts.
Names(r) ==
    /\ ~r.ready => r = NoRoute
    /\ r.ready => /\ r.source \in Sources
                  /\ r.epoch <= epochs[r.source]
                  /\ r.epoch = epochs[r.source] =>
                        interfaces[r.source] /\ r.lease = netif[r.source].lease

RouteCurrent(r) ==
    /\ SameRoute(r, Reading(heard)) /\ r.lease = Reading(heard).lease
    /\ route = Chosen(heard)
    /\ route # "AUTO" /\ resolvers[route] # "AUTO" => dns = route

RouteInv ==
    /\ first => state = NoRoute /\ candidate = NoRoute /\ pc \in {"ask", "sampling"}
    /\ Names(state) /\ Names(candidate)
    /\ SameRoute(state, candidate) => state.lease = candidate.lease
    /\ \A s \in Sources : resolvers[s] \in {"AUTO", s}
    /\ going # "AUTO" => "netif" \in owed \/ wakeup \/ pc \in {"ask", "sampling"}
    /\ pc = "publish" /\ Quiet => RouteCurrent(candidate)
    /\ pc = "wait" /\ Quiet => RouteCurrent(state)

\* What a change of the interfaces or of the settings does to the routes: it
\* counts the epoch of every source whose registration or lease changes, and
\* leaves a wakeup to come.
Disturbs ==
    /\ UNCHANGED <<first, pc, candidate, state, route, wakeup>>
    /\ first \/ \A s \in Sources :
          /\ epochs[s] <= epochs'[s]
          /\ epochs'[s] = epochs[s] /\ interfaces[s] =>
                interfaces'[s] /\ netif'[s].lease = netif[s].lease
    /\ \A s \in Sources : resolvers'[s] \in {resolvers[s], "AUTO", s}
    /\ first \/ owed' # {}
    /\ owed \subseteq owed'
    /\ first \/ going' = going \/ "netif" \in owed'

\* A callback of the stack that can change the route wakes the worker.
LEMMA CallbackDisturbs ==
  ASSUME TypeOK, NEW s \in Sources, NEW bound \in BOOLEAN,
         netif_changed(s, bound), bound => dns' = s,
         UNCHANGED <<first, pc, candidate, state, route, wakeup, interfaces>>,
         \A t \in Sources : t # s => netif'[t] = netif[t]
  PROVE  Disturbs
  <1>1. CASE first
    <2>1. UNCHANGED <<epochs, resolvers, owed>>
      BY <1>1, Zenon DEF netif_changed
    <2> QED BY <1>1, <2>1 DEF Disturbs
  <1>2. CASE ~first /\ ~interfaces[s]
    <2>1. UNCHANGED <<epochs, resolvers>> /\ owed' = owed \cup {"netif"}
      BY <1>2, Zenon DEF netif_changed
    <2> QED BY <1>2, <2>1 DEF Disturbs, TypeOK
  <1>3. CASE ~first /\ interfaces[s]
    <2>1. /\ epochs' = [epochs EXCEPT ![s] = @ + 1]
          /\ owed' = owed \cup {"netif"}
          /\ \/ bound /\ resolvers' = [resolvers EXCEPT ![s] = dns']
             \/ resolvers' = resolvers
      BY <1>3, Zenon DEF netif_changed
    <2>2. \A t \in Sources : resolvers'[t] \in {resolvers[t], "AUTO", t}
      BY <2>1 DEF TypeOK
    <2>3. \A t \in Sources : /\ epochs[t] <= epochs'[t]
                             /\ epochs'[t] = epochs[t] => t # s
      BY <2>1 DEF TypeOK
    <2> QED BY <2>1, <2>2, <2>3 DEF Disturbs
  <1> QED BY <1>1, <1>2, <1>3

\* Everything that can change the route from outside wakes the worker.
LEMMA ChangesDisturb ==
  ASSUME TypeOK,
         \/ \E s \in Sources : Bind(s) \/ Relink(s) \/ GoDown(s)
         \/ PanChanges
         \/ \E source \in Choices : network_select(source)
         \/ \E s \in Sources : network_register_interface(s) \/ network_set_dns(s)
  PROVE  Disturbs
  <1>0. TRUE \in BOOLEAN /\ FALSE \in BOOLEAN OBVIOUS
  <1>1. ASSUME NEW s \in Sources, Bind(s) PROVE Disturbs
    <2>1. netif_changed(s, TRUE) /\ dns' = s BY <1>1 DEF Bind
    <2>2. UNCHANGED <<first, pc, candidate, state, route, wakeup, interfaces>>
      BY <1>1 DEF Bind, Begin
    <2>3. \A t \in Sources : t # s => netif'[t] = netif[t]
      BY <1>1 DEF Bind, TypeOK
    <2> QED BY <1>0, <2>1, <2>2, <2>3, CallbackDisturbs
  <1>2. ASSUME NEW s \in Sources, Relink(s) PROVE Disturbs
    <2>1. netif_changed(s, FALSE) BY <1>2 DEF Relink
    <2>2. UNCHANGED <<first, pc, candidate, state, route, wakeup, interfaces>>
      BY <1>2 DEF Relink, Begin
    <2>3. \A t \in Sources : t # s => netif'[t] = netif[t]
      BY <1>2 DEF Relink, TypeOK
    <2> QED BY <1>0, <2>1, <2>2, <2>3, CallbackDisturbs
  <1>3. ASSUME NEW s \in Sources, GoDown(s) PROVE Disturbs
    <2>1. netif_changed(s, FALSE) BY <1>3 DEF GoDown
    <2>2. UNCHANGED <<first, pc, candidate, state, route, wakeup, interfaces>>
      BY <1>3 DEF GoDown, Begin
    <2>3. \A t \in Sources : t # s => netif'[t] = netif[t]
      BY <1>3 DEF GoDown
    <2> QED BY <1>0, <2>1, <2>2, <2>3, CallbackDisturbs
  <1>4. CASE PanChanges BY <1>4 DEF PanChanges, Begin, Disturbs, TypeOK
  <1>5. ASSUME NEW source \in Choices, network_select(source) PROVE Disturbs
    BY <1>5 DEF network_select, Begin, Disturbs, TypeOK
  <1>6. ASSUME NEW s \in Sources, network_register_interface(s) PROVE Disturbs
    BY <1>6 DEF network_register_interface, Begin, Disturbs, TypeOK
  <1>7. ASSUME NEW s \in Sources, network_set_dns(s) PROVE Disturbs
    BY <1>7 DEF network_set_dns, Begin, Disturbs, TypeOK
  <1> QED BY <1>1, <1>2, <1>3, <1>4, <1>5, <1>6, <1>7

\* What a route names survives such a change.
LEMMA NamesKept ==
  ASSUME TypeOK, TypeOK', Disturbs, NEW r \in Routes, Names(r),
         first => r = NoRoute
  PROVE  /\ ~r.ready => r = NoRoute
         /\ r.ready => /\ r.source \in Sources
                       /\ r.epoch <= epochs'[r.source]
                       /\ r.epoch = epochs'[r.source] =>
                             interfaces'[r.source] /\ r.lease = netif'[r.source].lease
  <1>1. CASE ~r.ready BY <1>1 DEF Names
  <1>2. CASE r.ready
    <2>1. ~first BY <1>2 DEF NoRoute
    <2>2. r.source \in Sources /\ r.epoch <= epochs[r.source] /\ r.epoch \in Nat
      BY <1>2 DEF Names, Routes
    <2>3. /\ epochs[r.source] <= epochs'[r.source]
          /\ epochs'[r.source] = epochs[r.source] /\ interfaces[r.source] =>
                interfaces'[r.source] /\ netif'[r.source].lease = netif[r.source].lease
      BY <2>1, <2>2 DEF Disturbs
    <2>4. epochs[r.source] \in Nat /\ epochs'[r.source] \in Nat BY <2>2 DEF TypeOK
    <2>5. r.epoch <= epochs'[r.source] BY <2>2, <2>3, <2>4, SMT
    <2>6. r.epoch = epochs'[r.source] => r.epoch = epochs[r.source]
      BY <2>2, <2>3, <2>4, SMT
    <2>7. r.epoch = epochs[r.source] =>
             interfaces[r.source] /\ r.lease = netif[r.source].lease
      BY <1>2 DEF Names
    <2> QED BY <1>2, <2>2, <2>3, <2>5, <2>6, <2>7
  <1> QED BY <1>1, <1>2

\* A change that leaves a wakeup to come keeps the invariant,
LEMMA RouteDisturbed == TypeOK /\ TypeOK' /\ RouteInv /\ Disturbs => RouteInv'
  <1> SUFFICES ASSUME TypeOK, TypeOK', RouteInv, Disturbs PROVE RouteInv'
    OBVIOUS
  <1>1. UNCHANGED <<first, pc, candidate, state, wakeup>> BY DEF Disturbs
  <1>2. Names(state)' /\ Names(candidate)'
    <2>1. state \in Routes /\ candidate \in Routes BY DEF TypeOK
    <2>2. first => state = NoRoute /\ candidate = NoRoute BY DEF RouteInv
    <2>3. Names(state) /\ Names(candidate) BY DEF RouteInv
    <2>4. Names(state)' BY <1>1, <2>1, <2>2, <2>3, NamesKept DEF Names
    <2>5. Names(candidate)' BY <1>1, <2>1, <2>2, <2>3, NamesKept DEF Names
    <2> QED BY <2>4, <2>5
  <1>3. \A s \in Sources : resolvers'[s] \in {"AUTO", s}
    BY DEF RouteInv, Disturbs
  <1>4. (SameRoute(state, candidate) => state.lease = candidate.lease)'
    BY <1>1 DEF RouteInv, SameRoute
  <1>5. first => pc \in {"ask", "sampling"} BY DEF RouteInv
  <1>6. going' # "AUTO" => "netif" \in owed' \/ wakeup' \/ pc' \in {"ask", "sampling"}
    BY <1>1, <1>5 DEF RouteInv, Disturbs
  <1>7. ~Quiet' \/ pc' \in {"ask", "sampling"}
    BY <1>1, <1>5 DEF Quiet, Disturbs
  <1> QED
    BY <1>1, <1>2, <1>3, <1>4, <1>6, <1>7 DEF RouteInv

\* The wakeup itself, and the end of a change of the TCP/IP thread,
LEMMA RouteWoken ==
  ASSUME TypeOK, RouteInv,
         Down \/ \E thread \in {"netif", "pan", "api"} : network_changed(thread)
  PROVE  RouteInv'
  <1>1. CASE Down
    <2>1. UNCHANGED <<first, pc, candidate, state, wakeup, owed, epochs,
                      interfaces, resolvers>> /\ going' = "AUTO" /\ going # "AUTO"
          /\ "netif" \notin owed
      BY <1>1 DEF Down
    <2>2. \A s \in Sources : netif'[s].lease = netif[s].lease
      BY <1>1 DEF Down, TypeOK
    <2>3. Names(state)' /\ Names(candidate)'
      BY <2>1, <2>2 DEF RouteInv, Names
    <2>4. wakeup \/ pc \in {"ask", "sampling"} BY <2>1 DEF RouteInv
    <2>5. (SameRoute(state, candidate) => state.lease = candidate.lease)'
      BY <2>1 DEF RouteInv, SameRoute
    <2> QED BY <2>1, <2>3, <2>4, <2>5 DEF RouteInv, Quiet
  <1>2. ASSUME NEW thread \in {"netif", "pan", "api"}, network_changed(thread)
        PROVE  RouteInv'
    <2>1. /\ UNCHANGED <<first, pc, candidate, state, epochs, interfaces,
                         resolvers, netif, going>>
          /\ wakeup' = TRUE
      BY <1>2 DEF network_changed
    <2>2. Names(state)' /\ Names(candidate)' BY <2>1 DEF RouteInv, Names
    <2>3. (SameRoute(state, candidate) => state.lease = candidate.lease)'
      BY <2>1 DEF RouteInv, SameRoute
    <2> QED BY <2>1, <2>2, <2>3 DEF RouteInv, Quiet
  <1> QED BY <1>1, <1>2

\* Nothing of what the interfaces offer moves in a step of the worker.
LEMMA OfferKept ==
  ASSUME UNCHANGED <<netif, heard, interfaces, epochs, selected>>
  PROVE  Chosen(heard)' = Chosen(heard) /\ Reading(heard)' = Reading(heard)
  BY DEF Chosen, Offers, Reading

\* the steps of the worker,
LEMMA RouteWorker ==
  ASSUME TypeOK, RouteInv, Ask \/ sample \/ Publish \/ Wake
  PROVE  RouteInv'
  <1>1. CASE Ask \/ Wake
    <2>1. UNCHANGED <<first, candidate, state, epochs, interfaces, resolvers,
                      netif, going, owed>>
      BY <1>1, Zenon DEF Ask, Wake
    <2>2. pc' \in {"ask", "sampling"} BY <1>1 DEF Ask, Wake
    <2>3. Names(state)' /\ Names(candidate)' BY <2>1 DEF RouteInv, Names
    <2>4. (SameRoute(state, candidate) => state.lease = candidate.lease)'
      BY <2>1 DEF RouteInv, SameRoute
    <2> QED BY <2>1, <2>2, <2>3, <2>4 DEF RouteInv
  <1>2. CASE sample
    <2>1. /\ UNCHANGED <<state, epochs, interfaces, resolvers, netif, going, owed,
                         wakeup, selected>>
          /\ candidate' = Reading(panReady) /\ route' = Chosen(panReady)
          /\ pc' = "publish" /\ heard' = panReady /\ going = "AUTO" /\ ~first'
      BY <1>2 DEF sample, TcpipIdle
    <2>2. Chosen(heard)' = Chosen(panReady) /\ Reading(heard)' = Reading(panReady)
      BY <2>1 DEF Chosen, Offers, Reading
    <2>3. Names(Reading(panReady))
      BY DEF Names, Reading, Chosen, Offers, NoRoute, TypeOK, Sources
    <2>4. Names(state)' /\ Names(candidate)'
      BY <2>1, <2>2, <2>3 DEF RouteInv, Names
    <2>5. SameRoute(state, Reading(panReady)) => state.lease = Reading(panReady).lease
      <3>1. CASE ~state.ready
        BY <3>1 DEF SameRoute, RouteInv, Names, Reading, NoRoute
      <3>2. CASE state.ready
        BY <3>2 DEF SameRoute, RouteInv, Names, Reading, NoRoute
      <3> QED BY <3>1, <3>2
    <2>6. (SameRoute(state, candidate) => state.lease = candidate.lease)'
      BY <2>1, <2>5 DEF SameRoute
    <2>7. route' \in {"AUTO"} \cup Sources BY <2>1 DEF Chosen, Sources
    <2>8. route' # "AUTO" /\ resolvers[route'] # "AUTO" => dns' = route'
      BY <1>2, <2>7 DEF sample, RouteInv
    <2>9. RouteCurrent(candidate)'
      BY <2>1, <2>2, <2>8 DEF RouteCurrent, SameRoute
    <2> QED BY <2>1, <2>4, <2>6, <2>9 DEF RouteInv
  <1>3. CASE Publish
    <2>1. /\ UNCHANGED <<first, candidate, epochs, interfaces, resolvers, netif,
                         going, owed, wakeup, selected, heard, route, dns>>
          /\ pc = "publish" /\ pc' = "wait"
          /\ state' = IF SameRoute(state, candidate) THEN state ELSE candidate
      BY <1>3 DEF Publish
    <2>2. Chosen(heard)' = Chosen(heard) /\ Reading(heard)' = Reading(heard)
      BY <2>1, OfferKept
    <2>3. Names(state)' /\ Names(candidate)' BY <2>1 DEF RouteInv, Names
    <2>4. SameRoute(state', candidate) /\ state'.lease = candidate.lease
      BY <2>1 DEF RouteInv, SameRoute
    <2>5. Quiet' => RouteCurrent(state)'
      BY <2>1, <2>2, <2>4 DEF RouteInv, RouteCurrent, Quiet, SameRoute
    <2> QED BY <2>1, <2>3, <2>4, <2>5 DEF RouteInv
  <1> QED BY <1>1, <1>2, <1>3

\* and the subscribers, who touch none of it.
LEMMA RouteStep == TypeOK /\ RouteInv /\ [Next]_vars => RouteInv'
  <1> SUFFICES ASSUME TypeOK, RouteInv, [Next]_vars PROVE RouteInv'
    OBVIOUS
  <1>1. ASSUME ClientStep PROVE RouteInv'
    <2>1. UNCHANGED <<tcpipVars, lockedVars, workerVars, dns, owed, wakeup>>
      BY <1>1 DEF ClientStep
    <2>2. Chosen(heard)' = Chosen(heard) /\ Reading(heard)' = Reading(heard)
      BY <2>1, OfferKept
    <2> QED
      BY <2>1, <2>2 DEF RouteInv, RouteCurrent, Names, SameRoute, Quiet
  <1>2. CASE UNCHANGED vars
    <2>1. ClientStep BY <1>2 DEF vars, ClientStep
    <2> QED BY <1>1, <2>1
  <1>5. CASE PanTurns
    <2>1. UNCHANGED <<netif, going, heard, dns, owed, wakeup, lockedVars, workerVars>>
      BY <1>5 DEF PanTurns, Begin
    <2>2. Chosen(heard)' = Chosen(heard) /\ Reading(heard)' = Reading(heard)
      BY <2>1, OfferKept
    <2> QED
      BY <2>1, <2>2 DEF RouteInv, RouteCurrent, Names, SameRoute, Quiet
  <1>3. ASSUME NEW c \in Clients,
               \/ network_subscribe(c) \/ network_unsubscribe(c)
               \/ Receive(c) \/ network_snapshot(c)
        PROVE  RouteInv'
    <2>1. ClientStep
      BY <1>3 DEF network_subscribe, network_unsubscribe, Receive, network_snapshot
    <2> QED BY <1>1, <2>1
  <1>4. TypeOK' BY TypeStep
  <1> QED BY <1>2, <1>3, <1>4, <1>5, NextSteps, ChangesDisturb, RouteDisturbed,
             RouteWoken, RouteWorker

\* There is no route at the start, and none to find.
LEMMA RouteInit == Init => RouteInv
  BY DEF Init, RouteInv, Names, SameRoute, NoRoute, Quiet

\* The worker never sleeps on a route that is not the one the interfaces
\* offer, unless somebody is still to wake it: but for a change of Bluetooth
\* that nobody was told of.
THEOREM RouteIsCurrent == Spec => []QuietMeansCurrent
  <1>1. RouteInv => QuietMeansCurrent
    BY DEF RouteInv, RouteCurrent, QuietMeansCurrent
  <1> QED BY <1>1, RouteInit, RouteStep, TypeCorrect, PTL DEF Spec

-----------------------------------------------------------------------------

\* No step loses a change of the route for a client.
LEMMA MissedStep == TypeOK /\ NoMissedChange /\ [Next]_vars => NoMissedChange'
  <1> SUFFICES ASSUME TypeOK, NoMissedChange, [Next]_vars PROVE NoMissedChange'
    OBVIOUS
  <1>1. CASE UNCHANGED <<clientVars, generation>> BY <1>1 DEF NoMissedChange
  <1>2. CASE Publish BY <1>2 DEF Publish, NoMissedChange, TypeOK
  <1>3. ASSUME NEW c \in Clients,
               \/ network_subscribe(c) \/ network_unsubscribe(c)
               \/ Receive(c) \/ network_snapshot(c)
        PROVE  NoMissedChange'
    BY <1>3 DEF network_subscribe, network_unsubscribe, Receive, network_snapshot,
                ClientStep, NoMissedChange, TypeOK
  <1>4. CASE \/ \E s \in Sources : Bind(s) \/ Relink(s) \/ GoDown(s)
             \/ PanChanges \/ PanTurns \/ Down \/ Ask \/ sample \/ Wake
             \/ \E source \in Choices : network_select(source)
             \/ \E s \in Sources : network_register_interface(s) \/ network_set_dns(s)
             \/ \E thread \in {"netif", "pan", "api"} : network_changed(thread)
             \/ UNCHANGED vars
    <2>1. UNCHANGED <<clientVars, generation>>
      BY <1>4 DEF Bind, Relink, GoDown, PanChanges, PanTurns, Begin, Down, Ask, sample, Wake,
                  network_select, network_register_interface, network_set_dns,
                  network_changed, vars
    <2> QED BY <1>1, <2>1
  <1> QED BY <1>2, <1>3, <1>4, NextSteps

\* No subscriber sleeps through a change of the connection.
THEOREM ChangesAreSeen == Spec => []NoMissedChange
  <1>1. Init => NoMissedChange BY DEF Init, NoMissedChange
  <1> QED BY <1>1, MissedStep, TypeCorrect, PTL DEF Spec

-----------------------------------------------------------------------------
\* The time worker is one more subscriber: with it the network service is
\* still the network service, so all of the above holds for the two together.
THEOREM TimeIsASubscriber == TimeSpec => Spec
  <1>1. TimeInit => Init BY DEF TimeInit
  <1>2. [TimeNext]_<<vars, timeVars>> => [Next]_vars
    <2> SUFFICES ASSUME [TimeNext]_<<vars, timeVars>> PROVE [Next]_vars
      OBVIOUS
    <2>1. CASE network_time_init
      BY <2>1, TimeSubscriber, Zenon DEF network_time_init, Next, Client
    <2>2. CASE Look
      BY <2>2, TimeSubscriber, Zenon DEF Look, Next
    <2>3. CASE Awake
      BY <2>3, TimeSubscriber, Zenon DEF Awake, Next, Client
    <2>4. CASE Decide \/ Answer \/ IntervalEnds \/ UNCHANGED <<vars, timeVars>>
      BY <2>4, Zenon DEF Decide, Answer, IntervalEnds
    <2>5. CASE Others
      BY <2>5, Zenon DEF Others, Next
    <2> QED BY <2>1, <2>2, <2>3, <2>4, <2>5, Zenon DEF TimeNext, TimeStep
  <1> QED BY <1>1, <1>2, PTL DEF TimeSpec, Spec
=============================================================================
