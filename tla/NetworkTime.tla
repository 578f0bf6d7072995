---------------------------- MODULE NetworkTime ----------------------------
(***************************************************************************)
(* Setting the clock over the network (src/src/services/net/              *)
(* network_time.c), composed with the network service it subscribes to.   *)
(*                                                                         *)
(* The time worker is one of the subscribers: its loop takes a snapshot,   *)
(* asks an NTP server while the link it saw is still the current one, and  *)
(* sleeps until the next event or, with attempts left, until the interval  *)
(* between attempts is over.  Its local generation is seen[Time].  The     *)
(* server is external: an exchange ends with the time, with a denial or    *)
(* with an error, a timeout included.                                      *)
(***************************************************************************)
EXTENDS Network

CONSTANTS Time,          \* the subscriber this module is about
          SYNC_ATTEMPTS  \* attempts on one connection

ASSUME TimeSubscriber == Time \in Clients
ASSUME SomeAttempts == SYNC_ATTEMPTS \in Nat \ {0}

VARIABLES timePc,     \* where the time worker is; "off" before it is started
          connected,  \* was the network ready when the loop began
          attempts,   \* attempts on this connection
          synced,     \* the clock was set on this connection
          elapsed,    \* SYNC_RETRY_MS passed since the last attempt
          asked       \* history: the generation of the last attempt

timeVars == <<timePc, connected, attempts, synced, elapsed, asked>>

same_link == state.ready /\ generation = seen[Time]

TimeInit ==
    /\ Init
    /\ timePc = "off" /\ connected = FALSE /\ attempts = 0
    /\ synced = FALSE /\ elapsed = FALSE /\ asked = 0

-----------------------------------------------------------------------------
\* network_time_init subscribes, then starts the worker.
network_time_init ==
    /\ timePc = "off"
    /\ network_subscribe(Time)
    /\ timePc' = "loop"
    /\ UNCHANGED <<connected, attempts, synced, elapsed, asked>>

\* The top of the loop: a snapshot, and a new connection starts over.
Look ==
    /\ timePc = "loop"
    /\ network_snapshot(Time)
    /\ connected' = state.ready
    /\ IF generation = seen[Time]
       THEN UNCHANGED <<attempts, synced>>
       ELSE attempts' = 0 /\ synced' = FALSE
    /\ timePc' = "decide"
    /\ UNCHANGED <<elapsed, asked>>

Unfinished == connected /\ ~synced /\ attempts < SYNC_ATTEMPTS

\* An attempt is made at once or after the interval, on the link that was seen.
Decide ==
    /\ timePc = "decide"
    /\ IF Unfinished /\ (attempts = 0 \/ elapsed) /\ same_link
       THEN timePc' = "request" /\ attempts' = attempts + 1 /\ asked' = seen[Time]
       ELSE timePc' = "sleep" /\ UNCHANGED <<attempts, asked>>
    /\ UNCHANGED <<vars, connected, synced, elapsed>>

\* request_time returns; its result counts only while the link is the same.
\* A denial ends the attempts; the clock chip may refuse the time.
Answer ==
    /\ timePc = "request"
    /\ \E result \in {"time", "busy", "error"} :
          /\ synced' \in IF same_link /\ result = "time" THEN BOOLEAN ELSE {synced}
          /\ attempts' = IF same_link /\ result = "busy" THEN SYNC_ATTEMPTS ELSE attempts
    /\ elapsed' = FALSE
    /\ timePc' = "sleep"
    /\ UNCHANGED <<vars, connected, asked>>

\* rt_event_recv returns with the event, or when the interval is over.
Awake ==
    /\ timePc = "sleep"
    /\ \/ Receive(Time)
       \/ Unfinished /\ elapsed /\ UNCHANGED vars
    /\ timePc' = "loop"
    /\ UNCHANGED <<connected, attempts, synced, elapsed, asked>>

\* The interval is looked at only by a worker that waits with attempts left.
IntervalEnds ==
    /\ timePc = "sleep" /\ Unfinished
    /\ ~elapsed /\ elapsed' = TRUE
    /\ UNCHANGED <<vars, timePc, connected, attempts, synced, asked>>

TimeStep == network_time_init \/ Look \/ Decide \/ Answer \/ Awake

-----------------------------------------------------------------------------
Others == Environment \/ Api \/ Service \/ \E c \in Clients \ {Time} : Client(c)

TimeNext == \/ TimeStep \/ IntervalEnds
            \/ Others /\ UNCHANGED timeVars

TimeSpec == TimeInit /\ [][TimeNext]_<<vars, timeVars>>

\* Every thread that can run does, the exchanges with the server end and the
\* clock ticks.  The environment, the settings and the other subscribers need
\* not do anything.  Each subscript holds what every step of its action changes.
FairSpec ==
    /\ TimeSpec
    /\ \A thread \in {"netif", "pan", "api"} :
          WF_owed(network_changed(thread) /\ UNCHANGED timeVars)
    /\ WF_going(Down /\ UNCHANGED timeVars)
    /\ WF_<<pc, faults>>((Ask \/ sample \/ Publish \/ Wake) /\ UNCHANGED timeVars)
    /\ WF_timePc(TimeStep)
    /\ WF_elapsed(IntervalEnds)

-----------------------------------------------------------------------------
\* Once the interfaces are left alone the threads come to rest, and a device
\* that is then online has asked for the time on this very connection and has
\* set its clock, was denied the time, or has used up the attempts.
TimeSettles ==
    <>[](/\ pc = "wait" /\ Quiet /\ timePc = "sleep"
         /\ seen[Time] = generation
         /\ state.ready => /\ asked = generation
                           /\ synced \/ attempts = SYNC_ATTEMPTS)
=============================================================================
