----------------------------- MODULE CardLease -----------------------------
(***************************************************************************)
(* What the card service promises to the platform, with no mention of      *)
(* pins, interrupts, debouncing, the SDK host or the worker thread.        *)
(*                                                                         *)
(* The medium is mounted or not.  While it is mounted the service may      *)
(* grant it to file users under a session token; it may withdraw the grant *)
(* at any moment.  Before the medium is unmounted the service asks for it  *)
(* back with a numbered request, and it waits for the answer to that very  *)
(* request.  No grant is made while a request is outstanding.              *)
(***************************************************************************)
EXTENDS Naturals

CONSTANT MaxId      \* largest token and request number; zero means none

VARIABLES granted,  \* file users may start new accesses
          token,    \* the session in force while granted
          mounted,  \* the file system is attached
          request,  \* number of the outstanding release request, or zero
          answered, \* the outstanding request has been answered
          last      \* number of the latest request ever made

leaseVars == <<granted, token, mounted, request, answered, last>>

Id == 0 .. MaxId

\* Numbers wrap like the code's 32-bit counters and skip the reserved zero.
Following(i) == IF i = MaxId THEN 1 ELSE i + 1

Init ==
  /\ granted = FALSE
  /\ token = 0
  /\ mounted = FALSE
  /\ request = 0
  /\ answered = FALSE
  /\ last = 0

Mount ==
  /\ ~mounted /\ request = 0
  /\ mounted' = TRUE
  /\ UNCHANGED <<granted, token, request, answered, last>>

Grant ==
  /\ mounted /\ ~granted /\ request = 0
  /\ granted' = TRUE
  /\ token' = Following(token)
  /\ UNCHANGED <<mounted, request, answered, last>>

\* Withdrawing a grant also retires its token.
Withdraw ==
  /\ granted
  /\ granted' = FALSE
  /\ token' = Following(token)

Revoke ==
  /\ Withdraw
  /\ UNCHANGED <<mounted, request, answered, last>>

Ask ==
  /\ request = 0
  /\ Withdraw \/ (~granted /\ UNCHANGED <<granted, token>>)
  /\ last' = Following(last)
  /\ request' = last'
  /\ answered' = FALSE
  /\ UNCHANGED mounted

Answer ==
  /\ request # 0 /\ ~answered
  /\ answered' = TRUE
  /\ UNCHANGED <<granted, token, mounted, request, last>>

Unmount ==
  /\ mounted /\ request # 0 /\ answered
  /\ mounted' = FALSE
  /\ UNCHANGED <<granted, token, request, answered, last>>

Finish ==
  /\ ~mounted /\ request # 0 /\ answered
  /\ request' = 0
  /\ UNCHANGED <<granted, token, mounted, answered, last>>

Next ==
  Mount \/ Grant \/ Revoke \/ Ask \/ Answer \/ Unmount \/ Finish

Spec == Init /\ [][Next]_leaseVars
=============================================================================
