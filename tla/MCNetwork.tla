----------------------------- MODULE MCNetwork -----------------------------
(* A small network: the time worker and one other subscriber. *)
EXTENDS NetworkTime
CONSTANTS time, app
=============================================================================
