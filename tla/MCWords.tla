------------------------------- MODULE MCWords ------------------------------
(* Three words, two in a file; a queue of one. *)
EXTENDS Words

MCScope == <<"a", "b", "c">>
=============================================================================
