-------------------------- MODULE MCDocumentCache --------------------------
EXTENDS DocumentCache, TLC

CONSTANTS d1, d2

\* The documents differ in name only.
Symmetry == Permutations(Docs)
=============================================================================
