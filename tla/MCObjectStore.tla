--------------------------- MODULE MCObjectStore ---------------------------
(* Three handlers, interchangeable, at work on the same key.                *)
EXTENDS ObjectStore, TLC

CONSTANTS k1, c1, c2, c3

Handlers == Permutations({c1, c2, c3})
=============================================================================
