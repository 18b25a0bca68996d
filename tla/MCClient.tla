------------------------------ MODULE MCClient ------------------------------
(* One command, and two submissions of it at most.                          *)
EXTENDS Client, TLC

CONSTANTS r1, r2

Ids == Permutations({r1, r2})
=============================================================================
