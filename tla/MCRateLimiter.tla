--------------------------- MODULE MCRateLimiter ---------------------------
(* A small instance of RateLimiter for TLC: three callers are enough for    *)
(* one to hold an old clock reading while two others overtake it.           *)
EXTENDS RateLimiter, TLC

CONSTANTS c1, c2, c3

Symmetry == Permutations(Callers)
=============================================================================
