---------------------------- MODULE MCStreamHub ----------------------------
(* Small instances of StreamHub for TLC. *)
EXTENDS StreamHub, TLC

CONSTANTS c1, c2, c3

Symmetry == Permutations(Clients)
=============================================================================
