----------------------------- MODULE MCRecords ------------------------------
(* Requests are interchangeable, and so are providers.                     *)
EXTENDS Records, TLC

Symmetry == Permutations(Requests) \cup Permutations(Providers)
=============================================================================
