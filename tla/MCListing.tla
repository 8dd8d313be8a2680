----------------------------- MODULE MCListing -----------------------------
(* Of three rows the second is committed late and comes behind the first,  *)
(* and the third has the time of the first.                                *)
EXTENDS Listing, TLC

MCTime == <<2, 1, 2>>
Symmetry == Permutations(Readers) \cup Permutations(Clusters)
=============================================================================
