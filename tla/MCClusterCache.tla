-------------------------- MODULE MCClusterCache --------------------------
(* Small instances of ClusterCache for TLC. *)
EXTENDS ClusterCache, TLC

CONSTANTS n1, n2, q1, q2, q3

\* One goroutine in each of two processes.
OnePerReplica == q1 :> n1 @@ q2 :> n2

\* All goroutines in one process.
AllOnOne == q1 :> n1 @@ q2 :> n1 @@ q3 :> n1
=============================================================================
