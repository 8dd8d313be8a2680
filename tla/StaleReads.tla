----------------------------- MODULE StaleReads -----------------------------
(***************************************************************************)
(* What the cluster list promises its clients, without caches, processes   *)
(* or flights: a client asks, and is later answered with some version of   *)
(* the list that was the newest one at most Bound ago, or with an error,   *)
(* or loses its connection.  Answers may go backwards from one to the      *)
(* next, and one step may answer several clients with the same version.    *)
(***************************************************************************)
EXTENDS Integers

CONSTANTS Clients, Bound, MaxClock, MaxVersion

VARIABLES now, db, superseded, client, answer

vars == <<now, db, superseded, client, answer>>

Versions == 1 .. MaxVersion

Init ==
  /\ now = 0 /\ db = 1
  /\ superseded = [v \in Versions |-> 0]
  /\ client = [c \in Clients |-> "idle"]
  /\ answer = [c \in Clients |-> 0]

\* The clients C go from one state to another, with answer v.
Move(C, from, to, v) ==
  /\ C # {} /\ \A c \in C : client[c] \in from
  /\ client' = [c \in Clients |-> IF c \in C THEN to ELSE client[c]]
  /\ answer' = [c \in Clients |-> IF c \in C THEN v ELSE answer[c]]
  /\ UNCHANGED <<now, db, superseded>>

RecentlyNewest(v) ==
  /\ v <= db
  /\ v < db => superseded[v] >= now - Bound

Ask(c) == Move({c}, {"idle"}, "asking", 0)
Answer(C, v) == RecentlyNewest(v) /\ Move(C, {"asking"}, "answered", v)
Fail(C) == Move(C, {"asking"}, "failed", 0)
Leave(C) == Move(C, {"asking", "answered", "failed"}, "idle", 0)

Commit ==
  /\ db < MaxVersion
  /\ db' = db + 1
  /\ superseded' = [superseded EXCEPT ![db] = now]
  /\ UNCHANGED <<now, client, answer>>

Tick ==
  /\ now < MaxClock /\ now' = now + 1
  /\ UNCHANGED <<db, superseded, client, answer>>

Next ==
  \/ \E c \in Clients : Ask(c)
  \/ \E C \in SUBSET Clients : Fail(C) \/ Leave(C) \/ \E v \in Versions : Answer(C, v)
  \/ Commit \/ Tick

Spec == Init /\ [][Next]_vars
=============================================================================
