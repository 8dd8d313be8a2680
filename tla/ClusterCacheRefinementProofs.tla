-------------------- MODULE ClusterCacheRefinementProofs --------------------
(***************************************************************************)
(* ClusterCache implements StaleReads: every step of the caches, flights   *)
(* and writers is a step of the promise to clients, or invisible to them.  *)
(***************************************************************************)
EXTENDS ClusterCacheProofs

\* Stages in which the client is still waiting.
Asking == Working \cup {"wait"}

\* The answer the client of q has, 0 for none.
AnswerOf(q) == IF pc[q] = "reply" THEN val[q] ELSE 0

USE KeysAssumption, HostAssumption, TimesAssumption

(***************************************************************************)
(* What a request's stage and value look like to its client.               *)
(***************************************************************************)
LEMMA Views ==
  ASSUME NEW q \in Requests
  PROVE  /\ pc[q] = "idle" => ClientOf(q) = "idle" /\ AnswerOf(q) = 0
         /\ pc[q] \in Asking => ClientOf(q) = "asking" /\ AnswerOf(q) = 0
         /\ pc[q] = "reply" /\ val[q] # 0
              => ClientOf(q) = "answered" /\ AnswerOf(q) = val[q]
         /\ pc[q] = "reply" /\ val[q] = 0
              => ClientOf(q) = "failed" /\ AnswerOf(q) = 0
  BY DEF ClientOf, AnswerOf, Asking, Working

(***************************************************************************)
(* The same after a step.                                                  *)
(***************************************************************************)
LEMMA ViewsNext ==
  ASSUME NEW q \in Requests
  PROVE  /\ pc'[q] = "idle" => ClientOf(q)' = "idle" /\ AnswerOf(q)' = 0
         /\ pc'[q] \in Asking => ClientOf(q)' = "asking" /\ AnswerOf(q)' = 0
         /\ pc'[q] = "reply" /\ val'[q] # 0
              => ClientOf(q)' = "answered" /\ AnswerOf(q)' = val'[q]
         /\ pc'[q] = "reply" /\ val'[q] = 0
              => ClientOf(q)' = "failed" /\ AnswerOf(q)' = 0
         /\ pc'[q] = pc[q] /\ val'[q] = val[q]
              => ClientOf(q)' = ClientOf(q) /\ AnswerOf(q)' = AnswerOf(q)
  BY DEF ClientOf, AnswerOf, Asking, Working

(***************************************************************************)
(* A step no client can see is a stutter of the promise.                   *)
(***************************************************************************)
LEMMA Invisible ==
  ASSUME UNCHANGED <<now, db, superseded>>,
         \A q \in Requests : ClientOf(q)' = ClientOf(q) /\ AnswerOf(q)' = AnswerOf(q)
  PROVE  UNCHANGED Abstract!vars
  BY DEF Abstract!vars, AnswerOf

(***************************************************************************)
(* A step that some clients see, all in the same way, is a Move of the     *)
(* promise.                                                                *)
(***************************************************************************)
LEMMA Visible ==
  ASSUME UNCHANGED <<now, db, superseded>>,
         NEW C \in SUBSET Requests, C # {}, NEW from, NEW to, NEW v,
         \A q \in C : ClientOf(q) \in from /\ ClientOf(q)' = to /\ AnswerOf(q)' = v,
         \A q \in Requests \ C :
           ClientOf(q)' = ClientOf(q) /\ AnswerOf(q)' = AnswerOf(q)
  PROVE  Abstract!Move(C, from, to, v)
  BY DEF Abstract!Move, AnswerOf

(***************************************************************************)
(* A started system maps to a started promise.                             *)
(***************************************************************************)
LEMMA InitRefines == Init => Abstract!Init
  BY DEF Init, Abstract!Init, Abstract!Versions, Versions, ClientOf

\* One request goes on inside ListClusters.
Inner(q) ==
  \/ MemGet(q) \/ MemExpired(q) \/ RedisHit(q) \/ RedisMiss(q) \/ Join(q)
  \/ DBRead(q) \/ DBError(q) \/ RedisSet(q) \/ LeaderMemSet(q)

(***************************************************************************)
(* The client of a request that goes on inside ListClusters sees nothing.  *)
(***************************************************************************)
LEMMA InnerInvisible ==
  ASSUME TypeOK, NEW q \in Requests, Inner(q)
  PROVE  UNCHANGED Abstract!vars
<1>1. /\ UNCHANGED <<now, db, superseded>>
      /\ pc[q] \in Asking /\ pc'[q] \in Asking
      /\ \A r \in Requests \ {q} : pc'[r] = pc[r] /\ val'[r] = val[r]
  BY DEF TypeOK, Inner, MemGet, MemExpired, RedisHit, RedisMiss, Join, DBRead, DBError,
         RedisSet, LeaderMemSet, Goto, Hold, Asking, Working, store
<1>2. QED
  BY <1>1, Views, ViewsNext, Invisible

(***************************************************************************)
(* Every step of the cluster list is a step of the promise or a stutter.   *)
(***************************************************************************)
LEMMA StepRefines == IInv /\ [Next]_vars => [Abstract!Next]_(Abstract!vars)
<1> SUFFICES ASSUME IInv, [Next]_vars
             PROVE  Abstract!Next \/ UNCHANGED Abstract!vars
  OBVIOUS
<1>0. TypeOK
  BY DEF IInv
<1>1. ASSUME NEW q \in Requests, NEW k \in Keys, Start(q, k)
      PROVE  Abstract!Next
  <2>1. /\ UNCHANGED <<now, db, superseded>>
        /\ pc[q] = "idle" /\ pc'[q] \in Asking
        /\ \A r \in Requests \ {q} : pc'[r] = pc[r] /\ val'[r] = val[r]
    BY <1>0, <1>1 DEF TypeOK, Start, Goto, Asking, Working, store
  <2>2. Abstract!Move({q}, {"idle"}, "asking", 0)
    BY <2>1, Views, ViewsNext, Visible
  <2>3. QED
    BY <2>2 DEF Abstract!Next, Abstract!Ask
<1>2. ASSUME NEW q \in Requests, Inner(q)
      PROVE  UNCHANGED Abstract!vars
  BY <1>0, <1>2, InnerInvisible
<1>3. ASSUME NEW q \in Requests, MemHit(q) \/ MemFill(q)
      PROVE  Abstract!Next
  <2>1. /\ UNCHANGED <<now, db, superseded, val>>
        /\ pc[q] \in Holding /\ pc[q] \in Asking /\ pc'[q] = "reply"
        /\ \A r \in Requests \ {q} : pc'[r] = pc[r]
    BY <1>0, <1>3 DEF TypeOK, MemHit, MemFill, Goto, Asking, Working, Holding, store
  <2>2. val[q] # 0 /\ Answered(q)
    BY <2>1 DEF IInv, StageInv, Answered, Asking, Working
  <2>3. PICK v \in Versions : v = val[q] /\ v = val'[q]
    BY <2>1, <2>2, AnswerAge
  <2>4. v # 0 /\ Abstract!RecentlyNewest(v)
    BY <2>2, <2>3, AnswerAge DEF Abstract!RecentlyNewest, AliveAt
  <2>5. Abstract!Move({q}, {"asking"}, "answered", v)
    BY <2>1, <2>3, <2>4, Views, ViewsNext, Visible
  <2>6. Abstract!Answer({q}, v) /\ {q} \in SUBSET Requests
    BY <2>4, <2>5 DEF Abstract!Answer
  <2>7. QED
    BY <2>3, <2>6 DEF Abstract!Next, Abstract!Versions, Versions
<1>4. ASSUME NEW q \in Requests, Finish(q)
      PROVE  Abstract!Next
  <2> DEFINE call == flight[Host[q]][key[q]]
  <2>1. /\ UNCHANGED <<now, db, superseded>>
        /\ \A r \in call : pc'[r] = "reply" /\ val'[r] = val[q]
        /\ \A r \in Requests \ call : pc'[r] = pc[r] /\ val'[r] = val[r]
        /\ call \in SUBSET Requests
    BY <1>0, <1>4 DEF TypeOK, Finish, store
  <2>2. q \in call /\ pc[q] = "finish"
    BY <1>4 DEF Finish, IInv, FlightInv, Leading
  <2>3. \A r \in call : pc[r] \in Asking
    BY <1>0, <1>4 DEF IInv, TypeOK, FlightInv, Leading, Asking, Working
  <2> HIDE DEF call
  <2>4. PICK C \in SUBSET Requests : C = call
    BY <2>1
  <2>5. CASE val[q] # 0
    <3>1. Answered(q)
      BY <2>1, <2>2, <2>5 DEF Answered
    <3>2. PICK v \in Versions : v = val[q] /\ v = val'[q]
      BY <2>1, <2>2, <3>1, AnswerAge
    <3>3. v # 0 /\ Abstract!RecentlyNewest(v)
      BY <2>5, <3>1, <3>2, AnswerAge DEF Abstract!RecentlyNewest, AliveAt
    <3>4. Abstract!Move(C, {"asking"}, "answered", v)
      <4>1. \A r \in C : pc[r] \in Asking /\ pc'[r] = "reply" /\ val'[r] = v
        BY <2>1, <2>3, <2>4, <3>2
      <4>2. \A r \in C : /\ ClientOf(r) \in {"asking"} /\ ClientOf(r)' = "answered"
                          /\ AnswerOf(r)' = v
        BY <3>3, <4>1, Views, ViewsNext
      <4>3. \A r \in Requests \ C :
              ClientOf(r)' = ClientOf(r) /\ AnswerOf(r)' = AnswerOf(r)
        BY <2>1, <2>4, ViewsNext
      <4>4. QED
        BY <2>1, <2>2, <2>4, <4>2, <4>3, Visible
    <3>5. Abstract!Answer(C, v)
      BY <3>3, <3>4 DEF Abstract!Answer
    <3>6. QED
      BY <2>4, <3>2, <3>5 DEF Abstract!Next, Abstract!Versions, Versions
  <2>6. CASE val[q] = 0
    <3>1. Abstract!Move(C, {"asking"}, "failed", 0)
      BY <2>1, <2>2, <2>3, <2>4, <2>6, Views, ViewsNext, Visible
    <3>2. QED
      BY <2>4, <3>1 DEF Abstract!Next, Abstract!Fail
  <2>7. QED
    BY <2>5, <2>6
<1>5. ASSUME NEW q \in Requests, Reply(q)
      PROVE  Abstract!Next
  <2>1. /\ UNCHANGED <<now, db, superseded>>
        /\ pc[q] = "reply" /\ pc'[q] = "idle"
        /\ \A r \in Requests \ {q} : pc'[r] = pc[r] /\ val'[r] = val[r]
    BY <1>0, <1>5 DEF TypeOK, Reply, Goto, Hold, store
  <2>2. Abstract!Move({q}, {"asking", "answered", "failed"}, "idle", 0)
    BY <2>1, Views, ViewsNext, Visible
  <2>3. QED
    BY <2>2 DEF Abstract!Next, Abstract!Leave
<1>6. ASSUME NEW n \in Replicas, Write(n)
      PROVE  Abstract!Next
  <2>1. \A q \in Requests : ClientOf(q)' = ClientOf(q) /\ AnswerOf(q)' = AnswerOf(q)
    BY <1>6, ViewsNext DEF Write
  <2>2. QED
    BY <1>6, <2>1 DEF Write, Abstract!Next, Abstract!Commit, AnswerOf
<1>7. ASSUME NEW n \in Replicas, Janitor(n) \/ \E v \in Versions : Drop(n, v)
      PROVE  UNCHANGED Abstract!vars
  BY <1>7, ViewsNext, Invisible DEF Janitor, Drop, store
<1>8. ASSUME NEW n \in Replicas, Crash(n)
      PROVE  Abstract!Next \/ UNCHANGED Abstract!vars
  <2> DEFINE gone == {q \in Requests : Host[q] = n /\ pc[q] # "idle"}
  <2>1. /\ UNCHANGED <<now, db, superseded>>
        /\ \A r \in gone : pc[r] \in Asking \cup {"reply"} /\ pc'[r] = "idle"
        /\ \A r \in Requests \ gone :
             \/ pc[r] = "idle" /\ pc'[r] = "idle"
             \/ pc'[r] = pc[r] /\ val'[r] = val[r]
        /\ gone \in SUBSET Requests
    BY <1>0, <1>8 DEF TypeOK, Crash, Stages, Asking
  <2> HIDE DEF gone
  <2>2. \A r \in gone : /\ ClientOf(r) \in {"asking", "answered", "failed"}
                        /\ ClientOf(r)' = "idle" /\ AnswerOf(r)' = 0
    BY <2>1, Views, ViewsNext
  <2>3. \A r \in Requests \ gone :
          ClientOf(r)' = ClientOf(r) /\ AnswerOf(r)' = AnswerOf(r)
    BY <2>1, Views, ViewsNext
  <2>4. CASE gone = {}
    BY <2>1, <2>3, <2>4, Invisible
  <2>5. CASE gone # {}
    <3>1. Abstract!Move(gone, {"asking", "answered", "failed"}, "idle", 0)
      BY <2>1, <2>2, <2>3, <2>5, Visible
    <3>2. QED
      BY <2>1, <3>1 DEF Abstract!Next, Abstract!Leave
  <2>6. QED
    BY <2>4, <2>5
<1>9. CASE Tick
  <2>1. \A q \in Requests : ClientOf(q)' = ClientOf(q) /\ AnswerOf(q)' = AnswerOf(q)
    BY <1>9, ViewsNext DEF Tick
  <2>2. QED
    BY <1>9, <2>1 DEF Tick, Abstract!Next, Abstract!Tick, AnswerOf, store
<1>10. CASE UNCHANGED vars
  BY <1>10, ViewsNext, Invisible DEF vars, store
<1>11. QED
  BY <1>1, <1>2, <1>3, <1>4, <1>5, <1>6, <1>7, <1>8, <1>9, <1>10
  DEF Next, ListClusters, Inner, InvalidateClusterCache, DeleteNothing

(***************************************************************************)
(* The three cache layers implement the promise of StaleReads, for any     *)
(* processes, requests, pages and TTLs.                                    *)
(***************************************************************************)
THEOREM Implementation == Spec => ImplementsStaleReads
<1>1. Spec => []IInv
  BY Invariance
<1>2. QED
  BY <1>1, InitRefines, StepRefines, PTL DEF Spec, ImplementsStaleReads, Abstract!Spec
=============================================================================
