------------------------- MODULE ClusterCacheProofs -------------------------
(***************************************************************************)
(* Proofs about ClusterCache, for any processes, requests, pages and TTLs. *)
(* The inductive invariant is TypeOK and the named parts below.            *)
(***************************************************************************)
EXTENDS ClusterCache, TLAPS

Empty == {"idle", "memget", "redisget", "join", "dbread", "wait"}
Holding == {"memcheck", "memfill", "redisset", "memset"}

\* What a request holds and how long it has worked, by stage.
StageInv ==
  \A q \in Requests :
    /\ pc[q] \in Empty => val[q] = 0
    /\ pc[q] \in Holding => val[q] # 0
    /\ pc[q] \in Working => started[q] <= now /\ now <= started[q] + ReqTimeout

\* Nothing is newer than the database, and no entry outlives its TTL.
WriterNewest ==
  \A n \in Replicas : fresh[n] <= db /\ \A v \in unfinished[n] : v <= db
MemNewest ==
  \A n \in Replicas, k \in Keys :
    mem[n][k].ver <= db /\ mem[n][k].exp <= now + MemTTL
RedisNewest ==
  \A k \in Keys : redis[k].ver <= db /\ redis[k].exp <= now + RedisTTL
HeldNewest ==
  \A q \in Requests : val[q] <= db /\ (pc[q] = "memcheck" => exp[q] <= now + MemTTL)
NewestInv == WriterNewest /\ MemNewest /\ RedisNewest /\ HeldNewest

\* How old a value can be, by where it is.
RedisAge ==
  \A k \in Keys :
    redis[k].ver # 0 => AliveAt(redis[k].ver, redis[k].exp - RedisTTL - ReqTimeout)
MemAge ==
  \A n \in Replicas, k \in Keys :
    mem[n][k].ver # 0 => AliveAt(mem[n][k].ver, mem[n][k].exp - StaleBound)
HeldAge ==
  \A q \in Requests :
    /\ pc[q] = "memcheck" => AliveAt(val[q], exp[q] - StaleBound)
    /\ pc[q] = "memfill" => AliveAt(val[q], started[q] - ReqTimeout - RedisTTL)
    /\ pc[q] \in {"redisset", "memset", "finish"} /\ val[q] # 0
         => AliveAt(val[q], started[q])
AgeInv == RedisAge /\ MemAge /\ HeldAge

\* Who is in a singleflight call, and that it has a leader.
FlightInv ==
  /\ \A n \in Replicas, k \in Keys : \A q \in flight[n][k] :
       Host[q] = n /\ key[q] = k /\ (Leading(q) \/ pc[q] = "wait")
  /\ \A q \in Requests : Leading(q) \/ pc[q] = "wait" => q \in flight[Host[q]][key[q]]
  /\ OneFlightPerKey

\* Nothing older than fresh[n] can get into n's default page.
RedisFresh ==
  \A n \in Replicas : Live(redis[DefaultKey]) => redis[DefaultKey].ver >= fresh[n]
MemFresh ==
  \A n \in Replicas : mem[n][DefaultKey].ver # 0 => mem[n][DefaultKey].ver >= fresh[n]
HeldFresh ==
  \A n \in Replicas, q \in Requests : CanFill(q, n) => val[q] >= fresh[n]
FreshInv == RedisFresh /\ MemFresh /\ HeldFresh

IInv == TypeOK /\ StageInv /\ NewestInv /\ AgeInv /\ FlightInv /\ FreshInv

USE KeysAssumption, HostAssumption, TimesAssumption

(***************************************************************************)
(* Every step of the list, its writers and its environment keeps the types *)
(***************************************************************************)
LEMMA TypeStep == TypeOK /\ [Next]_vars => TypeOK'
<1> SUFFICES ASSUME TypeOK, [Next]_vars PROVE TypeOK'
  OBVIOUS
<1> USE DEF TypeOK, Stages, Working, Versions, Entries, store, caches, who
<1>1. ASSUME NEW q \in Requests, NEW k \in Keys, Start(q, k)
       PROVE  TypeOK'
  BY <1>1 DEF Start, Goto
<1>2. ASSUME NEW q \in Requests, MemHit(q)
       PROVE  TypeOK'
  BY <1>2 DEF MemHit, Goto
<1>3. ASSUME NEW q \in Requests, RedisHit(q)
       PROVE  TypeOK'
  BY <1>3 DEF RedisHit, Goto, Hold, Live
<1>4. ASSUME NEW q \in Requests, RedisMiss(q)
       PROVE  TypeOK'
  BY <1>4 DEF RedisMiss, Goto
<1>5. ASSUME NEW q \in Requests, Join(q)
       PROVE  TypeOK'
  BY <1>5 DEF Join, Goto
<1>6. ASSUME NEW q \in Requests, DBError(q)
       PROVE  TypeOK'
  BY <1>6 DEF DBError, Goto
<1>7. ASSUME NEW q \in Requests, Finish(q)
       PROVE  TypeOK'
  BY <1>7 DEF Finish
<1>8. ASSUME NEW q \in Requests, MemGet(q)
       PROVE  TypeOK'
  <2>1. mem[Host[q]][key[q]].ver \in 0 .. MaxVersion /\ mem[Host[q]][key[q]].exp \in Nat
    BY <1>8 DEF MemGet, Goto, Hold
  <2>2. pc' \in [Requests -> Stages]
    BY <1>8 DEF MemGet, Goto, Hold
  <2>3. val' \in [Requests -> 0 .. MaxVersion]
    BY <1>8, <2>1 DEF MemGet, Goto, Hold
  <2>4. exp' \in [Requests -> Nat]
    BY <1>8, <2>1 DEF MemGet, Goto, Hold
  <2>5. QED
    BY <1>8, <2>1, <2>2, <2>3, <2>4 DEF MemGet, Goto, Hold
<1>9. ASSUME NEW q \in Requests, MemExpired(q)
       PROVE  TypeOK'
  <2>1. NoEntry \in Entries
    BY <1>9 DEF MemExpired, Goto, Hold, NoEntry
  <2>2. mem' \in [Replicas -> [Keys -> Entries]]
    BY <1>9, <2>1 DEF MemExpired, Goto, Hold, NoEntry
  <2>3. pc' \in [Requests -> Stages]
    BY <1>9 DEF MemExpired, Goto, Hold, NoEntry
  <2>4. val' \in [Requests -> 0 .. MaxVersion]
    BY <1>9 DEF MemExpired, Goto, Hold, NoEntry
  <2>5. exp' \in [Requests -> Nat]
    BY <1>9 DEF MemExpired, Goto, Hold, NoEntry
  <2>6. QED
    BY <1>9, <2>1, <2>2, <2>3, <2>4, <2>5 DEF MemExpired, Goto, Hold, NoEntry
<1>10. ASSUME NEW q \in Requests, MemFill(q)
       PROVE  TypeOK'
  <2>1. [ver |-> val[q], exp |-> now + MemTTL] \in Entries
    BY <1>10 DEF MemFill, MemSet, Goto
  <2>2. mem' \in [Replicas -> [Keys -> Entries]]
    BY <1>10, <2>1 DEF MemFill, MemSet, Goto
  <2>3. pc' \in [Requests -> Stages]
    BY <1>10 DEF MemFill, MemSet, Goto
  <2>4. QED
    BY <1>10, <2>1, <2>2, <2>3 DEF MemFill, MemSet, Goto
<1>11. ASSUME NEW q \in Requests, DBRead(q)
       PROVE  TypeOK'
  <2>1. db \in 0 .. MaxVersion
    BY <1>11 DEF DBRead, Goto, Hold
  <2>2. pc' \in [Requests -> Stages]
    BY <1>11 DEF DBRead, Goto, Hold
  <2>3. val' \in [Requests -> 0 .. MaxVersion]
    BY <1>11, <2>1 DEF DBRead, Goto, Hold
  <2>4. QED
    BY <1>11, <2>1, <2>2, <2>3 DEF DBRead, Goto, Hold
<1>12. ASSUME NEW q \in Requests, RedisSet(q)
       PROVE  TypeOK'
  <2>1. [ver |-> val[q], exp |-> now + RedisTTL] \in Entries
    BY <1>12 DEF RedisSet, Goto
  <2>2. redis' \in [Keys -> Entries]
    BY <1>12, <2>1 DEF RedisSet, Goto
  <2>3. pc' \in [Requests -> Stages]
    BY <1>12 DEF RedisSet, Goto
  <2>4. QED
    BY <1>12, <2>1, <2>2, <2>3 DEF RedisSet, Goto
<1>13. ASSUME NEW q \in Requests, LeaderMemSet(q)
       PROVE  TypeOK'
  <2>1. [ver |-> val[q], exp |-> now + MemTTL] \in Entries
    BY <1>13 DEF LeaderMemSet, MemSet, Goto
  <2>2. mem' \in [Replicas -> [Keys -> Entries]]
    BY <1>13, <2>1 DEF LeaderMemSet, MemSet, Goto
  <2>3. pc' \in [Requests -> Stages]
    BY <1>13 DEF LeaderMemSet, MemSet, Goto
  <2>4. QED
    BY <1>13, <2>1, <2>2, <2>3 DEF LeaderMemSet, MemSet, Goto
<1>14. ASSUME NEW q \in Requests, Reply(q)
       PROVE  TypeOK'
  <2>1. pc' \in [Requests -> Stages]
    BY <1>14 DEF Reply, Goto, Hold
  <2>2. val' \in [Requests -> 0 .. MaxVersion]
    BY <1>14 DEF Reply, Goto, Hold
  <2>3. key' \in [Requests -> Keys]
    BY <1>14 DEF Reply, Goto, Hold
  <2>4. started' \in [Requests -> 0 .. MaxClock]
    BY <1>14 DEF Reply, Goto, Hold
  <2>5. QED
    BY <1>14, <2>1, <2>2, <2>3, <2>4 DEF Reply, Goto, Hold
<1>15. ASSUME NEW n \in Replicas, Write(n)
       PROVE  TypeOK'
  <2>1. db \in Nat /\ db + 1 \in Versions
    BY <1>15 DEF Write
  <2>2. superseded' \in [Versions -> 0 .. MaxClock]
    BY <1>15 DEF Write
  <2>3. unfinished' \in [Replicas -> SUBSET Versions]
    BY <1>15, <2>1 DEF Write
  <2>4. QED
    BY <1>15, <2>1, <2>2, <2>3 DEF Write
<1>16. ASSUME NEW n \in Replicas, Janitor(n)
       PROVE  TypeOK'
  <2>1. NoEntry \in Entries
    BY <1>16 DEF Janitor, NoEntry
  <2>2. mem' = [mem EXCEPT ![n] = [k \in Keys |-> IF Live(mem[n][k]) THEN mem[n][k] ELSE NoEntry]]
    BY <1>16 DEF Janitor, NoEntry
  <2>3. [k \in Keys |-> IF Live(mem[n][k]) THEN mem[n][k] ELSE NoEntry] \in [Keys -> Entries]
    <3>1. mem[n] \in [Keys -> Entries]
      OBVIOUS
    <3> HIDE DEF TypeOK, Entries, NoEntry, Live
    <3>2. QED
      BY <2>1, <3>1
  <2>4. mem' \in [Replicas -> [Keys -> Entries]]
    <3>1. mem \in [Replicas -> [Keys -> Entries]]
      OBVIOUS
    <3> HIDE DEF TypeOK, Entries, NoEntry, Live
    <3>2. QED
      BY <2>2, <2>3, <3>1
  <2>5. QED
    BY <1>16, <2>4 DEF Janitor
<1>17. ASSUME NEW n \in Replicas, Crash(n)
       PROVE  TypeOK'
  <2>1. mem' \in [Replicas -> [Keys -> Entries]]
    BY <1>17 DEF Crash, NoEntry
  <2>2. pc' \in [Requests -> Stages] /\ key' \in [Requests -> Keys]
    BY <1>17 DEF Crash
  <2>3. /\ started' \in [Requests -> 0 .. MaxClock]
        /\ val' \in [Requests -> 0 .. MaxVersion]
        /\ exp' \in [Requests -> Nat]
    BY <1>17 DEF Crash
  <2>4. flight' \in [Replicas -> [Keys -> SUBSET Requests]]
    BY <1>17 DEF Crash
  <2>5. unfinished' \in [Replicas -> SUBSET Versions]
    BY <1>17 DEF Crash
  <2>6. QED
    BY <1>17, <2>1, <2>2, <2>3, <2>4, <2>5 DEF Crash
<1>18. ASSUME NEW n \in Replicas, NEW v \in Versions, Drop(n, v),
              InvalidateClusterCache(n, v) \/ DeleteNothing(n, v)
       PROVE  TypeOK'
  <2>1. NoEntry \in Entries
    BY <1>18 DEF Drop, NoEntry
  <2>2. mem' \in [Replicas -> [Keys -> Entries]]
    BY <1>18, <2>1 DEF Drop, NoEntry
  <2>3. unfinished' \in [Replicas -> SUBSET Versions]
    <3>1. CASE InvalidateClusterCache(n, v)
      BY <3>1 DEF InvalidateClusterCache
    <3>2. CASE DeleteNothing(n, v)
      BY <3>2 DEF DeleteNothing
    <3>3. QED
      BY <1>18, <3>1, <3>2
  <2>4. fresh' \in [Replicas -> 0 .. MaxVersion]
    BY <1>18 DEF Drop, NoEntry
  <2>5. QED
    BY <1>18, <2>1, <2>2, <2>3, <2>4 DEF Drop, NoEntry
<1>19. CASE Tick
  BY <1>19 DEF Tick
<1>20. CASE UNCHANGED vars
  BY <1>20 DEF vars
<1>21. QED
  BY <1>1, <1>2, <1>3, <1>4, <1>5, <1>6, <1>7, <1>8, <1>9, <1>10, <1>11,
      <1>12, <1>13, <1>14, <1>15, <1>16, <1>17, <1>18, <1>19, <1>20
  DEF Next, ListClusters, InvalidateClusterCache, DeleteNothing

\* The types of the numbers, for the steps that only calculate.
Numbers ==
  /\ now \in Nat /\ db \in Nat
  /\ \A n \in Replicas, k \in Keys : mem[n][k].ver \in Nat /\ mem[n][k].exp \in Nat
  /\ \A k \in Keys : redis[k].ver \in Nat /\ redis[k].exp \in Nat
  /\ \A v \in Versions : superseded[v] \in Nat
  /\ \A q \in Requests : val[q] \in Nat /\ exp[q] \in Nat /\ started[q] \in Nat
(***************************************************************************)
(* The clock, the versions and the expiry instants are numbers.            *)
(***************************************************************************)
LEMMA NumbersOK == TypeOK => Numbers
  BY DEF TypeOK, Numbers, Versions, Entries
(***************************************************************************)
(* And so are their values after a step.                                   *)
(***************************************************************************)
LEMMA NumbersOKNext == TypeOK' => Numbers'
  BY DEF TypeOK, Numbers, Versions, Entries

(***************************************************************************)
(* Adding a duration to two instants keeps their order.                    *)
(***************************************************************************)
LEMMA AddLeq == \A a, b, m \in Nat : a <= b => a + m <= b + m
  OBVIOUS
(***************************************************************************)
(* Instants are ordered.                                                   *)
(***************************************************************************)
LEMMA LeqTrans == \A a, b, c \in Nat : a <= b /\ b <= c => a <= c
  OBVIOUS

(***************************************************************************)
(* A request's stage says what it holds, and Tick never lets it outlive    *)
(* ReqTimeout.                                                             *)
(***************************************************************************)
LEMMA StageStep == TypeOK /\ StageInv /\ [Next]_vars => StageInv'
<1> SUFFICES ASSUME TypeOK, StageInv, [Next]_vars PROVE StageInv'
  OBVIOUS
<1> USE DEF TypeOK, Stages, Working, Empty, Holding, Versions, store, caches, who, StageInv
<1>1. ASSUME NEW q \in Requests, NEW k \in Keys, Start(q, k)
       PROVE  StageInv'
  BY <1>1 DEF Start, Goto
<1>2. ASSUME NEW q \in Requests, MemGet(q)
       PROVE  StageInv'
  BY <1>2 DEF MemGet, Goto, Hold
<1>3. ASSUME NEW q \in Requests, MemHit(q)
       PROVE  StageInv'
  BY <1>3 DEF MemHit, Goto
<1>4. ASSUME NEW q \in Requests, MemExpired(q)
       PROVE  StageInv'
  BY <1>4 DEF MemExpired, Goto, Hold, NoEntry
<1>5. ASSUME NEW q \in Requests, RedisHit(q)
       PROVE  StageInv'
  BY <1>5 DEF RedisHit, Goto, Hold, Live
<1>6. ASSUME NEW q \in Requests, RedisMiss(q)
       PROVE  StageInv'
  BY <1>6 DEF RedisMiss, Goto
<1>7. ASSUME NEW q \in Requests, MemFill(q)
       PROVE  StageInv'
  BY <1>7 DEF MemFill, MemSet, Goto
<1>8. ASSUME NEW q \in Requests, Join(q)
       PROVE  StageInv'
  BY <1>8 DEF Join, Goto
<1>9. ASSUME NEW q \in Requests, DBRead(q)
       PROVE  StageInv'
  BY <1>9 DEF DBRead, Goto, Hold
<1>10. ASSUME NEW q \in Requests, DBError(q)
       PROVE  StageInv'
  BY <1>10 DEF DBError, Goto
<1>11. ASSUME NEW q \in Requests, RedisSet(q)
       PROVE  StageInv'
  BY <1>11 DEF RedisSet, Goto
<1>12. ASSUME NEW q \in Requests, LeaderMemSet(q)
       PROVE  StageInv'
  BY <1>12 DEF LeaderMemSet, MemSet, Goto
<1>13. ASSUME NEW q \in Requests, Finish(q)
       PROVE  StageInv'
  BY <1>13 DEF Finish
<1>14. ASSUME NEW q \in Requests, Reply(q)
       PROVE  StageInv'
  BY <1>14 DEF Reply, Goto, Hold
<1>15. ASSUME NEW n \in Replicas, Write(n)
       PROVE  StageInv'
  BY <1>15 DEF Write
<1>16. ASSUME NEW n \in Replicas, Janitor(n)
       PROVE  StageInv'
  BY <1>16 DEF Janitor, NoEntry
<1>17. ASSUME NEW n \in Replicas, Crash(n)
       PROVE  StageInv'
  BY <1>17 DEF Crash, NoEntry
<1>18. ASSUME NEW n \in Replicas, NEW v \in Versions, Drop(n, v)
       PROVE  StageInv'
  BY <1>18 DEF Drop, NoEntry
<1>19. CASE Tick
  BY <1>19 DEF Tick
<1>20. CASE UNCHANGED vars
  BY <1>20 DEF vars
<1>21. QED
  BY <1>1, <1>2, <1>3, <1>4, <1>5, <1>6, <1>7, <1>8, <1>9, <1>10, <1>11,
      <1>12, <1>13, <1>14, <1>15, <1>16, <1>17, <1>18, <1>19, <1>20
  DEF Next, ListClusters, InvalidateClusterCache, DeleteNothing

---------------------------------------------------------------------------
(* What one step can do to the data *)

\* In this step request q of process n puts the list it holds under k.
FilledBy(q, n, k) ==
  /\ Host[q] = n /\ key[q] = k /\ pc[q] \in {"memfill", "memset"}
  /\ mem'[n][k] = [ver |-> val[q], exp |-> now + MemTTL]
MemMoves ==
  \A n \in Replicas, k \in Keys :
    \/ mem'[n][k] = mem[n][k] \/ mem'[n][k] = NoEntry
    \/ \E q \in Requests : FilledBy(q, n, k)

(***************************************************************************)
(* An in-memory entry stays, goes, or is filled by a request of its own    *)
(* process and page (Set, Delete and the janitor are the only writers of   *)
(* InMemoryCache.items).                                                   *)
(***************************************************************************)
LEMMA MemStep == TypeOK /\ [Next]_vars => MemMoves
<1> SUFFICES ASSUME TypeOK, [Next]_vars PROVE MemMoves
  OBVIOUS
<1> USE DEF TypeOK, store, caches, who
<1>1. ASSUME NEW q \in Requests, NEW k \in Keys, Start(q, k)
       PROVE  MemMoves
  BY <1>1 DEF Start, Goto, MemMoves
<1>2. ASSUME NEW q \in Requests,
      MemGet(q) \/ MemHit(q) \/ RedisHit(q) \/
      RedisMiss(q) \/ Join(q) \/ DBRead(q) \/ DBError(q) \/ RedisSet(q) \/
      Finish(q) \/ Reply(q)
       PROVE  MemMoves
  BY <1>2 DEF MemGet, Goto, Hold, MemMoves, MemHit, RedisHit, Live,
      RedisMiss, Join, DBRead, DBError, RedisSet, Finish, Reply
<1>3. ASSUME NEW q \in Requests, MemExpired(q)
       PROVE  MemMoves
  <2>1. ASSUME NEW m \in Replicas, NEW k \in Keys
        PROVE  mem'[m][k] = mem[m][k] \/ mem'[m][k] = NoEntry
    BY <1>3 DEF MemExpired, Goto, Hold
  <2>2. QED
    BY <2>1 DEF MemMoves
<1>4. ASSUME NEW q \in Requests, MemFill(q)
       PROVE  MemMoves
  <2>1. ASSUME NEW n \in Replicas, NEW k \in Keys
        PROVE  mem'[n][k] = mem[n][k] \/ FilledBy(q, n, k)
    BY <1>4 DEF MemFill, MemSet, Goto, FilledBy
  <2>2. QED
    BY <2>1 DEF MemMoves
<1>5. ASSUME NEW q \in Requests, LeaderMemSet(q)
       PROVE  MemMoves
  <2>1. ASSUME NEW n \in Replicas, NEW k \in Keys
        PROVE  mem'[n][k] = mem[n][k] \/ FilledBy(q, n, k)
    BY <1>5 DEF LeaderMemSet, MemSet, Goto, FilledBy
  <2>2. QED
    BY <2>1 DEF MemMoves
<1>6. ASSUME NEW n \in Replicas, Write(n)
       PROVE  MemMoves
  BY <1>6 DEF Write, MemMoves
<1>7. ASSUME NEW n \in Replicas, Janitor(n)
       PROVE  MemMoves
  <2>1. ASSUME NEW m \in Replicas, NEW k \in Keys
        PROVE  mem'[m][k] = mem[m][k] \/ mem'[m][k] = NoEntry
    BY <1>7 DEF Janitor
  <2>2. QED
    BY <2>1 DEF MemMoves
<1>8. ASSUME NEW n \in Replicas, Crash(n)
       PROVE  MemMoves
  <2>1. ASSUME NEW m \in Replicas, NEW k \in Keys
        PROVE  mem'[m][k] = mem[m][k] \/ mem'[m][k] = NoEntry
    BY <1>8 DEF Crash
  <2>2. QED
    BY <2>1 DEF MemMoves
<1>9. ASSUME NEW n \in Replicas, NEW v \in Versions, Drop(n, v)
       PROVE  MemMoves
  <2>1. ASSUME NEW m \in Replicas, NEW k \in Keys
        PROVE  mem'[m][k] = mem[m][k] \/ mem'[m][k] = NoEntry
    BY <1>9 DEF Drop
  <2>2. QED
    BY <2>1 DEF MemMoves
<1>10. CASE Tick
  BY <1>10 DEF Tick, MemMoves
<1>11. CASE UNCHANGED vars
  BY <1>11 DEF vars, MemMoves
<1>12. QED
  BY <1>1, <1>2, <1>3, <1>4, <1>5, <1>6, <1>7, <1>8, <1>9, <1>10, <1>11
  DEF Next, ListClusters, InvalidateClusterCache, DeleteNothing

StoredBy(q, k) ==
  /\ key[q] = k /\ pc[q] = "redisset"
  /\ redis'[k] = [ver |-> val[q], exp |-> now + RedisTTL]
RedisMoves ==
  \A k \in Keys : redis'[k] = redis[k] \/ \E q \in Requests : StoredBy(q, k)

(***************************************************************************)
(* A Redis entry stays or is stored by a leader (RedisCache.Set).          *)
(***************************************************************************)
LEMMA RedisStep == TypeOK /\ [Next]_vars => RedisMoves
<1> SUFFICES ASSUME TypeOK, [Next]_vars PROVE RedisMoves
  OBVIOUS
<1> USE DEF TypeOK, store, caches, who
<1>1. ASSUME NEW q \in Requests, NEW k \in Keys, Start(q, k)
       PROVE  RedisMoves
  BY <1>1 DEF Start, Goto, RedisMoves
<1>2. ASSUME NEW q \in Requests,
      MemGet(q) \/ MemHit(q) \/ MemExpired(q) \/
      RedisHit(q) \/ RedisMiss(q) \/ MemFill(q) \/ Join(q) \/ DBRead(q) \/
      DBError(q) \/ LeaderMemSet(q) \/ Finish(q) \/ Reply(q)
       PROVE  RedisMoves
  BY <1>2 DEF MemGet, Goto, Hold, RedisMoves, MemHit, MemExpired, NoEntry,
      RedisHit, Live, RedisMiss, MemFill, MemSet, Join, DBRead, DBError,
      LeaderMemSet, Finish, Reply
<1>3. ASSUME NEW q \in Requests, RedisSet(q)
       PROVE  RedisMoves
  <2>1. ASSUME NEW k \in Keys
        PROVE  redis'[k] = redis[k] \/ StoredBy(q, k)
    BY <1>3 DEF RedisSet, Goto, StoredBy
  <2>2. QED
    BY <2>1 DEF RedisMoves
<1>4. ASSUME NEW n \in Replicas, Write(n)
       PROVE  RedisMoves
  BY <1>4 DEF Write, RedisMoves
<1>5. ASSUME NEW n \in Replicas, Janitor(n)
       PROVE  RedisMoves
  BY <1>5 DEF Janitor, NoEntry, RedisMoves
<1>6. ASSUME NEW n \in Replicas, Crash(n)
       PROVE  RedisMoves
  BY <1>6 DEF Crash, NoEntry, RedisMoves
<1>7. ASSUME NEW n \in Replicas, NEW v \in Versions, Drop(n, v)
       PROVE  RedisMoves
  BY <1>7 DEF Drop, NoEntry, RedisMoves
<1>8. CASE Tick
  BY <1>8 DEF Tick, RedisMoves
<1>9. CASE UNCHANGED vars
  BY <1>9 DEF vars, RedisMoves
<1>10. QED
  BY <1>1, <1>2, <1>3, <1>4, <1>5, <1>6, <1>7, <1>8, <1>9
  DEF Next, ListClusters, InvalidateClusterCache, DeleteNothing

Clocks ==
  /\ now <= now' /\ db <= db'
  /\ \A v \in Versions, t \in Int :
       v <= db /\ t <= now /\ AliveAt(v, t) => (v < db' => superseded'[v] >= t)

(***************************************************************************)
(* Time and versions only grow, and a version that was the newest one at   *)
(* an instant of the past stays one that was.                              *)
(***************************************************************************)
LEMMA ClockStep == TypeOK /\ [Next]_vars => Clocks
<1> SUFFICES ASSUME TypeOK, [Next]_vars PROVE Clocks
  OBVIOUS
<1> USE DEF TypeOK, Versions, store, caches, who
<1>1. ASSUME NEW q \in Requests, NEW k \in Keys, Start(q, k)
       PROVE  Clocks
  BY <1>1 DEF Start, Goto, Clocks, AliveAt
<1>2. ASSUME NEW q \in Requests,
      MemGet(q) \/ MemHit(q) \/ MemExpired(q) \/
      RedisHit(q) \/ RedisMiss(q) \/ MemFill(q) \/ Join(q) \/ DBRead(q) \/
      DBError(q) \/ RedisSet(q) \/ LeaderMemSet(q) \/ Finish(q) \/ Reply(q)
       PROVE  Clocks
  BY <1>2 DEF MemGet, Goto, Hold, Clocks, AliveAt, MemHit, MemExpired,
      NoEntry, RedisHit, Live, RedisMiss, MemFill, MemSet, Join, DBRead,
      DBError, RedisSet, LeaderMemSet, Finish, Reply
<1>3. ASSUME NEW n \in Replicas, Write(n)
       PROVE  Clocks
  BY <1>3 DEF Write, Clocks, AliveAt
<1>4. ASSUME NEW n \in Replicas, Janitor(n)
       PROVE  Clocks
  BY <1>4 DEF Janitor, NoEntry, Clocks, AliveAt
<1>5. ASSUME NEW n \in Replicas, Crash(n)
       PROVE  Clocks
  BY <1>5 DEF Crash, NoEntry, Clocks, AliveAt
<1>6. ASSUME NEW n \in Replicas, NEW v \in Versions, Drop(n, v)
       PROVE  Clocks
  BY <1>6 DEF Drop, NoEntry, Clocks, AliveAt
<1>7. CASE Tick
  BY <1>7 DEF Tick, Clocks, AliveAt
<1>8. CASE UNCHANGED vars
  BY <1>8 DEF vars, Clocks, AliveAt
<1>9. QED
  BY <1>1, <1>2, <1>3, <1>4, <1>5, <1>6, <1>7, <1>8
  DEF Next, ListClusters, InvalidateClusterCache, DeleteNothing

---------------------------------------------------------------------------
(* Newest and oldest copies *)

(***************************************************************************)
(* What requests hold comes from the database or from a cache.             *)
(***************************************************************************)
LEMMA HeldNewestStep == TypeOK /\ NewestInv /\ [Next]_vars => HeldNewest'
<1> SUFFICES ASSUME TypeOK, NewestInv, [Next]_vars PROVE HeldNewest'
  OBVIOUS
<1> USE DEF TypeOK, Versions, Entries, store, caches, who, NewestInv, HeldNewest
<1>1. ASSUME NEW q \in Requests, NEW k \in Keys, Start(q, k)
       PROVE  HeldNewest'
  BY <1>1 DEF Start, Goto
<1>2. ASSUME NEW q \in Requests, MemHit(q)
       PROVE  HeldNewest'
  BY <1>2 DEF MemHit, Goto
<1>3. ASSUME NEW q \in Requests, MemExpired(q)
       PROVE  HeldNewest'
  BY <1>3 DEF MemExpired, Goto, Hold, NoEntry
<1>4. ASSUME NEW q \in Requests, RedisMiss(q)
       PROVE  HeldNewest'
  BY <1>4 DEF RedisMiss, Goto
<1>5. ASSUME NEW q \in Requests, MemFill(q)
       PROVE  HeldNewest'
  BY <1>5 DEF MemFill, MemSet, Goto
<1>6. ASSUME NEW q \in Requests, Join(q)
       PROVE  HeldNewest'
  BY <1>6 DEF Join, Goto
<1>7. ASSUME NEW q \in Requests, DBRead(q)
       PROVE  HeldNewest'
  BY <1>7 DEF DBRead, Goto, Hold
<1>8. ASSUME NEW q \in Requests, DBError(q)
       PROVE  HeldNewest'
  BY <1>8 DEF DBError, Goto
<1>9. ASSUME NEW q \in Requests, RedisSet(q)
       PROVE  HeldNewest'
  BY <1>9 DEF RedisSet, Goto
<1>10. ASSUME NEW q \in Requests, LeaderMemSet(q)
       PROVE  HeldNewest'
  BY <1>10 DEF LeaderMemSet, MemSet, Goto
<1>11. ASSUME NEW q \in Requests, Finish(q)
       PROVE  HeldNewest'
  BY <1>11 DEF Finish
<1>12. ASSUME NEW q \in Requests, Reply(q)
       PROVE  HeldNewest'
  BY <1>12 DEF Reply, Goto, Hold
<1>13. ASSUME NEW q \in Requests, MemGet(q)
       PROVE  HeldNewest'
  BY <1>13 DEF MemGet, Goto, Hold, MemNewest
<1>14. ASSUME NEW q \in Requests, RedisHit(q)
       PROVE  HeldNewest'
  BY <1>14 DEF RedisHit, Goto, Hold, RedisNewest
<1>15. ASSUME NEW n \in Replicas, Write(n)
       PROVE  HeldNewest'
  <2>1. db \in Nat /\ db' = db + 1 /\ UNCHANGED <<now, pc, val, exp>>
    BY <1>15 DEF Write
  <2>2. Numbers
    BY NumbersOK
  <2>3. ASSUME NEW q \in Requests
        PROVE  val'[q] <= db' /\ (pc'[q] = "memcheck" => exp'[q] <= now' + MemTTL)
    <3>1. val[q] <= db /\ (pc[q] = "memcheck" => exp[q] <= now + MemTTL) /\ val[q] \in Nat
      BY <2>2 DEF Numbers
    <3>2. QED
      BY <2>1, <3>1
  <2>4. QED
    BY <2>3
<1>16. ASSUME NEW n \in Replicas, Janitor(n)
       PROVE  HeldNewest'
  BY <1>16 DEF Janitor, NoEntry
<1>17. ASSUME NEW n \in Replicas, Crash(n)
       PROVE  HeldNewest'
  BY <1>17 DEF Crash, NoEntry
<1>18. ASSUME NEW n \in Replicas, NEW v \in Versions, Drop(n, v)
       PROVE  HeldNewest'
  BY <1>18 DEF Drop, NoEntry
<1>19. CASE Tick
  BY <1>19 DEF Tick
<1>20. CASE UNCHANGED vars
  BY <1>20 DEF vars
<1>21. QED
  BY <1>1, <1>2, <1>3, <1>4, <1>5, <1>6, <1>7, <1>8, <1>9, <1>10, <1>11,
      <1>12, <1>13, <1>14, <1>15, <1>16, <1>17, <1>18, <1>19, <1>20
  DEF Next, ListClusters, InvalidateClusterCache, DeleteNothing

(***************************************************************************)
(* Commits and invalidations only name versions that exist.                *)
(***************************************************************************)
LEMMA WriterNewestStep == TypeOK /\ NewestInv /\ [Next]_vars => WriterNewest'
<1> SUFFICES ASSUME TypeOK, NewestInv, [Next]_vars PROVE WriterNewest'
  OBVIOUS
<1> USE DEF TypeOK, Versions, store, caches, who, NewestInv, WriterNewest
<1>1. ASSUME NEW q \in Requests, NEW k \in Keys, Start(q, k)
       PROVE  WriterNewest'
  BY <1>1 DEF Start, Goto
<1>2. ASSUME NEW q \in Requests,
      MemGet(q) \/ MemHit(q) \/ MemExpired(q) \/
      RedisHit(q) \/ RedisMiss(q) \/ MemFill(q) \/ Join(q) \/ DBRead(q) \/
      DBError(q) \/ RedisSet(q) \/ LeaderMemSet(q) \/ Finish(q) \/ Reply(q)
       PROVE  WriterNewest'
  BY <1>2 DEF MemGet, Goto, Hold, MemHit, MemExpired, NoEntry, RedisHit,
      Live, RedisMiss, MemFill, MemSet, Join, DBRead, DBError, RedisSet,
      LeaderMemSet, Finish, Reply
<1>3. ASSUME NEW n \in Replicas, Write(n)
       PROVE  WriterNewest'
  BY <1>3 DEF Write
<1>4. ASSUME NEW n \in Replicas, Janitor(n)
       PROVE  WriterNewest'
  BY <1>4 DEF Janitor, NoEntry
<1>5. ASSUME NEW n \in Replicas, Crash(n)
       PROVE  WriterNewest'
  BY <1>5 DEF Crash, NoEntry
<1>6. ASSUME NEW n \in Replicas, NEW v \in Versions, Drop(n, v),
             InvalidateClusterCache(n, v) \/ DeleteNothing(n, v)
      PROVE  WriterNewest'
  <2>1. \A m \in Replicas : unfinished'[m] \subseteq unfinished[m]
    <3>1. CASE InvalidateClusterCache(n, v)
      BY <3>1 DEF InvalidateClusterCache
    <3>2. CASE DeleteNothing(n, v)
      BY <3>2 DEF DeleteNothing
    <3>3. QED
      BY <1>6, <3>1, <3>2
  <2>2. db' = db /\ v <= db
    BY <1>6 DEF InvalidateClusterCache, DeleteNothing, Drop
  <2>3. QED
    BY <1>6, <2>1, <2>2 DEF Drop
<1>7. CASE Tick
  BY <1>7 DEF Tick
<1>8. CASE UNCHANGED vars
  BY <1>8 DEF vars
<1>9. QED
  BY <1>1, <1>2, <1>3, <1>4, <1>5, <1>6, <1>7, <1>8
  DEF Next, ListClusters, InvalidateClusterCache, DeleteNothing

(***************************************************************************)
(* No copy is newer than the database and none outlives its TTL.           *)
(***************************************************************************)
LEMMA NewestStep == TypeOK /\ TypeOK' /\ NewestInv /\ [Next]_vars => NewestInv'
<1> SUFFICES ASSUME TypeOK, TypeOK', NewestInv, [Next]_vars PROVE NewestInv'
  OBVIOUS
<1>1. Clocks /\ MemMoves /\ RedisMoves /\ Numbers /\ Numbers'
  BY ClockStep, MemStep, RedisStep, NumbersOK, NumbersOKNext
<1>2. ASSUME NEW n \in Replicas, NEW k \in Keys
      PROVE  mem'[n][k].ver <= db' /\ mem'[n][k].exp <= now' + MemTTL
  <2>1. now <= now' /\ db <= db' /\ now \in Nat /\ now' \in Nat /\ db \in Nat /\ db' \in Nat
    BY <1>1 DEF Clocks, Numbers
  <2>2. CASE mem'[n][k] = mem[n][k]
    BY <1>1, <2>1, <2>2 DEF NewestInv, MemNewest, Numbers
  <2>3. CASE mem'[n][k] = NoEntry
    <3>1. mem'[n][k].ver = 0 /\ mem'[n][k].exp = 0
      BY <2>3 DEF NoEntry
    <3>2. QED
      BY <2>1, <3>1
  <2>4. ASSUME NEW q \in Requests, FilledBy(q, n, k)
        PROVE  mem'[n][k].ver <= db' /\ mem'[n][k].exp <= now' + MemTTL
    <3>1. mem'[n][k].ver = val[q] /\ mem'[n][k].exp = now + MemTTL
      BY <2>4 DEF FilledBy
    <3>2. val[q] <= db /\ val[q] \in Nat
      BY <1>1 DEF Numbers, NewestInv, HeldNewest
    <3>3. now + MemTTL <= now' + MemTTL
      BY <2>1, AddLeq
    <3>4. val[q] <= db'
      BY <2>1, <3>2, LeqTrans
    <3>5. QED
      BY <3>1, <3>3, <3>4
  <2>5. QED
    BY <1>1, <2>2, <2>3, <2>4 DEF MemMoves
<1>3. ASSUME NEW k \in Keys
      PROVE  redis'[k].ver <= db' /\ redis'[k].exp <= now' + RedisTTL
  <2>1. now <= now' /\ db <= db' /\ now \in Nat /\ now' \in Nat /\ db \in Nat /\ db' \in Nat
    BY <1>1 DEF Clocks, Numbers
  <2>2. CASE redis'[k] = redis[k]
    BY <1>1, <2>1, <2>2 DEF NewestInv, RedisNewest, Numbers
  <2>3. ASSUME NEW q \in Requests, StoredBy(q, k)
        PROVE  redis'[k].ver <= db' /\ redis'[k].exp <= now' + RedisTTL
    <3>1. redis'[k].ver = val[q] /\ redis'[k].exp = now + RedisTTL
      BY <2>3 DEF StoredBy
    <3>2. val[q] <= db /\ val[q] \in Nat
      BY <1>1 DEF Numbers, NewestInv, HeldNewest
    <3>3. now + RedisTTL <= now' + RedisTTL
      BY <2>1, AddLeq
    <3>4. val[q] <= db'
      BY <2>1, <3>2, LeqTrans
    <3>5. QED
      BY <3>1, <3>3, <3>4
  <2>4. QED
    BY <1>1, <2>2, <2>3 DEF RedisMoves
<1>4. QED
  BY <1>2, <1>3, HeldNewestStep, WriterNewestStep DEF NewestInv, MemNewest, RedisNewest

(***************************************************************************)
(* Having been the newest version at an instant is having been that, or    *)
(* not yet replaced, at every earlier one.                                 *)
(***************************************************************************)
LEMMA AliveOlder ==
  ASSUME Numbers
  PROVE  \A v \in Versions, s, t \in Int : AliveAt(v, s) /\ t <= s => AliveAt(v, t)
  BY DEF AliveAt, Numbers, Versions

(***************************************************************************)
(* A commit replaces the newest version now: what was alive in the past    *)
(* stays alive then.                                                       *)
(***************************************************************************)
LEMMA HeldAgeWrite ==
  ASSUME TypeOK, StageInv, NewestInv, AgeInv, NEW n \in Replicas, Write(n)
  PROVE  HeldAge'
<1>1. Clocks /\ Numbers /\ UNCHANGED <<now, pc, val, exp, started>>
  BY ClockStep, NumbersOK DEF Write, Next, who
<1>2. ASSUME NEW q \in Requests, NEW t \in Int, val[q] # 0, t <= now, AliveAt(val[q], t)
      PROVE  val'[q] < db' => superseded'[val'[q]] >= t
  <2>1. val[q] \in Versions /\ val[q] <= db
    BY <1>2 DEF NewestInv, HeldNewest, TypeOK, Versions
  <2>2. QED
    BY <1>1, <1>2, <2>1 DEF Clocks
<1>3. ASSUME NEW q \in Requests, pc[q] = "memcheck"
      PROVE  exp[q] - StaleBound \in Int /\ exp[q] - StaleBound <= now /\ val[q] # 0
  BY <1>1, <1>3 DEF NewestInv, HeldNewest, StageInv, Holding, Numbers, StaleBound
<1>4. ASSUME NEW q \in Requests, pc[q] = "memfill"
      PROVE  /\ started[q] - ReqTimeout - RedisTTL \in Int
             /\ started[q] - ReqTimeout - RedisTTL <= now /\ val[q] # 0
  BY <1>1, <1>4 DEF StageInv, Holding, Working, Numbers
<1>5. ASSUME NEW q \in Requests, pc[q] \in {"redisset", "memset", "finish"}
      PROVE  started[q] \in Int /\ started[q] <= now
  BY <1>1, <1>5 DEF StageInv, Working, Numbers
<1>6. QED
  BY <1>1, <1>2, <1>3, <1>4, <1>5 DEF AgeInv, HeldAge, AliveAt

(***************************************************************************)
(* A request's copy is as old as the place it was read from allows.        *)
(***************************************************************************)
LEMMA HeldAgeStep ==
  TypeOK /\ StageInv /\ NewestInv /\ AgeInv /\ [Next]_vars => HeldAge'
<1> SUFFICES ASSUME TypeOK, StageInv, NewestInv, AgeInv, [Next]_vars PROVE HeldAge'
  OBVIOUS
<1>a. Numbers
  BY NumbersOK
<1> USE DEF store, caches, who, AgeInv, HeldAge, AliveAt
<1>1. ASSUME NEW q \in Requests, NEW k \in Keys, Start(q, k)
       PROVE  HeldAge'
  BY <1>1 DEF Start, Goto, TypeOK
<1>2. ASSUME NEW q \in Requests,
      MemHit(q) \/ MemExpired(q) \/
      RedisMiss(q) \/ MemFill(q) \/ Join(q) \/ RedisSet(q) \/
      LeaderMemSet(q) \/ Finish(q) \/ Reply(q)
       PROVE  HeldAge'
  BY <1>2 DEF MemHit, Goto, TypeOK, MemExpired, Hold, NoEntry, RedisMiss,
      MemFill, MemSet, Join, RedisSet, LeaderMemSet, Finish, Reply
<1>3. ASSUME NEW q \in Requests, MemGet(q)
       PROVE  HeldAge'
  BY <1>3 DEF MemGet, Goto, Hold, MemAge, TypeOK
<1>4. ASSUME NEW q \in Requests, RedisHit(q)
       PROVE  HeldAge'
  <2> DEFINE e == redis[key[q]]
  <2>1. e.ver \in Versions /\ e.exp \in Nat /\ started[q] \in Nat /\ now \in Nat
    BY <1>4 DEF RedisHit, Live, TypeOK, Versions, Entries
  <2>2. started[q] <= now /\ now <= e.exp
    BY <1>4 DEF RedisHit, Live, StageInv, Working
  <2>3. AliveAt(e.ver, e.exp - RedisTTL - ReqTimeout)
    BY <1>4 DEF RedisHit, Live, RedisAge, TypeOK
  <2>4. AliveAt(e.ver, started[q] - ReqTimeout - RedisTTL)
    <3>1. /\ e.exp - RedisTTL - ReqTimeout \in Int /\ started[q] - ReqTimeout - RedisTTL \in Int
          /\ started[q] - ReqTimeout - RedisTTL <= e.exp - RedisTTL - ReqTimeout
      BY <2>1, <2>2
    <3> HIDE DEF e, AliveAt
    <3>2. QED
      BY <1>a, <2>1, <2>3, <3>1, AliveOlder
  <2>5. QED
    BY <1>4, <2>4 DEF RedisHit, Goto, Hold, TypeOK
<1>5. ASSUME NEW q \in Requests, DBRead(q)
       PROVE  HeldAge'
  <2>1. ~(db < db)
    BY <1>a DEF Numbers
  <2>2. QED
    BY <1>5, <2>1 DEF DBRead, Goto, Hold, TypeOK
<1>6. ASSUME NEW q \in Requests, DBError(q)
       PROVE  HeldAge'
  BY <1>6 DEF DBError, Goto, StageInv, Empty, TypeOK
<1>7. ASSUME NEW n \in Replicas, Write(n)
       PROVE  HeldAge'
  BY <1>7, HeldAgeWrite
<1>8. ASSUME NEW n \in Replicas, Janitor(n)
       PROVE  HeldAge'
  BY <1>8 DEF Janitor, NoEntry, TypeOK
<1>9. ASSUME NEW n \in Replicas, Crash(n)
       PROVE  HeldAge'
  BY <1>9 DEF Crash, NoEntry, TypeOK
<1>10. ASSUME NEW n \in Replicas, NEW v \in Versions, Drop(n, v)
       PROVE  HeldAge'
  BY <1>10 DEF Drop, NoEntry, TypeOK
<1>11. CASE Tick
  BY <1>11 DEF Tick, TypeOK
<1>12. CASE UNCHANGED vars
  BY <1>12 DEF vars, TypeOK
<1>13. QED
  BY <1>1, <1>2, <1>3, <1>4, <1>5, <1>6, <1>7, <1>8, <1>9, <1>10, <1>11,
      <1>12
  DEF Next, ListClusters, InvalidateClusterCache, DeleteNothing

(***************************************************************************)
(* Redis never holds a list replaced more than RedisTTL + ReqTimeout       *)
(* before the entry expires.                                               *)
(***************************************************************************)
LEMMA RedisAgeStep ==
  TypeOK /\ StageInv /\ NewestInv /\ AgeInv /\ [Next]_vars => RedisAge'
<1> SUFFICES ASSUME TypeOK, StageInv, NewestInv, AgeInv, [Next]_vars,
                    NEW k \in Keys, redis'[k].ver # 0
             PROVE  redis'[k].ver < db' =>
                      superseded'[redis'[k].ver] >= redis'[k].exp - RedisTTL - ReqTimeout
  BY DEF RedisAge, AliveAt
<1>1. Numbers /\ Clocks /\ RedisMoves
  BY NumbersOK, ClockStep, RedisStep
<1>2. CASE redis'[k] = redis[k]
  <2>1. redis[k].ver \in Versions /\ redis[k].ver <= db
    BY <1>2 DEF NewestInv, RedisNewest, TypeOK, Versions, Entries
  <2>2. /\ redis[k].exp - RedisTTL - ReqTimeout \in Int
        /\ redis[k].exp - RedisTTL - ReqTimeout <= now
    BY <1>1 DEF NewestInv, RedisNewest, Numbers
  <2>3. AliveAt(redis[k].ver, redis[k].exp - RedisTTL - ReqTimeout)
    BY <1>2 DEF AgeInv, RedisAge
  <2>4. QED
    BY <1>1, <1>2, <2>1, <2>2, <2>3 DEF Clocks
<1>3. ASSUME NEW q \in Requests, StoredBy(q, k)
      PROVE  redis'[k].ver < db' =>
               superseded'[redis'[k].ver] >= redis'[k].exp - RedisTTL - ReqTimeout
  <2>1. redis'[k].ver = val[q] /\ redis'[k].exp = now + RedisTTL
    BY <1>3 DEF StoredBy
  <2>2. val[q] \in Versions /\ val[q] <= db
    BY <2>1 DEF NewestInv, HeldNewest, TypeOK, Versions
  <2>3. AliveAt(val[q], started[q])
    BY <1>3, <2>2 DEF StoredBy, AgeInv, HeldAge, Versions
  <2>4. /\ now - ReqTimeout \in Int /\ now - ReqTimeout <= now /\ started[q] \in Int
        /\ now - ReqTimeout <= started[q] /\ now \in Int /\ now + RedisTTL \in Int
    BY <1>1, <1>3 DEF StoredBy, StageInv, Working, Numbers
  <2>5. AliveAt(val[q], now - ReqTimeout)
    BY <1>1, <2>2, <2>3, <2>4, AliveOlder
  <2>6. val[q] < db' => superseded'[val[q]] >= now - ReqTimeout
    BY <1>1, <2>2, <2>4, <2>5 DEF Clocks
  <2>7. \A e \in Int : e = now + RedisTTL => e - RedisTTL - ReqTimeout = now - ReqTimeout
    BY <2>4
  <2>8. QED
    BY <2>1, <2>4, <2>6, <2>7
<1>4. QED
  BY <1>1, <1>2, <1>3 DEF RedisMoves

(***************************************************************************)
(* No in-memory cache holds a list replaced more than StaleBound before    *)
(* the entry expires, whether it came from the database or from Redis.     *)
(***************************************************************************)
LEMMA MemAgeStep ==
  TypeOK /\ StageInv /\ NewestInv /\ AgeInv /\ [Next]_vars => MemAge'
<1> SUFFICES ASSUME TypeOK, StageInv, NewestInv, AgeInv, [Next]_vars,
                    NEW n \in Replicas, NEW k \in Keys, mem'[n][k].ver # 0
             PROVE  mem'[n][k].ver < db' =>
                      superseded'[mem'[n][k].ver] >= mem'[n][k].exp - StaleBound
  BY DEF MemAge, AliveAt
<1>1. Numbers /\ Clocks /\ MemMoves
  BY NumbersOK, ClockStep, MemStep
<1>2. CASE mem'[n][k] = mem[n][k]
  <2>1. mem[n][k].ver \in Versions /\ mem[n][k].ver <= db
    BY <1>2 DEF NewestInv, MemNewest, TypeOK, Versions, Entries
  <2>2. mem[n][k].exp - StaleBound \in Int /\ mem[n][k].exp - StaleBound <= now
    BY <1>1 DEF NewestInv, MemNewest, Numbers, StaleBound
  <2>3. AliveAt(mem[n][k].ver, mem[n][k].exp - StaleBound)
    BY <1>2 DEF AgeInv, MemAge
  <2>4. QED
    BY <1>1, <1>2, <2>1, <2>2, <2>3 DEF Clocks
<1>3. CASE mem'[n][k] = NoEntry
  BY <1>3 DEF NoEntry
<1>4. ASSUME NEW q \in Requests, FilledBy(q, n, k)
      PROVE  mem'[n][k].ver < db' =>
               superseded'[mem'[n][k].ver] >= mem'[n][k].exp - StaleBound
  <2> DEFINE T == started[q] - ReqTimeout - RedisTTL
             U == now - 2 * ReqTimeout - RedisTTL
  <2>1. mem'[n][k].ver = val[q] /\ mem'[n][k].exp = now + MemTTL
    BY <1>4 DEF FilledBy
  <2>2. val[q] \in Versions /\ val[q] <= db
    BY <2>1 DEF NewestInv, HeldNewest, TypeOK, Versions
  <2>3. /\ T \in Int /\ U \in Int /\ U <= T /\ U <= now /\ started[q] \in Int /\ U <= started[q]
        /\ now \in Int /\ now + MemTTL \in Int
    BY <1>1, <1>4 DEF FilledBy, StageInv, Working, Numbers, StaleBound
  <2>4. AliveAt(val[q], T) \/ AliveAt(val[q], started[q])
    BY <1>4, <2>2 DEF FilledBy, AgeInv, HeldAge, Versions
  <2> HIDE DEF T, U
  <2>5. AliveAt(val[q], U)
    BY <1>1, <2>2, <2>3, <2>4, AliveOlder
  <2>6. val[q] < db' => superseded'[val[q]] >= U
    BY <1>1, <2>2, <2>3, <2>5 DEF Clocks
  <2>7. \A e \in Int : e = now + MemTTL => e - StaleBound = U
    BY <2>3 DEF StaleBound, U
  <2>8. QED
    BY <2>1, <2>3, <2>6, <2>7
<1>5. QED
  BY <1>1, <1>2, <1>3, <1>4 DEF MemMoves

(***************************************************************************)
(* Every step keeps the bound on the age of a list wherever it is held:    *)
(* Redis, an in-memory cache, or a request (ListClusters and its caches).  *)
(***************************************************************************)
LEMMA AgeStep == TypeOK /\ StageInv /\ NewestInv /\ AgeInv /\ [Next]_vars => AgeInv'
  BY HeldAgeStep, RedisAgeStep, MemAgeStep DEF AgeInv

---------------------------------------------------------------------------
(* Flights *)

(***************************************************************************)
(* A request's way through singleflight keeps the call's members, its one  *)
(* leader and its waiters together.                                        *)
(***************************************************************************)
LEMMA FlightStep == TypeOK /\ FlightInv /\ [Next]_vars => FlightInv'
<1> SUFFICES ASSUME TypeOK, FlightInv, [Next]_vars PROVE FlightInv'
  OBVIOUS
<1> USE DEF TypeOK, store, caches, who, FlightInv, Leading, OneFlightPerKey
<1>1. ASSUME NEW q \in Requests, NEW k \in Keys, Start(q, k)
       PROVE  FlightInv'
  <2>1. \A m \in Replicas, p \in Keys : \A r \in flight'[m][p] :
         Host[r] = m /\ key'[r] = p /\ (Leading(r)' \/ pc'[r] = "wait")
    BY <1>1 DEF Start, Goto
  <2>2. \A r \in Requests : Leading(r)' \/ pc'[r] = "wait" => r \in flight'[Host[r]][key'[r]]
    BY <1>1 DEF Start, Goto
  <2>3. OneFlightPerKey'
    <3>1. \A r, s \in Requests :
            Leading(r)' /\ Leading(s)' /\ Host[r] = Host[s] /\ key'[r] = key'[s] => r = s
      BY <1>1 DEF Start, Goto
    <3>2. ASSUME NEW w \in Requests, pc'[w] = "wait"
          PROVE  \E r \in Requests : Leading(r)' /\ Host[w] = Host[r] /\ key'[w] = key'[r]
      <4>1. w # q /\ pc[w] = "wait"
        BY <1>1, <3>2 DEF Start, Goto
      <4>2. PICK r \in Requests : Leading(r) /\ Host[w] = Host[r] /\ key[w] = key[r]
        BY <4>1
      <4>3. Leading(r)' /\ key'[w] = key[w] /\ key'[r] = key[r]
        BY <1>1, <4>1, <4>2 DEF Start, Goto
      <4>4. QED
        BY <4>2, <4>3
    <3>3. QED
      BY <3>1, <3>2
  <2>4. QED
    BY <2>1, <2>2, <2>3
<1>2. ASSUME NEW q \in Requests, MemGet(q)
       PROVE  FlightInv'
  BY <1>2 DEF MemGet, Goto, Hold
<1>3. ASSUME NEW q \in Requests, MemHit(q)
       PROVE  FlightInv'
  BY <1>3 DEF MemHit, Goto
<1>4. ASSUME NEW q \in Requests, RedisHit(q)
       PROVE  FlightInv'
  BY <1>4 DEF RedisHit, Goto, Hold, Live
<1>5. ASSUME NEW q \in Requests, RedisMiss(q)
       PROVE  FlightInv'
  BY <1>5 DEF RedisMiss, Goto
<1>6. ASSUME NEW q \in Requests, MemFill(q)
       PROVE  FlightInv'
  <2>1. /\ pc[q] = "memfill" /\ pc' = [pc EXCEPT ![q] = "reply"]
        /\ UNCHANGED <<key, flight>>
    BY <1>6 DEF MemFill, Goto
  <2>2. QED
    BY <2>1
<1>7. ASSUME NEW q \in Requests, DBRead(q)
       PROVE  FlightInv'
  BY <1>7 DEF DBRead, Goto, Hold
<1>8. ASSUME NEW q \in Requests, DBError(q)
       PROVE  FlightInv'
  BY <1>8 DEF DBError, Goto
<1>9. ASSUME NEW q \in Requests, RedisSet(q)
       PROVE  FlightInv'
  BY <1>9 DEF RedisSet, Goto
<1>10. ASSUME NEW q \in Requests, LeaderMemSet(q)
       PROVE  FlightInv'
  BY <1>10 DEF LeaderMemSet, MemSet, Goto
<1>11. ASSUME NEW q \in Requests, MemExpired(q)
       PROVE  FlightInv'
  <2>1. /\ key' = key /\ flight' = flight /\ pc[q] = "memcheck"
        /\ pc' = [pc EXCEPT ![q] = "redisget"]
    BY <1>11 DEF MemExpired, Goto
  <2>2. QED
    BY <2>1
<1>12. ASSUME NEW q \in Requests, Join(q)
       PROVE  FlightInv'
  <2>1. \A m \in Replicas, p \in Keys : \A r \in flight'[m][p] :
         Host[r] = m /\ key'[r] = p /\ (Leading(r)' \/ pc'[r] = "wait")
    BY <1>12 DEF Join, Goto
  <2>2. \A r \in Requests : Leading(r)' \/ pc'[r] = "wait" => r \in flight'[Host[r]][key'[r]]
    BY <1>12 DEF Join, Goto
  <2>3. OneFlightPerKey'
    <3>1. CASE flight[Host[q]][key[q]] = {}
      <4>1. /\ pc' = [pc EXCEPT ![q] = "dbread"] /\ key' = key
            /\ \A r \in Requests : Host[r] = Host[q] /\ key[r] = key[q] =>
                 ~Leading(r) /\ pc[r] # "wait"
        BY <1>12, <3>1 DEF Join, Goto
      <4>2. ASSUME NEW r \in Requests, NEW s \in Requests, Leading(r)', Leading(s)',
                   Host[r] = Host[s], key'[r] = key'[s]
            PROVE  r = s
        BY <4>1, <4>2
      <4>3. ASSUME NEW w \in Requests, pc'[w] = "wait"
            PROVE  \E r \in Requests : Leading(r)' /\ Host[w] = Host[r] /\ key'[w] = key'[r]
        <5>1. pc[w] = "wait"
          BY <4>1, <4>3
        <5>2. PICK r \in Requests : Leading(r) /\ Host[w] = Host[r] /\ key[w] = key[r]
          BY <5>1
        <5>3. QED
          BY <4>1, <5>2
      <4>4. QED
        BY <4>2, <4>3
    <3>2. CASE flight[Host[q]][key[q]] # {}
      <4>1. pc' = [pc EXCEPT ![q] = "wait"] /\ key' = key /\ pc[q] = "join"
        BY <1>12, <3>2 DEF Join, Goto
      <4>2. \A r, s \in Requests :
              Leading(r)' /\ Leading(s)' /\ Host[r] = Host[s] /\ key'[r] = key'[s] => r = s
        BY <4>1
      <4>3. \E r \in Requests : Leading(r) /\ Host[q] = Host[r] /\ key[q] = key[r]
        BY <3>2, HostAssumption
      <4>4. ASSUME NEW w \in Requests, pc'[w] = "wait"
            PROVE  \E r \in Requests : Leading(r)' /\ Host[w] = Host[r] /\ key'[w] = key'[r]
        <5>1. PICK r \in Requests : Leading(r) /\ Host[w] = Host[r] /\ key[w] = key[r]
          BY <4>1, <4>3, <4>4
        <5>2. QED
          BY <4>1, <5>1
      <4>5. QED
        BY <4>2, <4>4
    <3>3. QED
      BY <3>1, <3>2
  <2>4. QED
    BY <2>1, <2>2, <2>3
<1>13. ASSUME NEW q \in Requests, Finish(q)
       PROVE  FlightInv'
  <2>1. \A m \in Replicas, p \in Keys : \A r \in flight'[m][p] :
         Host[r] = m /\ key'[r] = p /\ (Leading(r)' \/ pc'[r] = "wait")
    BY <1>13 DEF Finish
  <2>2. \A r \in Requests : Leading(r)' \/ pc'[r] = "wait" => r \in flight'[Host[r]][key'[r]]
    BY <1>13 DEF Finish
  <2>3. OneFlightPerKey'
    BY <1>13 DEF Finish
  <2>4. QED
    BY <2>1, <2>2, <2>3
<1>14. ASSUME NEW q \in Requests, Reply(q)
       PROVE  FlightInv'
  <2>1. \A m \in Replicas, p \in Keys : \A r \in flight'[m][p] :
         Host[r] = m /\ key'[r] = p /\ (Leading(r)' \/ pc'[r] = "wait")
    BY <1>14 DEF Reply, Goto, Hold
  <2>2. \A r \in Requests : Leading(r)' \/ pc'[r] = "wait" => r \in flight'[Host[r]][key'[r]]
    BY <1>14 DEF Reply, Goto, Hold
  <2>3. OneFlightPerKey'
    <3>1. \A r, s \in Requests :
            Leading(r)' /\ Leading(s)' /\ Host[r] = Host[s] /\ key'[r] = key'[s] => r = s
      BY <1>14 DEF Reply, Goto, Hold
    <3>2. ASSUME NEW w \in Requests, pc'[w] = "wait"
          PROVE  \E r \in Requests : Leading(r)' /\ Host[w] = Host[r] /\ key'[w] = key'[r]
      <4>1. w # q /\ pc[w] = "wait"
        BY <1>14, <3>2 DEF Reply, Goto, Hold
      <4>2. PICK r \in Requests : Leading(r) /\ Host[w] = Host[r] /\ key[w] = key[r]
        BY <4>1
      <4>3. Leading(r)' /\ key'[w] = key[w] /\ key'[r] = key[r]
        BY <1>14, <4>1, <4>2 DEF Reply, Goto, Hold
      <4>4. QED
        BY <4>2, <4>3
    <3>3. QED
      BY <3>1, <3>2
  <2>4. QED
    BY <2>1, <2>2, <2>3
<1>15. ASSUME NEW n \in Replicas, Write(n)
       PROVE  FlightInv'
  BY <1>15 DEF Write
<1>16. ASSUME NEW n \in Replicas, Janitor(n)
       PROVE  FlightInv'
  BY <1>16 DEF Janitor, NoEntry
<1>17. ASSUME NEW n \in Replicas, Crash(n)
       PROVE  FlightInv'
  <2>1. \A m \in Replicas, p \in Keys : \A r \in flight'[m][p] :
         Host[r] = m /\ key'[r] = p /\ (Leading(r)' \/ pc'[r] = "wait")
    BY <1>17 DEF Crash, NoEntry
  <2>2. \A r \in Requests : Leading(r)' \/ pc'[r] = "wait" => r \in flight'[Host[r]][key'[r]]
    BY <1>17 DEF Crash, NoEntry
  <2>3. OneFlightPerKey'
    BY <1>17 DEF Crash, NoEntry
  <2>4. QED
    BY <2>1, <2>2, <2>3
<1>18. ASSUME NEW n \in Replicas, NEW v \in Versions, Drop(n, v)
       PROVE  FlightInv'
  BY <1>18 DEF Drop, NoEntry
<1>19. CASE Tick
  BY <1>19 DEF Tick
<1>20. CASE UNCHANGED vars
  BY <1>20 DEF vars
<1>21. QED
  BY <1>1, <1>2, <1>3, <1>4, <1>5, <1>6, <1>7, <1>8, <1>9, <1>10, <1>11,
      <1>12, <1>13, <1>14, <1>15, <1>16, <1>17, <1>18, <1>19, <1>20
  DEF Next, ListClusters, InvalidateClusterCache, DeleteNothing

---------------------------------------------------------------------------
(* Invalidation *)

(***************************************************************************)
(* What requests hold of the default page is no older than the processes   *)
(* they can still store it in were promised.                               *)
(***************************************************************************)
LEMMA HeldFreshStep ==
  TypeOK /\ StageInv /\ NewestInv /\ FreshInv /\ [Next]_vars => HeldFresh'
<1> SUFFICES ASSUME TypeOK, StageInv, NewestInv, FreshInv, [Next]_vars PROVE HeldFresh'
  OBVIOUS
<1>a. Numbers
  BY NumbersOK
<1> USE DEF TypeOK, store, caches, who, FreshInv, HeldFresh, CanFill, Working
<1>1. ASSUME NEW q \in Requests, NEW k \in Keys, Start(q, k)
       PROVE  HeldFresh'
  BY <1>1 DEF Start, Goto, StageInv, Empty
<1>2. ASSUME NEW q \in Requests,
      MemHit(q) \/ MemExpired(q) \/
      RedisMiss(q) \/ MemFill(q) \/ Join(q) \/ DBError(q) \/ RedisSet(q) \/
      LeaderMemSet(q) \/ Finish(q) \/ Reply(q)
       PROVE  HeldFresh'
  BY <1>2 DEF MemHit, Goto, MemExpired, Hold, NoEntry, RedisMiss, MemFill,
      MemSet, Join, DBError, RedisSet, LeaderMemSet, Finish, Reply
<1>3. ASSUME NEW q \in Requests, MemGet(q)
       PROVE  HeldFresh'
  BY <1>3 DEF MemGet, Goto, Hold, MemFresh
<1>4. ASSUME NEW q \in Requests, RedisHit(q)
       PROVE  HeldFresh'
  BY <1>4 DEF RedisHit, Goto, Hold, RedisFresh
<1>5. ASSUME NEW q \in Requests, DBRead(q)
       PROVE  HeldFresh'
  BY <1>5 DEF DBRead, Goto, Hold, NewestInv, WriterNewest, Versions
<1>6. ASSUME NEW n \in Replicas, Write(n)
       PROVE  HeldFresh'
  BY <1>6 DEF Write
<1>7. ASSUME NEW n \in Replicas, Janitor(n)
       PROVE  HeldFresh'
  BY <1>7 DEF Janitor, NoEntry
<1>8. ASSUME NEW n \in Replicas, Crash(n)
       PROVE  HeldFresh'
  BY <1>8 DEF Crash, NoEntry
<1>9. ASSUME NEW n \in Replicas, NEW v \in Versions, Drop(n, v)
       PROVE  HeldFresh'
  <2>1. CASE fresh' = fresh
    BY <1>9, <2>1 DEF Drop
  <2>2. CASE fresh' = [fresh EXCEPT ![n] = v] /\ Quiet(n, v)
    BY <1>9, <2>2 DEF Drop, Quiet
  <2>3. QED
    BY <1>9, <2>1, <2>2 DEF Drop
<1>10. CASE Tick
  BY <1>10 DEF Tick
<1>11. CASE UNCHANGED vars
  BY <1>11 DEF vars
<1>12. QED
  BY <1>1, <1>2, <1>3, <1>4, <1>5, <1>6, <1>7, <1>8, <1>9, <1>10, <1>11
  DEF Next, ListClusters, InvalidateClusterCache, DeleteNothing

(***************************************************************************)
(* Only an invalidation that finds nothing older around raises the version *)
(* a process is good for.                                                  *)
(***************************************************************************)
LEMMA FreshMoves ==
  TypeOK /\ [Next]_vars =>
    \/ fresh' = fresh
    \/ \E n \in Replicas, v \in Versions : /\ Drop(n, v) /\ Quiet(n, v)
                                           /\ fresh' = [fresh EXCEPT ![n] = v]
<1> DEFINE Goal ==
       \/ fresh' = fresh
       \/ \E n \in Replicas, v \in Versions : /\ Drop(n, v) /\ Quiet(n, v)
                                              /\ fresh' = [fresh EXCEPT ![n] = v]
<1> SUFFICES ASSUME TypeOK, [Next]_vars PROVE Goal
  OBVIOUS
<1> USE DEF TypeOK, store, caches, who
<1>1. ASSUME NEW q \in Requests, NEW k \in Keys, Start(q, k)
       PROVE  Goal
  BY <1>1 DEF Start, Goto
<1>2. ASSUME NEW q \in Requests,
      MemGet(q) \/ MemHit(q) \/ MemExpired(q) \/
      RedisHit(q) \/ RedisMiss(q) \/ MemFill(q) \/ Join(q) \/ DBRead(q) \/
      DBError(q) \/ RedisSet(q) \/ LeaderMemSet(q) \/ Finish(q) \/ Reply(q)
       PROVE  Goal
  BY <1>2 DEF MemGet, Goto, Hold, MemHit, MemExpired, RedisHit, Live,
      RedisMiss, MemFill, MemSet, Join, DBRead, DBError, RedisSet,
      LeaderMemSet, Finish, Reply
<1>3. ASSUME NEW n \in Replicas, Write(n)
       PROVE  Goal
  BY <1>3 DEF Write
<1>4. ASSUME NEW n \in Replicas, Janitor(n)
       PROVE  Goal
  BY <1>4 DEF Janitor
<1>5. ASSUME NEW n \in Replicas, Crash(n)
       PROVE  Goal
  BY <1>5 DEF Crash
<1>6. ASSUME NEW n \in Replicas, NEW v \in Versions, Drop(n, v)
       PROVE  Goal
  <2>1. CASE Quiet(n, v) /\ v > fresh[n]
    <3>1. fresh' = [fresh EXCEPT ![n] = v]
      BY <1>6, <2>1 DEF Drop
    <3>2. QED
      BY <1>6, <2>1, <3>1
  <2>2. CASE ~(Quiet(n, v) /\ v > fresh[n])
    BY <1>6, <2>2 DEF Drop
  <2>3. QED
    BY <2>1, <2>2
<1>7. CASE Tick
  BY <1>7 DEF Tick
<1>8. CASE UNCHANGED vars
  BY <1>8 DEF vars
<1>9. QED
  BY <1>1, <1>2, <1>3, <1>4, <1>5, <1>6, <1>7, <1>8
  DEF Next, ListClusters, InvalidateClusterCache, DeleteNothing

(***************************************************************************)
(* After a quiet invalidation nothing older comes back into the process's  *)
(* default page, neither from a request under way nor from Redis.          *)
(***************************************************************************)
LEMMA FreshStep ==
  TypeOK /\ StageInv /\ NewestInv /\ FreshInv /\ [Next]_vars => FreshInv'
<1> SUFFICES ASSUME TypeOK, StageInv, NewestInv, FreshInv, [Next]_vars PROVE FreshInv'
  OBVIOUS
<1>1. Numbers /\ Clocks /\ RedisMoves /\ MemMoves
  BY NumbersOK, ClockStep, RedisStep, MemStep
<1>2. now \in Nat /\ now' \in Nat /\ now <= now'
  <2>1. now' \in Nat
    BY TypeStep DEF TypeOK
  <2>2. QED
    BY <1>1, <2>1 DEF Numbers, Clocks
<1>3. redis'[DefaultKey] = redis[DefaultKey] /\ Live(redis[DefaultKey])' => Live(redis[DefaultKey])
  BY <1>1, <1>2, LeqTrans DEF Live, Numbers
<1>4. CASE fresh' = fresh
  <2>1. RedisFresh'
    <3> SUFFICES ASSUME NEW n \in Replicas, Live(redis[DefaultKey])'
                 PROVE  redis'[DefaultKey].ver >= fresh[n]
      BY <1>4 DEF RedisFresh
    <3>1. CASE redis'[DefaultKey] = redis[DefaultKey]
      BY <1>3, <3>1 DEF FreshInv, RedisFresh
    <3>2. ASSUME NEW q \in Requests, StoredBy(q, DefaultKey)
          PROVE  redis'[DefaultKey].ver >= fresh[n]
      <4>1. redis'[DefaultKey].ver = val[q]
        BY <3>2 DEF StoredBy
      <4>2. CanFill(q, n)
        BY <3>2 DEF StoredBy, CanFill, StageInv, Holding, Working
      <4>3. QED
        BY <4>1, <4>2 DEF FreshInv, HeldFresh
    <3>3. QED
      BY <1>1, <3>1, <3>2 DEF RedisMoves
  <2>2. MemFresh'
    <3> SUFFICES ASSUME NEW n \in Replicas, mem'[n][DefaultKey].ver # 0
                 PROVE  mem'[n][DefaultKey].ver >= fresh[n]
      BY <1>4 DEF MemFresh
    <3>1. CASE mem'[n][DefaultKey] = mem[n][DefaultKey]
      BY <3>1 DEF FreshInv, MemFresh
    <3>2. CASE mem'[n][DefaultKey] = NoEntry
      BY <3>2 DEF NoEntry
    <3>3. ASSUME NEW q \in Requests, FilledBy(q, n, DefaultKey)
          PROVE  mem'[n][DefaultKey].ver >= fresh[n]
      <4>1. mem'[n][DefaultKey].ver = val[q]
        BY <3>3 DEF FilledBy
      <4>2. CanFill(q, n)
        BY <3>3 DEF FilledBy, CanFill, StageInv, Holding, Working
      <4>3. QED
        BY <4>1, <4>2 DEF FreshInv, HeldFresh
    <3>4. QED
      BY <1>1, <3>1, <3>2, <3>3 DEF MemMoves
  <2>3. QED
    BY <2>1, <2>2, HeldFreshStep DEF FreshInv
<1>5. ASSUME NEW n \in Replicas, NEW v \in Versions, Drop(n, v),
             Quiet(n, v), fresh' = [fresh EXCEPT ![n] = v]
      PROVE  FreshInv'
  <2>1. fresh \in [Replicas -> Versions] /\ mem \in [Replicas -> [Keys -> Entries]]
    BY DEF TypeOK
  <2>2. RedisFresh'
    <3>1. redis' = redis /\ now' = now
      BY <1>5 DEF Drop
    <3>2. QED
      BY <1>5, <2>1, <3>1 DEF FreshInv, RedisFresh, Quiet, Live
  <2>3. MemFresh'
    <3> SUFFICES ASSUME NEW m \in Replicas, mem'[m][DefaultKey].ver # 0
                 PROVE  mem'[m][DefaultKey].ver >= fresh'[m]
      BY DEF MemFresh
    <3>1. mem' = [mem EXCEPT ![n][DefaultKey] = NoEntry]
      BY <1>5 DEF Drop
    <3>2. m # n
      BY <2>1, <3>1 DEF NoEntry
    <3>3. mem'[m] = mem[m] /\ fresh'[m] = fresh[m]
      BY <1>5, <2>1, <3>1, <3>2
    <3>4. QED
      BY <3>3 DEF FreshInv, MemFresh
  <2>4. QED
    BY <2>2, <2>3, HeldFreshStep DEF FreshInv
<1>6. QED
  BY <1>4, <1>5, FreshMoves

---------------------------------------------------------------------------
(* Theorems *)

(***************************************************************************)
(* A started system with empty caches satisfies the invariant.             *)
(***************************************************************************)
LEMMA InitInv == Init => IInv
<1> SUFFICES ASSUME Init PROVE IInv
  OBVIOUS
<1> USE DEF Init
<1>1. TypeOK
  BY DEF TypeOK, Versions, Entries, NoEntry, Stages
<1>2. StageInv
  BY DEF StageInv, Working, Empty, Holding
<1>3. NewestInv
  BY DEF NewestInv, WriterNewest, MemNewest, RedisNewest, HeldNewest, NoEntry
<1>4. AgeInv
  BY DEF AgeInv, RedisAge, MemAge, HeldAge, NoEntry
<1>5. FlightInv
  BY DEF FlightInv, OneFlightPerKey, Leading
<1>6. FreshInv
  BY DEF FreshInv, RedisFresh, MemFresh, HeldFresh, NoEntry, Live, CanFill
<1>7. QED
  BY <1>1, <1>2, <1>3, <1>4, <1>5, <1>6 DEF IInv

(***************************************************************************)
(* The invariant of the cluster list holds in every reachable state.       *)
(***************************************************************************)
THEOREM Invariance == Spec => []IInv
<1>1. IInv /\ [Next]_vars => IInv'
  BY TypeStep, StageStep, NewestStep, AgeStep, FlightStep, FreshStep DEF IInv
<1>2. QED
  BY InitInv, <1>1, PTL DEF Spec

(***************************************************************************)
(* Every variable of the cluster list has its type in every reachable      *)
(* state, for any number of processes, goroutines and pages.               *)
(***************************************************************************)
THEOREM TypeCorrect == Spec => []TypeOK
<1>1. IInv => TypeOK
  BY DEF IInv
<1>2. QED
  BY Invariance, <1>1, PTL

(***************************************************************************)
(* The coalescer lets one request per process and page read the database   *)
(* at a time, and strands nobody behind a call that has ended.             *)
(***************************************************************************)
THEOREM Coalescing == Spec => []OneFlightPerKey
<1>1. IInv => OneFlightPerKey
  BY DEF IInv, FlightInv
<1>2. QED
  BY Invariance, <1>1, PTL

(***************************************************************************)
(* The steps that can answer a request with a list: an in-memory hit, a    *)
(* fill from Redis, or the end of the request's flight.                    *)
(***************************************************************************)
LEMMA AnswerSteps ==
  ASSUME TypeOK, [Next]_vars, NEW q \in Requests, Answered(q)
  PROVE  \/ MemHit(q) \/ MemFill(q)
         \/ \E p \in Requests : Finish(p) /\ q \in flight[Host[p]][key[p]]
<1> DEFINE Goal == \/ MemHit(q) \/ MemFill(q)
                   \/ \E p \in Requests : Finish(p) /\ q \in flight[Host[p]][key[p]]
<1> USE DEF TypeOK, store, caches, who, Answered
<1>1. ASSUME NEW p \in Requests, NEW k \in Keys, Start(p, k)
       PROVE  Goal
  BY <1>1 DEF Start, Goto
<1>2. ASSUME NEW p \in Requests, MemGet(p)
       PROVE  Goal
  BY <1>2 DEF MemGet, Goto, Hold
<1>3. ASSUME NEW p \in Requests, MemHit(p)
       PROVE  Goal
  BY <1>3 DEF MemHit, Goto
<1>4. ASSUME NEW p \in Requests, MemExpired(p)
       PROVE  Goal
  BY <1>4 DEF MemExpired, Goto, Hold
<1>5. ASSUME NEW p \in Requests, RedisHit(p)
       PROVE  Goal
  BY <1>5 DEF RedisHit, Goto, Hold, Live
<1>6. ASSUME NEW p \in Requests, RedisMiss(p)
       PROVE  Goal
  BY <1>6 DEF RedisMiss, Goto
<1>7. ASSUME NEW p \in Requests, MemFill(p)
       PROVE  Goal
  BY <1>7 DEF MemFill, MemSet, Goto
<1>8. ASSUME NEW p \in Requests, Join(p)
       PROVE  Goal
  BY <1>8 DEF Join, Goto
<1>9. ASSUME NEW p \in Requests, DBRead(p)
       PROVE  Goal
  BY <1>9 DEF DBRead, Goto, Hold
<1>10. ASSUME NEW p \in Requests, DBError(p)
       PROVE  Goal
  BY <1>10 DEF DBError, Goto
<1>11. ASSUME NEW p \in Requests, RedisSet(p)
       PROVE  Goal
  BY <1>11 DEF RedisSet, Goto
<1>12. ASSUME NEW p \in Requests, LeaderMemSet(p)
       PROVE  Goal
  BY <1>12 DEF LeaderMemSet, MemSet, Goto
<1>13. ASSUME NEW p \in Requests, Finish(p)
       PROVE  Goal
  BY <1>13 DEF Finish
<1>14. ASSUME NEW p \in Requests, Reply(p)
       PROVE  Goal
  BY <1>14 DEF Reply, Goto, Hold
<1>15. ASSUME NEW n \in Replicas, Write(n)
       PROVE  Goal
  BY <1>15 DEF Write
<1>16. ASSUME NEW n \in Replicas, Janitor(n)
       PROVE  Goal
  BY <1>16 DEF Janitor
<1>17. ASSUME NEW n \in Replicas, Crash(n)
       PROVE  Goal
  BY <1>17 DEF Crash
<1>18. ASSUME NEW n \in Replicas, NEW v \in Versions, Drop(n, v)
       PROVE  Goal
  BY <1>18 DEF Drop
<1>19. CASE Tick
  BY <1>19 DEF Tick
<1>20. CASE UNCHANGED vars
  BY <1>20 DEF vars
<1>21. QED
  BY <1>1, <1>2, <1>3, <1>4, <1>5, <1>6, <1>7, <1>8, <1>9, <1>10, <1>11,
      <1>12, <1>13, <1>14, <1>15, <1>16, <1>17, <1>18, <1>19, <1>20
  DEF Next, ListClusters, InvalidateClusterCache, DeleteNothing

(***************************************************************************)
(* An answer is no older than StaleBound.                                  *)
(***************************************************************************)
LEMMA AnswerAge ==
  ASSUME IInv, [Next]_vars, NEW q \in Requests, Answered(q)
  PROVE  val'[q] \in Versions /\ val'[q] <= db /\ AliveAt(val'[q], now - StaleBound)
<1>1. TypeOK /\ StageInv /\ NewestInv /\ AgeInv /\ FlightInv /\ Numbers
  BY NumbersOK DEF IInv
<1> DEFINE S == now - StaleBound
<1>2. ASSUME NEW p \in Requests, pc[p] \in Working, val[p] # 0, NEW t \in Int, S <= t,
             AliveAt(val[p], t)
      PROVE  val[p] \in Versions /\ val[p] <= db /\ AliveAt(val[p], S)
  <2>1. val[p] \in Versions /\ val[p] <= db
    BY <1>1, <1>2 DEF TypeOK, Versions, NewestInv, HeldNewest
  <2>2. S \in Int
    BY <1>1 DEF Numbers, StaleBound
  <2> HIDE DEF S
  <2>3. QED
    BY <1>1, <1>2, <2>1, <2>2, AliveOlder
<1>3. CASE MemHit(q)
  <2>1. pc[q] = "memcheck" /\ now <= exp[q] /\ val' = val /\ val[q] # 0
    BY <1>1, <1>3 DEF MemHit, StageInv, Holding
  <2>2. AliveAt(val[q], exp[q] - StaleBound)
    BY <1>1, <2>1 DEF AgeInv, HeldAge
  <2>3. exp[q] - StaleBound \in Int /\ S <= exp[q] - StaleBound
    BY <1>1, <2>1 DEF Numbers, StaleBound
  <2>4. QED
    BY <1>2, <2>1, <2>2, <2>3 DEF Working
<1>4. CASE MemFill(q)
  <2>1. pc[q] = "memfill" /\ val' = val /\ val[q] # 0
    BY <1>1, <1>4 DEF MemFill, StageInv, Holding
  <2>2. AliveAt(val[q], started[q] - ReqTimeout - RedisTTL)
    BY <1>1, <2>1 DEF AgeInv, HeldAge
  <2>3. now <= started[q] + ReqTimeout
    BY <1>1, <2>1 DEF StageInv, Working
  <2>4. /\ started[q] - ReqTimeout - RedisTTL \in Int
        /\ S <= started[q] - ReqTimeout - RedisTTL
    BY <1>1, <2>3 DEF Numbers, StaleBound
  <2>5. QED
    BY <1>2, <2>1, <2>2, <2>4 DEF Working
<1>5. ASSUME NEW p \in Requests, Finish(p), q \in flight[Host[p]][key[p]]
      PROVE  val'[q] \in Versions /\ val'[q] <= db /\ AliveAt(val'[q], S)
  <2>1. pc[p] = "finish" /\ val'[q] = val[p] /\ val[p] # 0
    BY <1>1, <1>5 DEF Finish, Answered, TypeOK
  <2>2. AliveAt(val[p], started[p])
    BY <1>1, <2>1 DEF AgeInv, HeldAge
  <2>3. now <= started[p] + ReqTimeout
    BY <1>1, <2>1 DEF StageInv, Working
  <2>4. started[p] \in Int /\ S <= started[p]
    BY <1>1, <2>3 DEF Numbers, StaleBound
  <2>5. QED
    BY <1>2, <2>1, <2>2, <2>4 DEF Working
<1>6. QED
  BY <1>1, <1>3, <1>4, <1>5, AnswerSteps

(***************************************************************************)
(* GET /clusters never answers with a list that was replaced more than     *)
(* 2 * ReqTimeout + RedisTTL + MemTTL before the answer.                   *)
(***************************************************************************)
THEOREM StalenessIsBounded == Spec => BoundedStaleness
<1>1. IInv /\ [Next]_vars =>
        [\A q \in Requests : Answered(q) => AliveAt(val'[q], now - StaleBound)]_vars
  BY AnswerAge
<1>2. QED
  BY Invariance, <1>1, PTL DEF Spec, BoundedStaleness

(***************************************************************************)
(* After invalidateClusterCache ran for version v with nothing older than  *)
(* v in Redis or on its way into a cache, process n never answers the      *)
(* default page with an older list.                                        *)
(***************************************************************************)
THEOREM WritesAreRead == Spec => ReadYourWrites
<1>1. ASSUME IInv, [Next]_vars, NEW q \in Requests, Answered(q), key[q] = DefaultKey
      PROVE  val'[q] >= fresh[Host[q]]
  <2>1. TypeOK /\ StageInv /\ FlightInv /\ FreshInv /\ Host[q] \in Replicas
    BY <1>1, HostAssumption DEF IInv
  <2>2. CASE MemHit(q) \/ MemFill(q)
    <3>1. val' = val /\ CanFill(q, Host[q])
      BY <1>1, <2>1, <2>2 DEF MemHit, MemFill, CanFill, StageInv, Holding, Working
    <3>2. QED
      BY <2>1, <3>1 DEF FreshInv, HeldFresh
  <2>3. ASSUME NEW p \in Requests, Finish(p), q \in flight[Host[p]][key[p]]
        PROVE  val'[q] >= fresh[Host[q]]
    <3>1. val'[q] = val[p] /\ val[p] # 0 /\ pc[p] = "finish"
      BY <1>1, <2>1, <2>3 DEF Finish, Answered, TypeOK
    <3>2. Host[q] = Host[p] /\ key[p] = DefaultKey
      BY <1>1, <2>1, <2>3, HostAssumption DEF FlightInv, TypeOK
    <3>3. CanFill(p, Host[q])
      BY <3>1, <3>2 DEF CanFill, Working
    <3>4. QED
      BY <2>1, <3>1, <3>3 DEF FreshInv, HeldFresh
  <2>4. QED
    BY <1>1, <2>1, <2>2, <2>3, AnswerSteps
<1>2. IInv /\ [Next]_vars =>
        [\A q \in Requests :
           Answered(q) /\ key[q] = DefaultKey => val'[q] >= fresh[Host[q]]]_vars
  BY <1>1
<1>3. QED
  BY Invariance, <1>2, PTL DEF Spec, ReadYourWrites
=============================================================================
