--------------------------- MODULE ClusterCache ---------------------------
(***************************************************************************)
(* The read path of the cluster list (Service.ListClusters) with its three *)
(* layers: the in-memory cache of each API process, the Redis cache all    *)
(* processes share, and the singleflight coalescer in front of the         *)
(* database; and the write path (RegisterCluster, DeleteCluster), which    *)
(* commits and then drops one key of its own process's in-memory cache.    *)
(*                                                                         *)
(* The list of one organisation is abstracted to a version number: the     *)
(* database holds the newest version, a cache entry holds the version it   *)
(* was filled with.  A key stands for one page of that organisation's list *)
(* ("clusters:org:page:limit").                                            *)
(***************************************************************************)
EXTENDS Integers

CONSTANTS
  Replicas,     \* API processes
  Requests,     \* goroutines serving GET /clusters, each one request at a time
  Host,         \* Host[q]: the process goroutine q belongs to
  Keys,         \* cached pages of the cluster list
  DefaultKey,   \* the page invalidateClusterCache deletes: page 1, limit 20
  MemTTL,       \* ttlReleaseSummaryMem (7 s)
  RedisTTL,     \* ttlReleaseSummaryRedis (10 s)
  ReqTimeout,   \* longest time a request works by itself: 8 s of context and
                \* the I/O call that is under way when the context ends
  MaxClock,     \* bound: last instant the model reaches
  MaxVersion    \* bound: last version written

ASSUME KeysAssumption == DefaultKey \in Keys
ASSUME HostAssumption == Host \in [Requests -> Replicas]
ASSUME TimesAssumption ==
  /\ MemTTL \in Nat /\ RedisTTL \in Nat /\ ReqTimeout \in Nat
  /\ MaxClock \in Nat /\ MaxVersion \in Nat \ {0}

VARIABLES
  now,          \* the clock, in ticks
  db,           \* version of the list in the database
  superseded,   \* superseded[v]: when version v was replaced (ghost)
  unfinished,   \* unfinished[n]: versions n has written and not yet invalidated
  mem,          \* mem[n][k]: entry of n's InMemoryCache
  redis,        \* redis[k]: entry of Redis
  flight,       \* flight[n][k]: requests in the singleflight call, leader or waiting
  pc,           \* where each request stands
  key,          \* page it asks for
  started,      \* when it began
  val,          \* version it holds, 0 for none (also the answer; 0 is an error)
  exp,          \* expiry of the in-memory item it has just read
  fresh         \* fresh[n]: version the default page of n is good for (ghost)

store == <<db, superseded, unfinished, fresh>>
caches == <<mem, redis, flight>>
who == <<key, started>>
vars == <<now, store, caches, pc, who, val, exp>>

Versions == 1 .. MaxVersion
NoEntry == [ver |-> 0, exp |-> 0]
Entries == [ver : 0 .. MaxVersion, exp : Nat]

\* An item lives until its expiry instant inclusive (time.Now().After).
Live(e) == e.ver # 0 /\ now <= e.exp

\* Stages in which a request runs its own code; "wait" is parked in
\* singleflight, "reply" has its answer.
Working == {"memget", "memcheck", "redisget", "memfill", "join",
            "dbread", "redisset", "memset", "finish"}
Stages == Working \cup {"idle", "wait", "reply"}

Init ==
  /\ now = 0 /\ db = 1
  /\ superseded = [v \in Versions |-> 0]
  /\ unfinished = [n \in Replicas |-> {}]
  /\ mem = [n \in Replicas |-> [k \in Keys |-> NoEntry]]
  /\ redis = [k \in Keys |-> NoEntry]
  /\ flight = [n \in Replicas |-> [k \in Keys |-> {}]]
  /\ pc = [q \in Requests |-> "idle"]
  /\ key = [q \in Requests |-> DefaultKey]
  /\ started = [q \in Requests |-> 0]
  /\ val = [q \in Requests |-> 0]
  /\ exp = [q \in Requests |-> 0]
  /\ fresh = [n \in Replicas |-> 1]

---------------------------------------------------------------------------
(* ListClusters, step by step *)

Goto(q, stage) == pc' = [pc EXCEPT ![q] = stage]
Hold(q, v) == val' = [val EXCEPT ![q] = v]

(* Planted faults: no part of Next.  Each is a step above or below with a  *)
(* plausible slip in it, and shows that a property would notice.           *)

\* InMemoryCache.Set with the "never expires" mark other caches use.
MemSetForever(q) ==
  mem' = [mem EXCEPT ![Host[q]][key[q]] = [ver |-> val[q], exp |-> -1]]

\* InMemoryCache.Get that does not look at expiresAt.
MemHitUnchecked(q) ==
  /\ pc[q] = "memcheck"
  /\ Goto(q, "reply")
  /\ exp' = [exp EXCEPT ![q] = 0]
  /\ UNCHANGED <<now, store, caches, who, val>>

\* singleflight without its map: everybody leads.
JoinUncoalesced(q) ==
  /\ pc[q] = "join"
  /\ Goto(q, "dbread")
  /\ flight' = [flight EXCEPT ![Host[q]][key[q]] = @ \cup {q}]
  /\ UNCHANGED <<now, store, mem, redis, who, val, exp>>

\* redis.Set with ttl 0, which Redis takes for no expiry.
RedisSetNoTTL(q) ==
  /\ pc[q] = "redisset"
  /\ redis' = [redis EXCEPT ![key[q]] = [ver |-> val[q], exp |-> MaxClock]]
  /\ Goto(q, "memset")
  /\ UNCHANGED <<now, store, mem, flight, who, val, exp>>

\* A call that ends without waking the requests that wait for it.
FinishLeaderOnly(q) ==
  /\ pc[q] = "finish"
  /\ Goto(q, "reply")
  /\ flight' = [flight EXCEPT ![Host[q]][key[q]] = {}]
  /\ UNCHANGED <<now, store, mem, redis, who, val, exp>>

\* A request for page k begins.
Start(q, k) ==
  /\ pc[q] = "idle"
  /\ Goto(q, "memget")
  /\ key' = [key EXCEPT ![q] = k]
  /\ started' = [started EXCEPT ![q] = now]
  /\ UNCHANGED <<now, store, caches, val, exp>>

\* InMemoryCache.Get up to RUnlock: the item is copied out of the map.
MemGet(q) ==
  LET item == mem[Host[q]][key[q]] IN
  /\ pc[q] = "memget"
  /\ Goto(q, IF item.ver = 0 THEN "redisget" ELSE "memcheck")
  /\ Hold(q, item.ver)
  /\ exp' = [exp EXCEPT ![q] = item.exp]
  /\ UNCHANGED <<now, store, caches, who>>

\* InMemoryCache.Get after RUnlock, the copy still live: a hit.
MemHit(q) ==
  /\ pc[q] = "memcheck" /\ now <= exp[q]
  /\ Goto(q, "reply")
  /\ exp' = [exp EXCEPT ![q] = 0]
  /\ UNCHANGED <<now, store, caches, who, val>>

\* InMemoryCache.Get after RUnlock, the copy expired: it deletes whatever the
\* map holds under the key by now, a fresh item included.
MemExpired(q) ==
  /\ pc[q] = "memcheck" /\ now > exp[q]
  /\ mem' = [mem EXCEPT ![Host[q]][key[q]] = NoEntry]
  /\ Goto(q, "redisget")
  /\ Hold(q, 0)
  /\ exp' = [exp EXCEPT ![q] = 0]
  /\ UNCHANGED <<now, store, redis, flight, who>>

\* RedisCache.Get finds a live value.
RedisHit(q) ==
  /\ pc[q] = "redisget" /\ Live(redis[key[q]])
  /\ Goto(q, "memfill")
  /\ Hold(q, redis[key[q]].ver)
  /\ UNCHANGED <<now, store, caches, who, exp>>

\* RedisCache.Get finds nothing, or fails: ListClusters drops the error.
RedisMiss(q) ==
  /\ pc[q] = "redisget"
  /\ Goto(q, "join")
  /\ UNCHANGED <<now, store, caches, who, val, exp>>

MemSet(q) ==
  mem' = [mem EXCEPT ![Host[q]][key[q]] = [ver |-> val[q], exp |-> now + MemTTL]]

\* s.mem.Set after a Redis hit, then return.
MemFill(q) ==
  /\ pc[q] = "memfill"
  /\ MemSet(q)
  /\ Goto(q, "reply")
  /\ UNCHANGED <<now, store, redis, flight, who, val, exp>>

\* singleflight.Group.Do: the first caller of a key leads, the others wait.
Join(q) ==
  LET call == flight[Host[q]][key[q]] IN
  /\ pc[q] = "join"
  /\ Goto(q, IF call = {} THEN "dbread" ELSE "wait")
  /\ flight' = [flight EXCEPT ![Host[q]][key[q]] = call \cup {q}]
  /\ UNCHANGED <<now, store, mem, redis, who, val, exp>>

\* The leader's repo.ListClusters returns rows of the committed list: all of
\* them, or, as rows.Err() is not looked at, the first ones when reading fails
\* midway.  val says of which list they are, not how many.
DBRead(q) ==
  /\ pc[q] = "dbread"
  /\ Goto(q, "redisset")
  /\ Hold(q, db)
  /\ UNCHANGED <<now, store, caches, who, exp>>

\* The leader's repo.ListClusters returns an error: the query could not be
\* sent, say because the leader's own context ended.  Nothing is cached.
DBError(q) ==
  /\ pc[q] = "dbread"
  /\ Goto(q, "finish")
  /\ UNCHANGED <<now, store, caches, who, val, exp>>

\* redis.Set stores the list, or fails and the error is dropped.
RedisSet(q) ==
  /\ pc[q] = "redisset"
  /\ \/ redis' = [redis EXCEPT ![key[q]] = [ver |-> val[q], exp |-> now + RedisTTL]]
     \/ UNCHANGED redis
  /\ Goto(q, "memset")
  /\ UNCHANGED <<now, store, mem, flight, who, val, exp>>

\* s.mem.Set in the leader's function.
LeaderMemSet(q) ==
  /\ pc[q] = "memset"
  /\ MemSet(q)
  /\ Goto(q, "finish")
  /\ UNCHANGED <<now, store, redis, flight, who, val, exp>>

\* singleflight ends the call under its mutex: it leaves the map, and the
\* leader and everybody waiting get the leader's result.
Finish(q) ==
  LET call == flight[Host[q]][key[q]] IN
  /\ pc[q] = "finish"
  /\ pc' = [r \in Requests |-> IF r \in call THEN "reply" ELSE pc[r]]
  /\ val' = [r \in Requests |-> IF r \in call THEN val[q] ELSE val[r]]
  /\ flight' = [flight EXCEPT ![Host[q]][key[q]] = {}]
  /\ UNCHANGED <<now, store, mem, redis, who, exp>>

\* The handler writes the response; the goroutine's state is gone.
Reply(q) ==
  /\ pc[q] = "reply"
  /\ Goto(q, "idle")
  /\ Hold(q, 0)
  /\ key' = [key EXCEPT ![q] = DefaultKey]
  /\ started' = [started EXCEPT ![q] = 0]
  /\ UNCHANGED <<now, store, caches, exp>>

---------------------------------------------------------------------------
(* RegisterCluster and DeleteCluster *)

\* repo.CreateCluster or repo.DeleteCluster commits on behalf of process n.
Write(n) ==
  /\ db < MaxVersion
  /\ db' = db + 1
  /\ superseded' = [superseded EXCEPT ![db] = now]
  /\ unfinished' = [unfinished EXCEPT ![n] = @ \cup {db + 1}]
  /\ UNCHANGED <<now, fresh, caches, pc, who, val, exp>>

\* Request q holds a copy of the default page that can still get into n's
\* in-memory cache, directly or by way of Redis.
CanFill(q, n) ==
  /\ key[q] = DefaultKey /\ pc[q] \in Working /\ val[q] # 0
  /\ Host[q] = n \/ pc[q] = "redisset"

\* Nothing older than v can get into n's in-memory default page any more.
\* (ghost: then an invalidation of n is good for version v)
Quiet(n, v) ==
  /\ Live(redis[DefaultKey]) => redis[DefaultKey].ver >= v
  /\ \A q \in Requests : CanFill(q, n) => val[q] >= v

\* Planted fault: an invalidation under a key ListClusters does not use.
DropOtherKey(n, v) ==
  /\ fresh' = [fresh EXCEPT ![n] = IF Quiet(n, v) /\ v > @ THEN v ELSE @]
  /\ UNCHANGED <<now, db, superseded, caches, pc, who, val, exp>>

\* invalidateClusterCache: process n drops its own in-memory default page.
Drop(n, v) ==
  /\ mem' = [mem EXCEPT ![n][DefaultKey] = NoEntry]
  /\ fresh' = [fresh EXCEPT ![n] = IF Quiet(n, v) /\ v > @ THEN v ELSE @]
  /\ UNCHANGED <<now, db, superseded, redis, flight, pc, who, val, exp>>

\* The request that wrote version v goes on to invalidate.
InvalidateClusterCache(n, v) ==
  /\ v \in unfinished[n]
  /\ unfinished' = [unfinished EXCEPT ![n] = @ \ {v}]
  /\ Drop(n, v)

\* DeleteCluster on Postgres of a cluster that is not there, when the list is
\* at version v: no row, no error, and the invalidation all the same.
DeleteNothing(n, v) ==
  /\ v <= db
  /\ Drop(n, v)
  /\ UNCHANGED unfinished

---------------------------------------------------------------------------
(* The environment of the requests *)

\* One round of the janitor: every expired item goes, under the lock.
Janitor(n) ==
  /\ \E k \in Keys : mem[n][k].ver # 0 /\ ~ Live(mem[n][k])
  /\ mem' = [mem EXCEPT ![n] = [k \in Keys |-> IF Live(@[k]) THEN @[k] ELSE NoEntry]]
  /\ UNCHANGED <<now, store, redis, flight, pc, who, val, exp>>

\* Process n dies and is started again: its requests, its in-memory cache and
\* its half-done writes are gone; Redis and the database are not.
Crash(n) ==
  LET lost == {q \in Requests : Host[q] = n} IN
  /\ mem' = [mem EXCEPT ![n] = [k \in Keys |-> NoEntry]]
  /\ flight' = [flight EXCEPT ![n] = [k \in Keys |-> {}]]
  /\ unfinished' = [unfinished EXCEPT ![n] = {}]
  /\ pc' = [q \in Requests |-> IF q \in lost THEN "idle" ELSE pc[q]]
  /\ key' = [q \in Requests |-> IF q \in lost THEN DefaultKey ELSE key[q]]
  /\ started' = [q \in Requests |-> IF q \in lost THEN 0 ELSE started[q]]
  /\ val' = [q \in Requests |-> IF q \in lost THEN 0 ELSE val[q]]
  /\ exp' = [q \in Requests |-> IF q \in lost THEN 0 ELSE exp[q]]
  /\ UNCHANGED <<now, db, superseded, fresh, redis>>

\* Time passes, but no request works by itself for longer than ReqTimeout:
\* chi's Timeout ends its context and every call it makes returns then.
Tick ==
  /\ now < MaxClock
  /\ \A q \in Requests : pc[q] \in Working => now < started[q] + ReqTimeout
  /\ now' = now + 1
  /\ UNCHANGED <<store, caches, pc, who, val, exp>>

ListClusters(q) ==
  \/ MemGet(q) \/ MemHit(q) \/ MemExpired(q)
  \/ RedisHit(q) \/ RedisMiss(q) \/ MemFill(q)
  \/ Join(q) \/ DBRead(q) \/ DBError(q) \/ RedisSet(q) \/ LeaderMemSet(q)
  \/ Finish(q) \/ Reply(q)

Next ==
  \/ \E q \in Requests, k \in Keys : Start(q, k)
  \/ \E q \in Requests : ListClusters(q)
  \/ \E n \in Replicas : Write(n) \/ Janitor(n) \/ Crash(n)
  \/ \E n \in Replicas, v \in Versions : InvalidateClusterCache(n, v) \/ DeleteNothing(n, v)
  \/ Tick

Spec == Init /\ [][Next]_vars

\* The Go scheduler runs every goroutine that can run.
Fairness == \A q \in Requests : WF_vars(ListClusters(q))
FairSpec == Spec /\ Fairness

---------------------------------------------------------------------------
(* Properties *)

(***************************************************************************)
(* The type of every variable, and the parts of a request's record that    *)
(* its stage (the program counter of ListClusters) determines.             *)
(***************************************************************************)
TypeOK ==
  /\ now \in 0 .. MaxClock /\ db \in Versions
  /\ superseded \in [Versions -> 0 .. MaxClock]
  /\ unfinished \in [Replicas -> SUBSET Versions]
  /\ mem \in [Replicas -> [Keys -> Entries]]
  /\ redis \in [Keys -> Entries]
  /\ flight \in [Replicas -> [Keys -> SUBSET Requests]]
  /\ pc \in [Requests -> Stages]
  /\ key \in [Requests -> Keys]
  /\ started \in [Requests -> 0 .. MaxClock]
  /\ val \in [Requests -> 0 .. MaxVersion]
  /\ exp \in [Requests -> Nat]
  /\ fresh \in [Replicas -> Versions]

\* Version v was still the newest one at instant t.
AliveAt(v, t) == v < db => superseded[v] >= t

\* How old an answer of the cluster list can be.  A leader reads the database,
\* works up to ReqTimeout before it fills Redis; the entry lives RedisTTL;
\* another request reads it and works up to ReqTimeout before it fills its
\* own in-memory cache; that entry lives MemTTL.
StaleBound == 2 * ReqTimeout + RedisTTL + MemTTL

\* Request q gets a list (not an error) in this step.
Answered(q) == pc[q] # "reply" /\ pc'[q] = "reply" /\ val'[q] # 0

(***************************************************************************)
(* GET /clusters never answers with a list that was replaced in the        *)
(* database more than StaleBound before the answer, whatever processes,    *)
(* crashes, failed Redis calls and missed invalidations there were.        *)
(***************************************************************************)
BoundedStaleness ==
  [][\A q \in Requests : Answered(q) => AliveAt(val'[q], now - StaleBound)]_vars

(***************************************************************************)
(* What invalidateClusterCache (service.go:771) is worth: when it runs for *)
(* version v while nothing older than v is in Redis or in the hands of a   *)
(* request that can still store it, process n never answers the default    *)
(* page with a list older than v again, although requests on other pages   *)
(* and processes go on and Redis entries come and go.                      *)
(***************************************************************************)
ReadYourWrites ==
  [][\A q \in Requests :
       Answered(q) /\ key[q] = DefaultKey => val'[q] >= fresh[Host[q]]]_vars

\* Request q is at the head of a singleflight call.
Leading(q) == pc[q] \in {"dbread", "redisset", "memset", "finish"}

(***************************************************************************)
(* The coalescer's purpose (coalescer.go:17): in one process at most one   *)
(* request per key is between the database and the caches, everyone parked *)
(* has such a leader, and nobody is left in a call that has ended.         *)
(***************************************************************************)
OneFlightPerKey ==
  /\ \A q, r \in Requests :
       Leading(q) /\ Leading(r) /\ Host[q] = Host[r] /\ key[q] = key[r] => q = r
  /\ \A q \in Requests : pc[q] = "wait" =>
       \E r \in Requests : Leading(r) /\ Host[q] = Host[r] /\ key[q] = key[r]

(***************************************************************************)
(* Every request is answered, with a list or an error, unless its process  *)
(* dies: also the ones waiting for another request's database read.        *)
(***************************************************************************)
EveryRequestAnswered ==
  \A q \in Requests : pc[q] = "memget" ~> pc[q] \in {"reply", "idle"}

---------------------------------------------------------------------------
(* Refinement *)

\* What the client of goroutine q sees.
ClientOf(q) ==
  CASE pc[q] = "idle" -> "idle"
    [] pc[q] = "reply" /\ val[q] # 0 -> "answered"
    [] pc[q] = "reply" /\ val[q] = 0 -> "failed"
    [] OTHER -> "asking"

Abstract == INSTANCE StaleReads WITH
  Clients <- Requests,
  Bound <- StaleBound,
  client <- [q \in Requests |-> ClientOf(q)],
  answer <- [q \in Requests |-> IF pc[q] = "reply" THEN val[q] ELSE 0]

(***************************************************************************)
(* The three cache layers together implement StaleReads: seen from outside *)
(* every answer is a list that was the newest one at most StaleBound ago,  *)
(* and a request is answered once, with what its flight or cache held.     *)
(***************************************************************************)
ImplementsStaleReads == Abstract!Spec

=============================================================================
