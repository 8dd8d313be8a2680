------------------------------- MODULE Listing -------------------------------
(***************************************************************************)
(* What a client reads: a paged list that it walks from the first page to  *)
(* the last while the list changes and Postgres fails; the releases of the *)
(* clusters, live or, when there is none, from the store, through both     *)
(* caches; and the diff of two manifests.                                  *)
(***************************************************************************)
EXTENDS Pages, FiniteSets, Functions

CONSTANTS Limits, MaxItems,
          Time,                       \* by row: the time a list is sorted by
          Readers, PageNos,           \* requests for releases, and the pages they ask for
          Clusters, Names, MaxReleases,
          Lines, MaxLines

Tags == {"new", "old"}
Rows == [id : 1 .. MaxItems, group : {"mine", "other"}, tag : Tags]

(* Helm stores every revision of a release; a list shows each as a release. *)
Revisions == [id : 1 .. MaxItems, group : Clusters, tag : Tags, name : Names]
Releases  == [id : 1 .. MaxItems, group : Clusters, tag : Tags, name : Names,
              ref : Clusters \X Tags \X Names]

(* Releases that Postgres may hold of other programs, newest first.        *)
Archive == <<[id |-> 2, group |-> "archive", tag |-> "old", name |-> "x", ref |-> <<"uuid 2">>],
             [id |-> 1, group |-> "archive", tag |-> "new", name |-> "x", ref |-> <<"uuid 1">>]>>

ASSUME ItemsAssumption  == /\ MaxItems \in Nat \ {0} /\ MaxReleases \in 0 .. MaxItems
                           /\ PageNos \subseteq 1 .. MaxItems
                           /\ 2 * MaxItems < Bound /\ 100 < Bound
ASSUME TimeAssumption   == Time \in [1 .. MaxItems -> Nat]
ASSUME GroupsAssumption == "archive" \notin Clusters
ASSUME LinesAssumption  == MaxLines \in Nat /\ "" \notin Lines
ASSUME FailedAssumption ==
  LET Items == Rows \cup Releases \cup Range(Archive)
  IN  Failed \notin Seq(Items) \cup [items : Seq(Items), pages : Int]

VARIABLES store,      \* the repository main.go chose
          kind,       \* what the client reads
          filter,     \* its status or namespace, "" for every one
          list,       \* the rows, in the order the next statement gives them
          made,       \* how many rows or revisions there have been
          walk,       \* the client's progress through the pages
          helm,       \* the revisions that helm has stored in the clusters
          up,         \* the clusters that answer
          req,        \* requests for releases under way
          mem, redis, \* cached pages of releases
          texts,      \* two manifests
          answer      \* the last answer about releases or manifests

releaseVars == <<helm, up, req, mem, redis>>
vars == <<store, kind, filter, list, made, walk, releaseVars, texts, answer>>

Stored  == {"audit", "approvals", "drift", "history"}
Ids(s)  == [i \in 1 .. Len(s) |-> s[i].id]

(* The wanted members of a sequence, in their order.                       *)
Only(s, wanted) ==
  LET last[n \in 0 .. Len(s)] ==                            \* of the last n
        IF n = 0 THEN <<>>
        ELSE IF s[Len(s) - n + 1] \in wanted
             THEN <<s[Len(s) - n + 1]>> \o last[n - 1] ELSE last[n - 1]
  IN  last[Len(s)]
-----------------------------------------------------------------------------
(* The rows that a list shows.  The memory store only ever has audit       *)
(* events; approvals, drift and history are rows of other programs.        *)
Mine(tags) == [id : 1 .. MaxItems, group : {"mine"}, tag : tags]
ListAuditEvents    == Only(list, Mine(Tags))
ListReleaseHistory == Only(list, Mine(Tags))
ListApprovals      == Only(list, Mine(IF filter = "" THEN Tags ELSE {filter}))
ListDrift          == Only(list, Mine({"new"}))

Shown == CASE kind = "audit"     -> ListAuditEvents
           [] kind = "approvals" -> ListApprovals
           [] kind = "drift"     -> ListDrift
           [] kind = "history"   -> ListReleaseHistory
           [] OTHER              -> <<>>

(* The limits that the handlers fall back to.                              *)
listAuditEventsHandler(l)    == queryInt(l, 50)
listApprovalsHandler(l)      == queryInt(l, 100)
listDriftHandler(l)          == queryInt(l, 50)
listReleaseHistoryHandler(l) == queryInt(l, 20)

Limit(l) == CASE kind = "audit"     -> listAuditEventsHandler(l)
              [] kind = "approvals" -> listApprovalsHandler(l)
              [] kind = "drift"     -> listDriftHandler(l)
              [] kind = "history"   -> listReleaseHistoryHandler(l)
Walking == walk.page > 0 /\ ~walk.done
-----------------------------------------------------------------------------
(* The walk.                                                               *)
Idle == [page |-> 0, limit |-> 1, before |-> {}, seen |-> <<>>, counted |-> None,
         grew |-> FALSE, shrunk |-> FALSE, torn |-> FALSE, done |-> FALSE, failed |-> FALSE]

WalkStep == UNCHANGED <<store, kind, filter, list, made, releaseVars, texts, answer>>

StartWalk(l) ==
  /\ kind \in Stored /\ walk.page = 0
  /\ walk' = [Idle EXCEPT !.page = 1, !.limit = Limit(l), !.before = Range(Ids(Shown))]
  /\ WalkStep

(* The client takes the next page until X-Total-Pages.                     *)
Take(a, torn) ==
  /\ walk' = IF a = Failed THEN [walk EXCEPT !.done = TRUE, !.failed = TRUE]
             ELSE [walk EXCEPT !.seen = @ \o Ids(a.items), !.counted = None,
                               !.page = IF @ < a.pages THEN @ + 1 ELSE @,
                               !.torn = @ \/ torn,
                               !.done = walk.page >= a.pages]
  /\ WalkStep

MemPage == /\ Walking /\ store = "memory"
           /\ Take(paginate(Shown, walk.page, walk.limit), FALSE)

(* Postgres counts in one statement and reads in another.  The error of    *)
(* the count is dropped: nothing is counted.                               *)
PgCount ==
  /\ Walking /\ store = "postgres" /\ walk.counted = None
  /\ walk' \in {[walk EXCEPT !.counted = Len(Shown)],
                [walk EXCEPT !.counted = 0, !.torn = TRUE]}
  /\ WalkStep

(* The rows may end early: rows.Err() is not looked at.                    *)
PgPage ==
  /\ Walking /\ walk.counted # None
  /\ LET rows == LimitOffset(Shown, walk.page, walk.limit) IN
     \E n \in 0 .. Len(rows) :
       Take(buildPaginated(SubSeq(rows, 1, n), walk.limit, walk.counted), n < Len(rows))

(* The statement is refused, and the client told so.                       *)
PgPageFails ==
  /\ Walking /\ walk.counted # None
  /\ walk' = [walk EXCEPT !.counted = None, !.torn = TRUE, !.done = TRUE]
  /\ WalkStep
-----------------------------------------------------------------------------
(* The list changes: a new row, whose tag is its status; a row goes, with  *)
(* its cluster or because its status no longer is the one asked for.       *)

(* Postgres sorts by a time alone, except history, by its revision: a row  *)
(* that is committed late comes behind newer ones, and rows of one time    *)
(* come in any order, another in each statement.                           *)
ByTime == store = "postgres" /\ kind \in {"audit", "approvals", "drift"}
Tied   == IF ByTime THEN {i \in 1 .. MaxItems : \E j \in 1 .. MaxItems : j # i /\ Time[j] = Time[i]}
          ELSE {}
Ahead(id) == IF ByTime THEN Cardinality({i \in 1 .. Len(list) : Time[list[i].id] > Time[id]}) ELSE 0

Insert(g) ==
  /\ kind \in Stored /\ made < MaxItems /\ made' = made + 1
  /\ LET n == Ahead(made + 1) IN
     list' = SubSeq(list, 1, n) \o <<[id |-> made + 1, group |-> g, tag |-> "new"]>>
               \o SubSeq(list, n + 1, Len(list))
  /\ walk' = [walk EXCEPT !.grew = @ \/ (Walking /\ g = "mine"),
                          !.torn = @ \/ (walk.counted # None /\ g = "mine")]
  /\ UNCHANGED <<store, kind, filter, releaseVars, texts, answer>>

Reorder(i) ==
  /\ ByTime /\ i < Len(list) /\ Time[list[i].id] = Time[list[i + 1].id]
  /\ list' = SubSeq(list, 1, i - 1) \o <<list[i + 1], list[i]>> \o SubSeq(list, i + 2, Len(list))
  /\ UNCHANGED <<store, kind, filter, made, walk, releaseVars, texts, answer>>

Change(new) == /\ list' = new
               /\ walk' = [walk EXCEPT !.shrunk = @ \/ Walking]
               /\ UNCHANGED <<store, kind, filter, made, releaseVars, texts, answer>>
Resolve(i) ==
  /\ kind \in {"approvals", "drift"} /\ list[i].tag = "new"
  /\ Change([list EXCEPT ![i].tag = "old"])

Cascade(i) ==
  /\ kind \in {"approvals", "drift", "history"}
  /\ Change(Only(list, Range(list) \ {list[i]}))
-----------------------------------------------------------------------------
(* Releases.  `limit' is fixed: the caches' keys hold the whole query.     *)
PageSize == 1

filterReleases(rs) == {x \in rs : filter \in {"", "all", x.tag}}

(* The default order: by the time of deployment, ascending.                *)
sortReleases(rs) ==
  LET place(x) == Cardinality({y \in rs : y.id <= x.id})
  IN  [k \in 1 .. Cardinality(rs) |-> CHOOSE x \in rs : place(x) = k]

(* A release's id as its parts between slashes.                            *)
helmReleaseToTypeShortId(x) == [id |-> x.id, group |-> x.group, tag |-> x.tag, name |-> x.name,
                                ref |-> <<x.tag, x.name>>]
helmReleaseToType(x) == [id |-> x.id, group |-> x.group, tag |-> x.tag, name |-> x.name,
                         ref |-> <<x.group, x.tag, x.name>>]
parseReleaseID(ref)  ==
  IF Len(ref) = 3 THEN [cluster |-> ref[1], namespace |-> ref[2], name |-> ref[3]] ELSE None

(* Every stored revision, of all releases of a cluster.                    *)
HelmListReleases(c) == {helmReleaseToType(x) : x \in {y \in helm : y.group = c}}

Live(found, p) == paginateReleases(sortReleases(filterReleases(found)), p, PageSize)

(* Any error of the count, and one while the rows come, is dropped.        *)
PgListReleases(p) ==
  LET rows == Only(Archive, filterReleases(Range(Archive)))
      page == LimitOffset(rows, p, PageSize)
  IN  {buildPaginated(SubSeq(page, 1, n), PageSize, total) :
         n \in 0 .. Len(page), total \in {0, Len(rows)}}

(* A request that missed the memory cache: the sources it is still to ask, *)
(* then the caches to fill; the clusters left to list and the releases     *)
(* found in the others; the page it got; and, for the properties, whether  *)
(* every cluster has answered since it began and none has changed.         *)
ListReleasesRedisFirst == <<"redis", "live", "store">>
ListReleases == <<"live", "redis", "store">>

Doing(r, step)    == req[r] # None /\ req[r].todo # <<>> /\ Head(req[r].todo) = step
Go(r, rec)        == req' = [req EXCEPT ![r] = rec]
Missed(r)         == Go(r, [req[r] EXCEPT !.todo = Tail(@)])
Got(r, page, todo) == Go(r, [req[r] EXCEPT !.got = page, !.todo = todo])
RequestStep == UNCHANGED <<store, kind, filter, list, made, walk, helm, up, texts>>

listReleasesHandler(r, p) ==
  /\ kind = "releases" /\ req[r] = None
  /\ IF mem[p] # None
     THEN answer' = mem[p] /\ UNCHANGED req
     ELSE /\ Go(r, [page |-> p, todo |-> ListReleases, left |-> Clusters, found |-> {},
                    got |-> None, quiet |-> up = Clusters])
          /\ UNCHANGED answer
  /\ RequestStep /\ UNCHANGED <<mem, redis>>

(* The clusters are asked one after another.  One that has no kubeconfig   *)
(* or does not answer is skipped.                                          *)
fetchLiveReleases(r, c) ==
  /\ Doing(r, "live") /\ c \in req[r].left
  /\ Go(r, [req[r] EXCEPT !.left = @ \ {c},
                          !.found = @ \cup (IF c \in up THEN HelmListReleases(c) ELSE {})])
  /\ RequestStep /\ UNCHANGED <<mem, redis, answer>>

Fetched(r) ==
  /\ Doing(r, "live") /\ req[r].left = {}
  /\ IF req[r].found = {} THEN Missed(r)
     ELSE Got(r, Live(req[r].found, req[r].page), <<"mem">>)
  /\ RequestStep /\ UNCHANGED <<mem, redis, answer>>

(* A Redis that fails is one that has nothing.                             *)
RedisGet(r) ==
  /\ Doing(r, "redis")
  /\ \/ redis[req[r].page] # None /\ Got(r, redis[req[r].page], <<"mem">>)
     \/ Missed(r)
  /\ RequestStep /\ UNCHANGED <<mem, redis, answer>>

StoreRead(r) ==
  /\ Doing(r, "store")
  /\ \/ \E page \in PgListReleases(req[r].page) : Got(r, page, <<"redis set", "mem">>)
     \/ Go(r, None)                                      \* an error
  /\ RequestStep /\ UNCHANGED <<mem, redis, answer>>

RedisSet(r) ==
  /\ Doing(r, "redis set")
  /\ redis' \in {redis, [redis EXCEPT ![req[r].page] = req[r].got]}
  /\ Missed(r)
  /\ RequestStep /\ UNCHANGED <<mem, answer>>

MemSet(r) ==
  /\ Doing(r, "mem")
  /\ mem' = [mem EXCEPT ![req[r].page] = req[r].got] /\ answer' = req[r].got
  /\ Go(r, None)
  /\ RequestStep /\ UNCHANGED redis

Expire(p) ==
  /\ \/ mem[p] # None /\ mem' = [mem EXCEPT ![p] = None] /\ UNCHANGED redis
     \/ redis[p] # None /\ redis' = [redis EXCEPT ![p] = None] /\ UNCHANGED mem
  /\ UNCHANGED <<store, kind, filter, list, made, walk, helm, up, req, texts, answer>>

(* The clusters change: helm installs or upgrades, or removes the record   *)
(* of a revision; a cluster stops answering, or starts again.              *)
Disturb ==
  /\ req' = [r \in Readers |-> IF req[r] = None THEN None ELSE [req[r] EXCEPT !.quiet = FALSE]]
  /\ UNCHANGED <<store, kind, filter, list, walk, mem, redis, texts, answer>>

Deploy(c, t, n) ==
  /\ kind = "releases" /\ made < MaxReleases /\ made' = made + 1
  /\ helm' = helm \cup {[id |-> made + 1, group |-> c, tag |-> t, name |-> n]}
  /\ Disturb /\ UNCHANGED up

Forget(x) == helm' = helm \ {x} /\ Disturb /\ UNCHANGED <<made, up>>

Outage(c) ==
  /\ kind = "releases"
  /\ up' = IF c \in up THEN up \ {c} ELSE up \cup {c}
  /\ Disturb /\ UNCHANGED <<made, helm>>
-----------------------------------------------------------------------------
(* The diff compares line by line and leaves blank lines out.              *)
Line(type, content) == [type |-> type, content |-> content]
LineAt(text, i) == IF i <= Len(text) THEN text[i] ELSE ""

DiffAtForgetful(a, b, i) ==
  LET va == LineAt(a, i)  vb == LineAt(b, i) IN
  CASE va = vb              -> IF va = "" THEN <<>> ELSE <<Line("unchanged", va)>>
    [] va # vb /\ va = ""   -> <<Line("added", vb)>>
    [] OTHER                -> <<Line("removed", va)>>

DiffAt(a, b, i) ==
  LET va == LineAt(a, i)  vb == LineAt(b, i) IN
  CASE va = vb              -> IF va = "" THEN <<>> ELSE <<Line("unchanged", va)>>
    [] va # vb /\ va = ""   -> <<Line("added", vb)>>
    [] va # vb /\ vb = ""   -> <<Line("removed", va)>>
    [] OTHER                -> <<Line("removed", va), Line("added", vb)>>

lineDiff(a, b) ==
  LET longer == IF Len(a) > Len(b) THEN Len(a) ELSE Len(b)
      upTo[n \in 0 .. longer] == IF n = 0 THEN <<>> ELSE upTo[n - 1] \o DiffAt(a, b, n)
  IN  upTo[longer]

Diff ==
  /\ kind = "diff" /\ answer = None
  /\ answer' = lineDiff(texts[1], texts[2])
  /\ UNCHANGED <<store, kind, filter, list, made, walk, releaseVars, texts>>
-----------------------------------------------------------------------------
Manifests == UNION {[1 .. n -> Lines \cup {""}] : n \in 1 .. MaxLines}
NoPages == [p \in PageNos |-> None]

Init ==
  /\ store \in {"memory", "postgres"}
  /\ kind \in (IF store = "memory" THEN {"audit"} ELSE Stored \cup {"releases", "diff"})
  /\ filter \in (IF kind \in {"approvals", "releases"} THEN {"", "new"} ELSE {""})
  /\ list = <<>> /\ made = 0 /\ walk = Idle
  /\ helm = {} /\ up = Clusters /\ req = [r \in Readers |-> None]
  /\ mem = NoPages /\ redis = NoPages /\ answer = None
  /\ texts \in (IF kind = "diff" THEN Manifests \X Manifests ELSE {<<<<>>, <<>>>>})

Next ==
  \/ \E l \in Limits : StartWalk(l)
  \/ MemPage \/ PgCount \/ PgPage \/ PgPageFails
  \/ \E g \in {"mine", "other"} : Insert(g)
  \/ \E i \in 1 .. Len(list) : Reorder(i) \/ Resolve(i) \/ Cascade(i)
  \/ \E r \in Readers : \/ \E p \in PageNos : listReleasesHandler(r, p)
                        \/ \E c \in Clusters : fetchLiveReleases(r, c)
                        \/ Fetched(r) \/ RedisGet(r) \/ StoreRead(r) \/ RedisSet(r) \/ MemSet(r)
  \/ \E p \in PageNos : Expire(p)
  \/ \E c \in Clusters : \/ Outage(c)
                         \/ \E t \in Tags, n \in Names : Deploy(c, t, n)
  \/ \E x \in helm : Forget(x)
  \/ Diff

Spec == Init /\ [][Next]_vars
-----------------------------------------------------------------------------
(* The type of the state.                                                  *)
ReleasePages == [items : Seq(Releases \cup Range(Archive)), pages : Int]
Requests == [page : PageNos, todo : Seq({"live", "redis", "store", "redis set", "mem"}),
             left : SUBSET Clusters, found : SUBSET Releases, got : {None} \cup ReleasePages,
             quiet : BOOLEAN]
TypeOK ==
  /\ made \in 0 .. MaxItems /\ list \in Seq(Rows)
  /\ \A i \in 1 .. Len(list) : list[i].id <= made
  /\ walk \in [page : 0 .. MaxItems, limit : 1 .. Bound - 1, before : SUBSET (1 .. made),
              seen : Seq(1 .. made), counted : 0 .. MaxItems \cup {None}, grew : BOOLEAN,
              shrunk : BOOLEAN, torn : BOOLEAN, done : BOOLEAN, failed : BOOLEAN]
  /\ helm \subseteq Revisions /\ up \subseteq Clusters /\ req \in [Readers -> {None} \cup Requests]

(* A walk from the first page to the last shows every row that was there   *)
(* when it began, even if new rows push the others onto later pages.  Not  *)
(* rows that share their time with another (Postgres may move them between *)
(* pages), and not if rows went away or, on Postgres, a count and a page   *)
(* were not of one list: a row came between them, the count failed, the    *)
(* page ended early or was refused.                                        *)
NothingMissed ==
  walk.done /\ ~walk.shrunk /\ ~walk.torn => walk.before \ Tied \subseteq Range(walk.seen)

(* A walk shows no row twice, even if rows go away and statements fail;    *)
(* not if rows came, and not rows that share their time with another.      *)
NothingTwice ==
  ~walk.grew => \A i, j \in 1 .. Len(walk.seen) :
                  walk.seen[i] = walk.seen[j] /\ walk.seen[i] \notin Tied => i = j

(* No limit, however near the largest int, makes a walk end in a panic,    *)
(* whatever happens to the list meanwhile.                                 *)
WalkSucceeds == ~walk.failed

(* A page that did not come from memory is right if all the while every    *)
(* cluster answered, no revision came or went, and there was one: exactly  *)
(* the stored revisions asked for whose rank by time falls into the page,  *)
(* and nothing that an outage left in Redis (ListReleases).                *)
Matching == {x.id : x \in filterReleases(helm)}
Exact(p, items) ==
  /\ Len(items) = Cardinality({k \in (p - 1) * PageSize + 1 .. p * PageSize :
                                  k <= Cardinality(Matching)})
  /\ \A k \in 1 .. Len(items) :
       Cardinality({i \in Matching : i <= items[k].id}) = (p - 1) * PageSize + k
ExactWhenReachable ==
  \A r \in Readers :
    Doing(r, "mem") /\ req[r].quiet /\ helm # {} => Exact(req[r].page, req[r].got.items)

(* The id of a listed release names the cluster and the release that the   *)
(* operations will act on; a stored one's names none (helmReleaseToType,   *)
(* parseReleaseID).                                                        *)
IdsLeadBack ==
  kind = "releases" /\ answer # None =>
    \A k \in 1 .. Len(answer.items) :
      LET x == answer.items[k]
      IN  parseReleaseID(x.ref) = IF x.group = "archive" THEN None
                                  ELSE [cluster |-> x.group, namespace |-> x.tag, name |-> x.name]

(* A diff replays: without its added lines it is the first manifest, and   *)
(* without its removed lines the second, blank lines apart.                *)
Full(text) == Only(text, Lines)
Without(type) == LET kept == Only(answer, {l \in Range(answer) : l.type # type})
                 IN  [k \in 1 .. Len(kept) |-> kept[k].content]
DiffReplays ==
  kind = "diff" /\ answer # None =>
    Without("added") = Full(texts[1]) /\ Without("removed") = Full(texts[2])
=============================================================================
