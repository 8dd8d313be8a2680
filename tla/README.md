# KubeHelm, verified: TLA+ models and proofs

KubeHelm is a Go API (`cmd/api`, `internal/`) with a React frontend: it registers
Kubernetes clusters, shows and changes their helm releases, and keeps audit,
approval, report, notification and settings records.  This directory holds TLA+
models of all of these, TLC runs that check them on small instances, and
TLAPS proofs of what matters most for instances of every size.

`PROJECT.json` is the index: components, runs, the planted fault each property
is tested with, the source lines every definition models, hazards, theorems.

## 1. Inventory

| Component | State it keeps | Operations | Hard part | Models |
|---|---|---|---|---|
| Cluster list and caches (`service.go` 132-233, 771; `cache/`) | in-memory map per process, Redis, singleflight calls, the `clusters` table | list, register, delete, janitor, restart | stale copies travel from layer to layer; fills race with invalidations; a leader's failure is everybody's | `ClusterCache`, `StaleReads` |
| Rate limiter (`middleware/ratelimit.go`) | bucket per remote address | `allow` | clock read before the lock | `RateLimiter` |
| Status stream (`stream.go`, `sse_handler.go`, ticker in `service.go` 755) | set of channels under an RWMutex | register, unregister, broadcast | close against send, full buffers, lock order | `StreamHub` |
| Release operations (`service.go` 423-632, `helm/service.go`) | none of its own; the cluster's releases, audit rows, temporary kubeconfigs | install, upgrade, rollback, uninstall, test, dry-run, values, manifest, diff, history | helm runs under the 8 s request context; audit comes after the change | `ReleaseOps`, `AuditedChange` |
| Helm repositories (`service.go` 862-1026) | rows with credentials and status; a repository file of the helm CLI in each process | add, update, remove, refresh, test, charts | several places to keep in step; credential maps that are shared or not; late status | `HelmRepos` |
| Enabled providers (`repo_handlers.go` 35-89) | one list per organisation | install, uninstall | read, change, write by concurrent requests | `Records` |
| Reports (`service.go` 712-723) | report rows, one goroutine each | create, list, download | completion 3 s later, or never | `Records` |
| Approvals, notifications, settings, users | rows | create, update, approve, reject, ... | two stores that should behave alike | `Records` |
| Audit (`service.go` 654-674, `postgres.go` 158) | rows | log, list, statistics | best effort; what is recorded at all | `Records`, `ReleaseOps`, `HelmRepos` |
| Memory store (`store/memory.go`) | slices; a mutex guards some of them | the repository interface | unlocked writers and readers | `Records`, `HelmRepos`, `Listing` |
| Postgres store (`store/postgres.go`, `init.sql`) | tables | the repository interface | dropped errors, constraints, count and page in two statements | all but `RateLimiter`, `StreamHub` |
| Release list and diff (`service.go` 281-420, 783-860) | both caches | list, filter, sort, page, line diff | live data, fall-back and caches of both | `Listing` |
| Paging (`memory.go` 591, `postgres.go`, `router.go` queryInt) | - | page, limit, number of pages | machine integers; rows that move between pages | `Pages`, `Listing` |
| Lifecycle (`cmd/api/main.go`, `config/`) | - | start, shut down | fall-back to the memory store | restarts in each module |
| Cluster health, auth, logging, CORS, k8s client, flattening, version | none across requests | - | stateless or pure I/O | not modelled |
| Frontend, deployment files | browser state | - | presentation; two replicas and the 8 s timeout are taken from `deploy/` | not modelled |

Interactions: handlers call the service; the service calls one repository
(memory or Postgres), the in-memory cache of its process, Redis, the helm CLI
(a child process under the request's context) and the Kubernetes API.  Replicas
share Postgres and Redis and nothing else: each of the two that `deploy/` starts
has its own in-memory cache and its own helm repository file, so a repository
added through one is unknown to the other's helm.  chi's Timeout (`router.go:26`,
8 s) ends the context of every request, streams included.

## 2. Modules

| Module | Models | Checked with | Proved in |
|---|---|---|---|
| `ClusterCache` | the cluster list, its caches and writers | `MCClusterCache` and 3 configurations | `ClusterCacheProofs` |
| `StaleReads` | what the list promises a client; no caches | as a refinement of `ClusterCache` | `ClusterCacheRefinementProofs` |
| `RateLimiter` | one bucket of the limiter | `MCRateLimiter` | `RateLimiterProofs` |
| `StreamHub` | hub, connections, ticker | `MCStreamHub` and 2 configurations | `StreamHubProofs` |
| `ReleaseOps` | operations on a release, helm processes, audit | `ReleaseOps.cfg` | `ReleaseOpsProofs` |
| `AuditedChange` | what an operation promises its client; no helm | as a refinement of `ReleaseOps` | `ReleaseOpsProofs` |
| `HelmRepos` | helm repositories in the store and in the CLI | `MCHelmRepos` | `HelmReposProofs` |
| `Records` | every other record of both stores, enabled providers, reports | `MCRecords`, and two runs that find the code at odds with the product's own words | `RecordsProofs` |
| `Pages` | the arithmetic of pages | with `Listing` | lemmas in `ListingProofs` |
| `Listing` | walks through pages, the release list, the diff | `MCListing` | `ListingProofs` |

The store is chosen once per process (`main.go` 62-72): `store` is "memory" or
"postgres" from `Init` on, and `ReleaseOps`, `HelmRepos`, `Records` and `Listing` each cover both.  A
service method is written as the script of the calls it makes that matter
(`UpdateHelmRepository == <<"creds", "update", "list", "repoAdd", "status">>`):
one call is one step, every interleaving of scripts is a behaviour.  A
definition whose name is longer than the code's (`MemCreateClusterUnlocked`) is
a planted fault, not part of `Next`; see section 3.  Requests that a handler
refuses before it touches anything are left out.

### ClusterCache

A request's program counter (`pc`) walks through `Service.ListClusters`: one
action per shared access, because another request, process, crash or clock tick
can come between any two.

* `MemGet`, then `MemHit` or `MemExpired`: `InMemoryCache.Get` copies the item
  under `RLock` and looks at its expiry afterwards; an expired copy deletes
  whatever is under the key by then.
* `RedisHit`, `MemFill`: a Redis value is copied into memory for a full TTL.
  `RedisMiss` is also a Redis that fails (the error is dropped).
* `Join`, `DBRead` or `DBError`, `RedisSet`, `LeaderMemSet`, `Finish`:
  `singleflight` with the leader's function inside.  `Finish` ends the call for
  the leader and all who wait in one step, as singleflight does under its mutex.
* `Write`, then `InvalidateClusterCache`: `RegisterCluster` and `DeleteCluster`
  commit, then drop the default page of their own process.  Nothing obliges the
  second step to come: the process may die, or the call may report an error
  after the commit.  `DeleteNothing` is a delete that hits no row, which on
  Postgres succeeds and invalidates too.
* `Janitor`, `Crash`, `Tick`.

The list is abstracted to a version number; a database read is one step that
returns the committed version.  `PostgresRepository.ListClusters` issues a count
and a query and does not look at `rows.Err()`, so the rows may be the first ones
of the version only: the model says which list an answer comes from, not whether
it is complete.  A Redis command takes effect before its call returns or not at
all.  Organisations do not interact, so one is modelled.  `RegisterCluster`'s
connection test before the commit touches no shared state.  The audit row
`DeleteCluster` writes at its end belongs to the audit component.

`StaleReads` is the specification a client can see: an answer is a version that
was the newest one at most `Bound` ago, or an error; answers may go backwards.

### RateLimiter

`Call` reads the clock (`ratelimit.go:42`); `FirstCall`, `Admit` and `Deny` are
the body under the mutex.  Between them the clock may tick and other callers may
pass.  Tokens are counted in the ticks they take to come back, so the model has
no fractions: one token is `Cost` = 1/rps, a full bucket is `Full` = burst/rps.
`burst >= 1` is assumed (`Cost <= Full`); `config.go` defaults to rps 3, burst 8.
Entries of different addresses share nothing but the mutex, and the four
limiters of `router.go:78-81` share nothing, so one entry is modelled.
`OpenWindow` is an observer: it picks the start of a window at any time, so
`WindowBound` speaks about every window.

### StreamHub

`conn[c]` is the handler's place: `joining` (in `Register`), `stream` (the
select), `leaving` (the deferred `Unregister`).  The RWMutex is modelled with
Go's writer preference: `Lock` marks a writer as pending and holds new `RLock`s
back; `Register` and `Unregister` are the critical sections, entered when the
readers are gone; `Unlock` lets the `RLock` it held back in at once.
`BeginRange`, `Offer` and `RUnlock` are `Broadcast`: the channels are visited in
any order, other handlers run in between.  The heartbeat (20 s) changes no state.
Marshalling the ticker's payload cannot fail.  A write to a client ends by the
server's 30 s `WriteTimeout` at the latest, so a handler is not stuck in it.

### ReleaseOps and AuditedChange

`NotLive`, `GetClusterKubeconfig`: an id that is not `cluster/namespace/name`,
no helm binary, or no kubeconfig end an operation; history, manifest and diff
then read the store.  `withKubeconfig` goes in steps: `CreateTemp`, then either
`NotRun` (the file cannot be written, helm cannot be started, or it is too late)
or `StartHelm`, then `Wait`; `removeKubeconfig` is the deferred `os.Remove` on
every way out, taken to succeed.  `HelmBegins`, `HelmEnds` are helm's (external):
it refuses a release that another helm has in hand ("pending") and otherwise
changes it, or fails; that a failed run leaves helm's status "failed" rather than
"deployed" is left out, nothing asks for it.  `Deadline` ends a request's context
(8 s, or the client is gone), `Kill` is what `exec.CommandContext` does then,
`logAudit` writes the event and drops its error.  `Crash` is the end of the
container: its helm processes die with it (the API is its first process), the
deferred `Remove` does not run, and the files stay if the same container starts
again; the release stays as helm left it.
`AuditedChange` is the promise: "ok" only after the change was applied, an event
only for an applied change, an answer is final.

### HelmRepos

Rows of `helm_repositories` (`row`) and, for each process, helm's repository file
(`cli`) and its `--test` entries (`trial`); a request runs helm in its own
process, so a row says "ok" when one file has it.  With the memory store there is
one process (`Serving`), since processes would have nothing in common.
Credentials are maps on a `heap`: the memory store hands out the map it stores,
and an update's merge then changes the row at once (`InPlace`).  A repository
added without credentials has Go's nil map (`None`): then, as with the copies
that Postgres returns, each update merges into a map of its own, which its write
puts into the row.  `helm repo add` (external) accepts an entry that is already
there with the same configuration and refuses one that differs.  OCI registries
have a login and no entry.  Faults: a failing statement, helm killed with the
request's context perhaps after it wrote, a restart of one process (with or
without a new container, whose repository file is empty).  A third store, "bare",
is Postgres without the table: `init.sql:151` is a statement that is no SQL, and
a script run that stops at the first error never gets to line 167; every add is
then refused.  `hurt`, `raced` and `owed` are bookkeeping of the properties:
which rows and names a fault touched, which rows had overlapping updates of
separate maps, which credentials the merges add up to.

### Records

Tables are sets of rows; `mark` is a row's status, switch or role.  `Statement`
is one Postgres statement; `InLock` a change under the memory store's mutex;
`Unlocked` builds the new slice and stores it in a later step (`StoreSlice`),
which is how reports, channels and rules of the memory store lose rows.  An
update in memory that races with such a change may be lost or panic
(`MemUpdates`).  `PgCreateAuditEvent` inserts nothing: `source_ip` is an `INET`,
nobody sets it, and an empty string is no address (`postgres.go:165`,
`init.sql:90`).  `CompleteReport` is the goroutine of `CreateReport`.  Enabled
providers are read, changed and written back; on Postgres they live in the
settings, which `UpdateOrganization` replaces: a client may send the object it was
shown, with a list that has changed since (`updateOrganizationHandler` notes it),
or one without; the frontend's own page sends a name only.  Of `init.sql`'s seeds
those after line 151 may be missing (`Seeds`).  Nothing in the repository
inserts approvals, drift or history rows: Postgres may hold those of other
programs, memory has none.

### Pages and Listing

`Pages` computes with ints of `-Bound .. Bound - 1`: products and sums wrap, a
slice out of range panics, a negative OFFSET is an error.  `Listing` lets a
client walk from page 1 to `X-Total-Pages` while rows come and go, in memory
(one step per page) and on Postgres: `PgCount`, whose error the code drops (then
nothing is counted), and `PgPage`, which may end early, since `rows.Err()` is not
looked at, or `PgPageFails`.  Audit events, approvals and drift are sorted by a
timestamp alone: `Time` gives each row its own, so a row may come in behind newer
ones (`Ahead`), and rows of one time change places between statements
(`Reorder`).  History is sorted by the revision, which is unique.

A request for releases (`req`) goes step by step through `ListReleases`: memory,
the clusters one after another (`fetchLiveReleases`), the page made of what they
answered (`Fetched`), or else Redis and the store; then the caches are filled.
Between any two steps a revision may come or go (`Deploy`, `Forget`), a cluster
stop or start answering (`Outage`), an entry expire, another request overtake.
The secrets driver is asked with a filter that is always true
(`helm/service.go:108`), so `HelmListReleases` gives one row for every revision
that helm has stored: a release upgraded twice is in the list three times, with
one id.  Left out: revisions deployed in the same instant (`sort.Slice` may put
them in any order), the other sort columns, and the coalescer (see
`ClusterCache`).  The diff is checked on every pair of short manifests.

## 3. What the runs check

| Run | Instance | Properties |
|---|---|---|
| `cluster_cache_two_replicas` | 2 processes, 1 request each, 2 versions, request time 1, memory TTL 0, Redis TTL 0, clock to 3 | `TypeOK`, `BoundedStaleness`, `ReadYourWrites` |
| `cluster_cache_one_replica` | 1 process, 3 requests, clock to 1 | `OneFlightPerKey`, `EveryRequestAnswered` |
| `cluster_cache_refinement` | 2 processes, Redis TTL 1, request time 0, clock to 2 | `ImplementsStaleReads` |
| `rate_limiter` | 3 callers, cost 2, burst 2 tokens, clock to 5 | `TypeOK`, `WindowBound`, `PatientCallerAdmitted` |
| `stream_hub` | 3 clients, channel of 1, 3 payloads | `TypeOK`, `NoSendOnClosed`, `FeedInOrder`, `SlowClientsHarmNobody` |
| `stream_hub_fair` | 2 clients, channel of 1, 3 payloads | `BroadcastReturns`, `ConnectionsEnd` |
| `release_ops` | 2 operations of any kind on one release, 1 crash, both stores | `TypeOK`, `KubeconfigLivesWithHelm`, `ToldChangesAreRecorded`, `SuccessIsReported`, `ImplementsAuditedChange`, `EveryOperationAnswered` |
| `helm_repos` | 2 requests, 2 processes, 1 HTTP and 1 OCI name, an earlier row with credentials, without, or none, 2 forms that set different credentials and URLs, 2 faults, 3 stores | `TypeOK`, `PendingIsExplained`, `OkRowsAreInHelm`, `CredentialsKept`, `TestLeavesNothing`, `AddedRowsAreRecorded`, `RowsComeFromAdds` |
| `records` | 3 requests, 2 providers, 1 fault, both stores | `TypeOK`, `NoDuplicateProviders`, `ProvidersKept`, `AckedRowsKept` |
| `records_audit` | 2 requests, no fault; expected to fail | `ChangesAreRecorded` |
| `records_reports` | 2 requests, no fault, fair scheduling; expected to fail | `ReportsComplete` |
| `listing` | ints of 8 bits, limits none, 1, 2 and 127, 3 rows of which one comes late and two share their time, 2 clusters with 2 revisions, 2 requests for the second page, manifests of 3 lines | `TypeOK`, `NothingMissed`, `NothingTwice`, `WalkSucceeds`, `IdsLeadBack`, `DiffReplays`, `ExactWhenReachable` |

* `BoundedStaleness`: no answer is a list replaced more than `StaleBound` =
  2 request times + Redis TTL + memory TTL before (with the code's numbers 16 +
  10 + 7 = 33 s, and the I/O call under way when a context ends).  The bound is
  not lowered by invalidations: a second process, another page or a late fill is
  not reached by them.
* `ReadYourWrites`: what an invalidation is worth.  If nothing older than `v` is
  in Redis or in the hands of a request that can still store it, the process
  never answers its default page with less than `v` again.
* `OneFlightPerKey`, `EveryRequestAnswered`: one leader per key, and no waiter
  is left behind, whatever becomes of the leader.
* `WindowBound`: in every window the calls allowed cost at most a full bucket
  plus the time gone by, although the bucket's clock goes backwards when callers
  overtake each other.  `PatientCallerAdmitted`: the same detour never refuses
  somebody who has waited for a token's time.
* `NoSendOnClosed`, `FeedInOrder`, `SlowClientsHarmNobody`, `BroadcastReturns`,
  `ConnectionsEnd`: see the comments in `StreamHub.tla`.

* `KubeconfigLivesWithHelm`: a helm process has its temporary kubeconfig, and the
  cluster's credentials are on disk only during a request's helm call, however
  that call ends: not at its audit event, its second call or its answer.  Only a
  process that died in the call leaves them behind.
  `ToldChangesAreRecorded`, `SuccessIsReported`: a client that is told "ok" finds
  its change in the (memory) audit log, and a change that was applied but told
  "failed" is one whose context ended.  `ImplementsAuditedChange`: nobody is told
  "ok", and nothing is logged, before the change is applied.
  `EveryOperationAnswered`: although helm may hang for ever.
* `PendingIsExplained`, `OkRowsAreInHelm`, `RowsComeFromAdds`: the store and
  helm's files stay in step while requests overtake each other; what faults and
  double removals do to this is excused by name (`hurt`), and only that.  In step
  means: an "ok" row is in the file of some process.  That the others lack it, or
  keep it after a removal, is how the code works with two replicas.
  `CredentialsKept`: no acknowledged credential is lost by a later update; of
  two overlapping updates that do not share the stored map (Postgres, or a row
  added without credentials) the later may drop what the earlier set (`raced`),
  and updates that do share it may not.  `TestLeavesNothing`:
  a connection test cleans up.  `AddedRowsAreRecorded`: a row that is there when
  its request is answered is in the (memory) audit log.
* `AckedRowsKept`: an acknowledged row is there until somebody deletes it, in
  all tables of Postgres and in those that the memory store's mutex guards.
  `ProvidersKept`, `NoDuplicateProviders`: what concurrent installs and
  uninstalls may and may not do to the list.
* `NothingMissed`, `NothingTwice`, `WalkSucceeds`: what a client that walks
  through the pages of a changing list may rely on, at limits up to the largest
  int.  On Postgres it may not rely on a row that shares its time with another
  (`Tied`), nor, for completeness, on a walk during which a count failed, a page
  ended early or was refused, or a row came between count and page (`torn`): the
  code reports none of this but the refused page, and without these excuses
  neither property holds.
  `ExactWhenReachable`: a page of releases that did not come from memory is
  exactly the stored revisions asked for, if every cluster answered while it was
  made and none of them changed, whatever an earlier outage left in Redis and
  whatever other requests do.  A page made while they changed is a mixture, and
  is cached like any other.  `IdsLeadBack`: the
  ids in a list lead the operations to the same release.  `DiffReplays`: a diff
  reproduces both manifests.

Two runs show the code at odds with what the product says:

* `records_audit`: "Events are recorded when clusters, releases, or settings are
  modified." (`AuditPage.tsx:60`).  `RegisterCluster` and `UpdateOrganization`
  log nothing, and on Postgres no event is ever stored.
* `records_reports`: "Report generation started. It will be ready shortly."
  (`ReportsPage.tsx:30`).  The goroutine calls `UpdateClusterStatus` with the
  report's id (`service.go:720`): the report stays pending.

Why the bounds suffice: a TTL of 0 is an entry that lives for the instant it was
made in, TTL 1 one that outlives a tick; the clock runs one tick past the
staleness bound of each instance, so an answer that is too old can occur.  Two
versions are one old and one new list; two processes have one cache that is
invalidated and one that is not.  A channel of one makes full buffers the normal
case and three payloads make a gap with something before and after it.  The
proofs remove these bounds for safety.  Two requests on
repositories are two that race, on a row that was there or one of theirs, and
with two faults each can lose a call or a process; three requests with one
process and one fault (2.4 million states), and with two processes and no fault
(3.3 million), give the same results but take minutes.  Three requests on
records are the two that race and one that finds what they left; a fourth adds
no kind of conflict, since a script holds at most one stale read.  Two release
operations compete for one release.  Eight-bit ints wrap at the same places as
64-bit ones, and 127 is the largest limit there is.  Three rows on pages of one
or two are a walk over three pages in which a row comes, goes or changes places
behind, on and before the page being read.  The walks over four rows with times 1, 3, 2,
3 (2.2 million states for approvals, 1.3 for drift) give the same results but
take minutes.  Two revisions on pages of one, with requests for the second page,
make ranks matter and leave a page empty when a cluster is missing.

Fairness: only what Go gives.  A goroutine that can run does (weak fairness); a
`Lock` that competes with others gets its turn, since `sync.Mutex` goes into
starvation mode (strong fairness of `Lock`); a select does not pass over a ready
case for ever; contexts end, since chi's Timeout ends them, and a killed process
is gone.  Helm is never forced: it may hang.  In `records_reports` store calls
and the goroutine's sleep end.  Writes, crashes, faults, new requests and the
clock are never forced.

Each property has a planted fault, a plausible slip in one definition of the
module, defined beside the action it replaces and not part of `Next`.

## 4. What is proved

TLAPS checks, for every value of the constants:

* `ClusterCacheProofs`: the inductive invariant `IInv` and from it `TypeOK`,
  `OneFlightPerKey`, `BoundedStaleness`, `ReadYourWrites`.  Neither property is
  inductive: staleness needs to know, for every place a copy can be (Redis, an
  in-memory entry, a request at a given stage), how old it may be there
  (`AgeInv`), that entries never expire later than now + TTL (`NewestInv`), and
  that a request's stage bounds its working time (`StageInv`).  `FreshInv` says
  that nothing older than the version an invalidation was good for can reach
  the process again; `FlightInv` ties flights to program counters.
* `RateLimiterProofs`: `TypeOK`, `WindowBound`, `PatientCallerAdmitted`.  The
  quantity that behaves is `Level` = tokens + (peak - last), the bucket as it
  would be had its clock not gone back.
* `StreamHubProofs`: `TypeOK`, `NoSendOnClosed`, `FeedInOrder`,
  `SlowClientsHarmNobody`.  `HubInv` ties the map of channels to the handlers
  (registered means between Register and Unregister) and the range to the read
  lock: that is why a channel in `todo` is open.  `FeedInv` counts what each
  connection was offered against what it got; `MoveHead` (reading from the
  channel changes nothing in what was got) and `FeedFits`, `FeedFull` (one offer)
  are the lemmas it rests on.  `RoomInv` says that a channel with room keeps it
  until its turn.
* `ClusterCacheRefinementProofs`: `ImplementsStaleReads`.  A cache hit or fill
  answers one client, the end of a flight answers or fails all of it, a crash
  takes the clients of one process away, a committed write is `Commit`, and every
  other step is invisible.  The invariant is that of `ClusterCacheProofs`; the
  age of an answer (`AnswerAge`) is what makes it a step of the promise.
* `ReleaseOpsProofs`: `TypeOK`, `KubeconfigLivesWithHelm`,
  `ToldChangesAreRecorded`, `SuccessIsReported` and `ImplementsAuditedChange`,
  for any number of requests and crashes.  What a client is told depends on how
  far its request has come, so the invariant has, for each request, where it is
  in its script (`ScriptInv`), that a helm process and its file belong to the
  call that waits for them or were left by a restart (`ProcessInv`), and what was applied against what is
  still to do (`AppliedInv`: a request at its audit event has changed the
  release, and an applied one is told otherwise only if its context ended).
  `AuditInv` adds what the memory store has recorded.  A step is one request's:
  `Frame` and `StepOf` say so once, and `Advanced` is the going on to the next
  call that three actions share.
* `HelmReposProofs`: `TypeOK`, `PendingIsExplained`, `OkRowsAreInHelm`,
  `CredentialsKept`, `TestLeavesNothing`, `AddedRowsAreRecorded` and the action
  property `RowsComeFromAdds`, for any requests, names, forms and faults.
  `ScriptInv` places every request in its script and says which row it means;
  the rest says what the requests under way still owe each other.  `BirthInv`:
  nobody works on a row before its own request has inserted it, so a late status
  or update cannot bring one into being.  `UniqueInv` is init.sql's UNIQUE.
  `RemoveInv`: a removal alone still has its row, and two of one row are
  excused, so a file entry goes only with a row that goes too.  `HelmInv` is
  `OkRowsAreInHelm` one step early: a request that is about to write "ok" counts
  as having written it, and the entry is in the file of its process.
  `PendingInv` names the request that is still to settle a pending row.
  `MapsInv`: a map belongs to the request that made it and to that request's row,
  so a merge writes to one row at most (`MergeWritesOne`) and every other row's
  credentials stay as they are (`MapsKept`).  `UpdateInv`: what waits to be
  written is the row's own map, already merged, or a separate map that holds what
  the row should become, unless updates of separate maps overlapped.
* `RecordsProofs`: `TypeOK`, `NoDuplicateProviders`, `ProvidersKept`,
  `AckedRowsKept`.  `Stage` lists what can be left of each method.  `SliceInv`
  says that slices under construction are the memory store's and never of
  clusters, which is why an unlocked writer cannot lose an acknowledged
  cluster; `OriginInv` and `MarkInv` tie a row to the table its request inserts
  into and to that table's words; `TimerInv` ties a goroutine to its report.
  `HoldInv` is about lists on their way back: none holds the provider it is to
  add, and an undisturbed one is the list that is enabled.  What
  `uninstallProvider`'s loop keeps is proved by induction over its index.
* `ListingProofs`: `TypeOK`, `NothingMissed`, `NothingTwice`, `WalkSucceeds`,
  `IdsLeadBack`, `DiffReplays` and `ExactWhenReachable`, for lists, times, limits,
  manifests and machine integers of any size and any number of clusters,
  revisions and requests.  The pages a walk has read cover the first
  (page - 1) * limit places of the list.  While rows only come they move back, so
  what was there at the start and lies on a covered place was seen (`Covered`);
  while rows only go they move forward, so what was seen lies on a covered place
  (`Passed`); rows of one time that change places may cross the border, which is
  why `Covered` and `Passed` speak of the others only.  Between Postgres's two
  statements the count is the list's length or the walk is excused (`Counted`).
  `OnlyThins` is what makes a change of the list such a move, after the filter
  too.  `WalkInv` bounds the covered places by the number of rows: with
  `WrapFits`, which says what an int that is one turn too large becomes,
  `PageIsCut` then shows that `paginate` and LIMIT/OFFSET compute without
  overflow and return the same cut of the list, and `PageCountReaches` that the
  rows end by the last page that `buildPaginated` names, even if the sum of
  total and limit overflows.  For releases `ReqInv` follows a request: what it
  has found are revisions, each of them once (`FoundInv`); if nothing changed
  since it began they are all that the clusters already asked store, and the
  page it is about to store is made of exactly those (`QuietInv`).  `Ranks` and `Sorting` say that sorting by time puts every
  revision at its rank, which makes that page exact; `PageInv` says that cached
  pages hold only ids of the two known forms.  `LineDiffKeeps` takes lineDiff's
  loop apart, place by place.

Assumptions: the named ASSUMEs on constants, which TLC evaluates in every run.
TTLs and bounds are naturals; the default page is a page; every goroutine has a
process; the burst is at least one token; the numbers of crashes and faults are
naturals; there is a form to fill in and a process to serve it; `None`, `Answered` and `Failed` are none
of the values they stand beside; requests are not names of tables.  In `Listing`
the default limits are ints and so is twice the number of rows, every row has a
time, "archive" is no cluster, and a line of a manifest that counts is not the
empty one.

Only model-checked: the liveness properties (`EveryRequestAnswered`,
`BroadcastReturns`, `ConnectionsEnd`, `EveryOperationAnswered`), because the
prover has no rules for fairness; and the two properties that the code violates.
Every other property of the passing runs is a theorem.  Induction over lists goes
by `SetInduction` and `SeqInduction` of `ListingProofs`: the library's induction
theorems take a predicate, which the provers cannot instantiate, so these take
a set in its place.  The prover knows nothing of `SelectSeq`, so filters that are
proved about are loops, written as functions of the number of elements visited
(`Only` in `Listing`, `Uninstalled` in `Records`).

## 5. Not modelled

* Cluster health, nodes, namespaces and workloads: answers of the Kubernetes API
  passed through.  Health uses the caches that `ClusterCache` models and writes
  a Redis entry that nothing reads.
* Readers of the memory store that range over a slice without the mutex while
  another request shifts it: what they see is undefined in Go and no value of a
  model; the writers' side of the same race is in `Records`.
* Graceful shutdown (`http.Server`), configuration, and the registry of helm
  providers, which is a constant.
* Authentication, request logging, CORS, version and metrics endpoints: checks
  of one request, with no state between requests.
* The Kubernetes client, kubeconfig flattening, chart names, helm's argument
  lists and times: I/O and text.
* Single-row reads and unpaged lists, audit statistics, compliance checks and
  the chart index: they change nothing and their answer is one read.
* The frontend's presentation; its stream client only reconnects.

## 6. Plan

1. Start-up and graceful shutdown: the choice of the store, composed with
   `ClusterCache` through Redis, and the end of the server with `StreamHub`.
2. In `ClusterCache`, reads that end early (`rows.Err()` is not looked at).
3. An abstract specification of the walk, with `Listing` shown to implement it.
