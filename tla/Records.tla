------------------------------- MODULE Records -------------------------------
(***************************************************************************)
(* The records the API keeps, in either of its stores: clusters, audit     *)
(* events, reports, notification channels and rules, approvals, the        *)
(* organization, its users and its enabled helm providers.  Postgres runs  *)
(* one statement per call.  The memory store holds a mutex for clusters,   *)
(* audit events and providers; the other slices are loaded, changed and    *)
(* stored with nothing to keep two requests apart.                         *)
(***************************************************************************)
EXTENDS Naturals, Sequences, FiniteSets, Functions

CONSTANTS Requests, Providers, MaxFaults

ASSUME FaultsAssumption == MaxFaults \in Nat

Tables == {"clusters", "audit", "reports", "channels", "rules", "approvals", "users"}
Rows   == Requests \cup Tables    \* a new row has its request's name, a seeded one its table's
Marks  == {"new", "pending", "completed", "on", "off", "approved", "rejected", "admin", "readonly"}

(* Calls of the store, and the store of a slice that was built without a   *)
(* lock; a request under way: its method, the calls it still has to make,  *)
(* the row or provider it is about, its slice, the providers it has read   *)
(* or, when it brings settings, those that stand in them.                  *)
Calls == {"CreateCluster", "DeleteCluster", "CreateAuditEvent", "CreateReport", "GetReport",
          "CreateNotificationChannel", "UpdateNotificationChannel", "DeleteNotificationChannel",
          "CreateNotificationRule", "Approve", "Reject", "UpdateOrganization", "UpdateUserRole",
          "GetEnabledProviders", "SetEnabledProviders", "store"}
Conversations == [script : Seq(Calls), todo : Seq(Calls), row : Rows \cup Providers,
                  installs : BOOLEAN, into : Tables \cup {"none"}, slice : SUBSET Rows,
                  list : Seq(Providers)]

ASSUME RowsAssumption == Requests \cap Tables = {}

VARIABLES store,      \* the repository main.go chose
          table,      \* the rows of each table
          mark,       \* a row's status, a channel's switch, a user's role
          providers,  \* the list of enabled providers
          req, told,  \* per request: its service method, what is left of it, the answer
          timers,     \* goroutines of CreateReport
          wanted,     \* the providers that the acknowledged changes add up to
          disturbed,  \* two provider changes overlapped, or a read failed
          faults

vars == <<store, table, mark, providers, req, told, timers, wanted, disturbed, faults>>
-----------------------------------------------------------------------------
(* The service methods (and provider handlers), as the store calls they    *)
(* make; a script with a longer name is a variant with a bug.              *)
RegisterCluster    == <<"CreateCluster">>
DeleteCluster      == <<"DeleteCluster", "CreateAuditEvent">>
CreateReport       == <<"CreateReport">>
Download           == <<"GetReport">>
CreateChannel      == <<"CreateNotificationChannel">>
UpdateChannel      == <<"UpdateNotificationChannel">>
DeleteChannel      == <<"DeleteNotificationChannel">>
CreateRule         == <<"CreateNotificationRule">>
Approve            == <<"Approve">>
Reject             == <<"Reject">>
UpdateOrganization == <<"UpdateOrganization">>
UpdateUserRole     == <<"UpdateUserRole">>
installProvider    == <<"GetEnabledProviders", "SetEnabledProviders">>
uninstallProvider  == <<"GetEnabledProviders", "SetEnabledProviders">>

Working(r)  == req[r].todo # <<>>
At(r, call) == Working(r) /\ Head(req[r].todo) = call
Answer(r, a) == /\ told' = [told EXCEPT ![r] = a]
                /\ req' = [req EXCEPT ![r].todo = <<>>]
Advance(r)  == IF Len(req[r].todo) = 1 THEN Answer(r, "ok")
               ELSE req' = [req EXCEPT ![r].todo = Tail(@)] /\ UNCHANGED told

Handle(r, script, row) ==
  /\ req[r].todo = <<>> /\ told[r] = "nothing"
  /\ req' = [req EXCEPT ![r].script = script, ![r].todo = script, ![r].row = row]
  /\ UNCHANGED <<store, table, mark, providers, told, timers, wanted, disturbed, faults>>

OnRow(r, t, script) == \E x \in table[t] \cup {r} : Handle(r, script, x)  \* r: no such row
OnProvider(r, script, installs) ==
  \E p \in Providers :
    /\ req[r].todo = <<>> /\ told[r] = "nothing"
    /\ req' = [req EXCEPT ![r].script = script, ![r].todo = script, ![r].row = p,
                         ![r].installs = installs]
    /\ UNCHANGED <<store, table, mark, providers, told, timers, wanted, disturbed, faults>>

(* A client's settings may be the object that it was shown (GetSettings),  *)
(* providers included; more requests may come before its own is served.    *)
updateOrganizationHandler(r) ==
  \E shown \in {<<>>, providers} :
    /\ req[r].todo = <<>> /\ told[r] = "nothing"
    /\ req' = [req EXCEPT ![r].script = UpdateOrganization, ![r].todo = UpdateOrganization,
                         ![r].row = r, ![r].list = shown]
    /\ UNCHANGED <<store, table, mark, providers, told, timers, wanted, disturbed, faults>>

createClusterHandler(r)      == Handle(r, RegisterCluster, r)
deleteClusterHandler(r)      == OnRow(r, "clusters", DeleteCluster)
createReportHandler(r)       == Handle(r, CreateReport, r)
reportDownloadHandler(r)     == OnRow(r, "reports", Download)
createChannelHandler(r)      == Handle(r, CreateChannel, r)
updateChannelHandler(r)      == OnRow(r, "channels", UpdateChannel)
deleteChannelHandler(r)      == OnRow(r, "channels", DeleteChannel)
createRuleHandler(r)         == Handle(r, CreateRule, r)
approveHandler(r)            == OnRow(r, "approvals", Approve)
rejectHandler(r)             == OnRow(r, "approvals", Reject)
updateUserRoleHandler(r)     == OnRow(r, "users", UpdateUserRole)
installProviderHandler(r)    == OnProvider(r, installProvider, TRUE)
uninstallProviderHandler(r)  == OnProvider(r, uninstallProvider, FALSE)
-----------------------------------------------------------------------------
(* How a call reaches a table.                                             *)
NoProviders == UNCHANGED <<providers, wanted, disturbed>>
Put(t, rows) == table' = [table EXCEPT ![t] = rows]
Rest == UNCHANGED <<store, faults>> /\ NoProviders

Statement(r, call, t, rows) ==
  /\ store = "postgres" /\ At(r, call)
  /\ Put(t, rows) /\ Advance(r) /\ Rest

InLock(r, call, t, rows) ==
  /\ store = "memory" /\ At(r, call)
  /\ Put(t, rows) /\ Advance(r) /\ Rest

(* Without the lock the new slice is built first and stored later.         *)
Unlocked(r, call, t, rows) ==
  /\ store = "memory" /\ At(r, call)
  /\ req' = [req EXCEPT ![r].todo = <<"store">> \o Tail(@), ![r].into = t, ![r].slice = rows]
  /\ UNCHANGED <<table, told>> /\ Rest

StoreSlice(r) ==
  /\ At(r, "store")
  /\ Put(req[r].into, req[r].slice) /\ Advance(r)
  /\ timers' = IF req[r].into = "reports" THEN timers \cup {r} ELSE timers
  /\ Rest /\ UNCHANGED mark

Plus(t, r)  == table[t] \cup {r}
Minus(t, r) == table[t] \ {req[r].row}
Untimed == UNCHANGED <<mark, timers>>
Marked(x, m) == mark' = [mark EXCEPT ![x] = m] /\ UNCHANGED timers

MissesRow(r, call, t) ==                  \* the memory store: "not found"
  /\ store = "memory" /\ At(r, call) /\ req[r].row \notin table[t]
  /\ Answer(r, "error") /\ UNCHANGED table /\ Untimed /\ Rest
-----------------------------------------------------------------------------
PgCreateCluster(r)  == Statement(r, "CreateCluster", "clusters", Plus("clusters", r)) /\ Untimed
MemCreateClusterUnlocked(r) ==
  Unlocked(r, "CreateCluster", "clusters", Plus("clusters", r)) /\ Untimed
MemCreateCluster(r) == InLock(r, "CreateCluster", "clusters", Plus("clusters", r)) /\ Untimed

PgDeleteCluster(r)  == Statement(r, "DeleteCluster", "clusters", Minus("clusters", r)) /\ Untimed
MemDeleteCluster(r) ==
  \/ /\ req[r].row \in table["clusters"]
     /\ InLock(r, "DeleteCluster", "clusters", Minus("clusters", r)) /\ Untimed
  \/ MissesRow(r, "DeleteCluster", "clusters")

(* Refused: source_ip is an INET and is always empty; nobody looks.        *)
PgCreateAuditEvent(r)  == Statement(r, "CreateAuditEvent", "audit", table["audit"]) /\ Untimed
MemCreateAuditEvent(r) == InLock(r, "CreateAuditEvent", "audit", Plus("audit", r)) /\ Untimed

PgCreateReport(r)  == /\ Statement(r, "CreateReport", "reports", Plus("reports", r))
                      /\ mark' = [mark EXCEPT ![r] = "pending"] /\ timers' = timers \cup {r}
MemCreateReport(r) == /\ Unlocked(r, "CreateReport", "reports", Plus("reports", r))
                      /\ Marked(r, "pending")

PgCreateChannel(r)  == /\ Statement(r, "CreateNotificationChannel", "channels", Plus("channels", r))
                       /\ Marked(r, "on")
MemCreateChannel(r) == /\ Unlocked(r, "CreateNotificationChannel", "channels", Plus("channels", r))
                       /\ Marked(r, "on")

PgDeleteChannel(r)  ==
  Statement(r, "DeleteNotificationChannel", "channels", Minus("channels", r)) /\ Untimed
MemDeleteChannel(r) ==
  \/ /\ req[r].row \in table["channels"]
     /\ Unlocked(r, "DeleteNotificationChannel", "channels", Minus("channels", r)) /\ Untimed
  \/ MissesRow(r, "DeleteNotificationChannel", "channels")

PgCreateRule(r)  ==
  Statement(r, "CreateNotificationRule", "rules", Plus("rules", r)) /\ Untimed
MemCreateRule(r) ==
  Unlocked(r, "CreateNotificationRule", "rules", Plus("rules", r)) /\ Untimed

(* Updates of one row; none is an error.  In memory one that races with a  *)
(* change of the slice is lost, or finds its index gone and panics.        *)
InPlace(r, t, m) ==
  \/ req[r].row \in table[t] /\ Marked(req[r].row, m) /\ Advance(r)
  \/ req[r].row \notin table[t] /\ Untimed /\ Answer(r, "error")

PgUpdates(r, call, t, m) ==
  store = "postgres" /\ At(r, call) /\ UNCHANGED table /\ Rest /\ InPlace(r, t, m)

Racing(r, t) == \E o \in Requests \ {r} : At(o, "store") /\ req[o].into = t

MemUpdates(r, call, t, m) ==
  /\ store = "memory" /\ At(r, call) /\ UNCHANGED table /\ Rest
  /\ \/ InPlace(r, t, m)
     \/ Racing(r, t) /\ Untimed /\ (Advance(r) \/ Answer(r, "error"))

Switch == {"on", "off"}
PgUpdateChannel(r)  ==
  \E m \in Switch : PgUpdates(r, "UpdateNotificationChannel", "channels", m)
MemUpdateChannel(r) ==
  \E m \in Switch : MemUpdates(r, "UpdateNotificationChannel", "channels", m)

PgApprove(r)  == PgUpdates(r, "Approve", "approvals", "approved")
MemApprove(r) == MemUpdates(r, "Approve", "approvals", "approved")
PgRejectDeclined(r) == PgUpdates(r, "Reject", "approvals", "declined")
PgReject(r)   == PgUpdates(r, "Reject", "approvals", "rejected")
MemReject(r)  == MemUpdates(r, "Reject", "approvals", "rejected")

(* A role is any string of the client's: two of them.                      *)
Roles == {"admin", "readonly"}
PgUpdateUserRole(r)  == \E m \in Roles : PgUpdates(r, "UpdateUserRole", "users", m)
MemUpdateUserRole(r) == \E m \in Roles : MemUpdates(r, "UpdateUserRole", "users", m)

(* A report is handed out when it is completed.                            *)
GetReport(r) ==
  /\ At(r, "GetReport") /\ UNCHANGED table /\ Untimed /\ Rest
  /\ IF req[r].row \in table["reports"] /\ mark[req[r].row] = "completed"
     THEN Advance(r) ELSE Answer(r, "error")
-----------------------------------------------------------------------------
(* The goroutine that is meant to complete a report.                       *)
UpdateClusterStatus(id) ==
  mark' = IF id \in table["clusters"] THEN [mark EXCEPT ![id] = "completed"] ELSE mark

CompleteReport(r) ==
  /\ r \in timers /\ timers' = timers \ {r}
  /\ UpdateClusterStatus(r)
  /\ UNCHANGED <<table, req, told>> /\ Rest
-----------------------------------------------------------------------------
(* Enabled providers: read, change, write back.  On Postgres they are a    *)
(* key of the organization's settings.                                     *)
NoTables == UNCHANGED <<store, table, mark, timers>>

Holding(r) == \E o \in Requests \ {r} : At(o, "SetEnabledProviders")

AlreadyInstalledNever(r) == FALSE
AlreadyInstalled(r) == req[r].installs /\ req[r].row \in Range(providers)

GetEnabledProviders(r) ==
  /\ At(r, "GetEnabledProviders")
  /\ IF AlreadyInstalled(r)
     THEN Answer(r, "ok") /\ UNCHANGED disturbed
     ELSE /\ req' = [req EXCEPT ![r].todo = Tail(@), ![r].list = providers]
          /\ disturbed' = (disturbed \/ Holding(r)) /\ UNCHANGED told
  /\ NoTables /\ UNCHANGED <<providers, wanted, faults>>

(* An error of the read is an empty list.                                  *)
PgReadFails(r) ==
  /\ store = "postgres" /\ At(r, "GetEnabledProviders") /\ faults < MaxFaults
  /\ req' = [req EXCEPT ![r].todo = Tail(@), ![r].list = <<>>]
  /\ disturbed' = TRUE /\ faults' = faults + 1
  /\ NoTables /\ UNCHANGED <<told, providers, wanted>>

InstalledAlone(r) == <<req[r].row>>
Installed(r)   == Append(req[r].list, req[r].row)
Uninstalled(r) ==
  LET list == req[r].list
      kept[n \in 0 .. Len(list)] ==
        IF n = 0 THEN <<>>
        ELSE IF list[n] = req[r].row THEN kept[n - 1] ELSE Append(kept[n - 1], list[n])
  IN  kept[Len(list)]

SetEnabledProviders(r) ==
  /\ At(r, "SetEnabledProviders")
  /\ providers' = IF req[r].installs THEN Installed(r) ELSE Uninstalled(r)
  /\ wanted' = IF req[r].installs THEN wanted \cup {req[r].row} ELSE wanted \ {req[r].row}
  /\ Advance(r) /\ NoTables /\ UNCHANGED <<disturbed, faults>>

(* The memory store keeps the providers apart from the settings; Postgres  *)
(* replaces the whole object when the client sends settings.               *)
MemUpdateOrganization(r) ==
  /\ store = "memory" /\ At(r, "UpdateOrganization")
  /\ Advance(r) /\ UNCHANGED <<table, mark, timers>> /\ Rest

PgUpdateOrganization(r) ==
  /\ store = "postgres" /\ At(r, "UpdateOrganization")
  /\ \/ UNCHANGED <<providers, disturbed>>                         \* only a name
     \/ providers' = req[r].list /\ disturbed' = TRUE             \* settings
  /\ Advance(r) /\ NoTables /\ UNCHANGED <<wanted, faults>>
-----------------------------------------------------------------------------
(* A statement fails: an audit event's error is dropped, any other is the  *)
(* answer.  A restart loses requests, goroutines and the memory store.     *)
StatementFails(r) ==
  /\ store = "postgres" /\ Working(r) /\ faults < MaxFaults
  /\ Head(req[r].todo) # "GetEnabledProviders"
  /\ IF At(r, "CreateAuditEvent") THEN Advance(r) ELSE Answer(r, "error")
  /\ faults' = faults + 1
  /\ NoTables /\ NoProviders

(* scripts/init.sql seeds users and, after a statement that is no SQL, at  *)
(* which a run may stop, channels, rules and reports.  Nothing in the      *)
(* repository inserts an approval: Postgres may hold one of others.        *)
Seeded(tables) == [t \in Tables |-> IF t \in tables THEN {t} ELSE {}]
Seeds(s) == IF s = "memory" THEN {{"users"}}
            ELSE {{"users", "approvals"},
                  {"users", "approvals", "channels", "rules", "reports"}}

Restart ==
  /\ faults < MaxFaults /\ faults' = faults + 1
  /\ told' = [r \in Requests |-> IF Working(r) THEN "lost" ELSE told[r]]
  /\ req' = [r \in Requests |-> [req[r] EXCEPT !.todo = <<>>]]
  /\ timers' = {}
  /\ IF store = "memory"
     THEN /\ table' = Seeded({"users"}) /\ providers' = <<>>
          /\ wanted' = {} /\ UNCHANGED disturbed
     ELSE UNCHANGED <<table, providers, wanted, disturbed>>
  /\ UNCHANGED <<store, mark>>
-----------------------------------------------------------------------------
Init ==
  /\ store \in {"memory", "postgres"} /\ table \in {Seeded(tables) : tables \in Seeds(store)}
  /\ mark = [x \in Rows |-> IF x = "reports" THEN "completed" ELSE "new"] /\ providers = <<>>
  /\ req = [r \in Requests |-> [script |-> <<>>, todo |-> <<>>, row |-> r,
                                installs |-> FALSE, into |-> "none", slice |-> {}, list |-> <<>>]]
  /\ told = [r \in Requests |-> "nothing"]
  /\ timers = {} /\ wanted = {} /\ disturbed = FALSE /\ faults = 0

Receive(r) ==
  \/ createClusterHandler(r) \/ deleteClusterHandler(r) \/ createReportHandler(r)
  \/ reportDownloadHandler(r)
  \/ createChannelHandler(r) \/ updateChannelHandler(r) \/ deleteChannelHandler(r)
  \/ createRuleHandler(r) \/ approveHandler(r) \/ rejectHandler(r)
  \/ updateOrganizationHandler(r) \/ updateUserRoleHandler(r)
  \/ installProviderHandler(r) \/ uninstallProviderHandler(r)

Call(r) ==
  \/ PgCreateCluster(r) \/ MemCreateCluster(r) \/ PgDeleteCluster(r) \/ MemDeleteCluster(r)
  \/ PgCreateAuditEvent(r) \/ MemCreateAuditEvent(r)
  \/ PgCreateReport(r) \/ MemCreateReport(r) \/ StoreSlice(r)
  \/ PgCreateChannel(r) \/ MemCreateChannel(r) \/ PgDeleteChannel(r) \/ MemDeleteChannel(r)
  \/ PgCreateRule(r) \/ MemCreateRule(r) \/ PgUpdateChannel(r) \/ MemUpdateChannel(r)
  \/ PgApprove(r) \/ MemApprove(r) \/ PgReject(r) \/ MemReject(r)
  \/ PgUpdateUserRole(r) \/ MemUpdateUserRole(r) \/ GetReport(r)
  \/ GetEnabledProviders(r) \/ SetEnabledProviders(r)
  \/ MemUpdateOrganization(r) \/ PgUpdateOrganization(r)

Next == \/ \E r \in Requests : \/ Receive(r) \/ Call(r) \/ CompleteReport(r)
                               \/ StatementFails(r) \/ PgReadFails(r)
        \/ Restart

Spec == Init /\ [][Next]_vars

(* Goroutines run and time passes.                                         *)
FairSpec == Spec /\ \A r \in Requests : WF_vars(Call(r)) /\ WF_vars(CompleteReport(r))
-----------------------------------------------------------------------------
(* The type of the state, and each table's own words for a row's status.   *)
TypeOK ==
  /\ store \in {"memory", "postgres"} /\ faults \in 0 .. MaxFaults
  /\ table \in [Tables -> SUBSET Rows] /\ mark \in [Rows -> Marks]
  /\ req \in [Requests -> Conversations]
  /\ \A x \in table["channels"]  : mark[x] \in {"new", "on", "off"}
  /\ \A x \in table["reports"]   : mark[x] \in {"pending", "completed"}
  /\ \A x \in table["approvals"] : mark[x] \in {"new", "approved", "rejected"}
  /\ providers \in Seq(Providers) /\ wanted \subseteq Providers
  /\ timers \subseteq Requests /\ disturbed \in BOOLEAN
  /\ told \in [Requests -> {"nothing", "ok", "error", "lost"}]

(* No provider is listed twice, whatever installs and uninstalls overlap,  *)
(* fail or are lost (installProviderHandler's search of what it read), and *)
(* whatever old settings a client sends back.                              *)
NoDuplicateProviders == Len(providers) = Cardinality(Range(providers))

(* The enabled providers are what the acknowledged installs and uninstalls *)
(* add up to, unless two of them overlapped, a read failed or a client     *)
(* replaced the settings they are kept in.                                 *)
ProvidersKept == ~disturbed => Range(providers) = wanted

(* A cluster that was registered stays until somebody asks to delete it,   *)
(* and a deletion's audit event for good; on Postgres so does every row,   *)
(* in memory only what the mutex guards (CreateCluster, CreateAuditEvent). *)
Inserts(r, t) == /\ told[r] = "ok"
                 /\ \/ t = "clusters" /\ req[r].script = RegisterCluster
                    \/ t = "reports"  /\ req[r].script = CreateReport
                    \/ t = "channels" /\ req[r].script = CreateChannel
                    \/ t = "rules"    /\ req[r].script = CreateRule
                    \/ t = "audit"    /\ req[r].script = DeleteCluster
Deletes(o, t) == \/ t = "clusters" /\ req[o].script = DeleteCluster
                 \/ t = "channels" /\ req[o].script = DeleteChannel
Durable(t) == \/ store = "memory" /\ faults = 0 /\ t \in {"clusters", "audit"}
              \/ store = "postgres" /\ t # "audit"
AckedRowsKept ==
  \A t \in Tables, r \in Requests :
    Durable(t) /\ Inserts(r, t) =>
      r \in table[t] \/ \E o \in Requests : Deletes(o, t) /\ req[o].row = r

(* "Events are recorded when clusters, releases, or settings are modified" *)
(* (AuditPage.tsx), of clusters and settings, without any fault.           *)
ChangesAreRecorded ==
  \A r \in Requests :
    told[r] = "ok" /\ req[r].script \in {RegisterCluster, DeleteCluster, UpdateOrganization}
      => r \in table["audit"]

(* "Report generation started. It will be ready shortly." (ReportsPage.tsx *)
(* and the goroutine of CreateReport), without any fault.                  *)
ReportsComplete ==
  \A r \in Requests : r \in table["reports"] ~> mark[r] = "completed"
=============================================================================
