------------------------------ MODULE HelmRepos ------------------------------
(***************************************************************************)
(* Helm repositories are kept in two places: a row of the store and an     *)
(* entry in the repository file of the helm CLI, of which every API        *)
(* process has its own.  A service method is the script of the calls it    *)
(* makes; any other request, of this process or another, or a failure, can *)
(* come between two calls.  Credentials are maps, and maps are shared: the *)
(* memory store hands out the one it stores, so a merge into it is a write *)
(* to the store.                                                           *)
(***************************************************************************)
EXTENDS Naturals, Sequences

CONSTANTS Requests, Old,            \* requests; a repository added before
          Processes,                \* API processes that share the Postgres store
          Names, Oci,               \* repository names, those of OCI registries
          Urls, Keys, Values, Blank, \* Blank: a field the client left empty
          Forms, OldForm,           \* what clients submit, and did for Old: URL, credentials
          None, Answered,             \* a request not yet made, one that has been answered
          MaxFaults

CredMaps == [Keys -> Values \cup {Blank}]
Configs  == [url : Urls, creds : CredMaps]

Rows == Requests \cup {Old}        \* a new row is named after the request that adds it
Maps == Rows \cup {None}           \* a map by the request that made it; None is Go's nil
Repositories == [name : Names, url : Urls, creds : Maps, status : {"pending", "ok", "error"}]

Ops   == {"add", "update", "remove", "refresh", "test", "charts"}
Calls == {"create", "creds", "update", "list", "delete", "status", "repoAdd", "repoUpdate",
          "repoRemove", "repoTest", "cleanUp", "index"}

(* A request under way: its process and method, the calls it still has to  *)
(* make, the row and the name it is about, what the client sent, the       *)
(* credentials it works with, and whether helm succeeded.                  *)
Conversations == [proc : Processes, op : Ops, todo : Seq(Calls), id : Rows,
                  name : Names \cup {None}, url : Urls, form : CredMaps, creds : Maps,
                  ok : BOOLEAN]

ASSUME FormsAssumption == Forms \subseteq Configs /\ Forms # {} /\ OldForm \in Configs
ASSUME ProcessesAssumption == Processes # {}
ASSUME NamesAssumption == Oci \subseteq Names
ASSUME RowsAssumption  == Old \notin Requests
ASSUME FaultsAssumption == MaxFaults \in Nat
ASSUME NoneAssumption  == /\ None \notin Names \cup Rows \cup Configs \cup Repositories \cup Conversations
                          /\ Answered \notin Conversations \cup {None}

VARIABLES store,    \* the repository main.go chose; "bare" is Postgres without the table
          row,      \* helm_repositories
          heap,     \* what the maps of credentials hold
          cli,      \* per process: helm's repository file
          trial,    \* per process: its "<name>--test" entries
          req,      \* requests under way or answered
          audit,    \* requests whose event is in the audit log
          hurt,     \* rows and names that a fault or a double removal has touched
          owed,     \* credentials that the merges into a row asked for
          raced,    \* rows with overlapping updates of separate maps
          faults

vars == <<store, row, heap, cli, trial, req, audit, hurt, owed, raced, faults>>
-----------------------------------------------------------------------------
(* The service methods.  `creds', `list' and `status' are calls of the     *)
(* store; repo* are runs of the helm CLI.  A script with a longer name is  *)
(* a variant with a bug.                                                   *)

AddHelmRepository     == <<"create", "repoAdd", "status">>
UpdateHelmRepositoryUnread == <<"update", "list", "repoAdd", "status">>
UpdateHelmRepositoryForgettingErrors == <<"creds", "update", "list", "repoAdd">>
UpdateHelmRepository  == <<"creds", "update", "list", "repoAdd", "status">>
RemoveHelmRepositoryRowFirst == <<"creds", "list", "delete", "repoRemove">>
RemoveHelmRepository  == <<"creds", "list", "repoRemove", "delete">>
RefreshHelmRepository == <<"creds", "list", "repoUpdate", "status">>
TestHelmRepositoryNoCleanUp == <<"creds", "list", "repoTest">>
TestHelmRepository    == <<"creds", "list", "repoTest", "cleanUp">>
ListCharts            == <<"list", "creds", "index">>

(* The errors a method does not look at: it goes on with what it has.      *)
Tolerated == {<<"update", "creds">>, <<"remove", "list">>,
              <<"add", "status">>, <<"update", "status">>, <<"charts", "creds">>}

Working(r)  == req[r] \notin {None, Answered}
At(r, call) == Working(r) /\ Head(req[r].todo) = call

Return(r) == req' = [req EXCEPT ![r] = Answered] /\ UNCHANGED audit

(* At the end of a change; Postgres refuses every event (see Records).     *)
logAuditOfChanges(r) == audit' = audit \cup (IF req[r].op = "update" THEN {r} ELSE {})
logAudit(r) ==
  audit' = audit \cup (IF store = "memory" /\ req[r].op \in {"add", "update", "remove"}
                       THEN {r} ELSE {})
Continue(r, rec) == IF rec.todo = <<>>
                    THEN req' = [req EXCEPT ![r] = Answered] /\ logAudit(r)
                    ELSE req' = [req EXCEPT ![r] = rec] /\ UNCHANGED audit
Advance(r)     == Continue(r, [req[r] EXCEPT !.todo = Tail(@)])
Fail(r)        == IF <<req[r].op, Head(req[r].todo)>> \in Tolerated
                  THEN Advance(r) ELSE Return(r)

Found(r)  == row[req[r].id] # None
NoCreds    == [k \in Keys |-> Blank]
Content(m) == IF m = None THEN NoCreds ELSE heap[m]
Config(r) == [url |-> req[r].url, creds |-> Content(req[r].creds)]
Proc(r)   == req[r].proc
MergeGivenOnly(old, new) == [k \in {k \in Keys : new[k] # Blank} |-> new[k]]
Merge(old, new) == [k \in Keys |-> IF new[k] # Blank THEN new[k] ELSE old[k]]

Empty == [i \in Rows |-> None]
NoEntries == [n \in Names |-> None]

NoFault == UNCHANGED <<store, hurt, faults>>
NoHelm  == UNCHANGED <<cli, trial>>
NoMaps  == UNCHANGED <<heap, raced>>
NoRows  == UNCHANGED <<row, owed>> /\ NoMaps
-----------------------------------------------------------------------------
(* Handlers.  A request they refuse at once changes nothing and is left    *)
(* out; clients ask for rows they can see.  Processes with the memory      *)
(* store have nothing in common, so one of them is enough.                 *)
TheProcess == CHOOSE p \in Processes : TRUE
Serving    == IF store = "memory" THEN {TheProcess} ELSE Processes

(* What the client sent is a map of its own, or nil if it sent none.       *)
Start(r, op, script, id, name, form) ==
  /\ req[r] = None
  /\ heap' = [heap EXCEPT ![r] = form.creds]
  /\ \E p \in Serving, m \in IF op = "add" /\ form.creds = NoCreds THEN {None, r} ELSE {r} :
       Continue(r, [proc |-> p, op |-> op, todo |-> script, id |-> id, name |-> name,
                    url |-> form.url, form |-> form.creds, creds |-> m, ok |-> TRUE])
  /\ NoFault /\ NoHelm /\ UNCHANGED <<row, owed, raced>>

OnRow(r, op, script, form) ==
  \E id \in Rows : row[id] # None /\ Start(r, op, script, id, None, form)

addHelmRepositoryHandler(r) ==
  \E n \in Names, f \in Forms : Start(r, "add", AddHelmRepository, r, n, f)
updateHelmRepositoryHandler(r) ==
  \E f \in Forms : OnRow(r, "update", UpdateHelmRepository, f)

AnyForm == CHOOSE f \in Forms : TRUE     \* the other handlers have no form
deleteHelmRepositoryHandler(r)  == OnRow(r, "remove", RemoveHelmRepository, AnyForm)
refreshHelmRepositoryHandler(r) == OnRow(r, "refresh", RefreshHelmRepository, AnyForm)
testHelmRepositoryHandler(r)    == OnRow(r, "test", TestHelmRepository, AnyForm)
listChartsHandler(r)            == OnRow(r, "charts", ListCharts, AnyForm)
-----------------------------------------------------------------------------
(* Calls of the store.                                                     *)

(* Postgres has UNIQUE(org_id, name), or, when init.sql stopped at its     *)
(* stray statement before this table, nothing; the memory store appends.   *)
PgAccepts(n)  == \A i \in Rows : row[i] # None => row[i].name # n
Accepts(n)    == store = "memory" \/ (store = "postgres" /\ PgAccepts(n))

CreateHelmRepository(r) ==
  /\ At(r, "create")
  /\ Accepts(req[r].name)
  /\ row' = [row EXCEPT ![r] = [name |-> req[r].name, url |-> req[r].url,
                                creds |-> req[r].creds, status |-> "pending"]]
  /\ owed' = [owed EXCEPT ![r] = Content(req[r].creds)]
  /\ Advance(r) /\ NoFault /\ NoHelm /\ NoMaps

Refused(r) ==
  /\ At(r, "create")
  /\ ~Accepts(req[r].name)
  /\ Fail(r) /\ NoFault /\ NoHelm /\ NoRows

(* Of two removals of a row the slower one may run `helm repo remove' when *)
(* the row is gone and a new repository has its name.                      *)
RemovedTwice(r) == req[r].op = "remove" /\
  \E o \in Requests \ {r} : Working(o) /\ req[o].op = "remove" /\ req[o].id = req[r].id

(* Reads the credentials.  An update merges the client's fields into the   *)
(* map it read: in the memory store that is the stored one, unless it is   *)
(* nil; otherwise, and always on Postgres, the map is the update's own.    *)
InPlace(r)  == store = "memory" /\ row[req[r].id].creds # None
MapOf(r)    == IF InPlace(r) THEN row[req[r].id].creds ELSE r

WorksOnOther(r, m) ==
  \E o \in Requests : At(o, "update") /\ req[o].id = req[r].id /\ req[o].creds # m

MergeCredentials(r) ==
  /\ heap' = [heap EXCEPT ![MapOf(r)] = Merge(Content(row[req[r].id].creds), req[r].form)]
  /\ owed' = IF InPlace(r) THEN [owed EXCEPT ![req[r].id] = Merge(@, req[r].form)] ELSE owed
  /\ raced' = IF WorksOnOther(r, MapOf(r)) THEN raced \cup {req[r].id} ELSE raced
  /\ Continue(r, [req[r] EXCEPT !.todo = Tail(@), !.creds = MapOf(r)])

GetHelmRepositoryCredentials(r) ==
  /\ At(r, "creds")
  /\ Found(r)
  /\ IF req[r].op = "update"
     THEN MergeCredentials(r)
     ELSE /\ Continue(r, [req[r] EXCEPT !.todo = Tail(@), !.creds = row[req[r].id].creds])
          /\ UNCHANGED owed /\ NoMaps
  /\ hurt' = IF RemovedTwice(r) THEN hurt \cup {row[req[r].id].name} ELSE hurt
  /\ NoHelm /\ UNCHANGED <<store, row, faults>>

(* The row of the request: its name, and its URL unless the client sent one. *)
ListHelmRepositories(r) ==
  /\ At(r, "list")
  /\ Found(r)
  /\ LET found == row[req[r].id] IN
     Continue(r, [req[r] EXCEPT !.todo = IF found.name \in Oci /\ req[r].op \in {"refresh"}
                                       THEN <<"repoAdd", "status">> ELSE Tail(@),
                              !.name = found.name,
                              !.url  = IF req[r].op = "update" THEN @ ELSE found.url])
  /\ NoFault /\ NoHelm /\ NoRows

NotFound(r) ==
  /\ \E call \in {"creds", "list"} : At(r, call)
  /\ ~Found(r)
  /\ Fail(r) /\ NoFault /\ NoHelm /\ NoRows

(* A write that hits no row is an error of the memory store only.          *)
MissesRow(r) == IF store = "memory" THEN Fail(r) ELSE Advance(r)

(* A merge in place was owed from the moment it was made.                  *)
UpdateRow(r) ==
  /\ At(r, "update")
  /\ IF Found(r)
     THEN /\ row' = [row EXCEPT ![req[r].id] = [@ EXCEPT !.url = req[r].url, !.status = "pending",
                                                        !.creds = req[r].creds]]
          /\ owed' = IF req[r].creds = row[req[r].id].creds THEN owed
                     ELSE [owed EXCEPT ![req[r].id] = Merge(@, req[r].form)]
          /\ Advance(r)
     ELSE MissesRow(r) /\ UNCHANGED <<row, owed>>
  /\ NoFault /\ NoHelm /\ NoMaps

Settled(r) == IF req[r].ok THEN "ok" ELSE "error"

StatusUpserts(r) ==
  /\ At(r, "status")
  /\ row' = [row EXCEPT ![req[r].id] = [name |-> req[r].name, url |-> req[r].url,
                                        creds |-> req[r].creds, status |-> Settled(r)]]
  /\ owed' = [owed EXCEPT ![req[r].id] = Content(req[r].creds)]
  /\ Advance(r) /\ NoFault /\ NoHelm /\ NoMaps

UpdateHelmRepositoryStatus(r) ==
  /\ At(r, "status")
  /\ IF Found(r)
     THEN row' = [row EXCEPT ![req[r].id].status = Settled(r)] /\ Advance(r)
     ELSE MissesRow(r) /\ UNCHANGED row
  /\ NoFault /\ NoHelm /\ UNCHANGED owed /\ NoMaps

DeleteHelmRepository(r) ==
  /\ At(r, "delete")
  /\ IF Found(r) THEN row' = [row EXCEPT ![req[r].id] = None] /\ Advance(r)
                 ELSE MissesRow(r) /\ UNCHANGED row
  /\ NoFault /\ NoHelm /\ UNCHANGED owed /\ NoMaps
-----------------------------------------------------------------------------
(* Runs of the helm CLI.  `helm repo add' skips an entry that is already   *)
(* there with the same configuration and refuses one that differs.         *)

Ran(r, ok) == Continue(r, [req[r] EXCEPT !.todo = Tail(@), !.ok = ok])

HelmAdds(file, n, c) == [file EXCEPT ![n] = IF @ = None THEN c ELSE @]
HelmCanAdd(file, n, c) == file[n] \in {None, c}

\* An OCI registry: a login, no entry.
ecrLogin(r) == req[r].name \in Oci /\ Ran(r, TRUE) /\ UNCHANGED cli

HelmRepoAdd(r) == /\ req[r].name \notin Oci
                  /\ HelmCanAdd(cli[Proc(r)], req[r].name, Config(r))
                  /\ cli' = [cli EXCEPT ![Proc(r)] = HelmAdds(@, req[r].name, Config(r))]
                  /\ Ran(r, TRUE)

RepoAdd(r) ==
  /\ At(r, "repoAdd")
  /\ \/ Ran(r, FALSE) /\ UNCHANGED cli                     \* unreachable, or refused
     \/ ecrLogin(r)
     \/ HelmRepoAdd(r)
  /\ NoFault /\ NoRows /\ UNCHANGED trial

RepoUpdate(r) ==
  /\ At(r, "repoUpdate")
  /\ \/ Ran(r, FALSE)
     \/ cli[Proc(r)][req[r].name] # None /\ Ran(r, TRUE)
  /\ NoFault /\ NoHelm /\ NoRows

(* The error is ignored.                                                   *)
RepoRemove(r) ==
  /\ At(r, "repoRemove")
  /\ \/ UNCHANGED cli
     \/ req[r].name # None /\ cli' = [cli EXCEPT ![Proc(r)][req[r].name] = None]
  /\ Advance(r) /\ NoFault /\ NoRows /\ UNCHANGED trial

\* An OCI registry is only asked for a token.
ECRToken(r) == req[r].name \in Oci /\ Return(r) /\ UNCHANGED trial

RepoTest(r) ==
  /\ At(r, "repoTest")
  /\ \/ ECRToken(r)
     \/ /\ req[r].name \notin Oci
        /\ \/ Ran(r, FALSE) /\ UNCHANGED trial
           \/ /\ HelmCanAdd(trial[Proc(r)], req[r].name, Config(r))
              /\ trial' = [trial EXCEPT ![Proc(r)] = HelmAdds(@, req[r].name, Config(r))]
              /\ Ran(r, TRUE)
  /\ NoFault /\ NoRows /\ UNCHANGED cli

CleanUp(r) ==
  /\ At(r, "cleanUp")
  /\ trial' = [trial EXCEPT ![Proc(r)][req[r].name] = None]
  /\ Return(r)
  /\ NoFault /\ NoRows /\ UNCHANGED cli

(* The chart index is fetched over HTTP: nothing is stored.                *)
FetchIndex(r) ==
  /\ At(r, "index")
  /\ Return(r)
  /\ NoFault /\ NoHelm /\ NoRows
-----------------------------------------------------------------------------
(* Faults: a statement fails, a request's context ends while helm runs     *)
(* (helm is killed, perhaps after it wrote), a process is restarted.       *)

Fault(what) == faults < MaxFaults /\ faults' = faults + 1 /\ hurt' = hurt \cup what

StatementFails(r) ==
  /\ store # "memory"
  /\ \E call \in {"create", "creds", "update", "list", "status", "delete"} : At(r, call)
  /\ Fault({req[r].id})
  /\ Fail(r) /\ NoHelm /\ NoRows /\ UNCHANGED store

HelmKilled(r) ==
  /\ \E call \in {"repoAdd", "repoTest", "cleanUp"} : At(r, call)
  /\ Fault({req[r].id, req[r].name})
  /\ \/ /\ At(r, "repoAdd") /\ req[r].name \notin Oci
        /\ cli' = [cli EXCEPT ![Proc(r)] = HelmAdds(@, req[r].name, Config(r))]
        /\ Ran(r, FALSE) /\ UNCHANGED trial
     \/ /\ At(r, "repoTest") /\ req[r].name \notin Oci
        /\ trial' = [trial EXCEPT ![Proc(r)] = HelmAdds(@, req[r].name, Config(r))]
        /\ Ran(r, FALSE) /\ UNCHANGED cli
     \/ At(r, "cleanUp") /\ Return(r) /\ NoHelm
  /\ NoRows /\ UNCHANGED store

(* The files are gone with the container, or still there.                  *)
Restart(p) ==
  /\ p \in Serving
  /\ Fault(Rows \cup Names)
  /\ req' = [r \in Requests |-> IF Working(r) /\ Proc(r) = p THEN Answered ELSE req[r]]
  /\ row' = IF store = "memory" THEN Empty ELSE row
  /\ audit' = IF store = "memory" THEN {} ELSE audit
  /\ \/ NoHelm
     \/ /\ cli' = [cli EXCEPT ![p] = NoEntries]
        /\ trial' = [trial EXCEPT ![p] = NoEntries]
  /\ UNCHANGED <<store, heap, owed, raced>>
-----------------------------------------------------------------------------
(* Nothing yet, or one repository that was added by some process before,   *)
(* with credentials or without, and has settled.                           *)
Init ==
  /\ store \in {"memory", "postgres", "bare"}
  /\ req = [r \in Requests |-> None]
  /\ audit = {} /\ hurt = {} /\ raced = {} /\ faults = 0
  /\ trial = [p \in Processes |-> NoEntries]
  /\ \/ /\ row = Empty /\ cli = [p \in Processes |-> NoEntries]
        /\ heap = [i \in Rows |-> NoCreds] /\ owed = heap
     \/ /\ store # "bare"
        /\ \E n \in Names, p \in Serving, m \in {None, Old} :
             /\ row = [Empty EXCEPT ![Old] = [name |-> n, url |-> OldForm.url, creds |-> m,
                                              status |-> "ok"]]
             /\ heap = [i \in Rows |-> IF i = m THEN OldForm.creds ELSE NoCreds]
             /\ owed = heap
             /\ cli = [q \in Processes |->
                         IF q = p /\ n \notin Oci
                         THEN [NoEntries EXCEPT ![n] = [url |-> OldForm.url, creds |-> heap[Old]]]
                         ELSE NoEntries]

Handle(r) ==
  \/ addHelmRepositoryHandler(r) \/ updateHelmRepositoryHandler(r)
  \/ deleteHelmRepositoryHandler(r) \/ refreshHelmRepositoryHandler(r)
  \/ testHelmRepositoryHandler(r) \/ listChartsHandler(r)

Call(r) ==
  \/ CreateHelmRepository(r) \/ Refused(r) \/ GetHelmRepositoryCredentials(r)
  \/ ListHelmRepositories(r) \/ NotFound(r) \/ UpdateRow(r)
  \/ UpdateHelmRepositoryStatus(r) \/ DeleteHelmRepository(r)

Helm(r) ==
  \/ RepoAdd(r) \/ RepoUpdate(r) \/ RepoRemove(r) \/ RepoTest(r) \/ CleanUp(r)
  \/ FetchIndex(r)

Next == \/ \E r \in Requests : \/ Handle(r) \/ Call(r) \/ Helm(r)
                               \/ StatementFails(r) \/ HelmKilled(r)
        \/ \E p \in Processes : Restart(p)

Spec == Init /\ [][Next]_vars
-----------------------------------------------------------------------------
(* The type of the state.                                                  *)
TypeOK ==
  /\ store \in {"memory", "postgres", "bare"} /\ row \in [Rows -> {None} \cup Repositories]
  /\ req \in [Requests -> {None, Answered} \cup Conversations]
  /\ cli \in [Processes -> [Names -> {None} \cup Configs]]
  /\ trial \in [Processes -> [Names -> {None} \cup Configs]]
  /\ heap \in [Rows -> CredMaps] /\ owed \in [Rows -> CredMaps] /\ audit \subseteq Requests
  /\ hurt \subseteq Rows \cup Names \cup {None} /\ raced \subseteq Rows
  /\ faults \in 0 .. MaxFaults

(* A repository is not left "pending": whatever the other requests do, the *)
(* request that made it so is still going to write its status, unless a    *)
(* fault stopped it (AddHelmRepository, UpdateHelmRepository).             *)
PendingIsExplained ==
  \A id \in Rows \ hurt :
    row[id] # None /\ row[id].status = "pending" =>
      \E r \in Requests : /\ Working(r) /\ req[r].id = id
                          /\ \E i \in 1 .. Len(req[r].todo) : req[r].todo[i] = "status"

(* On Postgres an HTTP repository shown as "ok" is one that the helm CLI   *)
(* of some process knows (of which one is not recorded: the others may not *)
(* have it, and a removal leaves theirs), except while a removal of it is  *)
(* on its way: the CLI's entry goes before the row, and names are unique   *)
(* (RemoveHelmRepository, init.sql).                                       *)
OkRowsAreInHelm ==
  \A id \in Rows \ hurt :
    (/\ store = "postgres"
     /\ row[id] # None /\ row[id].status = "ok" /\ row[id].name \notin Oci \cup hurt)
    => \/ \E p \in Processes : cli[p][row[id].name] # None
       \/ \E r \in Requests : At(r, "delete") /\ req[r].id = id

(* A removed repository never comes back: no late status or update of a    *)
(* request that overtook the removal makes a row (UpdateHelmRepository,    *)
(* UpdateHelmRepositoryStatus).                                            *)
RowsComeFromAdds ==
  [][\A id \in Rows : row[id] = None /\ row'[id] # None => At(id, "create")]_vars

(* Credentials that an update acknowledged stay: an empty field keeps the  *)
(* old value, and later updates of other fields keep it too.  Updates of   *)
(* one row that overlap keep each other's fields when they share its       *)
(* stored map (memory store, credentials not nil); when each works on a    *)
(* map of its own, on Postgres and on a row added without credentials, the *)
(* later one drops what the earlier one set, and the row is excused.       *)
CredentialsKept ==
  \A id \in Rows \ (hurt \cup raced) :
    row[id] # None => Content(row[id].creds) = owed[id]

(* A connection test leaves nothing in helm's repository file once it has  *)
(* been answered, unless helm was killed (RepoTest).                       *)
TestLeavesNothing ==
  \A p \in Processes, n \in Names \ hurt :
    trial[p][n] # None =>
      \E r \in Requests : At(r, "cleanUp") /\ Proc(r) = p /\ req[r].name = n

(* In the memory store a repository that is still there when the request   *)
(* that added it is answered has its event in the audit log, whatever      *)
(* other requests did to the row meanwhile; only a restart, which empties  *)
(* both, and a kill excuse it (AddHelmRepository, logAudit).               *)
AddedRowsAreRecorded ==
  \A id \in Requests \ hurt :
    store = "memory" /\ row[id] # None /\ req[id] = Answered => id \in audit
=============================================================================
