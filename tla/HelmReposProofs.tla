--------------------------- MODULE HelmReposProofs ---------------------------
(***************************************************************************)
(* Helm repositories for any requests, names, forms and number of faults:  *)
(* the invariants of HelmRepos.                                            *)
(***************************************************************************)
EXTENDS HelmRepos, SequenceTheorems, TLAPS

USE FormsAssumption, NamesAssumption, RowsAssumption, FaultsAssumption, NoneAssumption,
    ProcessesAssumption

(* What can be left of each script; refresh adds an OCI registry anew.     *)
AddLeft     == {AddHelmRepository, <<"repoAdd", "status">>, <<"status">>}
UpdateLeft  == {UpdateHelmRepository, <<"update", "list", "repoAdd", "status">>,
                <<"list", "repoAdd", "status">>, <<"repoAdd", "status">>, <<"status">>}
RemoveLeft  == {RemoveHelmRepository, <<"list", "repoRemove", "delete">>,
                <<"repoRemove", "delete">>, <<"delete">>}
RefreshLeft == {RefreshHelmRepository, <<"list", "repoUpdate", "status">>,
                <<"repoUpdate", "status">>, <<"repoAdd", "status">>, <<"status">>}
TestLeft    == {TestHelmRepository, <<"list", "repoTest", "cleanUp">>,
                <<"repoTest", "cleanUp">>, <<"cleanUp">>}
ChartsLeft  == {ListCharts, <<"creds", "index">>, <<"index">>}

InScript(op, s) ==
  /\ op = "add" => s \in AddLeft
  /\ op = "update" => s \in UpdateLeft
  /\ op = "remove" => s \in RemoveLeft
  /\ op = "refresh" => s \in RefreshLeft
  /\ op = "test" => s \in TestLeft
  /\ op = "charts" => s \in ChartsLeft

HasStatus(s) == \E i \in 1 .. Len(s) : s[i] = "status"
Settling     == {"add", "update", "refresh"}     \* the methods that write a status

(* The calls a script ends with, and the call after any other.             *)
Final == {"status", "delete", "cleanUp", "index"}
After(op, call) ==
  CASE call = "create"                        -> "repoAdd"
    [] call \in {"repoAdd", "repoUpdate"}     -> "status"
    [] call = "repoRemove"                    -> "delete"
    [] call = "repoTest"                      -> "cleanUp"
    [] call = "update"                        -> "list"
    [] call = "creds" /\ op = "update"        -> "update"
    [] call = "creds" /\ op = "charts"        -> "index"
    [] call = "creds" /\ op \in {"remove", "refresh", "test"} -> "list"
    [] call = "list" /\ op = "update"         -> "repoAdd"
    [] call = "list" /\ op = "remove"         -> "repoRemove"
    [] call = "list" /\ op = "refresh"        -> "repoUpdate"
    [] call = "list" /\ op = "test"           -> "repoTest"
    [] call = "list" /\ op = "charts"         -> "creds"

(* Which methods make which calls.                                         *)
MayCall(op, call) ==
  /\ call = "create" => op = "add"
  /\ call \in {"creds", "list"} => op # "add"
  /\ call = "update" => op = "update"
  /\ call = "repoUpdate" => op = "refresh"
  /\ call \in {"repoRemove", "delete"} => op = "remove"
  /\ call \in {"repoTest", "cleanUp"} => op = "test"
  /\ call = "index" => op = "charts"
  /\ call \in {"repoAdd", "status"} => op \in Settling
-----------------------------------------------------------------------------
(* The inductive invariant, conjunct by conjunct.                          *)

(* Where a request is, and that it knows the name of its row.              *)
Named == {"repoAdd", "repoUpdate", "repoTest", "cleanUp", "status"}
ScriptInv(r) ==
  Working(r) =>
    /\ InScript(req[r].op, req[r].todo)
    /\ req[r].op = "add" => req[r].id = r
    /\ req[r].op = "add" \/ Head(req[r].todo) \in Named => req[r].name \in Names
    /\ row[req[r].id] # None /\ req[r].name # None => row[req[r].id].name = req[r].name

(* Before a request adds its row there is none, and nobody works on it.    *)
BirthInv ==
  \A r \in Requests :
    /\ req[r] = None \/ At(r, "create") =>
         row[r] = None /\ \A o \in Requests \ {r} : Working(o) => req[o].id # r
    /\ row[r] # None => req[r] = Answered \/ (Working(r) /\ req[r].op = "add")

(* UNIQUE(org_id, name).                                                   *)
UniqueInv ==
  store = "postgres" =>
    \A i, j \in Rows : row[i] # None /\ row[j] # None /\ row[i].name = row[j].name => i = j

(* Two removals of a row are noticed; alone, a removal still has its row   *)
(* until it deletes it.                                                    *)
Removing(r) == Working(r) /\ req[r].op = "remove" /\ Head(req[r].todo) # "creds"
RemoveInv ==
  /\ \A o, p \in Requests :
       Removing(o) /\ Removing(p) /\ o # p /\ req[o].id = req[p].id =>
         /\ row[req[o].id] # None => row[req[o].id].name \in hurt
         /\ req[o].name # None => req[o].name \in hurt
  /\ \A o \in Requests :
       Removing(o) /\ req[o].name # None /\ req[o].name \notin hurt => row[req[o].id] # None

(* What is, or is about to be, shown as "ok" is in some process's file.    *)
Known(n)    == \E p \in Processes : cli[p][n] # None
Removed(id) == \E r \in Requests : At(r, "delete") /\ req[r].id = id
Claimed(id) == \/ row[id].status = "ok"
               \/ \E r \in Requests : At(r, "status") /\ req[r].ok /\ req[r].id = id
HelmInv ==
  \A id \in Rows \ hurt :
    store = "postgres" /\ row[id] # None /\ row[id].name \notin Oci \cup hurt /\ Claimed(id)
      => Known(row[id].name) \/ Removed(id)

(* A map belongs to one row: to the row itself and to requests about it.   *)
(* The map of a request that has not merged into it is its own.            *)
Unmerged(r) == req[r] = None \/ (At(r, "creds") /\ req[r].op = "update")
MapsInv ==
  /\ \A i, j \in Rows : row[i] # None /\ row[j] # None /\ row[i].creds # None
                        /\ row[i].creds = row[j].creds => i = j
  /\ \A i \in Rows, o \in Requests :
       row[i] # None /\ Working(o) /\ req[o].creds # None /\ req[o].creds = row[i].creds
         => req[o].id = i
  /\ \A o, p \in Requests :
       Working(o) /\ Working(p) /\ req[o].creds # None /\ req[o].creds = req[p].creds
         => req[o].id = req[p].id
  /\ \A r \in Requests : Unmerged(r) =>
       /\ \A i \in Rows : row[i] # None => row[i].creds # r
       /\ \A o \in Requests \ {r} : Working(o) => req[o].creds # r

(* The map of an update is the row's, or one that is up to date unless     *)
(* updates with other maps overlapped.                                     *)
UpToDate(r) ==
  \/ req[r].creds = row[req[r].id].creds
  \/ Content(req[r].creds) = Merge(Content(row[req[r].id].creds), req[r].form)
UpdateInv ==
  /\ \A r \in Requests :
       At(r, "update") /\ row[req[r].id] # None /\ req[r].id \notin hurt \cup raced
         => UpToDate(r)
  /\ \A o, p \in Requests :
       /\ At(o, "update") /\ At(p, "update") /\ req[o].id = req[p].id
       /\ req[o].creds # req[p].creds /\ row[req[o].id] # None
       => req[o].id \in hurt \cup raced

(* Whoever made a row "pending" is still to settle it.                     *)
PendingInv ==
  \A id \in Rows \ hurt :
    row[id] # None /\ row[id].status = "pending" =>
      \E r \in Requests : Working(r) /\ req[r].id = id /\ req[r].op \in Settling

RowsInv == BirthInv /\ UniqueInv /\ RemoveInv /\ MapsInv /\ UpdateInv /\ CredentialsKept

IInv == /\ TypeOK /\ \A r \in Requests : ScriptInv(r)
        /\ RowsInv /\ HelmInv /\ PendingInv /\ TestLeavesNothing /\ AddedRowsAreRecorded
-----------------------------------------------------------------------------
(***************************************************************************)
(* What can be left of AddHelmRepository, and the call that follows.       *)
(***************************************************************************)
LEMMA AddSteps ==
  ASSUME NEW s \in AddLeft
  PROVE  /\ s # <<>> /\ s \in Seq(Calls) /\ HasStatus(s)
         /\ Head(s) \in {"create", "repoAdd", "status"}
         /\ Head(s) = "create" => Tail(s) \in AddLeft /\ Tail(s) # <<>> /\ Head(Tail(s)) = "repoAdd"
         /\ Head(s) = "repoAdd" => Tail(s) \in AddLeft /\ Tail(s) # <<>> /\ Head(Tail(s)) = "status"
         /\ Head(s) = "status" => Tail(s) = <<>>
<1>1. CASE s = AddHelmRepository
  <2>1. s # <<>> /\ Head(s) = "create" /\ Tail(s) = <<"repoAdd", "status">>
    BY <1>1 DEF AddHelmRepository
  <2>2. s \in Seq(Calls)
    BY <1>1 DEF Calls, AddHelmRepository
  <2>3. Len(s) = 3 /\ s[3] = "status"
    BY <1>1 DEF AddHelmRepository
  <2>4. HasStatus(s)
    BY <2>3 DEF HasStatus
  <2>5. <<"repoAdd", "status">> # <<>> /\ Head(<<"repoAdd", "status">>) = "repoAdd"
    OBVIOUS
  <2>6. Tail(s) \in AddLeft
    BY <2>1 DEF AddLeft
  <2>7. QED
    BY <2>1, <2>2, <2>3, <2>4, <2>5, <2>6
<1>2. CASE s = <<"repoAdd", "status">>
  <2>1. s # <<>> /\ Head(s) = "repoAdd" /\ Tail(s) = <<"status">>
    BY <1>2
  <2>2. s \in Seq(Calls)
    BY <1>2 DEF Calls
  <2>3. Len(s) = 2 /\ s[2] = "status"
    BY <1>2
  <2>4. HasStatus(s)
    BY <2>3 DEF HasStatus
  <2>5. <<"status">> # <<>> /\ Head(<<"status">>) = "status"
    OBVIOUS
  <2>6. Tail(s) \in AddLeft
    BY <2>1 DEF AddLeft
  <2>7. QED
    BY <2>1, <2>2, <2>3, <2>4, <2>5, <2>6
<1>3. CASE s = <<"status">>
  <2>1. s # <<>> /\ Head(s) = "status" /\ Tail(s) = <<>>
    BY <1>3
  <2>2. s \in Seq(Calls)
    BY <1>3 DEF Calls
  <2>3. Len(s) = 1 /\ s[1] = "status"
    BY <1>3
  <2>4. HasStatus(s)
    BY <2>3 DEF HasStatus
  <2>5. QED
    BY <2>1, <2>2, <2>3, <2>4
<1>4. QED
  BY <1>1, <1>2, <1>3 DEF AddLeft

(***************************************************************************)
(* What can be left of UpdateHelmRepository, and the call that follows.    *)
(***************************************************************************)
LEMMA UpdateSteps ==
  ASSUME NEW s \in UpdateLeft
  PROVE  /\ s # <<>> /\ s \in Seq(Calls) /\ HasStatus(s)
         /\ Head(s) \in {"creds", "update", "list", "repoAdd", "status"}
         /\ Head(s) = "creds" => Tail(s) \in UpdateLeft /\ Tail(s) # <<>> /\ Head(Tail(s)) = "update"
         /\ Head(s) = "update" => Tail(s) \in UpdateLeft /\ Tail(s) # <<>> /\ Head(Tail(s)) = "list"
         /\ Head(s) = "list" => Tail(s) \in UpdateLeft /\ Tail(s) # <<>> /\ Head(Tail(s)) = "repoAdd"
         /\ Head(s) = "repoAdd" => Tail(s) \in UpdateLeft /\ Tail(s) # <<>> /\ Head(Tail(s)) = "status"
         /\ Head(s) = "status" => Tail(s) = <<>>
<1>1. CASE s = UpdateHelmRepository
  <2>1. s # <<>> /\ Head(s) = "creds" /\ Tail(s) = <<"update", "list", "repoAdd", "status">>
    BY <1>1 DEF UpdateHelmRepository
  <2>2. s \in Seq(Calls)
    BY <1>1 DEF Calls, UpdateHelmRepository
  <2>3. Len(s) = 5 /\ s[5] = "status"
    BY <1>1 DEF UpdateHelmRepository
  <2>4. HasStatus(s)
    BY <2>3 DEF HasStatus
  <2>5. <<"update", "list", "repoAdd", "status">> # <<>> /\ Head(<<"update", "list", "repoAdd", "status">>) = "update"
    OBVIOUS
  <2>6. Tail(s) \in UpdateLeft
    BY <2>1 DEF UpdateLeft
  <2>7. QED
    BY <2>1, <2>2, <2>3, <2>4, <2>5, <2>6
<1>2. CASE s = <<"update", "list", "repoAdd", "status">>
  <2>1. s # <<>> /\ Head(s) = "update" /\ Tail(s) = <<"list", "repoAdd", "status">>
    BY <1>2
  <2>2. s \in Seq(Calls)
    BY <1>2 DEF Calls
  <2>3. Len(s) = 4 /\ s[4] = "status"
    BY <1>2
  <2>4. HasStatus(s)
    BY <2>3 DEF HasStatus
  <2>5. <<"list", "repoAdd", "status">> # <<>> /\ Head(<<"list", "repoAdd", "status">>) = "list"
    OBVIOUS
  <2>6. Tail(s) \in UpdateLeft
    BY <2>1 DEF UpdateLeft
  <2>7. QED
    BY <2>1, <2>2, <2>3, <2>4, <2>5, <2>6
<1>3. CASE s = <<"list", "repoAdd", "status">>
  <2>1. s # <<>> /\ Head(s) = "list" /\ Tail(s) = <<"repoAdd", "status">>
    BY <1>3
  <2>2. s \in Seq(Calls)
    BY <1>3 DEF Calls
  <2>3. Len(s) = 3 /\ s[3] = "status"
    BY <1>3
  <2>4. HasStatus(s)
    BY <2>3 DEF HasStatus
  <2>5. <<"repoAdd", "status">> # <<>> /\ Head(<<"repoAdd", "status">>) = "repoAdd"
    OBVIOUS
  <2>6. Tail(s) \in UpdateLeft
    BY <2>1 DEF UpdateLeft
  <2>7. QED
    BY <2>1, <2>2, <2>3, <2>4, <2>5, <2>6
<1>4. CASE s = <<"repoAdd", "status">>
  <2>1. s # <<>> /\ Head(s) = "repoAdd" /\ Tail(s) = <<"status">>
    BY <1>4
  <2>2. s \in Seq(Calls)
    BY <1>4 DEF Calls
  <2>3. Len(s) = 2 /\ s[2] = "status"
    BY <1>4
  <2>4. HasStatus(s)
    BY <2>3 DEF HasStatus
  <2>5. <<"status">> # <<>> /\ Head(<<"status">>) = "status"
    OBVIOUS
  <2>6. Tail(s) \in UpdateLeft
    BY <2>1 DEF UpdateLeft
  <2>7. QED
    BY <2>1, <2>2, <2>3, <2>4, <2>5, <2>6
<1>5. CASE s = <<"status">>
  <2>1. s # <<>> /\ Head(s) = "status" /\ Tail(s) = <<>>
    BY <1>5
  <2>2. s \in Seq(Calls)
    BY <1>5 DEF Calls
  <2>3. Len(s) = 1 /\ s[1] = "status"
    BY <1>5
  <2>4. HasStatus(s)
    BY <2>3 DEF HasStatus
  <2>5. QED
    BY <2>1, <2>2, <2>3, <2>4
<1>6. QED
  BY <1>1, <1>2, <1>3, <1>4, <1>5 DEF UpdateLeft

(***************************************************************************)
(* What can be left of RemoveHelmRepository, and the call that follows.    *)
(***************************************************************************)
LEMMA RemoveSteps ==
  ASSUME NEW s \in RemoveLeft
  PROVE  /\ s # <<>> /\ s \in Seq(Calls)
         /\ Head(s) \in {"creds", "list", "repoRemove", "delete"}
         /\ Head(s) = "creds" => Tail(s) \in RemoveLeft /\ Tail(s) # <<>> /\ Head(Tail(s)) = "list"
         /\ Head(s) = "list" => Tail(s) \in RemoveLeft /\ Tail(s) # <<>> /\ Head(Tail(s)) = "repoRemove"
         /\ Head(s) = "repoRemove" => Tail(s) \in RemoveLeft /\ Tail(s) # <<>> /\ Head(Tail(s)) = "delete"
         /\ Head(s) = "delete" => Tail(s) = <<>>
<1>1. CASE s = RemoveHelmRepository
  <2>1. s # <<>> /\ Head(s) = "creds" /\ Tail(s) = <<"list", "repoRemove", "delete">>
    BY <1>1 DEF RemoveHelmRepository
  <2>2. s \in Seq(Calls)
    BY <1>1 DEF Calls, RemoveHelmRepository
  <2>3. <<"list", "repoRemove", "delete">> # <<>> /\ Head(<<"list", "repoRemove", "delete">>) = "list"
    OBVIOUS
  <2>4. Tail(s) \in RemoveLeft
    BY <2>1 DEF RemoveLeft
  <2>5. QED
    BY <2>1, <2>2, <2>3, <2>4
<1>2. CASE s = <<"list", "repoRemove", "delete">>
  <2>1. s # <<>> /\ Head(s) = "list" /\ Tail(s) = <<"repoRemove", "delete">>
    BY <1>2
  <2>2. s \in Seq(Calls)
    BY <1>2 DEF Calls
  <2>3. <<"repoRemove", "delete">> # <<>> /\ Head(<<"repoRemove", "delete">>) = "repoRemove"
    OBVIOUS
  <2>4. Tail(s) \in RemoveLeft
    BY <2>1 DEF RemoveLeft
  <2>5. QED
    BY <2>1, <2>2, <2>3, <2>4
<1>3. CASE s = <<"repoRemove", "delete">>
  <2>1. s # <<>> /\ Head(s) = "repoRemove" /\ Tail(s) = <<"delete">>
    BY <1>3
  <2>2. s \in Seq(Calls)
    BY <1>3 DEF Calls
  <2>3. <<"delete">> # <<>> /\ Head(<<"delete">>) = "delete"
    OBVIOUS
  <2>4. Tail(s) \in RemoveLeft
    BY <2>1 DEF RemoveLeft
  <2>5. QED
    BY <2>1, <2>2, <2>3, <2>4
<1>4. CASE s = <<"delete">>
  <2>1. s # <<>> /\ Head(s) = "delete" /\ Tail(s) = <<>>
    BY <1>4
  <2>2. s \in Seq(Calls)
    BY <1>4 DEF Calls
  <2>3. QED
    BY <2>1, <2>2
<1>5. QED
  BY <1>1, <1>2, <1>3, <1>4 DEF RemoveLeft

(***************************************************************************)
(* What can be left of RefreshHelmRepository, and the call that follows.   *)
(***************************************************************************)
LEMMA RefreshSteps ==
  ASSUME NEW s \in RefreshLeft
  PROVE  /\ s # <<>> /\ s \in Seq(Calls) /\ HasStatus(s)
         /\ Head(s) \in {"creds", "list", "repoUpdate", "repoAdd", "status"}
         /\ Head(s) = "creds" => Tail(s) \in RefreshLeft /\ Tail(s) # <<>> /\ Head(Tail(s)) = "list"
         /\ Head(s) = "list" => Tail(s) \in RefreshLeft /\ Tail(s) # <<>> /\ Head(Tail(s)) = "repoUpdate"
         /\ Head(s) = "repoUpdate" => Tail(s) \in RefreshLeft /\ Tail(s) # <<>> /\ Head(Tail(s)) = "status"
         /\ Head(s) = "repoAdd" => Tail(s) \in RefreshLeft /\ Tail(s) # <<>> /\ Head(Tail(s)) = "status"
         /\ Head(s) = "status" => Tail(s) = <<>>
<1>1. CASE s = RefreshHelmRepository
  <2>1. s # <<>> /\ Head(s) = "creds" /\ Tail(s) = <<"list", "repoUpdate", "status">>
    BY <1>1 DEF RefreshHelmRepository
  <2>2. s \in Seq(Calls)
    BY <1>1 DEF Calls, RefreshHelmRepository
  <2>3. Len(s) = 4 /\ s[4] = "status"
    BY <1>1 DEF RefreshHelmRepository
  <2>4. HasStatus(s)
    BY <2>3 DEF HasStatus
  <2>5. <<"list", "repoUpdate", "status">> # <<>> /\ Head(<<"list", "repoUpdate", "status">>) = "list"
    OBVIOUS
  <2>6. Tail(s) \in RefreshLeft
    BY <2>1 DEF RefreshLeft
  <2>7. QED
    BY <2>1, <2>2, <2>3, <2>4, <2>5, <2>6
<1>2. CASE s = <<"list", "repoUpdate", "status">>
  <2>1. s # <<>> /\ Head(s) = "list" /\ Tail(s) = <<"repoUpdate", "status">>
    BY <1>2
  <2>2. s \in Seq(Calls)
    BY <1>2 DEF Calls
  <2>3. Len(s) = 3 /\ s[3] = "status"
    BY <1>2
  <2>4. HasStatus(s)
    BY <2>3 DEF HasStatus
  <2>5. <<"repoUpdate", "status">> # <<>> /\ Head(<<"repoUpdate", "status">>) = "repoUpdate"
    OBVIOUS
  <2>6. Tail(s) \in RefreshLeft
    BY <2>1 DEF RefreshLeft
  <2>7. QED
    BY <2>1, <2>2, <2>3, <2>4, <2>5, <2>6
<1>3. CASE s = <<"repoUpdate", "status">>
  <2>1. s # <<>> /\ Head(s) = "repoUpdate" /\ Tail(s) = <<"status">>
    BY <1>3
  <2>2. s \in Seq(Calls)
    BY <1>3 DEF Calls
  <2>3. Len(s) = 2 /\ s[2] = "status"
    BY <1>3
  <2>4. HasStatus(s)
    BY <2>3 DEF HasStatus
  <2>5. <<"status">> # <<>> /\ Head(<<"status">>) = "status"
    OBVIOUS
  <2>6. Tail(s) \in RefreshLeft
    BY <2>1 DEF RefreshLeft
  <2>7. QED
    BY <2>1, <2>2, <2>3, <2>4, <2>5, <2>6
<1>4. CASE s = <<"repoAdd", "status">>
  <2>1. s # <<>> /\ Head(s) = "repoAdd" /\ Tail(s) = <<"status">>
    BY <1>4
  <2>2. s \in Seq(Calls)
    BY <1>4 DEF Calls
  <2>3. Len(s) = 2 /\ s[2] = "status"
    BY <1>4
  <2>4. HasStatus(s)
    BY <2>3 DEF HasStatus
  <2>5. <<"status">> # <<>> /\ Head(<<"status">>) = "status"
    OBVIOUS
  <2>6. Tail(s) \in RefreshLeft
    BY <2>1 DEF RefreshLeft
  <2>7. QED
    BY <2>1, <2>2, <2>3, <2>4, <2>5, <2>6
<1>5. CASE s = <<"status">>
  <2>1. s # <<>> /\ Head(s) = "status" /\ Tail(s) = <<>>
    BY <1>5
  <2>2. s \in Seq(Calls)
    BY <1>5 DEF Calls
  <2>3. Len(s) = 1 /\ s[1] = "status"
    BY <1>5
  <2>4. HasStatus(s)
    BY <2>3 DEF HasStatus
  <2>5. QED
    BY <2>1, <2>2, <2>3, <2>4
<1>6. QED
  BY <1>1, <1>2, <1>3, <1>4, <1>5 DEF RefreshLeft

(***************************************************************************)
(* What can be left of TestHelmRepository, and the call that follows.      *)
(***************************************************************************)
LEMMA TestSteps ==
  ASSUME NEW s \in TestLeft
  PROVE  /\ s # <<>> /\ s \in Seq(Calls)
         /\ Head(s) \in {"creds", "list", "repoTest", "cleanUp"}
         /\ Head(s) = "creds" => Tail(s) \in TestLeft /\ Tail(s) # <<>> /\ Head(Tail(s)) = "list"
         /\ Head(s) = "list" => Tail(s) \in TestLeft /\ Tail(s) # <<>> /\ Head(Tail(s)) = "repoTest"
         /\ Head(s) = "repoTest" => Tail(s) \in TestLeft /\ Tail(s) # <<>> /\ Head(Tail(s)) = "cleanUp"
         /\ Head(s) = "cleanUp" => Tail(s) = <<>>
<1>1. CASE s = TestHelmRepository
  <2>1. s # <<>> /\ Head(s) = "creds" /\ Tail(s) = <<"list", "repoTest", "cleanUp">>
    BY <1>1 DEF TestHelmRepository
  <2>2. s \in Seq(Calls)
    BY <1>1 DEF Calls, TestHelmRepository
  <2>3. <<"list", "repoTest", "cleanUp">> # <<>> /\ Head(<<"list", "repoTest", "cleanUp">>) = "list"
    OBVIOUS
  <2>4. Tail(s) \in TestLeft
    BY <2>1 DEF TestLeft
  <2>5. QED
    BY <2>1, <2>2, <2>3, <2>4
<1>2. CASE s = <<"list", "repoTest", "cleanUp">>
  <2>1. s # <<>> /\ Head(s) = "list" /\ Tail(s) = <<"repoTest", "cleanUp">>
    BY <1>2
  <2>2. s \in Seq(Calls)
    BY <1>2 DEF Calls
  <2>3. <<"repoTest", "cleanUp">> # <<>> /\ Head(<<"repoTest", "cleanUp">>) = "repoTest"
    OBVIOUS
  <2>4. Tail(s) \in TestLeft
    BY <2>1 DEF TestLeft
  <2>5. QED
    BY <2>1, <2>2, <2>3, <2>4
<1>3. CASE s = <<"repoTest", "cleanUp">>
  <2>1. s # <<>> /\ Head(s) = "repoTest" /\ Tail(s) = <<"cleanUp">>
    BY <1>3
  <2>2. s \in Seq(Calls)
    BY <1>3 DEF Calls
  <2>3. <<"cleanUp">> # <<>> /\ Head(<<"cleanUp">>) = "cleanUp"
    OBVIOUS
  <2>4. Tail(s) \in TestLeft
    BY <2>1 DEF TestLeft
  <2>5. QED
    BY <2>1, <2>2, <2>3, <2>4
<1>4. CASE s = <<"cleanUp">>
  <2>1. s # <<>> /\ Head(s) = "cleanUp" /\ Tail(s) = <<>>
    BY <1>4
  <2>2. s \in Seq(Calls)
    BY <1>4 DEF Calls
  <2>3. QED
    BY <2>1, <2>2
<1>5. QED
  BY <1>1, <1>2, <1>3, <1>4 DEF TestLeft

(***************************************************************************)
(* What can be left of ListCharts, and the call that follows.              *)
(***************************************************************************)
LEMMA ChartsSteps ==
  ASSUME NEW s \in ChartsLeft
  PROVE  /\ s # <<>> /\ s \in Seq(Calls)
         /\ Head(s) \in {"list", "creds", "index"}
         /\ Head(s) = "list" => Tail(s) \in ChartsLeft /\ Tail(s) # <<>> /\ Head(Tail(s)) = "creds"
         /\ Head(s) = "creds" => Tail(s) \in ChartsLeft /\ Tail(s) # <<>> /\ Head(Tail(s)) = "index"
         /\ Head(s) = "index" => Tail(s) = <<>>
<1>1. CASE s = ListCharts
  <2>1. s # <<>> /\ Head(s) = "list" /\ Tail(s) = <<"creds", "index">>
    BY <1>1 DEF ListCharts
  <2>2. s \in Seq(Calls)
    BY <1>1 DEF Calls, ListCharts
  <2>3. <<"creds", "index">> # <<>> /\ Head(<<"creds", "index">>) = "creds"
    OBVIOUS
  <2>4. Tail(s) \in ChartsLeft
    BY <2>1 DEF ChartsLeft
  <2>5. QED
    BY <2>1, <2>2, <2>3, <2>4
<1>2. CASE s = <<"creds", "index">>
  <2>1. s # <<>> /\ Head(s) = "creds" /\ Tail(s) = <<"index">>
    BY <1>2
  <2>2. s \in Seq(Calls)
    BY <1>2 DEF Calls
  <2>3. <<"index">> # <<>> /\ Head(<<"index">>) = "index"
    OBVIOUS
  <2>4. Tail(s) \in ChartsLeft
    BY <2>1 DEF ChartsLeft
  <2>5. QED
    BY <2>1, <2>2, <2>3, <2>4
<1>3. CASE s = <<"index">>
  <2>1. s # <<>> /\ Head(s) = "index" /\ Tail(s) = <<>>
    BY <1>3
  <2>2. s \in Seq(Calls)
    BY <1>3 DEF Calls
  <2>3. QED
    BY <2>1, <2>2
<1>4. QED
  BY <1>1, <1>2, <1>3 DEF ChartsLeft
(***************************************************************************)
(* The same of any method.                                                 *)
(***************************************************************************)
LEMMA Moves ==
  ASSUME NEW op \in Ops, NEW s, InScript(op, s)
  PROVE  /\ s # <<>> /\ s \in Seq(Calls) /\ MayCall(op, Head(s))
         /\ op \in Settling => HasStatus(s)
         /\ Head(s) \in Final => Tail(s) = <<>>
         /\ Head(s) \notin Final =>
              InScript(op, Tail(s)) /\ Tail(s) # <<>> /\ Head(Tail(s)) = After(op, Head(s))
<1>1. CASE op = "add"
  BY <1>1, AddSteps DEF InScript, MayCall, Final, After, Settling
<1>2. CASE op = "update"
  BY <1>2, UpdateSteps DEF InScript, MayCall, Final, After, Settling
<1>3. CASE op = "remove"
  BY <1>3, RemoveSteps DEF InScript, MayCall, Final, After, Settling
<1>4. CASE op = "refresh"
  BY <1>4, RefreshSteps DEF InScript, MayCall, Final, After, Settling
<1>5. CASE op = "test"
  BY <1>5, TestSteps DEF InScript, MayCall, Final, After, Settling
<1>6. CASE op = "charts"
  BY <1>6, ChartsSteps DEF InScript, MayCall, Final, After, Settling
<1>7. QED
  BY <1>1, <1>2, <1>3, <1>4, <1>5, <1>6 DEF Ops

(* A step of request r leaves the other requests where they are.           *)
Others(r) == \A o \in Requests \ {r} : req'[o] = req[o]

(***************************************************************************)
(* Going on with a script.                                                 *)
(***************************************************************************)
LEMMA Goes ==
  ASSUME TypeOK, NEW r \in Requests, ScriptInv(r), Working(r), NEW rec \in Conversations,
         rec.op = req[r].op, rec.todo = Tail(req[r].todo), Continue(r, rec)
  PROVE  /\ Others(r) /\ req' \in [Requests -> {None, Answered} \cup Conversations]
         /\ audit \subseteq audit' /\ audit' \subseteq Requests
         /\ Head(req[r].todo) \in Final =>
              req'[r] = Answered /\ (store = "memory" /\ req[r].op = "add" => r \in audit')
         /\ Head(req[r].todo) \notin Final =>
              /\ Working(r)' /\ req'[r] = rec /\ InScript(rec.op, rec.todo)
              /\ Head(rec.todo) = After(rec.op, Head(req[r].todo))
<1>1. req[r] \in Conversations
  BY DEF TypeOK, Working
<1>2. req[r].op \in Ops /\ InScript(req[r].op, req[r].todo)
  BY <1>1 DEF Conversations, ScriptInv
<1>3. CASE Head(req[r].todo) \in Final
  <2>1. rec.todo = <<>>
    BY <1>2, <1>3, Moves
  <2>2. req' = [req EXCEPT ![r] = Answered] /\ logAudit(r)
    BY <2>1 DEF Continue
  <2>3. QED
    BY <1>3, <2>2 DEF TypeOK, logAudit, Others
<1>4. CASE Head(req[r].todo) \notin Final
  <2>1. /\ rec.todo # <<>> /\ InScript(rec.op, rec.todo)
        /\ Head(rec.todo) = After(rec.op, Head(req[r].todo))
    BY <1>2, <1>4, Moves
  <2>2. req' = [req EXCEPT ![r] = rec] /\ audit' = audit
    BY <2>1 DEF Continue
  <2>3. QED
    BY <1>4, <2>1, <2>2 DEF TypeOK, Others, Working
<1>5. QED
  BY <1>3, <1>4

(***************************************************************************)
(* An answer in the middle of a script.                                    *)
(***************************************************************************)
LEMMA Returns ==
  ASSUME TypeOK, NEW r \in Requests, Return(r)
  PROVE  /\ Others(r) /\ req' \in [Requests -> {None, Answered} \cup Conversations]
         /\ audit' = audit /\ req'[r] = Answered
  BY DEF TypeOK, Return, Others
-----------------------------------------------------------------------------
(* A step of a request under way, with its row, its method and its form.   *)
Acts(r) ==
  /\ Working(r) /\ Others(r)
  /\ store' = store /\ hurt \subseteq hurt'
  /\ \/ req'[r] = Answered
     \/ /\ Working(r)' /\ req'[r].op = req[r].op
        /\ req'[r].id = req[r].id /\ req'[r].form = req[r].form

(* The rows keep their names; there is no new one.                         *)
SameNames == \A id \in Rows : row'[id] # None => row[id] # None /\ row'[id].name = row[id].name

(***************************************************************************)
(* The other requests keep their place.                                    *)
(***************************************************************************)
LEMMA OtherScripts ==
  ASSUME IInv, NEW r \in Requests, Others(r), SameNames, NEW o \in Requests \ {r}
  PROVE  ScriptInv(o)'
<1>1. ScriptInv(o) /\ req'[o] = req[o]
  BY DEF IInv, Others
<1>2. Working(o) => req[o].id \in Rows
  BY DEF IInv, TypeOK, Working, Conversations
<1>3. QED
  BY <1>1, <1>2 DEF ScriptInv, SameNames, Working

(***************************************************************************)
(* A request's row is one of the rows.                                     *)
(***************************************************************************)
LEMMA WorkingType ==
  ASSUME TypeOK, NEW r \in Requests, Working(r)
  PROVE  /\ req[r] \in Conversations /\ req[r].id \in Rows /\ req[r].op \in Ops
         /\ req[r].name \in Names \cup {None} /\ req[r].form \in CredMaps
         /\ Proc(r) \in Processes /\ req[r].creds \in Maps
  BY DEF TypeOK, Working, Conversations, Proc

(***************************************************************************)
(* A request's row, method and form are its own.                           *)
(***************************************************************************)
LEMMA ActsOn ==
  ASSUME IInv, NEW r \in Requests, Acts(r)
  PROVE  /\ \A o \in Requests : Working(o) => req[o].id \in Rows
         /\ \A o \in Requests : Working(o)' =>
              /\ Working(o) /\ req'[o].id = req[o].id
              /\ req'[o].op = req[o].op /\ req'[o].form = req[o].form
<1>1. \A o \in Requests : Working(o) => req[o].id \in Rows
  BY WorkingType DEF IInv
<1>2. QED
  BY <1>1 DEF Acts, Others, Working

(***************************************************************************)
(* What is said of names, by a step that adds no row.                      *)
(***************************************************************************)
LEMMA NamesKept ==
  ASSUME IInv, NEW r \in Requests, Acts(r), SameNames, ~At(r, "create")'
  PROVE  BirthInv' /\ UniqueInv'
<1>1. UniqueInv'
  BY DEF IInv, RowsInv, UniqueInv, SameNames, Acts
<1>2. BirthInv /\ Requests \subseteq Rows
  BY DEF IInv, RowsInv, Rows
<1>3. ASSUME NEW q \in Requests PROVE (req[q] = None \/ At(q, "create"))' => req[q] = None \/ At(q, "create")
  BY DEF Acts, Others, Working, At
<1>4. ASSUME NEW q \in Requests, (row[q] # None)'
      PROVE  (req[q] = Answered \/ (Working(q) /\ req[q].op = "add"))'
  BY <1>2, <1>4 DEF BirthInv, Acts, Others, Working, SameNames
<1>5. QED
  BY <1>1, <1>2, <1>3, <1>4, ActsOn DEF BirthInv, SameNames

(***************************************************************************)
(* What is said of removals.                                               *)
(***************************************************************************)
LEMMA RemovalsKept ==
  ASSUME IInv, NEW r \in Requests, Acts(r), SameNames,
         \A id \in Rows : row[id] # None /\ row'[id] = None =>
            At(r, "delete") /\ id = req[r].id /\ req'[r] = Answered /\ req[r].op = "remove",
         Removing(r)' => /\ Removing(r)
                         /\ \/ req'[r].name = req[r].name
                            \/ row[req[r].id] # None /\ req'[r].name = row[req[r].id].name
  PROVE  RemoveInv'
<1>1. /\ RemoveInv /\ hurt \subseteq hurt'
      /\ \A o \in Requests : Working(o) => req[o].id \in Rows
  BY ActsOn DEF IInv, RowsInv, Acts
<1>2. \A o \in Requests : Removing(o)' => Removing(o) /\ req'[o].id = req[o].id
                          /\ (o # r => req'[o].name = req[o].name)
  BY ActsOn DEF Removing, Acts, Others, Working
<1>3. ASSUME NEW o \in Requests, NEW p \in Requests, Removing(o)', Removing(p)', o # p,
             (req[o].id = req[p].id)'
      PROVE  /\ (row[req[o].id] # None => row[req[o].id].name \in hurt)'
             /\ (req[o].name # None => req[o].name \in hurt)'
  BY <1>1, <1>2, <1>3 DEF RemoveInv, SameNames, Removing
<1>4. ASSUME NEW o \in Requests, Removing(o)', (req[o].name # None)', (req[o].name \notin hurt)'
      PROVE  (row[req[o].id] # None)'
  <2>1. CASE row[req[o].id] = None
    BY <1>1, <1>2, <1>4, <2>1 DEF RemoveInv, Removing
  <2>2. CASE row[req[o].id] # None /\ row'[req[o].id] = None
    <3>1. Removing(r) /\ req[r].id = req[o].id /\ o # r
      BY <1>1, <1>2, <1>4, <2>2 DEF Removing, At, Working
    <3>2. QED
      BY <1>1, <1>2, <1>4, <3>1 DEF RemoveInv
  <2>3. QED
    BY <1>2, <1>4, <2>1, <2>2
<1>5. QED
  BY <1>3, <1>4 DEF RemoveInv

(* The map of a request: as it was, or now that of its row.                *)
SameMap(r) ==
  Working(r)' =>
    /\ \/ req'[r].creds = req[r].creds
       \/ row[req[r].id] # None /\ req'[r].creds = row[req[r].id].creds
    /\ At(r, "creds")' => req[r].op # "update"

(***************************************************************************)
(* A map still belongs to one row after a step that gives a row the map    *)
(* of its request, and a request the map of its row or its own.            *)
(***************************************************************************)
LEMMA MapsKept ==
  ASSUME IInv, NEW r \in Requests, Acts(r), ~Unmerged(r)',
         \A i \in Rows : row'[i] # None =>
            \/ row[i] # None /\ row'[i].creds = row[i].creds
            \/ i = req[r].id /\ row'[i].creds = req[r].creds,
         Working(r)' =>
            \/ req'[r].creds = req[r].creds
            \/ row[req[r].id] # None /\ req'[r].creds = row[req[r].id].creds
            \/ req'[r].creds = r /\ Unmerged(r)
  PROVE  MapsInv'
<1>1. /\ MapsInv /\ Requests \subseteq Rows
      /\ \A o \in Requests : Working(o) => req[o].id \in Rows
  BY ActsOn DEF IInv, RowsInv, Rows
<1>2. /\ Working(r) /\ (Working(r)' => req'[r].id = req[r].id)
      /\ \A o \in Requests \ {r} : req'[o] = req[o] /\ (Working(o)' <=> Working(o))
      /\ \A o \in Requests \ {r} : Unmerged(o)' <=> Unmerged(o)
  BY DEF Acts, Others, Working, Unmerged, At
<1>3. ASSUME NEW i \in Rows, NEW j \in Rows, row'[i] # None, row'[j] # None, row'[i].creds # None,
             row'[i].creds = row'[j].creds
      PROVE  i = j
  BY <1>1, <1>2, <1>3 DEF MapsInv
<1>4. ASSUME NEW i \in Rows, NEW o \in Requests, row'[i] # None, Working(o)', req'[o].creds # None,
             req'[o].creds = row'[i].creds
      PROVE  req'[o].id = i
  <2>1. CASE o = r
    BY <1>1, <1>2, <1>4, <2>1 DEF MapsInv
  <2>2. CASE o # r
    BY <1>1, <1>2, <1>4, <2>2 DEF MapsInv
  <2>3. QED
    BY <2>1, <2>2
<1>5. ASSUME NEW o \in Requests \ {r}, Working(o), Working(r)', req[o].creds # None,
             req[o].creds = req'[r].creds
      PROVE  req[o].id = req[r].id
  BY <1>1, <1>2, <1>5 DEF MapsInv
<1>6. ASSUME NEW o \in Requests, NEW p \in Requests, Working(o)', Working(p)', req'[o].creds # None,
             req'[o].creds = req'[p].creds
      PROVE  req'[o].id = req'[p].id
  <2>1. CASE o = r \/ p = r
    BY <1>2, <1>5, <1>6, <2>1
  <2>2. CASE o # r /\ p # r
    BY <1>1, <1>2, <1>6, <2>2 DEF MapsInv
  <2>3. QED
    BY <2>1, <2>2
<1>7. ASSUME NEW q \in Requests, Unmerged(q)'
      PROVE  /\ \A i \in Rows : row'[i] # None => row'[i].creds # q
             /\ \A o \in Requests \ {q} : Working(o)' => req'[o].creds # q
  <2>1. /\ q # r
        /\ \A i \in Rows : row[i] # None => row[i].creds # q
        /\ \A o \in Requests \ {q} : Working(o) => req[o].creds # q
    BY <1>1, <1>2, <1>7 DEF MapsInv
  <2>2. QED
    BY <1>1, <1>2, <2>1
<1>8. QED
  BY <1>3, <1>4, <1>6, <1>7 DEF MapsInv

(***************************************************************************)
(* What is said of rows, by a step that leaves names and credentials.      *)
(***************************************************************************)
LEMMA RowsKept ==
  ASSUME IInv, NEW r \in Requests, Acts(r), SameNames, SameMap(r),
         owed' = owed, raced' = raced, heap' = heap,
         \A id \in Rows : row'[id] # None => row'[id].creds = row[id].creds,
         \A id \in Rows : row[id] # None /\ row'[id] = None =>
            At(r, "delete") /\ id = req[r].id /\ req'[r] = Answered /\ req[r].op = "remove",
         ~At(r, "create")',
         At(r, "update")' => row[req[r].id] = None \/ req[r].id \in hurt',
         Removing(r)' => /\ Removing(r)
                         /\ \/ req'[r].name = req[r].name
                            \/ row[req[r].id] # None /\ req'[r].name = row[req[r].id].name
  PROVE  RowsInv'
<1>1. BirthInv' /\ UniqueInv'
  BY NamesKept
<1>2. RemoveInv'
  BY RemovalsKept
<1>3. UpdateInv'
  <2>1. UpdateInv /\ (store' = store /\ hurt \subseteq hurt')
    BY DEF IInv, RowsInv, Acts
  <2>2. \A o \in Requests \ {r} : At(o, "update")' => At(o, "update") /\ req'[o] = req[o]
    BY DEF Acts, Others, At, Working
  <2>3. At(r, "update")' => req'[r].id = req[r].id /\ (row'[req[r].id] = None \/ req[r].id \in hurt')
    BY ActsOn DEF At, SameNames
  <2>4. \A o \in Requests : At(o, "update")' => req'[o].id \in Rows
    BY ActsOn DEF At
  <2>5. ASSUME NEW o \in Requests, At(o, "update")', row'[req'[o].id] # None,
               req'[o].id \notin hurt' \cup raced'
        PROVE  UpToDate(o)'
    BY <2>1, <2>2, <2>3, <2>4, <2>5 DEF UpdateInv, SameNames, UpToDate, Content
  <2>6. ASSUME NEW o \in Requests, NEW p \in Requests, At(o, "update")', At(p, "update")',
               req'[o].id = req'[p].id, req'[o].creds # req'[p].creds, row'[req'[o].id] # None
        PROVE  req'[o].id \in hurt' \cup raced'
    BY <2>1, <2>2, <2>3, <2>4, <2>6 DEF UpdateInv, SameNames
  <2>7. QED
    BY <2>5, <2>6 DEF UpdateInv
<1>4. CredentialsKept'
  BY DEF IInv, RowsInv, CredentialsKept, SameNames, Acts, Content
<1>5. MapsInv'
  <2>1. ~Unmerged(r)'
    BY DEF Acts, SameMap, Unmerged, Working, At
  <2>2. QED
    BY <2>1, MapsKept DEF SameMap, SameNames
<1>6. QED
  BY <1>1, <1>2, <1>3, <1>4, <1>5 DEF RowsInv

(***************************************************************************)
(* What is said of helm's file, by a step that only adds to it.            *)
(***************************************************************************)
LEMMA HelmKept ==
  ASSUME IInv, NEW r \in Requests, Acts(r), SameNames,
         \A id \in Rows : row'[id] # None /\ row'[id].status = "ok" => Claimed(id),
         \A n \in Names : Known(n) => Known(n)',
         At(r, "delete") => req[r].id \in hurt' \/ row'[req[r].id] = None,
         At(r, "status")' /\ req'[r].ok /\ row[req[r].id] # None =>
            \/ row[req[r].id].name \in Oci
            \/ \E p \in Processes : cli'[p][row[req[r].id].name] # None
  PROVE  HelmInv'
<1> SUFFICES ASSUME NEW id \in Rows \ hurt', store = "postgres", row'[id] # None,
                    row'[id].name \notin Oci \cup hurt', Claimed(id)'
             PROVE  (\E p \in Processes : cli'[p][row'[id].name] # None) \/ Removed(id)'
  BY DEF HelmInv, Acts, Known
<1>1. row[id] # None /\ row[id].name = row'[id].name /\ row[id].name \in Names
  BY DEF SameNames, IInv, TypeOK, Repositories
<1>2. Known(row[id].name) => \E p \in Processes : cli'[p][row'[id].name] # None
  BY <1>1 DEF Known
<1>3. Removed(id) => Removed(id)'
  BY <1>1 DEF Removed, Acts, Others, At, Working
<1>4. Claimed(id) => Known(row[id].name) \/ Removed(id)
  BY <1>1 DEF IInv, HelmInv, Acts
<1>5. CASE row'[id].status = "ok"
  BY <1>2, <1>3, <1>4, <1>5
<1>6. ASSUME NEW q \in Requests, At(q, "status")', req'[q].ok, req'[q].id = id
      PROVE  (\E p \in Processes : cli'[p][row'[id].name] # None) \/ Removed(id)'
  <2>1. CASE q = r
    <3>1. req[r].id = id
      BY <1>6, <2>1 DEF Acts, At, Working
    <3>2. QED
      BY <1>1, <1>6, <2>1, <3>1
  <2>2. CASE q # r
    <3>1. At(q, "status") /\ req[q].ok /\ req[q].id = id
      BY <1>6, <2>2 DEF Acts, Others, At, Working
    <3>2. Claimed(id)
      BY <3>1 DEF Claimed
    <3>3. QED
      BY <1>2, <1>3, <1>4, <3>2
  <2>3. QED
    BY <2>1, <2>2
<1>7. QED
  BY <1>5, <1>6 DEF Claimed

(***************************************************************************)
(* What is said of pending rows.                                           *)
(***************************************************************************)
LEMMA PendingKept ==
  ASSUME IInv, NEW r \in Requests, Acts(r),
         \A id \in Rows : row'[id] # None /\ row'[id].status = "pending" =>
            \/ row[id] # None /\ row[id].status = "pending"
            \/ id = req[r].id /\ Working(r)' /\ req[r].op \in Settling,
         req'[r] = Answered /\ req[r].op \in Settling =>
            \/ req[r].id \in hurt' \/ row'[req[r].id] = None
            \/ row'[req[r].id].status # "pending"
  PROVE  PendingInv'
<1> SUFFICES ASSUME NEW id \in Rows \ hurt', row'[id] # None, row'[id].status = "pending"
             PROVE  (\E q \in Requests : Working(q) /\ req[q].id = id /\ req[q].op \in Settling)'
  BY DEF PendingInv
<1>1. CASE id = req[r].id /\ Working(r)' /\ req[r].op \in Settling
  BY <1>1 DEF Acts, Working
<1>2. CASE row[id] # None /\ row[id].status = "pending"
  <2>1. PICK q \in Requests : Working(q) /\ req[q].id = id /\ req[q].op \in Settling
    BY <1>2 DEF IInv, PendingInv, Acts
  <2>2. QED
    BY <2>1 DEF Acts, Others, Working
<1>3. QED
  BY <1>1, <1>2

(***************************************************************************)
(* What is said of connection tests.                                       *)
(***************************************************************************)
LEMMA TestKept ==
  ASSUME IInv, NEW r \in Requests, Acts(r),
         \A p \in Processes, n \in Names : trial'[p][n] # None =>
            \/ trial[p][n] # None \/ n \in hurt'
            \/ At(r, "cleanUp")' /\ req'[r].proc = p /\ req'[r].name = n,
         At(r, "cleanUp") => trial'[Proc(r)][req[r].name] = None \/ req[r].name \in hurt'
  PROVE  TestLeavesNothing'
  BY DEF IInv, TestLeavesNothing, Acts, Others, At, Working, Proc

(***************************************************************************)
(* What is said of the audit log.                                          *)
(***************************************************************************)
LEMMA RecordedKept ==
  ASSUME IInv, NEW r \in Requests, Acts(r), SameNames, audit \subseteq audit',
         req'[r] = Answered /\ req[r].op = "add" /\ store = "memory" /\ row'[r] # None =>
            r \in audit'
  PROVE  AddedRowsAreRecorded'
<1>1. row'[r] # None /\ r \in Rows => req[r].op = "add"
  BY DEF IInv, RowsInv, BirthInv, SameNames, Acts, Working
<1>2. Requests \subseteq Rows
  BY DEF Rows
<1>3. QED
  BY <1>1, <1>2 DEF IInv, AddedRowsAreRecorded, SameNames, Acts, Others
-----------------------------------------------------------------------------
(***************************************************************************)
(* A step that leaves rows and helm's file alone.                          *)
(***************************************************************************)
LEMMA Quiet ==
  ASSUME IInv, NEW r \in Requests, Acts(r), TypeOK', ScriptInv(r)', NoHelm, NoRows,
         audit \subseteq audit', ~At(r, "create")', SameMap(r),
         At(r, "update")' => row[req[r].id] = None \/ req[r].id \in hurt',
         Removing(r)' => /\ Removing(r)
                         /\ \/ req'[r].name = req[r].name
                            \/ row[req[r].id] # None /\ req'[r].name = row[req[r].id].name,
         At(r, "delete") => req[r].id \in hurt' \/ row[req[r].id] = None,
         At(r, "status")' /\ req'[r].ok /\ row[req[r].id] # None =>
            row[req[r].id].name \in Oci \/ Known(row[req[r].id].name),
         req'[r] = Answered /\ req[r].op \in Settling =>
            \/ req[r].id \in hurt' \/ row[req[r].id] = None
            \/ row[req[r].id].status # "pending",
         At(r, "cleanUp") => req[r].name \in hurt',
         req'[r] = Answered /\ req[r].op = "add" /\ store = "memory" /\ row[r] # None =>
            r \in audit'
  PROVE  IInv'
<1>1. /\ row' = row /\ cli' = cli /\ trial' = trial /\ owed' = owed /\ raced' = raced
      /\ heap' = heap
  BY DEF NoHelm, NoRows, NoMaps
<1>2. SameNames
  BY <1>1 DEF SameNames
<1>3. \A o \in Requests : ScriptInv(o)'
  BY <1>2, OtherScripts DEF Acts
<1>4. RowsInv'
  BY <1>1, <1>2, RowsKept
<1>5. HelmInv'
  <2>1. \A id \in Rows : row'[id] # None /\ row'[id].status = "ok" => Claimed(id)
    BY <1>1 DEF Claimed
  <2>2. \A n \in Names : Known(n) => Known(n)'
    BY <1>1 DEF Known
  <2>3. QED
    BY <1>1, <1>2, <2>1, <2>2, HelmKept DEF Known
<1>6. PendingInv'
  BY <1>1, PendingKept
<1>7. TestLeavesNothing'
  BY <1>1, TestKept
<1>8. AddedRowsAreRecorded'
  BY <1>1, <1>2, RecordedKept
<1>9. QED
  BY <1>3, <1>4, <1>5, <1>6, <1>7, <1>8 DEF IInv

(***************************************************************************)
(* The next call of a script.                                              *)
(***************************************************************************)
LEMMA Advances ==
  ASSUME TypeOK, NEW r \in Requests, ScriptInv(r), Working(r), Advance(r)
  PROVE  /\ Others(r) /\ req' \in [Requests -> {None, Answered} \cup Conversations]
         /\ audit \subseteq audit' /\ audit' \subseteq Requests
         /\ Head(req[r].todo) \in Final =>
              req'[r] = Answered /\ (store = "memory" /\ req[r].op = "add" => r \in audit')
         /\ Head(req[r].todo) \notin Final =>
              /\ Working(r)' /\ req'[r].op = req[r].op /\ req'[r].id = req[r].id
              /\ req'[r].name = req[r].name /\ req'[r].form = req[r].form
              /\ req'[r].creds = req[r].creds
              /\ InScript(req[r].op, req'[r].todo)
              /\ Head(req'[r].todo) = After(req[r].op, Head(req[r].todo))
<1> DEFINE rec == [req[r] EXCEPT !.todo = Tail(@)]
<1>1. req[r] \in Conversations /\ req[r].op \in Ops /\ InScript(req[r].op, req[r].todo)
  BY WorkingType DEF ScriptInv
<1>2. Tail(req[r].todo) \in Seq(Calls)
  <2>1. req[r].todo # <<>> /\ req[r].todo \in Seq(Calls)
    BY <1>1, Moves
  <2>2. QED
    BY <2>1, HeadTailProperties
<1>3. /\ rec \in Conversations /\ rec.op = req[r].op /\ rec.todo = Tail(req[r].todo)
      /\ rec.id = req[r].id /\ rec.name = req[r].name /\ rec.form = req[r].form
      /\ rec.creds = req[r].creds
  BY <1>1, <1>2 DEF Conversations
<1>4. Continue(r, rec)
  BY DEF Advance
<1> HIDE DEF rec
<1>5. QED
  BY <1>3, <1>4, Goes

(***************************************************************************)
(* The next call of a script after a run of helm.                          *)
(***************************************************************************)
LEMMA RanOn ==
  ASSUME TypeOK, NEW r \in Requests, ScriptInv(r), Working(r), NEW ok \in BOOLEAN, Ran(r, ok),
         Head(req[r].todo) \in {"repoAdd", "repoUpdate", "repoTest"}
  PROVE  /\ Others(r) /\ req' \in [Requests -> {None, Answered} \cup Conversations]
         /\ audit \subseteq audit' /\ audit' \subseteq Requests
         /\ Working(r)' /\ req'[r].op = req[r].op /\ req'[r].id = req[r].id
         /\ req'[r].name = req[r].name /\ req'[r].form = req[r].form /\ req'[r].ok = ok
         /\ req'[r].creds = req[r].creds /\ req'[r].proc = req[r].proc
         /\ InScript(req[r].op, req'[r].todo)
         /\ Head(req'[r].todo) = After(req[r].op, Head(req[r].todo))
<1> DEFINE rec == [req[r] EXCEPT !.todo = Tail(@), !.ok = ok]
<1>1. req[r] \in Conversations /\ req[r].op \in Ops /\ InScript(req[r].op, req[r].todo)
  BY WorkingType DEF ScriptInv
<1>2. Tail(req[r].todo) \in Seq(Calls)
  <2>1. req[r].todo # <<>> /\ req[r].todo \in Seq(Calls)
    BY <1>1, Moves
  <2>2. QED
    BY <2>1, HeadTailProperties
<1>3. /\ rec \in Conversations /\ rec.op = req[r].op /\ rec.todo = Tail(req[r].todo)
      /\ rec.id = req[r].id /\ rec.name = req[r].name /\ rec.form = req[r].form /\ rec.ok = ok
      /\ rec.creds = req[r].creds /\ rec.proc = req[r].proc
  BY <1>1, <1>2 DEF Conversations
<1>4. Continue(r, rec)
  BY DEF Ran
<1> HIDE DEF rec
<1>5. Head(req[r].todo) \notin Final
  BY DEF Final
<1>6. QED
  BY <1>3, <1>4, <1>5, Goes

(***************************************************************************)
(* What is known when a call is made.                                      *)
(***************************************************************************)
LEMMA Begins ==
  ASSUME IInv, NEW r \in Requests, Working(r)
  PROVE  /\ TypeOK /\ ScriptInv(r) /\ r \in Rows
         /\ req[r] \in Conversations /\ req[r].id \in Rows /\ req[r].op \in Ops
         /\ req[r].name \in Names \cup {None} /\ req[r].form \in CredMaps
         /\ Proc(r) \in Processes /\ req[r].creds \in Maps
         /\ InScript(req[r].op, req[r].todo) /\ MayCall(req[r].op, Head(req[r].todo))
<1>1. TypeOK /\ ScriptInv(r)
  BY DEF IInv
<1>2. /\ req[r] \in Conversations /\ req[r].id \in Rows /\ req[r].op \in Ops
      /\ req[r].name \in Names \cup {None} /\ req[r].form \in CredMaps
      /\ Proc(r) \in Processes /\ req[r].creds \in Maps
      /\ InScript(req[r].op, req[r].todo)
  BY <1>1, WorkingType DEF ScriptInv
<1>3. QED
  BY <1>1, <1>2, Moves DEF Rows

(***************************************************************************)
(* A call of the store that fails or finds no row: the row is gone, or the *)
(* fault has been noted.                                                   *)
(***************************************************************************)
LEMMA FailKeeps ==
  ASSUME IInv, NEW r \in Requests, Working(r),
         Head(req[r].todo) \in {"create", "creds", "update", "list", "status", "delete"},
         Fail(r) \/ (Advance(r) /\ Head(req[r].todo) \in {"update", "status", "delete"}),
         NoHelm, NoRows, store' = store, hurt \subseteq hurt',
         hurt' \subseteq Rows \cup Names \cup {None}, faults' \in 0 .. MaxFaults,
         row[req[r].id] = None \/ req[r].id \in hurt'
  PROVE  IInv'
<1> DEFINE call == Head(req[r].todo)
<1>1. /\ TypeOK /\ ScriptInv(r) /\ req[r].op \in Ops
      /\ MayCall(req[r].op, call)
  BY Begins
<1>2. /\ row' = row /\ cli' = cli /\ trial' = trial /\ owed' = owed /\ raced' = raced
      /\ heap' = heap
  BY DEF NoHelm, NoRows, NoMaps
<1>3. CASE Return(r) /\ ~(<<req[r].op, call>> \in Tolerated)
  <2>1. /\ Others(r) /\ req' \in [Requests -> {None, Answered} \cup Conversations]
        /\ audit' = audit /\ req'[r] = Answered
    BY <1>1, <1>3, Returns
  <2>2. Acts(r)
    BY <2>1 DEF Acts
  <2>3. TypeOK' /\ ScriptInv(r)'
    BY <1>1, <1>2, <2>1 DEF TypeOK, ScriptInv, Working
  <2>4. \A c : ~At(r, c)'
    BY <2>1 DEF At, Working
  <2>5. req[r].op = "add" => row[r] = None
    <3>1. req[r].op = "add" => call \in {"create", "status"}
      BY <1>1 DEF MayCall
    <3>2. req[r].op = "add" => call = "create"
      BY <1>3, <3>1 DEF Tolerated
    <3>3. QED
      BY <3>2 DEF At, IInv, RowsInv, BirthInv
  <2>6. ~At(r, "cleanUp") /\ ~Removing(r)' /\ SameMap(r)
    BY <2>1 DEF At, Removing, Working, SameMap
  <2>7. QED
    BY <2>1, <2>2, <2>3, <2>4, <2>5, <2>6, Quiet
<1>4. CASE Advance(r) /\ (call \notin {"update", "delete"} => <<req[r].op, call>> \in Tolerated \/ call = "status")
  <2>1. /\ Others(r) /\ req' \in [Requests -> {None, Answered} \cup Conversations]
        /\ audit \subseteq audit' /\ audit' \subseteq Requests
        /\ call \in Final =>
             req'[r] = Answered /\ (store = "memory" /\ req[r].op = "add" => r \in audit')
        /\ call \notin Final =>
             /\ Working(r)' /\ req'[r].op = req[r].op /\ req'[r].id = req[r].id
             /\ req'[r].name = req[r].name /\ req'[r].form = req[r].form
             /\ req'[r].creds = req[r].creds
             /\ InScript(req[r].op, req'[r].todo)
             /\ Head(req'[r].todo) = After(req[r].op, call)
    BY <1>1, <1>4, Advances
  <2>2. call \notin Final =>
          \/ call = "creds" /\ req[r].op = "update" /\ Head(req'[r].todo) = "update"
          \/ call = "creds" /\ req[r].op = "charts" /\ Head(req'[r].todo) = "index"
          \/ call = "list" /\ req[r].op = "remove" /\ Head(req'[r].todo) = "repoRemove"
          \/ call = "update" /\ req[r].op = "update" /\ Head(req'[r].todo) = "list"
    BY <1>1, <1>4, <2>1 DEF Final, Tolerated, After, MayCall
  <2>3. Acts(r)
    BY <2>1 DEF Acts
  <2>4. TypeOK'
    BY <1>1, <1>2, <2>1 DEF TypeOK
  <2>5. ScriptInv(r)'
    <3>1. CASE call \in Final
      BY <2>1, <3>1 DEF ScriptInv, Working
    <3>2. CASE call \notin Final
      BY <1>1, <1>2, <2>1, <2>2, <3>2 DEF ScriptInv, Named
    <3>3. QED
      BY <3>1, <3>2
  <2>6. ~At(r, "create")' /\ ~At(r, "status")' /\ ~At(r, "cleanUp")
    BY <2>1, <2>2 DEF At, Working
  <2>7. Removing(r)' => Removing(r) /\ req'[r].name = req[r].name
    BY <2>1, <2>2 DEF Removing, Working
  <2>8. req'[r] = Answered /\ req[r].op = "add" /\ store = "memory" => r \in audit'
    BY <2>1 DEF Working
  <2>9. SameMap(r)
    BY <2>1, <2>2 DEF SameMap, At, Working
  <2>10. QED
    BY <2>1, <2>3, <2>4, <2>5, <2>6, <2>7, <2>8, <2>9, Quiet
<1>5. QED
  BY <1>3, <1>4 DEF Fail

-----------------------------------------------------------------------------
(***************************************************************************)
(* The handlers: a new request makes its first call.                       *)
(***************************************************************************)
LEMMA StartKeeps ==
  ASSUME IInv, NEW r \in Requests, NEW op \in Ops, NEW script, InScript(op, script),
         Head(script) \in {"create", "creds", "list"}, NEW id \in Rows, NEW name \in Names \cup {None},
         NEW form \in Forms, Start(r, op, script, id, name, form),
         Head(script) = "list" => op = "charts",
         IF op = "add" THEN id = r /\ name \in Names ELSE name = None /\ row[id] # None
  PROVE  IInv'
<1>1. /\ TypeOK /\ req[r] = None /\ store' = store /\ hurt' = hurt /\ faults' = faults
      /\ row' = row /\ cli' = cli /\ trial' = trial /\ owed' = owed /\ raced' = raced
      /\ heap' = [heap EXCEPT ![r] = form.creds]
  BY DEF IInv, Start, NoFault, NoHelm
<1>2. script # <<>> /\ script \in Seq(Calls) /\ MayCall(op, Head(script))
  BY Moves
<1>3. PICK p \in Serving, m \in {None, r} :
        Continue(r, [proc |-> p, op |-> op, todo |-> script, id |-> id, name |-> name,
                     url |-> form.url, form |-> form.creds, creds |-> m, ok |-> TRUE])
  BY DEF Start
<1> DEFINE rec == [proc |-> p, op |-> op, todo |-> script, id |-> id, name |-> name,
                   url |-> form.url, form |-> form.creds, creds |-> m, ok |-> TRUE]
<1>4. /\ rec \in Conversations /\ req' = [req EXCEPT ![r] = rec] /\ audit' = audit
      /\ form.creds \in CredMaps /\ r \in Rows
  <2>1. p \in Processes
    BY DEF Serving, TheProcess
  <2>2. form.creds \in CredMaps /\ form.url \in Urls /\ r \in Rows
    BY DEF Configs, Rows
  <2>3. rec \in Conversations
    BY <1>2, <2>1, <2>2 DEF Conversations, Maps
  <2>4. req' = [req EXCEPT ![r] = rec] /\ audit' = audit
    BY <1>2, <1>3 DEF Continue
  <2>5. QED
    BY <2>2, <2>3, <2>4
<1>5. /\ req'[r] = rec /\ rec.op = op /\ rec.todo = script /\ rec.id = id /\ rec.name = name
      /\ rec.creds = m /\ Others(r)
  BY <1>1, <1>4 DEF TypeOK, Others
<1> HIDE DEF rec
<1>6. TypeOK'
  BY <1>1, <1>4 DEF TypeOK
<1>7. Working(r)' /\ ~Working(r)
  BY <1>1, <1>4, <1>5 DEF Working
<1>8. row[r] = None /\ \A o \in Requests \ {r} : Working(o) => req[o].id # r
  BY <1>1 DEF IInv, RowsInv, BirthInv
<1>9. \A o \in Requests : ScriptInv(o)'
  <2>1. ScriptInv(r)'
    BY <1>1, <1>2, <1>5, <1>8 DEF ScriptInv, Named, MayCall
  <2>2. SameNames
    BY <1>1 DEF SameNames
  <2>3. QED
    BY <1>5, <2>1, <2>2, OtherScripts
<1>10. BirthInv'
  <2>1. ASSUME NEW q \in Requests \ {r}, row[q] = None, op # "add" \/ q # r PROVE id # q
    BY <2>1
  <2>2. ASSUME NEW q \in Requests, (req[q] = None \/ At(q, "create"))'
        PROVE  (row[q] = None /\ \A o \in Requests \ {q} : Working(o) => req[o].id # q)'
    <3>1. CASE q = r
      BY <1>1, <1>5, <1>8, <3>1 DEF Others, Working
    <3>2. CASE q # r
      <4>1. row[q] = None /\ \A o \in Requests \ {q} : Working(o) => req[o].id # q
        BY <1>5, <2>2, <3>2 DEF IInv, RowsInv, BirthInv, Others, At, Working
      <4>2. QED
        BY <1>1, <1>5, <2>1, <3>2, <4>1 DEF Others, Working
    <3>3. QED
      BY <3>1, <3>2
  <2>3. ASSUME NEW q \in Requests, (row[q] # None)'
        PROVE  (req[q] = Answered \/ (Working(q) /\ req[q].op = "add"))'
    BY <1>1, <1>5, <1>8, <2>3 DEF IInv, RowsInv, BirthInv, Others, Working
  <2>4. QED
    BY <2>2, <2>3 DEF BirthInv
<1>11. \A c \in {"update", "status", "delete", "cleanUp"} : ~At(r, c) /\ ~At(r, c)'
  BY <1>5, <1>7 DEF At
<1>12. ~Removing(r)'
  BY <1>2, <1>5 DEF Removing, MayCall
<1>13. /\ \A i \in Rows : row[i] # None => row[i].creds # r
       /\ \A o \in Requests \ {r} : Working(o) => req[o].creds # r
  BY <1>1 DEF IInv, RowsInv, MapsInv, Unmerged
<1>14. MapsInv'
  <2>1. \A o \in Requests \ {r} : req'[o] = req[o] /\ (Working(o)' <=> Working(o))
    BY <1>5 DEF Others, Working
  <2>2. ASSUME NEW q \in Requests, Unmerged(q)'
        PROVE  /\ \A i \in Rows : row'[i] # None => row'[i].creds # q
               /\ \A o \in Requests \ {q} : Working(o)' => req'[o].creds # q
    <3>1. CASE q = r
      BY <1>1, <1>13, <2>1, <3>1
    <3>2. CASE q # r
      <4>1. Unmerged(q)
        BY <2>1, <2>2, <3>2 DEF Unmerged, At
      <4>2. q # m /\ q # None
        BY <3>2 DEF Rows
      <4>3. QED
        BY <1>1, <1>5, <2>1, <3>2, <4>1, <4>2 DEF IInv, RowsInv, MapsInv
    <3>3. QED
      BY <3>1, <3>2
  <2>3. ASSUME NEW o \in Requests, NEW q \in Requests, Working(o)', Working(q)', req'[o].creds # None,
               req'[o].creds = req'[q].creds
        PROVE  req'[o].id = req'[q].id
    <3>1. CASE o = r \/ q = r
      BY <1>5, <1>13, <2>1, <2>3, <3>1
    <3>2. CASE o # r /\ q # r
      BY <2>1, <2>3, <3>2 DEF IInv, RowsInv, MapsInv
    <3>3. QED
      BY <3>1, <3>2
  <2>4. ASSUME NEW i \in Rows, NEW o \in Requests, row'[i] # None, Working(o)', req'[o].creds # None,
               req'[o].creds = row'[i].creds
        PROVE  req'[o].id = i
    <3>1. o # r
      BY <1>1, <1>5, <1>13, <2>4
    <3>2. QED
      BY <1>1, <2>1, <2>4, <3>1 DEF IInv, RowsInv, MapsInv
  <2>5. \A i, j \in Rows : row'[i] # None /\ row'[j] # None /\ row'[i].creds # None
                          /\ row'[i].creds = row'[j].creds => i = j
    BY <1>1 DEF IInv, RowsInv, MapsInv
  <2>6. QED
    BY <2>2, <2>3, <2>4, <2>5 DEF MapsInv
<1>15. UniqueInv' /\ RemoveInv' /\ UpdateInv' /\ CredentialsKept'
  <2>1. \A h \in Rows \ {r} : heap'[h] = heap[h]
    BY <1>1, <1>4 DEF TypeOK
  <2>2. UniqueInv'
    BY <1>1 DEF IInv, RowsInv, UniqueInv
  <2>3. \A i \in Rows : row[i] # None => row[i].creds \in Maps \ {r}
    BY <1>1, <1>13 DEF TypeOK, Repositories
  <2>4. CredentialsKept'
    BY <1>1, <2>1, <2>3 DEF IInv, RowsInv, CredentialsKept, Content, Maps
  <2>5. \A o \in Requests : Removing(o)' => Removing(o) /\ req'[o] = req[o]
    BY <1>5, <1>12 DEF Removing, Working, Others
  <2>6. RemoveInv'
    BY <1>1, <2>5 DEF IInv, RowsInv, RemoveInv
  <2>7. \A o \in Requests : At(o, "update")' =>
          /\ At(o, "update") /\ req'[o] = req[o] /\ o # r
          /\ req[o].creds \in Maps \ {r} /\ req[o].id \in Rows
    BY <1>1, <1>5, <1>11, <1>13, WorkingType DEF At, Working, Others
  <2>8. ASSUME NEW o \in Requests, At(o, "update")', row'[req'[o].id] # None,
               req'[o].id \notin hurt' \cup raced'
        PROVE  UpToDate(o)'
    <3>1. UpToDate(o)
      BY <1>1, <2>7, <2>8 DEF IInv, RowsInv, UpdateInv
    <3>2. QED
      BY <1>1, <2>1, <2>3, <2>7, <2>8, <3>1 DEF UpToDate, Content, Maps
  <2>9. ASSUME NEW o \in Requests, NEW q \in Requests, At(o, "update")', At(q, "update")',
               req'[o].id = req'[q].id, req'[o].creds # req'[q].creds, row'[req'[o].id] # None
        PROVE  req'[o].id \in hurt' \cup raced'
    BY <1>1, <2>7, <2>9 DEF IInv, RowsInv, UpdateInv
  <2>10. UpdateInv'
    BY <2>8, <2>9 DEF UpdateInv
  <2>11. QED
    BY <2>2, <2>4, <2>6, <2>10
<1>16. HelmInv'
  <2>1. \A o \in Requests : At(o, "status")' => At(o, "status") /\ req'[o] = req[o]
    BY <1>5, <1>11 DEF At, Working, Others
  <2>2. \A o \in Requests : At(o, "delete") => At(o, "delete")' /\ req'[o] = req[o]
    BY <1>5, <1>11 DEF At, Working, Others
  <2>3. \A i \in Rows : (Claimed(i)' => Claimed(i)) /\ (Removed(i) => Removed(i)')
    BY <1>1, <2>1, <2>2 DEF Claimed, Removed
  <2>4. QED
    BY <1>1, <2>3 DEF IInv, HelmInv, Known
<1>17. PendingInv'
  BY <1>1, <1>5, <1>7 DEF IInv, PendingInv, Others, Working
<1>18. TestLeavesNothing'
  BY <1>1, <1>5, <1>11 DEF IInv, TestLeavesNothing, Others, At, Working, Proc
<1>19. AddedRowsAreRecorded'
  BY <1>1, <1>4, <1>5, <1>8 DEF IInv, AddedRowsAreRecorded, Others
<1>20. QED
  BY <1>6, <1>9, <1>10, <1>14, <1>15, <1>16, <1>17, <1>18, <1>19 DEF IInv, RowsInv

(***************************************************************************)
(* Whatever a handler starts, nothing but the request changes.             *)
(***************************************************************************)
LEMMA HandleKeeps ==
  ASSUME IInv, NEW r \in Requests, Handle(r)
  PROVE  IInv'
<1>1. AnyForm \in Forms
  BY DEF AnyForm
<1>2. r \in Rows
  BY DEF Rows
<1>3. CASE addHelmRepositoryHandler(r)
  <2>1. PICK n \in Names, f \in Forms : Start(r, "add", AddHelmRepository, r, n, f)
    BY <1>3 DEF addHelmRepositoryHandler
  <2>2. InScript("add", AddHelmRepository) /\ Head(AddHelmRepository) = "create"
    BY DEF InScript, AddLeft, AddHelmRepository
  <2>3. QED
    BY <1>2, <2>1, <2>2, StartKeeps DEF Ops
<1>4. ASSUME NEW op \in Ops \ {"add"}, NEW script, InScript(op, script),
             Head(script) \in {"creds", "list"}, Head(script) = "list" => op = "charts", NEW f \in Forms, OnRow(r, op, script, f)
      PROVE  IInv'
  <2>1. PICK id \in Rows : row[id] # None /\ Start(r, op, script, id, None, f)
    BY <1>4 DEF OnRow
  <2>2. QED
    BY <1>4, <2>1, StartKeeps
<1>5. CASE updateHelmRepositoryHandler(r)
  <2>1. InScript("update", UpdateHelmRepository) /\ Head(UpdateHelmRepository) = "creds"
    BY DEF InScript, UpdateLeft, UpdateHelmRepository
  <2>2. QED
    BY <1>4, <1>5, <2>1 DEF updateHelmRepositoryHandler, Ops
<1>6. CASE deleteHelmRepositoryHandler(r)
  <2>1. InScript("remove", RemoveHelmRepository) /\ Head(RemoveHelmRepository) = "creds"
    BY DEF InScript, RemoveLeft, RemoveHelmRepository
  <2>2. QED
    BY <1>1, <1>4, <1>6, <2>1 DEF deleteHelmRepositoryHandler, Ops
<1>7. CASE refreshHelmRepositoryHandler(r)
  <2>1. InScript("refresh", RefreshHelmRepository) /\ Head(RefreshHelmRepository) = "creds"
    BY DEF InScript, RefreshLeft, RefreshHelmRepository
  <2>2. QED
    BY <1>1, <1>4, <1>7, <2>1 DEF refreshHelmRepositoryHandler, Ops
<1>8. CASE testHelmRepositoryHandler(r)
  <2>1. InScript("test", TestHelmRepository) /\ Head(TestHelmRepository) = "creds"
    BY DEF InScript, TestLeft, TestHelmRepository
  <2>2. QED
    BY <1>1, <1>4, <1>8, <2>1 DEF testHelmRepositoryHandler, Ops
<1>9. CASE listChartsHandler(r)
  <2>1. InScript("charts", ListCharts) /\ Head(ListCharts) = "list"
    BY DEF InScript, ChartsLeft, ListCharts
  <2>2. QED
    BY <1>1, <1>4, <1>9, <2>1 DEF listChartsHandler, Ops
<1>10. QED
  BY <1>3, <1>5, <1>6, <1>7, <1>8, <1>9 DEF Handle

-----------------------------------------------------------------------------
(***************************************************************************)
(* The calls that leave rows and helm's file alone.                        *)
(***************************************************************************)
LEMMA ListKeeps ==
  ASSUME IInv, NEW r \in Requests, ListHelmRepositories(r)
  PROVE  IInv'
<1> DEFINE found == row[req[r].id]
           anew  == found.name \in Oci /\ req[r].op \in {"refresh"}
           rec   == [req[r] EXCEPT !.todo = IF anew THEN <<"repoAdd", "status">> ELSE Tail(@),
                                   !.name = found.name,
                                   !.url  = IF req[r].op = "update" THEN @ ELSE found.url]
<1>1. /\ Working(r) /\ Head(req[r].todo) = "list" /\ found # None /\ Continue(r, rec)
      /\ store' = store /\ hurt' = hurt /\ faults' = faults /\ NoHelm /\ NoRows
  BY DEF ListHelmRepositories, At, Found, NoFault
<1>2. /\ TypeOK /\ ScriptInv(r) /\ req[r] \in Conversations /\ req[r].id \in Rows
      /\ InScript(req[r].op, req[r].todo) /\ req[r].op \in Ops /\ req[r].op # "add"
  BY <1>1, Begins DEF MayCall
<1>3. found.name \in Names /\ found.url \in Urls
  BY <1>1, <1>2 DEF TypeOK, Repositories
<1>4. /\ Tail(req[r].todo) \in Seq(Calls) /\ InScript(req[r].op, Tail(req[r].todo))
      /\ Tail(req[r].todo) # <<>> /\ Head(Tail(req[r].todo)) = After(req[r].op, "list")
  <2>1. req[r].todo \in Seq(Calls) /\ req[r].todo # <<>>
    BY <1>2, Moves
  <2>2. QED
    BY <1>1, <1>2, <2>1, Moves, HeadTailProperties DEF Final
<1>5. /\ <<"repoAdd", "status">> \in Seq(Calls) /\ <<"repoAdd", "status">> # <<>>
      /\ Head(<<"repoAdd", "status">>) = "repoAdd" /\ <<"repoAdd", "status">> \in RefreshLeft
  BY DEF Calls, RefreshLeft
<1>6. /\ rec \in Conversations /\ rec.op = req[r].op /\ rec.id = req[r].id
      /\ rec.form = req[r].form /\ rec.name = found.name /\ rec.creds = req[r].creds
      /\ rec.todo = IF anew THEN <<"repoAdd", "status">> ELSE Tail(req[r].todo)
  BY <1>2, <1>3, <1>4, <1>5 DEF Conversations
<1> HIDE DEF rec
<1>7. /\ rec.todo # <<>> /\ InScript(req[r].op, rec.todo)
      /\ Head(rec.todo) \in {"repoAdd", "repoRemove", "repoUpdate", "repoTest", "creds"}
      /\ req[r].op = "remove" => Head(rec.todo) = "repoRemove"
      /\ req[r].op = "update" => Head(rec.todo) # "creds"
  BY <1>2, <1>4, <1>5, <1>6 DEF InScript, After, Ops
<1>8. req' = [req EXCEPT ![r] = rec] /\ audit' = audit
  BY <1>1, <1>7 DEF Continue
<1>9. req'[r] = rec /\ Others(r) /\ req' \in [Requests -> {None, Answered} \cup Conversations]
  BY <1>2, <1>6, <1>8 DEF TypeOK, Others
<1>10. Working(r)'
  BY <1>6, <1>9 DEF Working
<1>11. Acts(r)
  BY <1>1, <1>6, <1>9, <1>10 DEF Acts
<1>12. row' = row /\ TypeOK'
  BY <1>1, <1>2, <1>8, <1>9 DEF TypeOK, NoHelm, NoRows, NoMaps
<1>13. ScriptInv(r)'
  BY <1>2, <1>3, <1>6, <1>7, <1>9, <1>12 DEF ScriptInv
<1>14. \A c \in {"create", "update", "status"} : ~At(r, c)'
  BY <1>7, <1>9 DEF At
<1>15. ~At(r, "delete") /\ ~At(r, "cleanUp") /\ req'[r] # Answered
  BY <1>1, <1>10 DEF At, Working
<1>16. Removing(r)' => Removing(r) /\ row[req[r].id] # None /\ req'[r].name = row[req[r].id].name
  BY <1>1, <1>6, <1>9 DEF Removing
<1>17. SameMap(r)
  BY <1>6, <1>7, <1>9 DEF SameMap, At
<1>18. QED
  BY <1>1, <1>8, <1>11, <1>12, <1>13, <1>14, <1>15, <1>16, <1>17, Quiet

(***************************************************************************)
(* The chart index is the last call of its script.                         *)
(***************************************************************************)
LEMMA IndexKeeps ==
  ASSUME IInv, NEW r \in Requests, FetchIndex(r)
  PROVE  IInv'
<1>1. /\ Working(r) /\ Head(req[r].todo) = "index" /\ Return(r)
      /\ store' = store /\ hurt' = hurt /\ faults' = faults /\ NoHelm /\ NoRows
  BY DEF FetchIndex, At, NoFault
<1>2. TypeOK /\ req[r].op = "charts"
  BY <1>1, Begins DEF MayCall
<1>3. /\ Others(r) /\ req' \in [Requests -> {None, Answered} \cup Conversations]
      /\ audit' = audit /\ req'[r] = Answered
  BY <1>1, <1>2, Returns
<1>4. Acts(r) /\ TypeOK' /\ ScriptInv(r)' /\ SameMap(r)
  BY <1>1, <1>2, <1>3 DEF Acts, TypeOK, ScriptInv, Working, NoHelm, NoRows, NoMaps, SameMap
<1>5. /\ \A c : ~At(r, c)'
      /\ ~At(r, "delete") /\ ~At(r, "cleanUp") /\ ~Removing(r)'
  BY <1>1, <1>3 DEF At, Working, Removing
<1>6. QED
  BY <1>1, <1>2, <1>3, <1>4, <1>5, Quiet DEF Settling

(***************************************************************************)
(* A run of helm whose failure is noted, or that has nothing to write.     *)
(***************************************************************************)
LEMMA RanKeeps ==
  ASSUME IInv, NEW r \in Requests, Working(r), NEW ok \in BOOLEAN, Ran(r, ok),
         Head(req[r].todo) \in {"repoAdd", "repoUpdate", "repoTest"},
         NoRows, store' = store, hurt \subseteq hurt',
         hurt' \subseteq Rows \cup Names \cup {None}, faults' \in 0 .. MaxFaults,
         cli' \in [Processes -> [Names -> {None} \cup Configs]],
         trial' \in [Processes -> [Names -> {None} \cup Configs]],
         \A p \in Processes, n \in Names : cli[p][n] # None => cli'[p][n] # None,
         Head(req[r].todo) # "repoTest" /\ ok =>
            req[r].name \in Oci \/ cli'[Proc(r)][req[r].name] # None,
         \A p \in Processes, n \in Names : trial'[p][n] # None =>
            \/ trial[p][n] # None
            \/ p = Proc(r) /\ n = req[r].name /\ Head(req[r].todo) = "repoTest"
  PROVE  IInv'
<1> DEFINE call == Head(req[r].todo)
<1>1. /\ TypeOK /\ ScriptInv(r) /\ req[r].op \in Ops /\ req[r].id \in Rows
      /\ MayCall(req[r].op, call) /\ req[r].name \in Names /\ Proc(r) \in Processes
  BY Begins DEF ScriptInv, Named, MayCall, Settling
<1>2. /\ Others(r) /\ req' \in [Requests -> {None, Answered} \cup Conversations]
      /\ audit \subseteq audit' /\ audit' \subseteq Requests
      /\ Working(r)' /\ req'[r].op = req[r].op /\ req'[r].id = req[r].id
      /\ req'[r].name = req[r].name /\ req'[r].form = req[r].form /\ req'[r].ok = ok
      /\ req'[r].creds = req[r].creds /\ req'[r].proc = Proc(r)
      /\ InScript(req[r].op, req'[r].todo)
      /\ Head(req'[r].todo) = After(req[r].op, call)
  BY <1>1, RanOn DEF Proc
<1>3. /\ Head(req'[r].todo) = "status" <=> call # "repoTest"
      /\ Head(req'[r].todo) = "cleanUp" <=> call = "repoTest"
      /\ Head(req'[r].todo) \in {"status", "cleanUp"}
  BY <1>2 DEF After
<1>4. row' = row /\ owed' = owed /\ raced' = raced /\ heap' = heap
  BY DEF NoRows, NoMaps
<1>5. Acts(r) /\ SameNames /\ SameMap(r)
  BY <1>2, <1>3, <1>4 DEF Acts, SameNames, SameMap, At
<1>6. TypeOK'
  BY <1>1, <1>2, <1>4 DEF TypeOK
<1>7. \A o \in Requests : ScriptInv(o)'
  <2>1. ScriptInv(r)'
    BY <1>1, <1>2, <1>4 DEF ScriptInv
  <2>2. QED
    BY <1>2, <1>5, <2>1, OtherScripts
<1>8. /\ ~At(r, "create")' /\ ~At(r, "update")' /\ ~At(r, "delete") /\ ~At(r, "cleanUp")
      /\ ~Removing(r)' /\ req'[r] # Answered
  BY <1>1, <1>2, <1>3 DEF At, Removing, MayCall, Settling, Working
<1>9. RowsInv'
  BY <1>4, <1>5, <1>8, RowsKept
<1>10. HelmInv'
  <2>1. At(r, "status")' /\ req'[r].ok /\ row[req[r].id] # None =>
          \/ row[req[r].id].name \in Oci
          \/ \E p \in Processes : cli'[p][row[req[r].id].name] # None
    <3>1. row[req[r].id] # None => row[req[r].id].name = req[r].name
      BY <1>1 DEF ScriptInv
    <3>2. QED
      BY <1>1, <1>2, <1>3, <3>1 DEF At
  <2>2. \A id \in Rows : row'[id] # None /\ row'[id].status = "ok" => Claimed(id)
    BY <1>4 DEF Claimed
  <2>3. \A n \in Names : Known(n) => Known(n)'
    BY DEF Known
  <2>4. QED
    BY <1>5, <1>8, <2>1, <2>2, <2>3, HelmKept
<1>11. PendingInv'
  BY <1>4, <1>5, <1>8, PendingKept
<1>12. TestLeavesNothing'
  <2>1. call = "repoTest" => At(r, "cleanUp")'
    BY <1>2, <1>3 DEF At
  <2>2. QED
    BY <1>2, <1>5, <1>8, <2>1, TestKept
<1>13. AddedRowsAreRecorded'
  BY <1>2, <1>5, <1>8, RecordedKept
<1>14. QED
  BY <1>6, <1>7, <1>9, <1>10, <1>11, <1>12, <1>13 DEF IInv

(***************************************************************************)
(* What a map holds are credentials.                                       *)
(***************************************************************************)
LEMMA ContentType ==
  ASSUME TypeOK, NEW m \in Maps
  PROVE  Content(m) \in CredMaps
<1>1. NoCreds \in CredMaps
  BY DEF NoCreds, CredMaps
<1>2. QED
  BY <1>1 DEF Content, Maps, TypeOK

(***************************************************************************)
(* What a request works with is a configuration.                           *)
(***************************************************************************)
LEMMA ConfigType ==
  ASSUME TypeOK, NEW r \in Requests, Working(r)
  PROVE  Config(r) \in Configs
<1>1. req[r].url \in Urls /\ req[r].creds \in Maps
  BY DEF TypeOK, Working, Conversations
<1>2. Content(req[r].creds) \in CredMaps
  BY <1>1, ContentType
<1>3. QED
  BY <1>1, <1>2 DEF Config, Configs

Adds(files, p, n, c) == [files EXCEPT ![p] = HelmAdds(files[p], n, c)]

(***************************************************************************)
(* An entry added to one process's repository file.                        *)
(***************************************************************************)
LEMMA HelmAddsType ==
  ASSUME NEW files \in [Processes -> [Names -> {None} \cup Configs]], NEW p \in Processes,
         NEW n \in Names, NEW c \in Configs
  PROVE  /\ Adds(files, p, n, c) \in [Processes -> [Names -> {None} \cup Configs]]
         /\ Adds(files, p, n, c)[p][n] # None
         /\ \A q \in Processes, m \in Names : files[q][m] # None => Adds(files, p, n, c)[q][m] # None
         /\ \A q \in Processes, m \in Names :
              Adds(files, p, n, c)[q][m] # None => files[q][m] # None \/ (q = p /\ m = n)
<1> DEFINE file  == HelmAdds(files[p], n, c)
           after == [files EXCEPT ![p] = file]
<1>1. /\ file \in [Names -> {None} \cup Configs] /\ file[n] # None
      /\ \A m \in Names : files[p][m] # None => file[m] # None
      /\ \A m \in Names \ {n} : file[m] = files[p][m]
  BY DEF HelmAdds
<1> HIDE DEF file
<1>2. after[p] = file /\ \A q \in Processes \ {p} : after[q] = files[q]
  OBVIOUS
<1>3. after \in [Processes -> [Names -> {None} \cup Configs]]
  BY <1>1
<1> HIDE DEF after
<1>4. /\ after \in [Processes -> [Names -> {None} \cup Configs]] /\ after[p][n] # None
      /\ \A q \in Processes, m \in Names : files[q][m] # None => after[q][m] # None
      /\ \A q \in Processes, m \in Names : after[q][m] # None => files[q][m] # None \/ (q = p /\ m = n)
  BY <1>1, <1>2, <1>3
<1>5. QED
  BY <1>4 DEF after, file, Adds

(***************************************************************************)
(* Adding an entry to helm's file and refreshing it; the result decides    *)
(* the status.                                                             *)
(***************************************************************************)
LEMMA HelmRunKeeps ==
  ASSUME IInv, NEW r \in Requests, RepoAdd(r) \/ RepoUpdate(r)
  PROVE  IInv'
<1>1. Working(r) /\ Head(req[r].todo) \in {"repoAdd", "repoUpdate"}
  BY DEF RepoAdd, RepoUpdate, At
<1>2. /\ TypeOK /\ ScriptInv(r) /\ req[r].name \in Names /\ Proc(r) \in Processes
      /\ faults \in 0 .. MaxFaults /\ hurt \subseteq Rows \cup Names \cup {None}
      /\ cli \in [Processes -> [Names -> {None} \cup Configs]]
      /\ trial \in [Processes -> [Names -> {None} \cup Configs]]
  BY <1>1, Begins DEF ScriptInv, Named, TypeOK
<1>3. /\ store' = store /\ hurt' = hurt /\ faults' = faults /\ NoRows /\ trial' = trial
  BY DEF RepoAdd, RepoUpdate, NoFault, NoHelm
<1>4. CASE cli' = cli /\ Ran(r, FALSE)
  BY <1>1, <1>2, <1>3, <1>4, RanKeeps
<1>5. CASE cli' = cli /\ Ran(r, TRUE) /\ (req[r].name \in Oci \/ cli[Proc(r)][req[r].name] # None)
  BY <1>1, <1>2, <1>3, <1>5, RanKeeps
<1>6. CASE HelmRepoAdd(r)
  <2>1. Config(r) \in Configs
    BY <1>1, <1>2, ConfigType
  <2>2. cli' = [cli EXCEPT ![Proc(r)] = HelmAdds(@, req[r].name, Config(r))] /\ Ran(r, TRUE)
    BY <1>6 DEF HelmRepoAdd
  <2>3. /\ cli' \in [Processes -> [Names -> {None} \cup Configs]]
        /\ cli'[Proc(r)][req[r].name] # None
        /\ \A p \in Processes, m \in Names : cli[p][m] # None => cli'[p][m] # None
    <3>1. cli' = Adds(cli, Proc(r), req[r].name, Config(r))
      BY <2>2 DEF Adds
    <3>2. /\ cli \in [Processes -> [Names -> {None} \cup Configs]] /\ Proc(r) \in Processes
          /\ req[r].name \in Names /\ Config(r) \in Configs
      BY <1>2, <2>1
    <3>3. QED
      BY ONLY <3>1, <3>2, HelmAddsType
  <2>4. QED
    BY <1>1, <1>2, <1>3, <2>2, <2>3, RanKeeps
<1>7. QED
  BY <1>4, <1>5, <1>6 DEF RepoAdd, RepoUpdate, ecrLogin, NoHelm

(***************************************************************************)
(* A connection test adds an entry that its clean-up takes away.           *)
(***************************************************************************)
LEMMA RepoTestKeeps ==
  ASSUME IInv, NEW r \in Requests, RepoTest(r)
  PROVE  IInv'
<1>1. Working(r) /\ Head(req[r].todo) = "repoTest"
  BY DEF RepoTest, At
<1>2. /\ TypeOK /\ ScriptInv(r) /\ req[r].name \in Names /\ req[r].op = "test"
      /\ Proc(r) \in Processes
      /\ faults \in 0 .. MaxFaults /\ hurt \subseteq Rows \cup Names \cup {None}
      /\ cli \in [Processes -> [Names -> {None} \cup Configs]]
      /\ trial \in [Processes -> [Names -> {None} \cup Configs]]
  BY <1>1, Begins DEF ScriptInv, Named, TypeOK, MayCall
<1>3. store' = store /\ hurt' = hurt /\ faults' = faults /\ NoRows /\ cli' = cli
  BY DEF RepoTest, NoFault
<1>4. CASE ECRToken(r)
  <2>1. /\ Others(r) /\ req' \in [Requests -> {None, Answered} \cup Conversations]
        /\ audit' = audit /\ req'[r] = Answered /\ trial' = trial
    BY <1>2, <1>4, Returns DEF ECRToken
  <2>2. Acts(r) /\ TypeOK' /\ ScriptInv(r)' /\ SameMap(r)
    BY <1>1, <1>2, <1>3, <2>1 DEF Acts, TypeOK, ScriptInv, Working, NoRows, NoMaps, SameMap
  <2>3. (\A c : ~At(r, c)') /\ ~At(r, "delete") /\ ~At(r, "cleanUp") /\ ~Removing(r)'
    BY <1>1, <2>1 DEF At, Working, Removing
  <2>4. QED
    BY <1>2, <1>3, <2>1, <2>2, <2>3, Quiet DEF Settling, NoHelm
<1>5. CASE Ran(r, FALSE) /\ trial' = trial
  BY <1>1, <1>2, <1>3, <1>5, RanKeeps
<1>6. CASE trial' = [trial EXCEPT ![Proc(r)] = HelmAdds(@, req[r].name, Config(r))] /\ Ran(r, TRUE)
  <2>1. Config(r) \in Configs
    BY <1>1, <1>2, ConfigType
  <2>2. /\ trial' \in [Processes -> [Names -> {None} \cup Configs]]
        /\ \A p \in Processes, m \in Names : trial'[p][m] # None =>
             trial[p][m] # None \/ (p = Proc(r) /\ m = req[r].name)
    <3>1. trial' = Adds(trial, Proc(r), req[r].name, Config(r))
      BY <1>6 DEF Adds
    <3>2. /\ trial \in [Processes -> [Names -> {None} \cup Configs]] /\ Proc(r) \in Processes
          /\ req[r].name \in Names /\ Config(r) \in Configs
      BY <1>2, <2>1
    <3>3. QED
      BY ONLY <3>1, <3>2, HelmAddsType
  <2>3. QED
    BY <1>1, <1>2, <1>3, <1>6, <2>2, RanKeeps
<1>7. QED
  BY <1>4, <1>5, <1>6 DEF RepoTest

(***************************************************************************)
(* The end of a connection test, or its being killed.                      *)
(***************************************************************************)
LEMMA CleanUpKeeps ==
  ASSUME IInv, NEW r \in Requests, At(r, "cleanUp"), Return(r), NoRows,
         store' = store, cli' = cli, hurt \subseteq hurt',
         hurt' \subseteq Rows \cup Names \cup {None}, faults' \in 0 .. MaxFaults,
         \/ trial' = [trial EXCEPT ![Proc(r)][req[r].name] = None]
         \/ trial' = trial /\ req[r].name \in hurt'
  PROVE  IInv'
<1>1. Working(r) /\ Head(req[r].todo) = "cleanUp"
  BY DEF At
<1>2. /\ TypeOK /\ req[r].op = "test" /\ req[r].name \in Names /\ Proc(r) \in Processes
      /\ trial \in [Processes -> [Names -> {None} \cup Configs]]
  BY <1>1, Begins DEF MayCall, ScriptInv, Named, TypeOK
<1>3. /\ Others(r) /\ req' \in [Requests -> {None, Answered} \cup Conversations]
      /\ audit' = audit /\ req'[r] = Answered
  BY <1>2, Returns
<1>4. /\ Acts(r) /\ ScriptInv(r)' /\ SameMap(r)
      /\ trial' \in [Processes -> [Names -> {None} \cup Configs]] /\ TypeOK'
  <2>1. Acts(r) /\ ScriptInv(r)' /\ SameMap(r)
    BY <1>1, <1>2, <1>3 DEF Acts, ScriptInv, Working, SameMap
  <2>2. trial' \in [Processes -> [Names -> {None} \cup Configs]]
    BY <1>2
  <2>3. QED
    BY <1>1, <1>2, <1>3, <2>1, <2>2 DEF TypeOK, NoRows, NoMaps
<1>5. (\A c : ~At(r, c)') /\ ~At(r, "delete") /\ ~Removing(r)'
  BY <1>1, <1>3 DEF At, Working, Removing
<1>6. row' = row /\ owed' = owed /\ raced' = raced /\ heap' = heap /\ SameNames
  BY DEF NoRows, NoMaps, SameNames
<1>7. \A o \in Requests : ScriptInv(o)'
  BY <1>3, <1>4, <1>6, OtherScripts
<1>8. RowsInv'
  BY <1>4, <1>5, <1>6, RowsKept
<1>9. HelmInv'
  <2>1. \A id \in Rows : row'[id] # None /\ row'[id].status = "ok" => Claimed(id)
    BY <1>6 DEF Claimed
  <2>2. \A n \in Names : Known(n) => Known(n)'
    BY DEF Known
  <2>3. QED
    BY <1>4, <1>5, <1>6, <2>1, <2>2, HelmKept
<1>10. PendingInv'
  BY <1>2, <1>4, <1>6, PendingKept DEF Settling
<1>11. TestLeavesNothing'
  <2>1. /\ \A p \in Processes, n \in Names : trial'[p][n] # None => trial[p][n] # None
        /\ trial'[Proc(r)][req[r].name] = None \/ req[r].name \in hurt'
    BY <1>2
  <2>2. QED
    BY <1>4, <2>1, TestKept
<1>12. AddedRowsAreRecorded'
  BY <1>2, <1>3, <1>4, <1>6, RecordedKept
<1>13. QED
  BY <1>4, <1>7, <1>8, <1>9, <1>10, <1>11, <1>12 DEF IInv

(***************************************************************************)
(* The clean-up of a connection test.                                      *)
(***************************************************************************)
LEMMA CleanUpEnds ==
  ASSUME IInv, NEW r \in Requests, CleanUp(r)
  PROVE  IInv'
<1>1. TypeOK /\ At(r, "cleanUp")
  BY DEF IInv, CleanUp
<1>2. QED
  BY <1>1, CleanUpKeeps DEF CleanUp, NoFault, TypeOK

(***************************************************************************)
(* Faults.                                                                 *)
(***************************************************************************)
LEMMA FaultCounts ==
  ASSUME TypeOK, NEW what \in SUBSET (Rows \cup Names \cup {None}), Fault(what)
  PROVE  /\ hurt \subseteq hurt' /\ hurt' \subseteq Rows \cup Names \cup {None}
         /\ what \subseteq hurt' /\ faults' \in 0 .. MaxFaults
  BY DEF TypeOK, Fault

(***************************************************************************)
(* A statement of Postgres fails: the row counts as touched by the fault.  *)
(***************************************************************************)
LEMMA StatementFailsKeeps ==
  ASSUME IInv, NEW r \in Requests, StatementFails(r)
  PROVE  IInv'
<1>1. /\ Working(r) /\ Head(req[r].todo) \in {"create", "creds", "update", "list", "status", "delete"}
      /\ Fail(r) /\ NoHelm /\ NoRows /\ store' = store /\ Fault({req[r].id})
  BY DEF StatementFails, At
<1>2. TypeOK /\ {req[r].id} \in SUBSET (Rows \cup Names \cup {None})
  BY <1>1, Begins
<1>3. QED
  BY <1>1, <1>2, FaultCounts, FailKeeps

(***************************************************************************)
(* A killed run of helm: the row and the name count as touched by the      *)
(* fault.                                                                  *)
(***************************************************************************)
LEMMA HelmKilledKeeps ==
  ASSUME IInv, NEW r \in Requests, HelmKilled(r)
  PROVE  IInv'
<1>1. /\ Working(r) /\ Head(req[r].todo) \in {"repoAdd", "repoTest", "cleanUp"}
      /\ Fault({req[r].id, req[r].name}) /\ NoRows /\ store' = store
  BY DEF HelmKilled, At
<1>2. /\ TypeOK /\ ScriptInv(r) /\ req[r].name \in Names /\ Proc(r) \in Processes
      /\ {req[r].id, req[r].name} \in SUBSET (Rows \cup Names \cup {None})
      /\ cli \in [Processes -> [Names -> {None} \cup Configs]]
      /\ trial \in [Processes -> [Names -> {None} \cup Configs]]
  BY <1>1, Begins DEF ScriptInv, Named, TypeOK
<1>3. /\ hurt \subseteq hurt' /\ hurt' \subseteq Rows \cup Names \cup {None}
      /\ {req[r].id, req[r].name} \subseteq hurt' /\ faults' \in 0 .. MaxFaults
  BY <1>1, <1>2, FaultCounts
<1>4. Config(r) \in Configs
  BY <1>1, <1>2, ConfigType
<1>5. CASE /\ At(r, "repoAdd") /\ Ran(r, FALSE) /\ trial' = trial
           /\ cli' = [cli EXCEPT ![Proc(r)] = HelmAdds(@, req[r].name, Config(r))]
  <2>1. /\ cli' \in [Processes -> [Names -> {None} \cup Configs]]
        /\ \A p \in Processes, m \in Names : cli[p][m] # None => cli'[p][m] # None
    <3>1. cli' = Adds(cli, Proc(r), req[r].name, Config(r))
      BY <1>5 DEF Adds
    <3>2. /\ cli \in [Processes -> [Names -> {None} \cup Configs]] /\ Proc(r) \in Processes
          /\ req[r].name \in Names /\ Config(r) \in Configs
      BY <1>2, <1>4
    <3>3. QED
      BY ONLY <3>1, <3>2, HelmAddsType
  <2>2. QED
    BY <1>1, <1>2, <1>3, <1>5, <2>1, RanKeeps DEF At
<1>6. CASE /\ At(r, "repoTest") /\ Ran(r, FALSE) /\ cli' = cli
           /\ trial' = [trial EXCEPT ![Proc(r)] = HelmAdds(@, req[r].name, Config(r))]
  <2>1. /\ trial' \in [Processes -> [Names -> {None} \cup Configs]]
        /\ \A p \in Processes, m \in Names : trial'[p][m] # None =>
             trial[p][m] # None \/ (p = Proc(r) /\ m = req[r].name)
    <3>1. trial' = Adds(trial, Proc(r), req[r].name, Config(r))
      BY <1>6 DEF Adds
    <3>2. /\ trial \in [Processes -> [Names -> {None} \cup Configs]] /\ Proc(r) \in Processes
          /\ req[r].name \in Names /\ Config(r) \in Configs
      BY <1>2, <1>4
    <3>3. QED
      BY ONLY <3>1, <3>2, HelmAddsType
  <2>2. QED
    BY <1>1, <1>2, <1>3, <1>6, <2>1, RanKeeps DEF At
<1>7. CASE At(r, "cleanUp") /\ Return(r) /\ NoHelm
  BY <1>1, <1>3, <1>7, CleanUpKeeps DEF NoHelm
<1>8. QED
  BY <1>5, <1>6, <1>7 DEF HelmKilled

(***************************************************************************)
(* `helm repo remove': the row it belongs to is about to go.               *)
(***************************************************************************)
LEMMA RepoRemoveKeeps ==
  ASSUME IInv, NEW r \in Requests, RepoRemove(r)
  PROVE  IInv'
<1>1. /\ Working(r) /\ Head(req[r].todo) = "repoRemove" /\ Advance(r)
      /\ store' = store /\ hurt' = hurt /\ faults' = faults /\ trial' = trial
      /\ row' = row /\ owed' = owed /\ raced' = raced /\ heap' = heap
  BY DEF RepoRemove, At, NoFault, NoRows, NoMaps
<1>2. /\ TypeOK /\ ScriptInv(r) /\ req[r].op = "remove" /\ req[r].id \in Rows
      /\ req[r].name \in Names \cup {None} /\ Proc(r) \in Processes
      /\ cli \in [Processes -> [Names -> {None} \cup Configs]]
  BY <1>1, Begins DEF MayCall, TypeOK
<1>3. /\ Others(r) /\ req' \in [Requests -> {None, Answered} \cup Conversations]
      /\ audit \subseteq audit' /\ audit' \subseteq Requests
      /\ Working(r)' /\ req'[r].op = req[r].op /\ req'[r].id = req[r].id
      /\ req'[r].name = req[r].name /\ req'[r].form = req[r].form
      /\ req'[r].creds = req[r].creds
      /\ InScript(req[r].op, req'[r].todo) /\ Head(req'[r].todo) = "delete"
  <2>1. "repoRemove" \notin Final /\ After(req[r].op, "repoRemove") = "delete"
    BY DEF Final, After
  <2>2. QED
    BY <1>1, <1>2, <2>1, Advances
<1>4. Acts(r) /\ SameNames /\ SameMap(r)
  BY <1>1, <1>2, <1>3 DEF Acts, SameNames, SameMap
<1>5. /\ cli' \in [Processes -> [Names -> {None} \cup Configs]]
      /\ \A p \in Processes, n \in Names \ {req[r].name} : cli'[p][n] = cli[p][n]
  BY <1>2 DEF RepoRemove
<1>6. TypeOK'
  BY <1>1, <1>2, <1>3, <1>5 DEF TypeOK
<1>7. \A o \in Requests : ScriptInv(o)'
  <2>1. ScriptInv(r)'
    BY <1>1, <1>2, <1>3 DEF ScriptInv, Named
  <2>2. QED
    BY <1>3, <1>4, <2>1, OtherScripts
<1>8. /\ \A c \in {"create", "update", "status"} : ~At(r, c)'
      /\ ~At(r, "delete") /\ ~At(r, "cleanUp") /\ Removing(r) /\ At(r, "delete")' /\ req'[r] # Answered
  BY <1>1, <1>2, <1>3 DEF At, Removing, Working
<1>9. RowsInv'
  BY <1>1, <1>3, <1>4, <1>8, RowsKept
<1>10. HelmInv'
  <2> SUFFICES ASSUME NEW id \in Rows \ hurt, store = "postgres", row[id] # None,
                      row[id].name \notin Oci \cup hurt, Claimed(id)'
               PROVE  (\E p \in Processes : cli'[p][row[id].name] # None) \/ Removed(id)'
    BY <1>1 DEF HelmInv, Known
  <2>1. \A o \in Requests : At(o, "status")' => At(o, "status") /\ req'[o] = req[o]
    BY <1>3, <1>8 DEF At, Working, Others
  <2>2. \A o \in Requests : At(o, "delete") => At(o, "delete")' /\ req'[o] = req[o]
    BY <1>3, <1>8 DEF At, Working, Others
  <2>3. (\E p \in Processes : cli[p][row[id].name] # None) \/ Removed(id)
    <3>1. Claimed(id)
      BY <1>1, <2>1 DEF Claimed
    <3>2. QED
      BY <3>1 DEF IInv, HelmInv, Known
  <2>4. Removed(id) => Removed(id)'
    BY <2>2 DEF Removed
  <2>5. CASE row[id].name = req[r].name
    <3>1. row[id].name \in Names
      BY <1>2 DEF TypeOK, Repositories
    <3>2. row[req[r].id] # None
      BY <1>8, <2>5, <3>1 DEF IInv, RowsInv, RemoveInv
    <3>3. row[req[r].id].name = req[r].name
      BY <1>1, <1>2, <2>5, <3>1, <3>2 DEF ScriptInv
    <3>4. req[r].id = id
      BY <1>2, <2>5, <3>2, <3>3 DEF IInv, RowsInv, UniqueInv
    <3>5. QED
      BY <1>3, <1>8, <3>4 DEF Removed
  <2>6. CASE row[id].name # req[r].name
    <3>1. row[id].name \in Names
      BY <1>2 DEF TypeOK, Repositories
    <3>2. QED
      BY <1>5, <2>3, <2>4, <2>6, <3>1
  <2>7. QED
    BY <2>5, <2>6
<1>11. PendingInv'
  BY <1>1, <1>4, <1>8, PendingKept
<1>12. TestLeavesNothing'
  BY <1>1, <1>4, <1>8, TestKept
<1>13. AddedRowsAreRecorded'
  BY <1>3, <1>4, <1>8, RecordedKept
<1>14. QED
  BY <1>6, <1>7, <1>9, <1>10, <1>11, <1>12, <1>13 DEF IInv
-----------------------------------------------------------------------------
(***************************************************************************)
(* A repository is added: nobody knows its row yet.                        *)
(***************************************************************************)
LEMMA CreateKeeps ==
  ASSUME IInv, NEW r \in Requests, CreateHelmRepository(r)
  PROVE  IInv'
<1> DEFINE new == [name |-> req[r].name, url |-> req[r].url, creds |-> req[r].creds,
                   status |-> "pending"]
<1>1. /\ Working(r) /\ Head(req[r].todo) = "create" /\ At(r, "create") /\ Advance(r)
      /\ Accepts(req[r].name) /\ row' = [row EXCEPT ![r] = new]
      /\ owed' = [owed EXCEPT ![r] = Content(req[r].creds)] /\ raced' = raced /\ heap' = heap
      /\ store' = store /\ hurt' = hurt /\ faults' = faults /\ trial' = trial /\ cli' = cli
  BY DEF CreateHelmRepository, At, NoFault, NoHelm, NoMaps
<1>2. /\ TypeOK /\ ScriptInv(r) /\ req[r].op = "add" /\ req[r].id = r /\ req[r].name \in Names
      /\ req[r] \in Conversations /\ r \in Rows /\ Content(req[r].creds) \in CredMaps
  BY <1>1, Begins, ContentType DEF MayCall, ScriptInv, Conversations
<1>3. /\ Others(r) /\ req' \in [Requests -> {None, Answered} \cup Conversations]
      /\ audit \subseteq audit' /\ audit' \subseteq Requests
      /\ Working(r)' /\ req'[r].op = "add" /\ req'[r].id = r
      /\ req'[r].name = req[r].name /\ req'[r].creds = req[r].creds /\ Acts(r)
      /\ InScript("add", req'[r].todo) /\ Head(req'[r].todo) = "repoAdd"
  <2>1. "create" \notin Final /\ After(req[r].op, "create") = "repoAdd"
    BY DEF Final, After
  <2>2. QED
    BY <1>1, <1>2, <2>1, Advances DEF Acts
<1>4. /\ row'[r] = new /\ new \in Repositories /\ \A i \in Rows \ {r} : row'[i] = row[i]
      /\ owed'[r] = Content(req[r].creds) /\ \A i \in Rows \ {r} : owed'[i] = owed[i]
  BY <1>1, <1>2 DEF TypeOK, Repositories, Conversations
<1>5. /\ new.name = req[r].name /\ new.status = "pending" /\ new.creds = req[r].creds /\ new # None
  BY <1>4
<1> HIDE DEF new
<1>6. row[r] = None /\ \A o \in Requests \ {r} : Working(o) => req[o].id # r
  BY <1>1 DEF IInv, RowsInv, BirthInv
<1>7. TypeOK'
  BY <1>1, <1>2, <1>3, <1>4 DEF TypeOK
<1>8. \A o \in Requests \ {r} : /\ req'[o] = req[o] /\ (Working(o)' <=> Working(o))
                                /\ (Working(o) => req[o].id \in Rows \ {r})
  BY <1>3, <1>6, WorkingType DEF Others, Working, IInv
<1>9. \A c \in {"create", "update", "status", "delete", "cleanUp"} : ~At(r, c)'
  BY <1>3 DEF At
<1>10. \A c \in {"update", "status", "delete", "cleanUp"} : ~At(r, c)
  BY <1>1 DEF At
<1>11. \A o \in Requests : ScriptInv(o)'
  <2>1. ScriptInv(r)'
    BY <1>2, <1>3, <1>4, <1>5 DEF ScriptInv
  <2>2. ASSUME NEW o \in Requests \ {r} PROVE ScriptInv(o)'
    BY <1>4, <1>8 DEF ScriptInv, IInv
  <2>3. QED
    BY <2>1, <2>2
<1>12. BirthInv'
  <2>1. ASSUME NEW q \in Requests, (req[q] = None \/ At(q, "create"))'
        PROVE  (row[q] = None /\ \A o \in Requests \ {q} : Working(o) => req[o].id # q)'
    <3>1. q # r
      BY <1>3, <1>9, <2>1 DEF Working
    <3>2. row[q] = None /\ \A o \in Requests \ {q} : Working(o) => req[o].id # q
      BY <1>8, <2>1, <3>1 DEF IInv, RowsInv, BirthInv, At
    <3>3. q \in Rows
      BY DEF Rows
    <3>4. QED
      BY <1>3, <1>4, <1>8, <3>1, <3>2, <3>3
  <2>2. ASSUME NEW q \in Requests, (row[q] # None)'
        PROVE  (req[q] = Answered \/ (Working(q) /\ req[q].op = "add"))'
    <3>1. q \in Rows
      BY DEF Rows
    <3>2. QED
      BY <1>3, <1>4, <1>8, <2>2, <3>1 DEF IInv, RowsInv, BirthInv
  <2>3. QED
    BY <2>1, <2>2 DEF BirthInv
<1>13. UniqueInv'
  <2>1. store = "postgres" => \A i \in Rows : row[i] # None => row[i].name # req[r].name
    BY <1>1 DEF Accepts, PgAccepts
  <2>2. QED
    BY <1>1, <1>4, <1>5, <2>1 DEF IInv, RowsInv, UniqueInv
<1>14. RemoveInv'
  <2>1. \A o \in Requests : Removing(o)' => o # r /\ Removing(o) /\ req'[o] = req[o] /\ req[o].id \in Rows \ {r}
    BY <1>3, <1>8 DEF Removing
  <2>2. QED
    BY <1>1, <1>4, <2>1 DEF IInv, RowsInv, RemoveInv
<1>15. UpdateInv'
  <2>1. \A o \in Requests : At(o, "update")' => o # r /\ At(o, "update") /\ req'[o] = req[o] /\ req[o].id \in Rows \ {r}
    BY <1>8, <1>9 DEF At
  <2>2. \A o \in Requests : At(o, "update")' => (UpToDate(o) => UpToDate(o)')
    BY <1>1, <1>4, <2>1 DEF UpToDate, Content
  <2>3. QED
    BY <1>1, <1>4, <2>1, <2>2 DEF IInv, RowsInv, UpdateInv
<1>16. CredentialsKept' /\ MapsInv'
  <2>1. CredentialsKept'
    BY <1>1, <1>4, <1>5 DEF IInv, RowsInv, CredentialsKept, Content
  <2>2. ~Unmerged(r)'
    BY <1>3, <1>9 DEF Unmerged, Working, At
  <2>3. QED
    BY <1>2, <1>3, <1>4, <1>5, <2>1, <2>2, MapsKept
<1>17. HelmInv'
  <2>1. \A o \in Requests : At(o, "status")' => At(o, "status") /\ req'[o] = req[o] /\ req[o].id # r
    BY <1>8, <1>9 DEF At
  <2>2. \A o \in Requests : At(o, "delete") => At(o, "delete")' /\ req'[o] = req[o]
    BY <1>8, <1>10 DEF At
  <2>3. ~Claimed(r)'
    BY <1>4, <1>5, <2>1 DEF Claimed
  <2>4. ASSUME NEW i \in Rows \ {r} PROVE (Claimed(i)' => Claimed(i)) /\ (Removed(i) => Removed(i)')
    BY <1>4, <2>1, <2>2 DEF Claimed, Removed
  <2>5. QED
    BY <1>1, <1>4, <2>3, <2>4 DEF IInv, HelmInv, Known
<1>18. PendingInv'
  <2>1. (\E o \in Requests : Working(o) /\ req[o].id = r /\ req[o].op \in Settling)'
    BY <1>3 DEF Settling
  <2>2. ASSUME NEW i \in (Rows \ hurt) \ {r}, row[i] # None, row[i].status = "pending"
        PROVE  (\E o \in Requests : Working(o) /\ req[o].id = i /\ req[o].op \in Settling)'
    <3>1. PICK o \in Requests : Working(o) /\ req[o].id = i /\ req[o].op \in Settling
      BY <2>2 DEF IInv, PendingInv
    <3>2. QED
      BY <1>2, <1>8, <3>1
  <2>3. QED
    BY <1>1, <1>4, <2>1, <2>2 DEF PendingInv
<1>19. TestLeavesNothing'
  BY <1>1, <1>8, <1>10 DEF IInv, TestLeavesNothing, At, Proc
<1>20. AddedRowsAreRecorded'
  <2>1. Requests \subseteq Rows
    BY DEF Rows
  <2>2. QED
    BY <1>1, <1>3, <1>4, <1>8, <2>1 DEF IInv, AddedRowsAreRecorded, Working
<1>21. QED
  BY <1>7, <1>11, <1>12, <1>13, <1>14, <1>15, <1>16, <1>17, <1>18, <1>19, <1>20 DEF IInv, RowsInv

(***************************************************************************)
(* A name the store refuses, and rows that are gone.                       *)
(***************************************************************************)
LEMMA RefusedKeeps ==
  ASSUME IInv, NEW r \in Requests,
         Refused(r) \/ NotFound(r)
  PROVE  IInv'
<1>1. /\ Working(r) /\ Head(req[r].todo) \in {"create", "creds", "list"} /\ Fail(r)
      /\ store' = store /\ hurt' = hurt /\ faults' = faults /\ NoHelm /\ NoRows
  BY DEF Refused, NotFound, At, NoFault
<1>2. /\ ScriptInv(r) /\ MayCall(req[r].op, Head(req[r].todo))
      /\ hurt \subseteq Rows \cup Names \cup {None} /\ faults \in 0 .. MaxFaults
  BY <1>1, Begins DEF TypeOK
<1>3. row[req[r].id] = None
  <2>1. CASE Refused(r)
    BY <1>1, <1>2, <2>1 DEF Refused, ScriptInv, MayCall, At, IInv, RowsInv, BirthInv
  <2>2. CASE NotFound(r)
    BY <2>2 DEF NotFound, Found
  <2>3. QED
    BY <2>1, <2>2
<1>4. QED
  BY <1>1, <1>2, <1>3, FailKeeps

(***************************************************************************)
(* A write that hits no row.                                               *)
(***************************************************************************)
LEMMA MissedKeeps ==
  ASSUME IInv, NEW r \in Requests, Working(r),
         Head(req[r].todo) \in {"update", "status", "delete"}, ~Found(r), MissesRow(r),
         NoFault, NoHelm, NoRows
  PROVE  IInv'
<1>1. hurt \subseteq Rows \cup Names \cup {None} /\ faults \in 0 .. MaxFaults
  BY DEF IInv, TypeOK
<1>2. /\ Fail(r) \/ Advance(r)
      /\ row[req[r].id] = None /\ store' = store /\ hurt' = hurt /\ faults' = faults
  BY DEF MissesRow, Found, NoFault
<1>3. QED
  BY <1>1, <1>2, FailKeeps

(***************************************************************************)
(* The status, the last call of a method that settles a row.               *)
(***************************************************************************)
LEMMA StatusKeeps ==
  ASSUME IInv, NEW r \in Requests, UpdateHelmRepositoryStatus(r)
  PROVE  IInv'
<1>1. /\ Working(r) /\ Head(req[r].todo) = "status" /\ NoFault /\ NoHelm
      /\ store' = store /\ hurt' = hurt /\ faults' = faults /\ trial' = trial /\ cli' = cli
      /\ owed' = owed /\ raced' = raced /\ heap' = heap
  BY DEF UpdateHelmRepositoryStatus, At, NoFault, NoHelm, NoMaps
<1>2. CASE ~Found(r)
  BY <1>1, <1>2, MissedKeeps DEF UpdateHelmRepositoryStatus, NoRows, NoMaps
<1>3. CASE Found(r)
  <2> DEFINE id  == req[r].id
             new == [row[id] EXCEPT !.status = Settled(r)]
  <2>1. /\ row[id] # None /\ row' = [row EXCEPT ![id].status = Settled(r)] /\ Advance(r)
    BY <1>3 DEF UpdateHelmRepositoryStatus, Found
  <2>2. TypeOK /\ ScriptInv(r) /\ id \in Rows /\ req[r].op \in Settling
    BY <1>1, Begins DEF MayCall
  <2>3. /\ Others(r) /\ req' \in [Requests -> {None, Answered} \cup Conversations]
        /\ audit \subseteq audit' /\ audit' \subseteq Requests
        /\ req'[r] = Answered /\ (store = "memory" /\ req[r].op = "add" => r \in audit')
    BY <1>1, <2>1, <2>2, Advances DEF Final
  <2>4. /\ row' = [row EXCEPT ![id] = new] /\ row[id] \in Repositories
        /\ Settled(r) \in {"ok", "error"} /\ (Settled(r) = "ok" => req[r].ok)
    BY <2>1, <2>2 DEF TypeOK, Settled
  <2>5. /\ new \in Repositories /\ new.name = row[id].name /\ new.creds = row[id].creds
        /\ new.status = Settled(r) /\ new # None
    BY <2>4 DEF Repositories
  <2> HIDE DEF new
  <2>6. row'[id] = new /\ \A i \in Rows \ {id} : row'[i] = row[i]
    BY <2>2, <2>4 DEF TypeOK
  <2>7. Acts(r) /\ SameNames /\ SameMap(r)
    BY <1>1, <2>1, <2>3, <2>5, <2>6 DEF Acts, SameNames, SameMap, Working
  <2>8. TypeOK'
    BY <1>1, <2>2, <2>3, <2>4, <2>5 DEF TypeOK
  <2>9. \A o \in Requests : ScriptInv(o)'
    <3>1. ScriptInv(r)'
      BY <2>3 DEF ScriptInv, Working
    <3>2. QED
      BY <2>3, <2>7, <3>1, OtherScripts
  <2>10. (\A c : ~At(r, c)') /\ ~At(r, "delete") /\ ~At(r, "cleanUp") /\ ~Removing(r)'
    BY <1>1, <2>3 DEF At, Removing, Working
  <2>11. RowsInv'
    <3>1. \A i \in Rows : row'[i] # None => row'[i].creds = row[i].creds
      BY <2>5, <2>6
    <3>2. \A i \in Rows : row[i] # None => row'[i] # None
      BY <2>5, <2>6
    <3>3. QED
      BY <1>1, <2>7, <2>10, <3>1, <3>2, RowsKept
  <2>12. HelmInv'
    <3>1. \A i \in Rows : row'[i] # None /\ row'[i].status = "ok" => Claimed(i)
      BY <1>1, <2>4, <2>5, <2>6 DEF Claimed, At
    <3>2. \A n \in Names : Known(n) => Known(n)'
      BY <1>1 DEF Known
    <3>3. QED
      BY <1>1, <2>7, <2>10, <3>1, <3>2, HelmKept
  <2>13. PendingInv'
    <3>1. row'[id].status # "pending"
      BY <2>4, <2>5, <2>6
    <3>2. \A i \in Rows : row'[i] # None /\ row'[i].status = "pending" =>
            row[i] # None /\ row[i].status = "pending"
      BY <2>6, <3>1
    <3>3. QED
      BY <2>7, <3>1, <3>2, PendingKept
  <2>14. TestLeavesNothing'
    BY <1>1, <2>7, <2>10, TestKept
  <2>15. AddedRowsAreRecorded'
    BY <2>3, <2>7, RecordedKept
  <2>16. QED
    BY <2>8, <2>9, <2>11, <2>12, <2>13, <2>14, <2>15 DEF IInv
<1>4. QED
  BY <1>2, <1>3

(***************************************************************************)
(* The row goes, the last call of a removal.                               *)
(***************************************************************************)
LEMMA DeleteKeeps ==
  ASSUME IInv, NEW r \in Requests, DeleteHelmRepository(r)
  PROVE  IInv'
<1>1. /\ Working(r) /\ Head(req[r].todo) = "delete" /\ NoFault /\ NoHelm /\ At(r, "delete")
      /\ store' = store /\ hurt' = hurt /\ faults' = faults /\ trial' = trial /\ cli' = cli
      /\ owed' = owed /\ raced' = raced /\ heap' = heap
  BY DEF DeleteHelmRepository, At, NoFault, NoHelm, NoMaps
<1>2. CASE ~Found(r)
  BY <1>1, <1>2, MissedKeeps DEF DeleteHelmRepository, NoRows, NoMaps
<1>3. CASE Found(r)
  <2> DEFINE id == req[r].id
  <2>1. row' = [row EXCEPT ![id] = None] /\ Advance(r)
    BY <1>3 DEF DeleteHelmRepository
  <2>2. TypeOK /\ ScriptInv(r) /\ id \in Rows /\ req[r].op = "remove"
    BY <1>1, Begins DEF MayCall
  <2>3. /\ Others(r) /\ req' \in [Requests -> {None, Answered} \cup Conversations]
        /\ audit \subseteq audit' /\ audit' \subseteq Requests /\ req'[r] = Answered
    BY <1>1, <2>1, <2>2, Advances DEF Final
  <2>4. row'[id] = None /\ \A i \in Rows \ {id} : row'[i] = row[i]
    BY <2>1, <2>2 DEF TypeOK
  <2>5. Acts(r) /\ SameNames /\ SameMap(r)
    BY <1>1, <2>3, <2>4 DEF Acts, SameNames, SameMap, Working
  <2>6. TypeOK'
    BY <1>1, <2>1, <2>2, <2>3 DEF TypeOK
  <2>7. \A o \in Requests : ScriptInv(o)'
    <3>1. ScriptInv(r)'
      BY <2>3 DEF ScriptInv, Working
    <3>2. QED
      BY <2>3, <2>5, <3>1, OtherScripts
  <2>8. (\A c : ~At(r, c)') /\ ~At(r, "cleanUp") /\ ~Removing(r)'
    BY <1>1, <2>3 DEF At, Removing, Working
  <2>9. RowsInv'
    <3>1. \A i \in Rows : row'[i] # None => row'[i].creds = row[i].creds
      BY <2>4
    <3>2. \A i \in Rows : row[i] # None /\ row'[i] = None => i = id
      BY <2>4
    <3>3. QED
      BY <1>1, <2>2, <2>3, <2>5, <2>8, <3>1, <3>2, RowsKept
  <2>10. HelmInv'
    <3>1. \A i \in Rows : row'[i] # None /\ row'[i].status = "ok" => Claimed(i)
      BY <2>4 DEF Claimed
    <3>2. \A n \in Names : Known(n) => Known(n)'
      BY <1>1 DEF Known
    <3>3. QED
      BY <1>1, <2>4, <2>5, <2>8, <3>1, <3>2, HelmKept
  <2>11. PendingInv'
    BY <2>2, <2>4, <2>5, PendingKept DEF Settling
  <2>12. TestLeavesNothing'
    BY <1>1, <2>5, <2>8, TestKept
  <2>13. AddedRowsAreRecorded'
    BY <2>2, <2>3, <2>5, RecordedKept
  <2>14. QED
    BY <2>6, <2>7, <2>9, <2>10, <2>11, <2>12, <2>13 DEF IInv
<1>4. QED
  BY <1>2, <1>3

(***************************************************************************)
(* Merged credentials are credentials.                                     *)
(***************************************************************************)
LEMMA MergeType ==
  ASSUME NEW a \in CredMaps, NEW b \in CredMaps
  PROVE  Merge(a, b) \in CredMaps
  BY DEF CredMaps, Merge

(***************************************************************************)
(* An update writes its row: the map it shares with the store, or one of   *)
(* its own, which is up to date unless another update was at it.           *)
(***************************************************************************)
LEMMA UpdateKeeps ==
  ASSUME IInv, NEW r \in Requests, UpdateRow(r)
  PROVE  IInv'
<1>1. /\ Working(r) /\ Head(req[r].todo) = "update" /\ NoFault /\ NoHelm /\ At(r, "update")
      /\ store' = store /\ hurt' = hurt /\ faults' = faults /\ trial' = trial /\ cli' = cli
      /\ raced' = raced /\ heap' = heap
  BY DEF UpdateRow, At, NoFault, NoHelm, NoMaps
<1>2. CASE ~Found(r)
  BY <1>1, <1>2, MissedKeeps DEF UpdateRow, NoRows, NoMaps
<1>3. CASE Found(r)
  <2> DEFINE id  == req[r].id
             new == [row[id] EXCEPT !.url = req[r].url, !.status = "pending", !.creds = req[r].creds]
  <2>1. /\ row[id] # None /\ Advance(r) /\ row' = [row EXCEPT ![id] = new]
        /\ owed' = IF req[r].creds = row[id].creds THEN owed
                   ELSE [owed EXCEPT ![id] = Merge(@, req[r].form)]
    BY <1>3 DEF UpdateRow, Found
  <2>2. /\ TypeOK /\ ScriptInv(r) /\ id \in Rows /\ req[r].op = "update"
        /\ req[r] \in Conversations /\ req[r].form \in CredMaps
    BY <1>1, Begins DEF MayCall
  <2>3. /\ Others(r) /\ req' \in [Requests -> {None, Answered} \cup Conversations]
        /\ audit \subseteq audit' /\ audit' \subseteq Requests
        /\ Working(r)' /\ req'[r].op = "update" /\ req'[r].id = id
        /\ req'[r].name = req[r].name /\ req'[r].form = req[r].form
        /\ req'[r].creds = req[r].creds
        /\ InScript("update", req'[r].todo) /\ Head(req'[r].todo) = "list"
    <3>1. "update" \notin Final /\ After("update", "update") = "list"
      BY DEF Final, After
    <3>2. QED
      BY <1>1, <2>1, <2>2, <3>1, Advances
  <2>4. row[id] \in Repositories /\ req[r].url \in Urls /\ req[r].creds \in Maps
    BY <2>1, <2>2 DEF TypeOK, Conversations
  <2>5. /\ new \in Repositories /\ new.name = row[id].name /\ new.status = "pending"
        /\ new.creds = req[r].creds
    BY <2>4 DEF Repositories
  <2>6. row' = [row EXCEPT ![id] = new]
    BY <2>1
  <2> HIDE DEF new
  <2>7. row'[id] = new /\ new # None /\ \A i \in Rows \ {id} : row'[i] = row[i]
    BY <2>2, <2>5, <2>6 DEF TypeOK
  <2>8. /\ owed' \in [Rows -> CredMaps] /\ \A i \in Rows \ {id} : owed'[i] = owed[i]
        /\ owed'[id] = IF req[r].creds = row[id].creds THEN owed[id] ELSE Merge(owed[id], req[r].form)
    <3>1. Merge(owed[id], req[r].form) \in CredMaps
      BY <2>2, MergeType DEF TypeOK
    <3>2. QED
      BY <2>1, <2>2, <3>1 DEF TypeOK
  <2>9. Acts(r) /\ SameNames
    BY <1>1, <2>1, <2>2, <2>3, <2>5, <2>7 DEF Acts, SameNames
  <2>10. TypeOK'
    BY <1>1, <2>2, <2>3, <2>5, <2>6, <2>8 DEF TypeOK
  <2>11. \A o \in Requests : ScriptInv(o)'
    <3>1. ScriptInv(r)'
      <4>1. /\ req'[r].op # "add" /\ Head(req'[r].todo) \notin Named
            /\ InScript(req'[r].op, req'[r].todo)
        BY <2>3 DEF Named
      <4>2. row'[req'[r].id] # None /\ req'[r].name # None => row'[req'[r].id].name = req'[r].name
        BY <1>1, <2>1, <2>2, <2>3, <2>5, <2>7 DEF ScriptInv
      <4>3. QED
        BY <4>1, <4>2 DEF ScriptInv
    <3>2. QED
      BY <2>3, <2>9, <3>1, OtherScripts
  <2>12. /\ \A c \in {"create", "update", "status"} : ~At(r, c)'
         /\ ~At(r, "delete") /\ ~At(r, "cleanUp") /\ ~Removing(r)' /\ req'[r] # Answered
    BY <1>1, <2>3 DEF At, Removing, Working
  <2>13. RowsInv'
    <3>1. BirthInv' /\ UniqueInv'
      BY <2>9, <2>12, NamesKept
    <3>2. RemoveInv'
      <4>1. \A i \in Rows : row[i] # None => row'[i] # None
        BY <2>7
      <4>2. QED
        BY <2>9, <2>12, <4>1, RemovalsKept
    <3>3. \A o \in Requests : At(o, "update")' => o # r /\ At(o, "update") /\ req'[o] = req[o] /\ req[o].id \in Rows
      BY <2>3, <2>9, <2>12, ActsOn DEF At, Working, Others
    <3>4. UpdateInv'
      <4>1. ASSUME NEW o \in Requests, At(o, "update")', row'[req'[o].id] # None,
                   req'[o].id \notin hurt' \cup raced'
            PROVE  UpToDate(o)'
        <5>1. CASE req[o].id # id
          <6>1. UpToDate(o)
            BY <1>1, <2>7, <3>3, <4>1, <5>1 DEF IInv, RowsInv, UpdateInv
          <6>2. QED
            BY <1>1, <2>7, <3>3, <4>1, <5>1, <6>1 DEF UpToDate, Content
        <5>2. CASE req[o].id = id
          <6>1. req[o].creds = req[r].creds
            BY <1>1, <2>1, <3>3, <4>1, <5>2 DEF IInv, RowsInv, UpdateInv
          <6>2. QED
            BY <2>5, <2>7, <3>3, <4>1, <5>2, <6>1 DEF UpToDate
        <5>3. QED
          BY <5>1, <5>2
      <4>2. ASSUME NEW o \in Requests, NEW p \in Requests, At(o, "update")', At(p, "update")',
                   req'[o].id = req'[p].id, req'[o].creds # req'[p].creds, row'[req'[o].id] # None
            PROVE  req'[o].id \in hurt' \cup raced'
        BY <1>1, <2>1, <2>7, <3>3, <4>2 DEF IInv, RowsInv, UpdateInv
      <4>3. QED
        BY <4>1, <4>2 DEF UpdateInv
    <3>5. CredentialsKept'
      <4>1. id \notin hurt \cup raced => Content(req[r].creds) = owed'[id]
        <5>1. id \notin hurt \cup raced => UpToDate(r) /\ Content(row[id].creds) = owed[id]
          BY <1>1, <2>1, <2>2 DEF IInv, RowsInv, CredentialsKept, UpdateInv
        <5>2. QED
          BY <2>8, <5>1 DEF UpToDate
      <4>2. QED
        BY <1>1, <2>5, <2>7, <2>8, <4>1 DEF IInv, RowsInv, CredentialsKept, Content
    <3>6. MapsInv'
      <4>1. ~Unmerged(r)'
        BY <2>3 DEF Unmerged, Working, At
      <4>2. QED
        BY <2>3, <2>5, <2>7, <2>9, <4>1, MapsKept
    <3>7. QED
      BY <3>1, <3>2, <3>4, <3>5, <3>6 DEF RowsInv
  <2>14. HelmInv'
    <3>1. \A i \in Rows : row'[i] # None /\ row'[i].status = "ok" => Claimed(i)
      BY <2>5, <2>7 DEF Claimed
    <3>2. \A n \in Names : Known(n) => Known(n)'
      BY <1>1 DEF Known
    <3>3. QED
      BY <1>1, <2>9, <2>12, <3>1, <3>2, HelmKept
  <2>15. PendingInv'
    <3>1. \A i \in Rows \ {id} : row'[i] # None /\ row'[i].status = "pending" =>
            row[i] # None /\ row[i].status = "pending"
      BY <2>7
    <3>2. QED
      BY <2>2, <2>3, <2>9, <2>12, <3>1, PendingKept DEF Settling
  <2>16. TestLeavesNothing'
    BY <1>1, <2>9, <2>12, TestKept
  <2>17. AddedRowsAreRecorded'
    BY <2>3, <2>9, <2>12, RecordedKept
  <2>18. QED
    BY <2>10, <2>11, <2>13, <2>14, <2>15, <2>16, <2>17 DEF IInv
<1>4. QED
  BY <1>2, <1>3

(***************************************************************************)
(* A merge writes one map, which no other row has, and no request about    *)
(* another row.                                                            *)
(***************************************************************************)
LEMMA MergeWritesOne ==
  ASSUME IInv, NEW r \in Requests, Working(r), req[r].op = "update",
         Head(req[r].todo) = "creds", row[req[r].id] # None
  PROVE  /\ MapOf(r) \in Rows
         /\ \A i \in Rows : row[i] # None /\ i # req[r].id => row[i].creds # MapOf(r)
         /\ row[req[r].id].creds = MapOf(r) => InPlace(r)
         /\ \A o \in Requests : Working(o) /\ req[o].id # req[r].id => req[o].creds # MapOf(r)
<1>1. /\ req[r].id \in Rows /\ r \in Rows /\ row[req[r].id].creds \in Maps /\ Unmerged(r)
      /\ MapsInv /\ \A o \in Requests : Working(o) => req[o].id \in Rows
  BY Begins, WorkingType DEF IInv, RowsInv, TypeOK, Repositories, Unmerged, At
<1>2. r # None
  BY <1>1
<1>3. CASE InPlace(r)
  <2>1. MapOf(r) = row[req[r].id].creds /\ MapOf(r) # None
    BY <1>3 DEF MapOf, InPlace
  <2>2. QED
    BY <1>1, <1>3, <2>1 DEF MapsInv, Maps
<1>4. CASE ~InPlace(r)
  <2>1. MapOf(r) = r
    BY <1>4 DEF MapOf
  <2>2. QED
    BY <1>1, <1>2, <2>1 DEF MapsInv
<1>5. QED
  BY <1>3, <1>4

(***************************************************************************)
(* The credentials are read; an update merges the client's fields, into    *)
(* the map of the row or into one of its own.                              *)
(***************************************************************************)
LEMMA CredentialsKeeps ==
  ASSUME IInv, NEW r \in Requests, GetHelmRepositoryCredentials(r)
  PROVE  IInv'
<1> DEFINE id     == req[r].id
           merges == req[r].op = "update"
           merged == Merge(Content(row[id].creds), req[r].form)
           got    == IF merges THEN MapOf(r) ELSE row[id].creds
           rec    == [req[r] EXCEPT !.todo = Tail(@), !.creds = got]
<1>1. /\ Working(r) /\ Head(req[r].todo) = "creds" /\ row[id] # None /\ row' = row
      /\ store' = store /\ faults' = faults /\ trial' = trial /\ cli' = cli
      /\ hurt' = IF RemovedTwice(r) THEN hurt \cup {row[id].name} ELSE hurt
      /\ Continue(r, rec)
  BY DEF GetHelmRepositoryCredentials, MergeCredentials, At, Found, NoHelm
<1>2. /\ TypeOK /\ ScriptInv(r) /\ id \in Rows /\ r \in Rows /\ req[r].op \in Ops \ {"add"}
      /\ req[r] \in Conversations /\ req[r].form \in CredMaps /\ InScript(req[r].op, req[r].todo)
  BY <1>1, Begins DEF MayCall
<1>3. row[id] \in Repositories /\ row[id].creds \in Maps /\ row[id].name \in Names
  BY <1>1, <1>2 DEF TypeOK, Repositories
<1>4. merged \in CredMaps /\ got \in Maps /\ MapOf(r) \in Rows
  <2>1. merged \in CredMaps
    BY <1>2, <1>3, ContentType, MergeType
  <2>2. MapOf(r) \in Rows
    BY <1>2, <1>3 DEF MapOf, InPlace, Maps
  <2>3. QED
    BY <1>3, <2>1, <2>2 DEF Maps
<1>5. Tail(req[r].todo) \in Seq(Calls)
  <2>1. req[r].todo \in Seq(Calls) /\ req[r].todo # <<>>
    BY <1>2, Moves
  <2>2. QED
    BY <2>1, HeadTailProperties
<1>6. /\ rec \in Conversations /\ rec.op = req[r].op /\ rec.id = id /\ rec.form = req[r].form
      /\ rec.name = req[r].name /\ rec.creds = got /\ rec.todo = Tail(req[r].todo)
  BY <1>2, <1>4, <1>5 DEF Conversations
<1> HIDE DEF rec
<1>7. /\ Others(r) /\ req' \in [Requests -> {None, Answered} \cup Conversations]
      /\ audit \subseteq audit' /\ audit' \subseteq Requests
      /\ Working(r)' /\ req'[r] = rec /\ InScript(req[r].op, rec.todo)
      /\ Head(rec.todo) = After(req[r].op, "creds")
  <2>1. "creds" \notin Final /\ Head(req[r].todo) \notin Final
    BY <1>1 DEF Final
  <2>2. /\ TypeOK /\ ScriptInv(r) /\ Working(r) /\ rec \in Conversations /\ Continue(r, rec)
        /\ rec.op = req[r].op /\ rec.todo = Tail(req[r].todo)
    BY <1>1, <1>2, <1>6
  <2>3. /\ Others(r) /\ req' \in [Requests -> {None, Answered} \cup Conversations]
        /\ audit \subseteq audit' /\ audit' \subseteq Requests
        /\ Working(r)' /\ req'[r] = rec /\ InScript(rec.op, rec.todo)
        /\ Head(rec.todo) = After(rec.op, Head(req[r].todo))
    BY <2>1, <2>2, Goes
  <2>4. QED
    BY <1>1, <2>2, <2>3
<1>8. /\ req[r].op = "update" => Head(rec.todo) = "update"
      /\ req[r].op # "update" => Head(rec.todo) \in {"list", "index"}
  BY <1>2, <1>7 DEF After, Ops
<1>9. /\ merges => /\ heap' = [heap EXCEPT ![MapOf(r)] = merged]
                   /\ owed' = IF InPlace(r) THEN [owed EXCEPT ![id] = Merge(@, req[r].form)]
                             ELSE owed
                   /\ raced' = IF WorksOnOther(r, MapOf(r)) THEN raced \cup {id} ELSE raced
      /\ ~merges => heap' = heap /\ owed' = owed /\ raced' = raced
  BY DEF GetHelmRepositoryCredentials, MergeCredentials, NoMaps
<1>10. /\ merges => /\ heap'[MapOf(r)] = merged
                    /\ \A h \in Rows \ {MapOf(r)} : heap'[h] = heap[h]
                    /\ \A i \in Rows \ {id} : owed'[i] = owed[i]
                    /\ owed'[id] = IF InPlace(r) THEN Merge(owed[id], req[r].form) ELSE owed[id]
  BY <1>2, <1>4, <1>9 DEF TypeOK
<1>11. merges =>
         /\ \A i \in Rows : row[i] # None /\ i # id => row[i].creds # MapOf(r)
         /\ row[id].creds = MapOf(r) => InPlace(r)
         /\ InPlace(r) => row[id].creds = MapOf(r)
         /\ \A o \in Requests : Working(o) /\ req[o].id # id => req[o].creds # MapOf(r)
  BY <1>1, MergeWritesOne DEF MapOf
<1>12. \A i \in Rows : row[i] # None => row[i].creds \in Maps
  BY <1>2 DEF TypeOK, Repositories
<1>13. /\ hurt \subseteq hurt' /\ hurt' \subseteq Rows \cup Names \cup {None}
       /\ raced \subseteq raced' /\ raced' \subseteq Rows
  BY <1>1, <1>2, <1>3, <1>9 DEF TypeOK
<1>14. Acts(r) /\ SameNames
  BY <1>1, <1>6, <1>7, <1>13 DEF Acts, SameNames
<1>15. TypeOK'
  <2>1. heap' \in [Rows -> CredMaps]
    BY <1>2, <1>4, <1>9 DEF TypeOK
  <2>2. owed' \in [Rows -> CredMaps]
    <3>1. Merge(owed[id], req[r].form) \in CredMaps
      BY <1>2, MergeType DEF TypeOK
    <3>2. QED
      BY <1>2, <1>9, <3>1 DEF TypeOK
  <2>3. QED
    BY <1>1, <1>2, <1>7, <1>13, <2>1, <2>2 DEF TypeOK
<1>16. \A o \in Requests : ScriptInv(o)'
  <2>1. ScriptInv(r)'
    <3>1. /\ req'[r].op # "add" /\ Head(req'[r].todo) \notin Named
          /\ InScript(req'[r].op, req'[r].todo)
      BY <1>2, <1>6, <1>7, <1>8 DEF Named
    <3>2. row'[req'[r].id] # None /\ req'[r].name # None => row'[req'[r].id].name = req'[r].name
      BY <1>1, <1>2, <1>6, <1>7 DEF ScriptInv
    <3>3. QED
      BY <3>1, <3>2 DEF ScriptInv
  <2>2. QED
    BY <1>7, <1>14, <2>1, OtherScripts
<1>17. /\ \A c \in {"create", "status"} : ~At(r, c)'
       /\ ~At(r, "delete") /\ ~At(r, "cleanUp") /\ req'[r] # Answered
       /\ At(r, "update")' => req[r].op = "update"
  BY <1>1, <1>7, <1>8 DEF At, Working
<1>18. RemoveInv'
  <2>1. \A o \in Requests \ {r} : Removing(o)' => Removing(o) /\ req'[o] = req[o] /\ req[o].id \in Rows
    BY <1>14, ActsOn DEF Removing, Working, Acts, Others
  <2>2. Removing(r)' => req'[r].id = id /\ req'[r].name = req[r].name /\ req[r].op = "remove"
    BY <1>6, <1>7 DEF Removing
  <2>3. ASSUME NEW p \in Requests \ {r}, Removing(r)', Removing(p)', req[p].id = id
        PROVE  row[id].name \in hurt'
    <3>1. RemovedTwice(r)
      BY <2>1, <2>2, <2>3 DEF RemovedTwice, Removing
    <3>2. QED
      BY <1>1, <3>1
  <2>4. \A o \in Requests : Working(o) /\ req[o].id = id /\ req[o].name # None => row[id].name = req[o].name
    BY <1>1 DEF IInv, ScriptInv
  <2>5. ASSUME NEW o \in Requests, NEW p \in Requests, Removing(o)', Removing(p)', o # p,
               (req[o].id = req[p].id)'
        PROVE  /\ (row[req[o].id] # None => row[req[o].id].name \in hurt)'
               /\ (req[o].name # None => req[o].name \in hurt)'
    <3>1. CASE o # r /\ p # r
      BY <1>1, <1>13, <2>1, <2>5, <3>1 DEF IInv, RowsInv, RemoveInv
    <3>2. CASE o = r
      BY <1>1, <1>2, <2>1, <2>2, <2>3, <2>4, <2>5, <3>2
    <3>3. CASE p = r
      BY <1>1, <1>2, <2>1, <2>2, <2>3, <2>4, <2>5, <3>3 DEF Removing
    <3>4. QED
      BY <3>1, <3>2, <3>3
  <2>6. ASSUME NEW o \in Requests, Removing(o)', (req[o].name # None)', (req[o].name \notin hurt)'
        PROVE  (row[req[o].id] # None)'
    <3>1. CASE o = r
      BY <1>1, <1>2, <2>2, <2>6, <3>1
    <3>2. CASE o # r
      BY <1>1, <1>13, <2>1, <2>6, <3>2 DEF IInv, RowsInv, RemoveInv
    <3>3. QED
      BY <3>1, <3>2
  <2>7. QED
    BY <2>5, <2>6 DEF RemoveInv
<1>19. UpdateInv'
  <2>1. \A o \in Requests \ {r} : At(o, "update")' =>
          /\ At(o, "update") /\ req'[o] = req[o] /\ req[o].id \in Rows /\ req[o].creds \in Maps
    BY <1>2, <1>14, ActsOn, WorkingType DEF At, Working, Acts, Others
  <2>2. At(r, "update")' => /\ merges /\ req'[r].id = id /\ req'[r].creds = MapOf(r)
                            /\ req'[r].form = req[r].form
    BY <1>6, <1>7, <1>17
  <2>3. ASSUME NEW o \in Requests \ {r}, At(o, "update")', req[o].id = id, merges,
               req[o].creds # MapOf(r)
        PROVE  id \in raced'
    <3>1. WorksOnOther(r, MapOf(r))
      BY <2>1, <2>3 DEF WorksOnOther
    <3>2. QED
      BY <1>9, <2>3, <3>1
  <2>4. ASSUME NEW o \in Requests, At(o, "update")', row'[req'[o].id] # None,
               req'[o].id \notin hurt' \cup raced'
        PROVE  UpToDate(o)'
    <3>1. CASE o = r
      <4>1. CASE InPlace(r)
        BY <1>1, <1>11, <2>2, <2>4, <3>1, <4>1 DEF UpToDate
      <4>2. CASE ~InPlace(r)
        <5>1. Content(row[id].creds)' = Content(row[id].creds)
          BY <1>1, <1>3, <1>10, <1>11, <2>2, <2>4, <3>1, <4>2 DEF Content, Maps
        <5>2. QED
          BY <1>1, <1>4, <1>10, <2>2, <2>4, <3>1, <5>1 DEF UpToDate, Content
      <4>3. QED
        BY <4>1, <4>2
    <3>2. CASE o # r /\ ~(merges /\ req[o].id = id)
      <4>1. UpToDate(o)
        BY <1>1, <1>13, <2>1, <2>4, <3>2 DEF IInv, RowsInv, UpdateInv
      <4>2. heap' = heap \/ (merges /\ req[o].id # id)
        BY <1>9, <3>2
      <4>3. QED
        BY <1>1, <1>10, <1>11, <1>12, <2>1, <2>4, <3>2, <4>1, <4>2 DEF UpToDate, Content, Maps, At
    <3>3. CASE o # r /\ merges /\ req[o].id = id
      <4>1. req[o].creds = MapOf(r)
        BY <1>13, <2>1, <2>3, <2>4, <3>3
      <4>2. row[id].creds = MapOf(r)
        <5>1. InPlace(r)
          BY <1>1, <2>1, <2>4, <3>3, <4>1 DEF MapOf, IInv, RowsInv, MapsInv, Unmerged, At
        <5>2. QED
          BY <1>11, <3>3, <5>1
      <4>3. QED
        BY <1>1, <2>1, <2>4, <3>3, <4>1, <4>2 DEF UpToDate
    <3>4. QED
      BY <3>1, <3>2, <3>3
  <2>5. ASSUME NEW o \in Requests, NEW p \in Requests, At(o, "update")', At(p, "update")',
               req'[o].id = req'[p].id, req'[o].creds # req'[p].creds, row'[req'[o].id] # None
        PROVE  req'[o].id \in hurt' \cup raced'
    <3>1. CASE o # r /\ p # r
      BY <1>1, <1>13, <2>1, <2>5, <3>1 DEF IInv, RowsInv, UpdateInv
    <3>2. CASE o = r
      BY <2>1, <2>2, <2>3, <2>5, <3>2
    <3>3. CASE p = r
      BY <2>1, <2>2, <2>3, <2>5, <3>3
    <3>4. QED
      BY <3>1, <3>2, <3>3
  <2>6. QED
    BY <2>4, <2>5 DEF UpdateInv
<1>20. RowsInv'
  <2>1. BirthInv' /\ UniqueInv'
    BY <1>14, <1>17, NamesKept
  <2>2. CredentialsKept'
    <3>1. ASSUME NEW i \in Rows, row[i] # None, i # id \/ ~merges
          PROVE  Content(row[i].creds)' = Content(row[i].creds) /\ owed'[i] = owed[i]
      BY <1>1, <1>9, <1>10, <1>11, <1>12, <3>1 DEF Content, Maps
    <3>2. ASSUME merges, InPlace(r), NEW i \in Rows, i = id
          PROVE  Content(row[i].creds)' = merged /\ owed'[i] = Merge(owed[i], req[r].form)
      BY <1>1, <1>4, <1>10, <1>11, <3>2 DEF Content
    <3>3. ASSUME merges, ~InPlace(r), NEW i \in Rows, i = id
          PROVE  Content(row[i].creds)' = Content(row[i].creds) /\ owed'[i] = owed[i]
      BY <1>1, <1>3, <1>10, <1>11, <3>3 DEF Content, Maps
    <3>4. \A i \in Rows \ (hurt \cup raced) : row[i] # None => Content(row[i].creds) = owed[i]
      BY DEF IInv, RowsInv, CredentialsKept
    <3>5. \A i \in Rows \ (hurt' \cup raced') : row'[i] # None => Content(row[i].creds)' = owed'[i]
      BY <1>1, <1>2, <1>13, <3>1, <3>2, <3>3, <3>4
    <3>6. QED
      BY <3>5 DEF CredentialsKept
  <2>3. MapsInv'
    <3>1. ~Unmerged(r)'
      BY <1>7, <1>8 DEF Unmerged, Working, At
    <3>2. got = row[id].creds \/ (got = r /\ Unmerged(r))
      BY <1>1 DEF MapOf, Unmerged, At
    <3>3. QED
      BY <1>1, <1>6, <1>7, <1>14, <3>1, <3>2, MapsKept
  <2>4. QED
    BY <1>18, <1>19, <2>1, <2>2, <2>3 DEF RowsInv
<1>21. HelmInv'
  <2>1. \A i \in Rows : row'[i] # None /\ row'[i].status = "ok" => Claimed(i)
    BY <1>1 DEF Claimed
  <2>2. \A n \in Names : Known(n) => Known(n)'
    BY <1>1 DEF Known
  <2>3. QED
    BY <1>1, <1>14, <1>17, <2>1, <2>2, HelmKept
<1>22. PendingInv'
  BY <1>1, <1>14, <1>17, PendingKept
<1>23. TestLeavesNothing'
  BY <1>1, <1>14, <1>17, TestKept
<1>24. AddedRowsAreRecorded'
  BY <1>7, <1>14, <1>17, RecordedKept
<1>25. QED
  BY <1>15, <1>16, <1>20, <1>21, <1>22, <1>23, <1>24 DEF IInv

(***************************************************************************)
(* A restart ends the requests of its process; every row and name counts   *)
(* as touched by the fault.                                                *)
(***************************************************************************)
LEMMA RestartKeeps ==
  ASSUME IInv, NEW p \in Processes, Restart(p)
  PROVE  IInv'
<1>1. /\ hurt' = hurt \cup Rows \cup Names /\ faults < MaxFaults /\ faults' = faults + 1
      /\ store' = store /\ owed' = owed /\ raced' = raced /\ heap' = heap
      /\ req' = [r \in Requests |-> IF Working(r) /\ Proc(r) = p THEN Answered ELSE req[r]]
  BY DEF Restart, Fault
<1>2. TypeOK /\ Requests \subseteq Rows
  BY DEF IInv, Rows
<1>3. \A r \in Requests :
        /\ Working(r)' => Working(r) /\ req'[r] = req[r] /\ req[r].id \in Rows
        /\ ~Working(r)' => req'[r] = Answered \/ req'[r] = req[r]
        /\ req'[r] = None => req[r] = None
        /\ req[r] = Answered => req'[r] = Answered
  BY <1>1, <1>2, WorkingType DEF Working
<1>4. \A i \in Rows : row'[i] = row[i] \/ row'[i] = None
  BY DEF Restart, Empty
<1>5. TypeOK'
  <2>1. row' \in [Rows -> {None} \cup Repositories] /\ audit' \subseteq Requests
    BY <1>2 DEF TypeOK, Restart, Empty
  <2>2. /\ cli' \in [Processes -> [Names -> {None} \cup Configs]]
        /\ trial' \in [Processes -> [Names -> {None} \cup Configs]]
    <3>1. NoEntries \in [Names -> {None} \cup Configs]
      BY DEF NoEntries
    <3>2. CASE NoHelm
      BY <1>2, <3>2 DEF TypeOK, NoHelm
    <3>3. CASE cli' = [cli EXCEPT ![p] = NoEntries] /\ trial' = [trial EXCEPT ![p] = NoEntries]
      BY <1>2, <3>1, <3>3 DEF TypeOK
    <3>4. QED
      BY <3>2, <3>3 DEF Restart
  <2>3. faults' \in 0 .. MaxFaults
    BY <1>1, <1>2 DEF TypeOK
  <2>4. req' \in [Requests -> {None, Answered} \cup Conversations]
    BY <1>1, <1>2 DEF TypeOK
  <2>5. QED
    BY <1>1, <1>2, <2>1, <2>2, <2>3, <2>4 DEF TypeOK
<1>6. \A r \in Requests : ScriptInv(r)'
  BY <1>3, <1>4 DEF IInv, ScriptInv
<1>7. BirthInv'
  <2>1. ASSUME NEW r \in Requests, (req[r] = None \/ At(r, "create"))'
        PROVE  (row[r] = None /\ \A o \in Requests \ {r} : Working(o) => req[o].id # r)'
    <3>1. req[r] = None \/ At(r, "create")
      BY <1>3, <2>1 DEF At
    <3>2. QED
      BY <1>2, <1>3, <1>4, <3>1 DEF IInv, RowsInv, BirthInv
  <2>2. ASSUME NEW r \in Requests, row'[r] # None
        PROVE  (req[r] = Answered \/ (Working(r) /\ req[r].op = "add"))'
    <3>1. req[r] = Answered \/ (Working(r) /\ req[r].op = "add")
      BY <1>2, <1>4, <2>2 DEF IInv, RowsInv, BirthInv
    <3>2. QED
      BY <1>1, <1>3, <3>1 DEF Working
  <2>3. QED
    BY <2>1, <2>2 DEF BirthInv
<1>8. UniqueInv'
  BY <1>1, <1>4 DEF IInv, RowsInv, UniqueInv
<1>9. RemoveInv'
  <2>1. \A o \in Requests : Removing(o)' => req'[o].id \in Rows /\ req'[o].name \in Names \cup {None}
    BY <1>2, <1>3, WorkingType DEF Removing
  <2>2. \A i \in Rows : row'[i] # None => row'[i].name \in hurt'
    BY <1>1, <1>5 DEF TypeOK, Repositories
  <2>3. QED
    BY <1>1, <2>1, <2>2 DEF RemoveInv
<1>10. UpdateInv'
  BY <1>1, <1>3 DEF UpdateInv, At
<1>11. MapsInv'
  <2>1. \A r \in Requests : Unmerged(r)' => Unmerged(r)
    BY <1>3 DEF Unmerged, At
  <2>2. QED
    BY <1>3, <1>4, <2>1 DEF IInv, RowsInv, MapsInv
<1>12. CredentialsKept' /\ HelmInv' /\ PendingInv' /\ TestLeavesNothing' /\ AddedRowsAreRecorded'
  BY <1>1, <1>2 DEF CredentialsKept, HelmInv, PendingInv, TestLeavesNothing, AddedRowsAreRecorded
<1>13. QED
  BY <1>5, <1>6, <1>7, <1>8, <1>9, <1>10, <1>11, <1>12 DEF IInv, RowsInv
-----------------------------------------------------------------------------
(***************************************************************************)
(* Nothing yet, or one repository that has settled.                        *)
(***************************************************************************)
LEMMA InitInv ==
  ASSUME Init
  PROVE  IInv
<1>1. /\ Old \in Rows /\ Requests \subseteq Rows /\ Old \notin Requests /\ NoCreds \in CredMaps
      /\ OldForm.url \in Urls /\ OldForm.creds \in CredMaps
      /\ OldForm = [url |-> OldForm.url, creds |-> OldForm.creds]
  BY DEF Rows, NoCreds, CredMaps, Configs
<1>2. /\ store \in {"memory", "postgres", "bare"} /\ \A r \in Requests : req[r] = None /\ ~Working(r)
      /\ req = [r \in Requests |-> None] /\ trial = [p \in Processes |-> NoEntries]
      /\ audit = {} /\ hurt = {} /\ raced = {} /\ faults = 0
  BY DEF Init, Working
<1>3. trial \in [Processes -> [Names -> {None} \cup Configs]] /\ TestLeavesNothing
  BY <1>2 DEF NoEntries, TestLeavesNothing
<1>4. \A r \in Requests : ScriptInv(r)
  BY <1>2 DEF ScriptInv
<1>5. RemoveInv /\ UpdateInv
  BY <1>2 DEF RemoveInv, UpdateInv, Removing, At
<1>6. CASE /\ row = Empty /\ cli = [p \in Processes |-> NoEntries]
           /\ heap = [i \in Rows |-> NoCreds] /\ owed = heap
  <2>1. TypeOK
    BY <1>1, <1>2, <1>3, <1>6 DEF TypeOK, Empty, NoEntries
  <2>2. \A i \in Rows : row[i] = None
    BY <1>6 DEF Empty
  <2>3. RowsInv
    BY <1>1, <1>2, <1>5, <2>2 DEF RowsInv, BirthInv, UniqueInv, MapsInv, CredentialsKept, At
  <2>4. HelmInv /\ PendingInv /\ AddedRowsAreRecorded
    BY <1>1, <2>2 DEF HelmInv, PendingInv, AddedRowsAreRecorded
  <2>5. QED
    BY <1>3, <1>4, <2>1, <2>3, <2>4 DEF IInv
<1>7. ASSUME NEW n \in Names, NEW p \in Serving, NEW m \in {None, Old},
             row = [Empty EXCEPT ![Old] = [name |-> n, url |-> OldForm.url, creds |-> m,
                                           status |-> "ok"]],
             heap = [i \in Rows |-> IF i = m THEN OldForm.creds ELSE NoCreds], owed = heap,
             cli = [q \in Processes |->
                      IF q = p /\ n \notin Oci
                      THEN [NoEntries EXCEPT ![n] = [url |-> OldForm.url, creds |-> heap[Old]]]
                      ELSE NoEntries]
      PROVE  IInv
  <2>1. /\ row[Old] = [name |-> n, url |-> OldForm.url, creds |-> m, status |-> "ok"]
        /\ \A i \in Rows \ {Old} : row[i] = None
    BY <1>1, <1>7 DEF Empty
  <2>2. /\ row[Old].name = n /\ row[Old].status = "ok" /\ row[Old].creds = m
        /\ row[Old] \in Repositories
    BY <1>1, <2>1 DEF Repositories, Maps
  <2>3. row \in [Rows -> {None} \cup Repositories]
    BY <1>1, <1>7, <2>1, <2>2 DEF Empty
  <2>4. heap \in [Rows -> CredMaps] /\ heap[Old] \in CredMaps
    BY <1>1, <1>7
  <2>5. [url |-> OldForm.url, creds |-> heap[Old]] \in Configs
    BY <1>1, <2>4 DEF Configs
  <2>6. cli \in [Processes -> [Names -> {None} \cup Configs]]
    BY <1>7, <2>5 DEF NoEntries
  <2>7. TypeOK
    BY <1>2, <1>3, <1>7, <2>3, <2>4, <2>6 DEF TypeOK
  <2>8. RowsInv
    <3>1. BirthInv /\ UniqueInv
      BY <1>1, <1>2, <2>1 DEF BirthInv, UniqueInv, At
    <3>2. MapsInv
      BY <1>1, <1>2, <2>1, <2>2 DEF MapsInv, Unmerged
    <3>3. CredentialsKept
      BY <1>1, <1>7, <2>1, <2>2 DEF CredentialsKept, Content
    <3>4. QED
      BY <1>5, <3>1, <3>2, <3>3 DEF RowsInv
  <2>9. HelmInv
    <3>1. p \in Processes
      BY DEF Serving, TheProcess
    <3>2. n \notin Oci => cli[p][n] # None
      <4>1. n \notin Oci => cli[p][n] = [url |-> OldForm.url, creds |-> heap[Old]]
        BY <1>7, <3>1 DEF NoEntries
      <4>2. QED
        BY <2>5, <4>1
    <3>3. n \notin Oci => Known(n)
      BY <3>1, <3>2 DEF Known
    <3>4. QED
      BY <2>1, <2>2, <3>3 DEF HelmInv
  <2>10. PendingInv /\ AddedRowsAreRecorded
    BY <1>1, <2>1, <2>2 DEF PendingInv, AddedRowsAreRecorded
  <2>11. QED
    BY <1>3, <1>4, <2>7, <2>8, <2>9, <2>10 DEF IInv
<1>8. QED
  BY <1>6, <1>7 DEF Init

(***************************************************************************)
(* Every step keeps the invariant.                                         *)
(***************************************************************************)
LEMMA StepInv ==
  ASSUME IInv, [Next]_vars
  PROVE  IInv'
<1>1. ASSUME NEW r \in Requests, Handle(r) PROVE IInv'
  BY <1>1, HandleKeeps
<1>2. ASSUME NEW r \in Requests, Call(r) PROVE IInv'
  BY <1>2, CreateKeeps, RefusedKeeps, CredentialsKeeps, ListKeeps, UpdateKeeps, StatusKeeps,
     DeleteKeeps DEF Call
<1>3. ASSUME NEW r \in Requests, Helm(r) PROVE IInv'
  BY <1>3, HelmRunKeeps, RepoRemoveKeeps, RepoTestKeeps, CleanUpEnds, IndexKeeps DEF Helm
<1>4. ASSUME NEW r \in Requests, StatementFails(r) \/ HelmKilled(r) PROVE IInv'
  BY <1>4, StatementFailsKeeps, HelmKilledKeeps
<1>5. ASSUME NEW p \in Processes, Restart(p) PROVE IInv'
  BY <1>5, RestartKeeps
<1>6. CASE UNCHANGED vars
  BY <1>6 DEF vars, IInv, RowsInv, TypeOK, ScriptInv, BirthInv, UniqueInv, RemoveInv, UpdateInv,
     CredentialsKept, HelmInv, PendingInv, TestLeavesNothing, AddedRowsAreRecorded, Working, At,
     Removing, Removed, Claimed, MapsInv, Unmerged, UpToDate, Content, Known, Proc
<1>7. QED
  BY <1>1, <1>2, <1>3, <1>4, <1>5, <1>6 DEF Next

(***************************************************************************)
(* The inductive invariant holds in every state.                           *)
(***************************************************************************)
THEOREM Invariance == Spec => []IInv
BY InitInv, StepInv, PTL DEF Spec

(***************************************************************************)
(* The state has its type.                                                 *)
(***************************************************************************)
THEOREM TypeCorrect == Spec => []TypeOK
<1>1. IInv => TypeOK
  BY DEF IInv
<1>2. QED
  BY <1>1, Invariance, PTL

(***************************************************************************)
(* A repository is left "pending" by a fault only: someone is always still *)
(* to write its status (AddHelmRepository, UpdateHelmRepository).          *)
(***************************************************************************)
THEOREM PendingExplained == Spec => []PendingIsExplained
<1>1. ASSUME IInv, NEW id \in Rows \ hurt, row[id] # None, row[id].status = "pending"
      PROVE  \E r \in Requests : /\ Working(r) /\ req[r].id = id
                                 /\ \E i \in 1 .. Len(req[r].todo) : req[r].todo[i] = "status"
  <2>1. PICK r \in Requests : Working(r) /\ req[r].id = id /\ req[r].op \in Settling
    BY <1>1 DEF IInv, PendingInv
  <2>2. HasStatus(req[r].todo)
    BY <1>1, <2>1, Begins, Moves
  <2>3. QED
    BY <2>1, <2>2 DEF HasStatus
<1>2. IInv => PendingIsExplained
  BY <1>1 DEF PendingIsExplained
<1>3. QED
  BY <1>2, Invariance, PTL

(***************************************************************************)
(* On Postgres the helm CLI of some process knows what is shown as "ok",   *)
(* until a removal takes it (RemoveHelmRepository, UNIQUE(org_id, name) of *)
(* init.sql).                                                              *)
(***************************************************************************)
THEOREM HelmKnowsOkRows == Spec => []OkRowsAreInHelm
<1>1. IInv => OkRowsAreInHelm
  BY DEF IInv, HelmInv, OkRowsAreInHelm, Claimed, Removed, Known
<1>2. QED
  BY <1>1, Invariance, PTL

(***************************************************************************)
(* Acknowledged credentials stay unless updates of separate maps overlap   *)
(* (UpdateHelmRepository of the service and of both stores).               *)
(***************************************************************************)
THEOREM CredentialsAreKept == Spec => []CredentialsKept
<1>1. IInv => CredentialsKept
  BY DEF IInv, RowsInv
<1>2. QED
  BY <1>1, Invariance, PTL

(***************************************************************************)
(* A connection test that was answered left no entry in helm's file        *)
(* (RepoTest of the helm service).                                         *)
(***************************************************************************)
THEOREM TestsLeaveNothing == Spec => []TestLeavesNothing
<1>1. IInv => TestLeavesNothing
  BY DEF IInv
<1>2. QED
  BY <1>1, Invariance, PTL

(***************************************************************************)
(* In the memory store an added repository has its event in the audit log  *)
(* (AddHelmRepository, logAudit).                                          *)
(***************************************************************************)
THEOREM AddsAreRecorded == Spec => []AddedRowsAreRecorded
<1>1. IInv => AddedRowsAreRecorded
  BY DEF IInv
<1>2. QED
  BY <1>1, Invariance, PTL

(***************************************************************************)
(* A row appears only when the request it is named after creates it: a     *)
(* late status or update never brings a removed repository back            *)
(* (UpdateHelmRepository, UpdateHelmRepositoryStatus of both stores).      *)
(***************************************************************************)
THEOREM RowsFromAdds == Spec => RowsComeFromAdds
<1> DEFINE NewRows == \A id \in Rows : row[id] = None /\ row'[id] # None => At(id, "create")
<1>1. ASSUME IInv, NEW r \in Requests, Call(r) PROVE NewRows
  <2>1. TypeOK /\ \A q \in Requests : At(q, "create") => ScriptInv(q)
    BY <1>1 DEF IInv
  <2>2. CASE CreateHelmRepository(r)
    <3>1. At(r, "create") /\ \A i \in Rows \ {r} : row'[i] = row[i]
      BY <2>1, <2>2 DEF CreateHelmRepository, TypeOK
    <3>2. QED
      BY <3>1
  <2>3. CASE Refused(r) \/ NotFound(r) \/ ListHelmRepositories(r)
    BY <2>3 DEF Refused, NotFound, ListHelmRepositories, NoRows
  <2>4. CASE \/ GetHelmRepositoryCredentials(r) \/ UpdateRow(r)
             \/ UpdateHelmRepositoryStatus(r) \/ DeleteHelmRepository(r)
    BY <2>1, <2>4 DEF TypeOK, GetHelmRepositoryCredentials, UpdateRow,
       UpdateHelmRepositoryStatus, DeleteHelmRepository, Found
  <2>5. QED
    BY <1>1, <2>2, <2>3, <2>4 DEF Call
<1>2. ASSUME NEW r \in Requests, Handle(r) \/ Helm(r) \/ StatementFails(r) \/ HelmKilled(r)
      PROVE  NewRows
  <2>1. row' = row
    BY <1>2 DEF Handle, Helm, StatementFails, HelmKilled, NoRows, addHelmRepositoryHandler,
       updateHelmRepositoryHandler, deleteHelmRepositoryHandler, refreshHelmRepositoryHandler,
       testHelmRepositoryHandler, listChartsHandler, OnRow, Start, RepoAdd, RepoUpdate,
       RepoRemove, RepoTest, CleanUp, FetchIndex
  <2>2. QED
    BY <2>1
<1>3. ASSUME NEW p \in Processes, Restart(p) PROVE NewRows
  BY <1>3 DEF Restart, Empty
<1>4. IInv /\ [Next]_vars => [NewRows]_vars
  BY <1>1, <1>2, <1>3 DEF Next
<1> HIDE DEF NewRows
<1>5. QED
  BY <1>4, Invariance, PTL DEF Spec, RowsComeFromAdds, NewRows
=============================================================================
