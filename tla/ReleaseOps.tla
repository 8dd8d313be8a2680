----------------------------- MODULE ReleaseOps -----------------------------
(***************************************************************************)
(* Operations on one release of one cluster: each request looks the        *)
(* cluster's kubeconfig up, writes it to a temporary file, runs helm under *)
(* the request's context and, after a change, writes an audit event.  helm *)
(* and the release's state in the cluster are external.                    *)
(***************************************************************************)
EXTENDS Naturals, Sequences

CONSTANTS Requests, MaxCrashes

ASSUME CrashesAssumption == MaxCrashes \in Nat

VARIABLES store,        \* the repository main.go chose
          registered,   \* the cluster has a row with a kubeconfig
          release,      \* "absent", "present", or "pending" while helm changes it
          req,          \* per request: the operation and the calls to come
          ended,        \* requests whose context is done
          file,         \* requests whose temporary kubeconfig is on disk
          child,        \* per request: its helm process
          applied, audit, told,    \* as in AuditedChange
          crashes

served == <<store, registered, req, ended, crashes>>
vars == <<served, release, file, child, applied, audit, told>>
-----------------------------------------------------------------------------
(* The service methods, as the calls they make; a script with a longer     *)
(* name is a variant with a bug.                                           *)
UpgradeReleaseAuditFirst == <<"kubeconfig", "audit", "helm">>
UpgradeReleaseUnaudited  == <<"kubeconfig", "helm">>
UpgradeRelease     == <<"kubeconfig", "helm", "audit">>
RollbackRelease    == <<"kubeconfig", "helm", "audit">>
InstallRelease     == <<"kubeconfig", "helm", "audit">>
UninstallRelease   == <<"kubeconfig", "helm", "audit">>
GetReleaseValues   == <<"kubeconfig", "helm">>
DryRun             == <<"kubeconfig", "helm">>
TestRelease        == <<"kubeconfig", "helm">>
GetManifest        == <<"kubeconfig", "helm">>
Diff               == GetManifest \o GetManifest
ListReleaseHistory == <<"kubeconfig", "helm">>

Changes == {"upgrade", "rollback", "install", "uninstall"}
Stored  == {"history", "manifest", "diff"}     \* these read the store without a kubeconfig
Notices == {"dryRun", "test"}                  \* without a live id these answer a notice

(* The helm commands: the status in which helm refuses the command and, of *)
(* those that change the release, what a completed and a failed run leave  *)
(* (upgrade is --atomic).                                                  *)
Upgrade   == [refused |-> "pending", done |-> "present", failed |-> {"present", "absent"}]
Install   == [refused |-> "pending", done |-> "present", failed |-> {"present"}]
Rollback  == [refused |-> "absent",  done |-> "present", failed |-> {"present"}]
Uninstall == [refused |-> "absent",  done |-> "absent",  failed |-> {"present"}]

HelmHistory     == [refused |-> "absent"]
HelmGetManifest == [refused |-> "absent"]
HelmGetValues   == [refused |-> "absent"]
HelmTest        == [refused |-> "absent"]
HelmDryRun      == [refused |-> "pending"]

Command == [upgrade |-> Upgrade, install |-> Install, rollback |-> Rollback,
            uninstall |-> Uninstall, history |-> HelmHistory, manifest |-> HelmGetManifest,
            diff |-> HelmGetManifest, values |-> HelmGetValues, test |-> HelmTest,
            dryRun |-> HelmDryRun]
-----------------------------------------------------------------------------
Started(r)  == req[r].todo # <<>> /\ told[r] = "nothing"
At(r, call) == Started(r) /\ Head(req[r].todo) = call

Tell(r, a)  == /\ told' = [told EXCEPT ![r] = a]
               /\ req' = [req EXCEPT ![r] = [op |-> "answered", todo |-> <<>>]]
SuccessByName(r) == req[r].op
Success(r)  == IF req[r].op \in Changes THEN "ok" ELSE "shown"
Advance(r)  == IF Len(req[r].todo) = 1 THEN Tell(r, Success(r))
               ELSE req' = [req EXCEPT ![r].todo = Tail(@)] /\ UNCHANGED told

Handle(r, op, script) ==
  /\ req[r].op = "none"
  /\ req' = [req EXCEPT ![r] = [op |-> op, todo |-> script]]
  /\ UNCHANGED <<store, registered, ended, crashes, release, file, child, applied,
                 audit, told>>

upgradeHandler(r)            == Handle(r, "upgrade", UpgradeRelease)
rollbackHandler(r)           == Handle(r, "rollback", RollbackRelease)
installReleaseHandler(r)     == Handle(r, "install", InstallRelease)
uninstallReleaseHandler(r)   == Handle(r, "uninstall", UninstallRelease)
releaseValuesHandler(r)      == Handle(r, "values", GetReleaseValues)
dryRunHandler(r)             == Handle(r, "dryRun", DryRun)
releaseTestHandler(r)        == Handle(r, "test", TestRelease)
releaseManifestHandler(r)    == Handle(r, "manifest", GetManifest)
releaseDiffHandler(r)        == Handle(r, "diff", Diff)
listReleaseHistoryHandler(r) == Handle(r, "history", ListReleaseHistory)

NoProcess == UNCHANGED <<release, file, child, applied>>
NoService == UNCHANGED <<store, registered, ended, crashes, audit>>

(* The id has not the form cluster/namespace/name, or there is no helm.    *)
NotLive(r) ==
  /\ At(r, "kubeconfig")
  /\ \/ req[r].op \in Notices \cup Stored /\ Tell(r, "shown")
     \/ req[r].op \notin Notices /\ Tell(r, "failed")
  /\ NoProcess /\ NoService

(* Any error reads as "no kubeconfig".                                     *)
GetClusterKubeconfig(r) ==
  /\ At(r, "kubeconfig")
  /\ \/ registered /\ Advance(r)
     \/ /\ ~registered \/ store = "postgres"
        /\ Tell(r, "failed") \/ (req[r].op \in Stored /\ Tell(r, "shown"))
  /\ NoProcess /\ NoService
-----------------------------------------------------------------------------
(* Running helm.  An error ends the request, except that a history that    *)
(* failed is read from the store.                                          *)
GiveUp(r) == Tell(r, "failed") \/ (req[r].op = "history" /\ Tell(r, "shown"))

(* os.Remove, deferred as soon as the file exists: it runs on every way    *)
(* out of withKubeconfig, but not when the process dies.                   *)
removeAfterSuccess(r) == file' = IF child[r] = "done" THEN file \ {r} ELSE file
removeKubeconfig(r)   == file' = file \ {r}

NoChange == UNCHANGED <<release, applied>>

CreateTemp(r) ==
  /\ At(r, "helm") /\ child[r] = "none" /\ r \notin file
  /\ \/ file' = file \cup {r} /\ UNCHANGED <<req, told>>
     \/ GiveUp(r) /\ UNCHANGED file
  /\ UNCHANGED child /\ NoChange /\ NoService

(* The kubeconfig cannot be written, or helm cannot be started any more.   *)
NotRun(r) ==
  /\ At(r, "helm") /\ child[r] = "none" /\ r \in file
  /\ GiveUp(r) /\ removeKubeconfig(r)
  /\ UNCHANGED child /\ NoChange /\ NoService

StartHelm(r) ==
  /\ At(r, "helm") /\ child[r] = "none" /\ r \in file /\ r \notin ended
  /\ child' = [child EXCEPT ![r] = "starting"]
  /\ UNCHANGED <<req, told, file>> /\ NoChange /\ NoService

(* helm takes the release for a change, or has read it, or gives up.       *)
HelmBegins(r) ==
  /\ child[r] = "starting"
  /\ \/ /\ release # Command[req[r].op].refused
        /\ IF req[r].op \in Changes
           THEN child' = [child EXCEPT ![r] = "changing"] /\ release' = "pending"
           ELSE child' = [child EXCEPT ![r] = "done"] /\ UNCHANGED release
     \/ child' = [child EXCEPT ![r] = "failed"] /\ UNCHANGED release
  /\ UNCHANGED <<served, file, applied, audit, told>>

HelmEnds(r) ==
  /\ child[r] = "changing"
  /\ \/ /\ release' = Command[req[r].op].done
        /\ child' = [child EXCEPT ![r] = "done"] /\ applied' = applied \cup {r}
     \/ /\ release' \in Command[req[r].op].failed
        /\ child' = [child EXCEPT ![r] = "failed"] /\ UNCHANGED applied
  /\ UNCHANGED <<served, file, audit, told>>

Running(r) == child[r] \in {"starting", "changing"}

(* exec.CommandContext: SIGKILL when the context is done.                  *)
Kill(r) ==
  /\ r \in ended /\ Running(r)
  /\ child' = [child EXCEPT ![r] = "killed"]
  /\ UNCHANGED <<served, release, file, applied, audit, told>>

(* helm has ended and is waited for.  A run that succeeded while the       *)
(* context ended is an error too.                                          *)
Finished(r) ==
  /\ At(r, "helm")
  /\ \/ child[r] = "done" /\ Advance(r)
     \/ (child[r] # "done" \/ r \in ended) /\ GiveUp(r)
  /\ removeKubeconfig(r) /\ child' = [child EXCEPT ![r] = "none"]
  /\ NoChange /\ NoService

Wait(r) == child[r] \in {"done", "failed", "killed"} /\ Finished(r)

logAuditStrictly(r) ==
  /\ At(r, "audit")
  /\ IF store = "memory" THEN audit' = audit \cup {r} /\ Advance(r)
                         ELSE UNCHANGED audit /\ Tell(r, "failed")
  /\ UNCHANGED <<store, registered, ended, crashes>> /\ NoProcess

(* The event's error is dropped.  Postgres refuses every event: source_ip  *)
(* is an INET and nobody sets it.                                          *)
logAudit(r) ==
  /\ At(r, "audit")
  /\ audit' = IF store = "memory" THEN audit \cup {r} ELSE audit
  /\ Advance(r)
  /\ UNCHANGED <<store, registered, ended, crashes>> /\ NoProcess
-----------------------------------------------------------------------------
DeadlineNever(r) == FALSE /\ UNCHANGED vars

(* The request's context: 8 s, or the client goes away.                    *)
Deadline(r) ==
  /\ Started(r) /\ r \notin ended
  /\ ended' = ended \cup {r}
  /\ UNCHANGED <<store, registered, req, crashes, release, file, child, applied,
                 audit, told>>

DeleteCluster ==
  /\ registered /\ registered' = FALSE
  /\ UNCHANGED <<store, req, ended, crashes, release, file, child, applied,
                 audit, told>>

(* The container stops, and its helm processes with it.  What was on disk  *)
(* is still there when the same container starts again, and gone with a    *)
(* new one.                                                                *)
Crash ==
  /\ crashes < MaxCrashes /\ crashes' = crashes + 1
  /\ told' = [r \in Requests |-> IF Started(r) THEN "lost" ELSE told[r]]
  /\ req' = [r \in Requests |-> IF Started(r) THEN [op |-> "answered", todo |-> <<>>]
                                ELSE req[r]]
  /\ file' \in {file, {}} /\ child' = [r \in Requests |-> "none"]
  /\ IF store = "memory" THEN audit' = {} /\ registered' = FALSE
                         ELSE UNCHANGED <<audit, registered>>
  /\ UNCHANGED <<store, ended, release, applied>>
-----------------------------------------------------------------------------
Init ==
  /\ store \in {"memory", "postgres"} /\ registered = TRUE
  /\ release \in {"absent", "present"}
  /\ req = [r \in Requests |-> [op |-> "none", todo |-> <<>>]]
  /\ ended = {} /\ file = {} /\ child = [r \in Requests |-> "none"]
  /\ applied = {} /\ audit = {} /\ crashes = 0
  /\ told = [r \in Requests |-> "nothing"]

Receive(r) ==
  \/ upgradeHandler(r) \/ rollbackHandler(r) \/ installReleaseHandler(r)
  \/ uninstallReleaseHandler(r) \/ releaseValuesHandler(r) \/ dryRunHandler(r)
  \/ releaseTestHandler(r) \/ releaseManifestHandler(r) \/ releaseDiffHandler(r)
  \/ listReleaseHistoryHandler(r)

withKubeconfig(r) == CreateTemp(r) \/ NotRun(r) \/ StartHelm(r) \/ Wait(r)

Serve(r) == \/ NotLive(r) \/ GetClusterKubeconfig(r) \/ withKubeconfig(r)
            \/ logAudit(r)

Next == \/ \E r \in Requests : \/ Receive(r) \/ Serve(r) \/ Deadline(r) \/ Kill(r)
                               \/ HelmBegins(r) \/ HelmEnds(r)
        \/ DeleteCluster
        \/ Crash

(* Goroutines run, contexts end and SIGKILL works; helm may hang for ever. *)
Fairness == \A r \in Requests : WF_vars(Serve(r) \/ Deadline(r) \/ Kill(r))

Spec == Init /\ [][Next]_vars /\ Fairness
-----------------------------------------------------------------------------
(* The type of the state.                                                  *)
TypeOK ==
  /\ store \in {"memory", "postgres"} /\ registered \in BOOLEAN
  /\ release \in {"absent", "present", "pending"}
  /\ ended \subseteq Requests /\ file \subseteq Requests
  /\ child \in [Requests -> {"none", "starting", "changing", "done", "failed", "killed"}]
  /\ crashes \in 0 .. MaxCrashes
  /\ applied \subseteq Requests /\ audit \subseteq Requests
  /\ told \in [Requests -> {"nothing", "ok", "shown", "failed", "lost"}]

(* The credentials of a cluster are on disk as long as a helm process may  *)
(* read them and no longer than the helm call of a request: they are gone  *)
(* before its audit event, its second call or its answer, whatever failed  *)
(* on the way.  Only a process that died leaves them (withKubeconfig).     *)
KubeconfigLivesWithHelm ==
  \A r \in Requests : /\ child[r] # "none" => r \in file
                      /\ r \in file => At(r, "helm") \/ told[r] = "lost"

(* In the memory store every change that a client was told of is in the    *)
(* audit log, also if its context ended between helm and the log, unless   *)
(* the process died (UpgradeRelease and the other methods, logAudit).      *)
ToldChangesAreRecorded ==
  store = "memory" /\ crashes = 0 => \A r \in Requests : told[r] = "ok" => r \in audit

(* A change that was applied and is not recorded as a success is one whose *)
(* context ended, or that a crash interrupted, or is still on its way.     *)
SuccessIsReported ==
  \A r \in applied : told[r] = "failed" => r \in ended

Abstract == INSTANCE AuditedChange

(* The operations implement AuditedChange.                                 *)
ImplementsAuditedChange == Abstract!Spec

(* Every request is answered although helm may hang: the context ends and  *)
(* helm is killed (exec.CommandContext, chi's Timeout).                    *)
EveryOperationAnswered ==
  \A r \in Requests : req[r].op # "none" ~> told[r] # "nothing"
=============================================================================
