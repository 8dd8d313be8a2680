-------------------------- MODULE ReleaseOpsProofs --------------------------
(***************************************************************************)
(* The release operations for any number of requests and crashes: the      *)
(* invariants of ReleaseOps, and that it implements AuditedChange.         *)
(***************************************************************************)
EXTENDS ReleaseOps, SequenceTheorems, TLAPS

USE CrashesAssumption

Reads == {"values", "dryRun", "test", "manifest", "diff", "history"}

ChangeScripts == {<<"kubeconfig", "helm", "audit">>, <<"helm", "audit">>, <<"audit">>}
ReadScripts   == {<<"kubeconfig", "helm", "kubeconfig", "helm">>,
                  <<"helm", "kubeconfig", "helm">>, <<"kubeconfig", "helm">>, <<"helm">>}

(* Where a request is: before it came, in its script, or answered.         *)
ScriptInv(r) ==
  /\ told[r] \in {"nothing", "ok", "shown", "failed", "lost"}
  /\ req[r] \in [op   : {"none", "answered"} \cup Changes \cup Reads,
                 todo : {<<>>} \cup ChangeScripts \cup ReadScripts]
  /\ req[r].op \in {"none", "answered"} => req[r].todo = <<>>
  /\ req[r].op \in Changes => req[r].todo \in ChangeScripts
  /\ req[r].op \in Reads => req[r].todo \in ReadScripts
  /\ told[r] = "nothing" <=> req[r].op # "answered"

(* A helm process belongs to the request that waits for it, and so does a  *)
(* kubeconfig on disk, unless a restart left it there.                     *)
ProcessInv(r) ==
  /\ child[r] \in {"none", "starting", "changing", "done", "failed", "killed"}
  /\ child[r] # "none" => r \in file
  /\ child[r] # "none" => At(r, "helm")
  /\ r \in file => At(r, "helm") \/ told[r] = "lost"
  /\ child[r] = "changing" => req[r].op \in Changes

(* What was applied, and how far its request has come.                     *)
AppliedInv(r) ==
  /\ child[r] = "done" /\ req[r].op \in Changes => r \in applied
  /\ At(r, "audit") => r \in applied
  /\ told[r] = "ok" => r \in applied
  /\ r \in applied => \/ child[r] = "done"
                      \/ At(r, "audit")
                      \/ told[r] # "nothing"
  /\ r \in applied /\ told[r] = "failed" => r \in ended
  /\ r \in applied => req[r].op \in Changes \cup {"answered"}

(* What the memory store has recorded.                                     *)
AuditInv(r) == store = "memory" /\ crashes = 0 /\ told[r] = "ok" => r \in audit

RequestInv(r) == ScriptInv(r) /\ ProcessInv(r) /\ AppliedInv(r) /\ AuditInv(r)

(* Functions on Requests, as TypeOK has them, without their ranges.        *)
OnRequests == /\ told = [r \in Requests |-> told[r]]
              /\ req = [r \in Requests |-> req[r]]

SystemInv ==
  /\ store \in {"memory", "postgres"} /\ registered \in BOOLEAN
  /\ release \in {"absent", "present", "pending"}
  /\ ended \subseteq Requests /\ file \subseteq Requests
  /\ applied \subseteq Requests /\ audit \subseteq Requests
  /\ crashes \in 0 .. MaxCrashes
  /\ OnRequests
  /\ child = [r \in Requests |-> child[r]]

IInv == SystemInv /\ \A r \in Requests : RequestInv(r)
-----------------------------------------------------------------------------
(***************************************************************************)
(* Going through a script: a change ends with its audit event, a read with *)
(* helm.                                                                   *)
(***************************************************************************)
LEMMA ChangeSteps ==
  ASSUME NEW s \in ChangeScripts
  PROVE  /\ s # <<>> /\ Head(s) \in {"kubeconfig", "helm", "audit"}
         /\ Head(s) = "audit" <=> Len(s) = 1
         /\ Head(s) = "kubeconfig" => Tail(s) \in ChangeScripts /\ Head(Tail(s)) = "helm"
         /\ Head(s) = "helm" => Tail(s) \in ChangeScripts /\ Head(Tail(s)) = "audit"
<1>1. CASE s = <<"kubeconfig", "helm", "audit">>
  <2>1. /\ s # <<>> /\ Head(s) = "kubeconfig" /\ Len(s) = 3
        /\ Tail(s) = <<"helm", "audit">>
    BY <1>1
  <2>2. Head(<<"helm", "audit">>) = "helm"
    OBVIOUS
  <2>3. QED
    BY <2>1, <2>2 DEF ChangeScripts
<1>2. CASE s = <<"helm", "audit">>
  <2>1. /\ s # <<>> /\ Head(s) = "helm" /\ Len(s) = 2
        /\ Tail(s) = <<"audit">>
    BY <1>2
  <2>2. Head(<<"audit">>) = "audit"
    OBVIOUS
  <2>3. QED
    BY <2>1, <2>2 DEF ChangeScripts
<1>3. CASE s = <<"audit">>
  <2>1. /\ s # <<>> /\ Head(s) = "audit" /\ Len(s) = 1
        /\ Tail(s) = <<>>
    BY <1>3
  <2>3. QED
    BY <2>1 DEF ChangeScripts
<1>4. QED
  BY <1>1, <1>2, <1>3 DEF ChangeScripts

LEMMA ReadSteps ==
  ASSUME NEW s \in ReadScripts
  PROVE  /\ s # <<>> /\ Head(s) \in {"kubeconfig", "helm"}
         /\ Head(s) = "kubeconfig" => Len(s) # 1
         /\ Len(s) # 1 => Tail(s) \in ReadScripts
<1>1. CASE s = <<"kubeconfig", "helm", "kubeconfig", "helm">>
  <2>1. /\ s # <<>> /\ Head(s) = "kubeconfig" /\ Len(s) = 4
        /\ Tail(s) = <<"helm", "kubeconfig", "helm">>
    BY <1>1
  <2>2. Head(<<"helm", "kubeconfig", "helm">>) = "helm"
    OBVIOUS
  <2>3. QED
    BY <2>1, <2>2 DEF ReadScripts
<1>2. CASE s = <<"helm", "kubeconfig", "helm">>
  <2>1. /\ s # <<>> /\ Head(s) = "helm" /\ Len(s) = 3
        /\ Tail(s) = <<"kubeconfig", "helm">>
    BY <1>2
  <2>2. Head(<<"kubeconfig", "helm">>) = "kubeconfig"
    OBVIOUS
  <2>3. QED
    BY <2>1, <2>2 DEF ReadScripts
<1>3. CASE s = <<"kubeconfig", "helm">>
  <2>1. /\ s # <<>> /\ Head(s) = "kubeconfig" /\ Len(s) = 2
        /\ Tail(s) = <<"helm">>
    BY <1>3
  <2>2. Head(<<"helm">>) = "helm"
    OBVIOUS
  <2>3. QED
    BY <2>1, <2>2 DEF ReadScripts
<1>4. CASE s = <<"helm">>
  <2>1. /\ s # <<>> /\ Head(s) = "helm" /\ Len(s) = 1
        /\ Tail(s) = <<>>
    BY <1>4
  <2>3. QED
    BY <2>1 DEF ReadScripts
<1>5. QED
  BY <1>1, <1>2, <1>3, <1>4 DEF ReadScripts

(***************************************************************************)
(* A script of two calls, run twice (Diff).                                *)
(***************************************************************************)
LEMMA Twice ==
  ASSUME NEW S, NEW x \in Seq(S), NEW y \in Seq(S), Len(x) = 2, Len(y) = 4,
         y[1] = x[1], y[2] = x[2], y[3] = x[1], y[4] = x[2]
  PROVE  x \o x = y
<1>1. PICK z : z = x \o x
  OBVIOUS
<1>2. z \in Seq(S) /\ Len(z) = Len(x) + Len(x)
  BY <1>1, ConcatProperties
<1>3. \A i \in 1 .. Len(x) + Len(x) : z[i] = IF i <= Len(x) THEN x[i] ELSE x[i - Len(x)]
  BY <1>1, ConcatProperties
<1>4. \A i \in 1 .. 4 : z[i] = IF i <= 2 THEN x[i] ELSE x[i - 2]
  BY <1>3
<1>5. z[1] = x[1] /\ z[2] = x[2] /\ z[3] = x[1] /\ z[4] = x[2]
  BY <1>4
<1>6. \A i \in 1 .. 4 : z[i] = y[i]
  BY <1>5
<1>7. z = y
  BY <1>2, <1>6, SeqEqual
<1>8. QED
  BY <1>1, <1>7

(***************************************************************************)
(* What the helm commands that change a release leave.                     *)
(***************************************************************************)
LEMMA CommandsLeave ==
  ASSUME NEW c \in Changes
  PROVE  /\ Command[c].done \in {"absent", "present", "pending"}
         /\ Command[c].failed \subseteq {"absent", "present", "pending"}
<1>1. CASE c = "upgrade"
  BY <1>1 DEF Command, Upgrade
<1>2. CASE c = "install"
  BY <1>2 DEF Command, Install
<1>3. CASE c = "rollback"
  BY <1>3 DEF Command, Rollback
<1>4. CASE c = "uninstall"
  BY <1>4 DEF Command, Uninstall
<1>5. QED
  BY <1>1, <1>2, <1>3, <1>4 DEF Changes
-----------------------------------------------------------------------------
(* What an action leaves alone of a request that it is not about.          *)
Same(q) ==
  /\ req'[q] = req[q] /\ told'[q] = told[q] /\ child'[q] = child[q]
  /\ q \in file' <=> q \in file
  /\ q \in applied' <=> q \in applied
  /\ q \in ended => q \in ended'
  /\ q \in audit => q \in audit'
  /\ store' = store /\ crashes' = crashes

(***************************************************************************)
(* The invariant of a request that a step leaves alone.                    *)
(***************************************************************************)
LEMMA Frame ==
  ASSUME NEW q, RequestInv(q), Same(q)
  PROVE  RequestInv(q)'
<1>1. \A call : At(q, call)' <=> At(q, call)
  BY DEF Same, At, Started
<1>2. ScriptInv(q)'
  BY DEF RequestInv, ScriptInv, Same
<1>3. ProcessInv(q)'
  BY <1>1 DEF RequestInv, ProcessInv, Same
<1>4. AppliedInv(q)'
  BY <1>1 DEF RequestInv, AppliedInv, Same
<1>5. AuditInv(q)'
  BY DEF RequestInv, AuditInv, Same
<1>6. QED
  BY <1>2, <1>3, <1>4, <1>5 DEF RequestInv

(***************************************************************************)
(* An answer.                                                              *)
(***************************************************************************)
LEMMA Told ==
  ASSUME OnRequests, NEW r \in Requests, NEW a, Tell(r, a)
  PROVE  /\ OnRequests'
         /\ told'[r] = a /\ req'[r] = [op |-> "answered", todo |-> <<>>]
         /\ \A q \in Requests \ {r} : told'[q] = told[q] /\ req'[q] = req[q]
  BY DEF OnRequests, Tell

(***************************************************************************)
(* The next call of a script, or the answer at its end.                    *)
(***************************************************************************)
LEMMA Advanced ==
  ASSUME OnRequests, NEW r \in Requests, ScriptInv(r), Started(r), Advance(r)
  PROVE  /\ OnRequests' /\ ScriptInv(r)'
         /\ \A q \in Requests \ {r} : told'[q] = told[q] /\ req'[q] = req[q]
         /\ \/ told'[r] = "ok" /\ At(r, "audit")
            \/ told'[r] = "shown" /\ ~At(r, "audit") /\ req[r].op \notin Changes
            \/ /\ told'[r] = "nothing" /\ req'[r].op = req[r].op /\ ~At(r, "audit")
               /\ At(r, "audit")' <=> At(r, "helm") /\ req[r].op \in Changes
<1> DEFINE s == req[r].todo
<1>1. told[r] = "nothing" /\ s # <<>> /\ req[r].op \in Changes \cup Reads
  BY DEF Started, ScriptInv
<1>2. /\ OnRequests'
      /\ \A q \in Requests \ {r} : told'[q] = told[q] /\ req'[q] = req[q]
  BY DEF OnRequests, Advance, Tell
<1>3. CASE Len(s) # 1
  <2>1. req' = [req EXCEPT ![r].todo = Tail(@)] /\ told' = told
    BY <1>3 DEF Advance
  <2>2. req'[r] = [req[r] EXCEPT !.todo = Tail(@)]
    BY <2>1 DEF OnRequests
  <2>3. req'[r].op = req[r].op /\ req'[r].todo = Tail(s)
    BY <2>2 DEF ScriptInv
  <2>4. told'[r] = "nothing"
    BY <1>1, <2>1
  <2>5. CASE req[r].op \in Changes
    <3>1. s \in ChangeScripts
      BY <2>5 DEF ScriptInv
    <3>2. Head(s) # "audit" /\ Tail(s) \in ChangeScripts
      BY <1>3, <3>1, ChangeSteps
    <3>3. Tail(s) # <<>> /\ (Head(Tail(s)) = "audit" <=> Head(s) = "helm")
      BY <3>1, <3>2, ChangeSteps
    <3>4. ScriptInv(r)'
      BY <2>2, <2>3, <2>4, <2>5, <3>2 DEF ScriptInv, Changes, Reads
    <3>5. ~At(r, "audit") /\ (At(r, "audit")' <=> At(r, "helm"))
      BY <1>1, <2>3, <2>4, <3>2, <3>3 DEF At, Started
    <3>6. QED
      BY <1>2, <2>3, <2>4, <2>5, <3>4, <3>5
  <2>6. CASE req[r].op \in Reads
    <3>1. s \in ReadScripts
      BY <2>6 DEF ScriptInv
    <3>2. Head(s) # "audit" /\ Tail(s) \in ReadScripts /\ Head(Tail(s)) # "audit"
      BY <1>3, <3>1, ReadSteps
    <3>3. ScriptInv(r)'
      BY <2>2, <2>3, <2>4, <2>6, <3>2 DEF ScriptInv, Changes, Reads
    <3>4. ~At(r, "audit") /\ ~At(r, "audit")'
      BY <2>3, <3>2 DEF At
    <3>5. QED
      BY <1>2, <2>3, <2>4, <2>6, <3>3, <3>4 DEF Changes, Reads
  <2>7. QED
    BY <1>1, <2>5, <2>6
<1>4. CASE Len(s) = 1
  <2>1. Tell(r, Success(r))
    BY <1>4 DEF Advance
  <2>2. told'[r] = Success(r) /\ req'[r] = [op |-> "answered", todo |-> <<>>]
    BY <2>1, Told
  <2>3. ScriptInv(r)'
    BY <2>2 DEF ScriptInv, Success, Changes, Reads
  <2>4. CASE req[r].op \in Changes
    <3>1. Head(s) = "audit"
      BY <1>4, <2>4, ChangeSteps DEF ScriptInv
    <3>2. QED
      BY <1>1, <1>2, <2>2, <2>3, <2>4, <3>1 DEF At, Started, Success
  <2>5. CASE req[r].op \in Reads
    <3>1. Head(s) # "audit"
      BY <1>4, <2>5, ReadSteps DEF ScriptInv
    <3>2. QED
      BY <1>2, <2>2, <2>3, <2>5, <3>1 DEF At, Success, Changes, Reads
  <2>6. QED
    BY <1>1, <2>4, <2>5
<1>5. QED
  BY <1>3, <1>4
-----------------------------------------------------------------------------
(***************************************************************************)
(* The invariant after a step of request r that leaves the others alone.   *)
(***************************************************************************)
LEMMA StepOf ==
  ASSUME IInv, NEW r \in Requests, SystemInv', RequestInv(r)',
         \A q \in Requests \ {r} : Same(q)
  PROVE  IInv'
  BY Frame DEF IInv

(***************************************************************************)
(* A handler takes a request up.                                           *)
(***************************************************************************)
LEMMA ReceiveKeeps ==
  ASSUME IInv, NEW r \in Requests, Receive(r)
  PROVE  IInv'
<1>1. /\ DryRun \in ReadScripts /\ GetReleaseValues \in ReadScripts
      /\ TestRelease \in ReadScripts /\ GetManifest \in ReadScripts
      /\ ListReleaseHistory \in ReadScripts
  BY DEF ReadScripts, DryRun, GetReleaseValues, TestRelease, GetManifest, ListReleaseHistory
<1>2. Diff \in ReadScripts
  <2>1. <<"kubeconfig", "helm">> \o <<"kubeconfig", "helm">>
          = <<"kubeconfig", "helm", "kubeconfig", "helm">>
    <3>1. /\ <<"kubeconfig", "helm">> \in Seq({"kubeconfig", "helm"})
          /\ <<"kubeconfig", "helm", "kubeconfig", "helm">> \in Seq({"kubeconfig", "helm"})
      OBVIOUS
    <3>2. QED
      BY <3>1, Twice
  <2>2. QED
    BY <2>1 DEF Diff, GetManifest, ReadScripts
<1>3. /\ UpgradeRelease \in ChangeScripts /\ RollbackRelease \in ChangeScripts
      /\ InstallRelease \in ChangeScripts /\ UninstallRelease \in ChangeScripts
  BY DEF ChangeScripts, UpgradeRelease, RollbackRelease, InstallRelease, UninstallRelease
<1>0. /\ \A script \in ReadScripts : Head(script) # "audit"
      /\ Head(UpgradeRelease) # "audit" /\ Head(RollbackRelease) # "audit"
      /\ Head(InstallRelease) # "audit" /\ Head(UninstallRelease) # "audit"
  <2>1. Head(<<"kubeconfig", "helm", "audit">>) # "audit"
    OBVIOUS
  <2>2. QED
    BY <2>1, ReadSteps DEF UpgradeRelease, RollbackRelease, InstallRelease, UninstallRelease
<1>4. PICK op, script :
        /\ Handle(r, op, script)
        /\ \/ op \in Changes /\ script \in ChangeScripts
           \/ op \in Reads /\ script \in ReadScripts
        /\ Head(script) # "audit"
  BY <1>0, <1>1, <1>2, <1>3
  DEF Receive, upgradeHandler, rollbackHandler, installReleaseHandler, uninstallReleaseHandler,
      releaseValuesHandler, dryRunHandler, releaseTestHandler, releaseManifestHandler,
      releaseDiffHandler, listReleaseHistoryHandler, Changes, Reads
<1>5. /\ req[r].op = "none" /\ req' = [req EXCEPT ![r] = [op |-> op, todo |-> script]]
      /\ UNCHANGED <<store, registered, ended, crashes, release, file, child, applied, audit, told>>
  BY <1>4 DEF Handle
<1>6. ScriptInv(r) /\ ProcessInv(r) /\ AppliedInv(r)
  BY DEF IInv, RequestInv
<1>7. told[r] = "nothing" /\ ~Started(r)
  BY <1>5, <1>6 DEF ScriptInv, Started
<1>8. child[r] = "none" /\ r \notin file /\ r \notin applied
  BY <1>6, <1>7 DEF ProcessInv, AppliedInv, At
<1>9. req'[r] = [op |-> op, todo |-> script]
  BY <1>5 DEF IInv, SystemInv, OnRequests
<1>10. ScriptInv(r)'
  BY <1>4, <1>5, <1>7, <1>9 DEF ScriptInv, Changes, Reads
<1>11. ~At(r, "audit")'
  BY <1>4, <1>9 DEF At
<1>12. RequestInv(r)'
  BY <1>5, <1>7, <1>8, <1>10, <1>11 DEF RequestInv, ProcessInv, AppliedInv, AuditInv
<1>13. SystemInv'
  BY <1>5 DEF IInv, SystemInv, OnRequests
<1>14. \A q \in Requests \ {r} : Same(q)
  BY <1>5 DEF Same
<1>15. QED
  BY <1>12, <1>13, <1>14, StepOf

(***************************************************************************)
(* Looking the kubeconfig up: no process, no file, nothing applied.        *)
(***************************************************************************)
LEMMA LookUpKeeps ==
  ASSUME IInv, NEW r \in Requests, NotLive(r) \/ GetClusterKubeconfig(r)
  PROVE  IInv'
<1>1. /\ At(r, "kubeconfig")
      /\ Advance(r) \/ Tell(r, "shown") \/ Tell(r, "failed")
      /\ UNCHANGED <<store, registered, ended, crashes, release, file, child, applied, audit>>
  BY DEF NotLive, GetClusterKubeconfig, NoProcess, NoService
<1>2. OnRequests /\ ScriptInv(r) /\ ProcessInv(r) /\ AppliedInv(r)
  BY DEF IInv, RequestInv, SystemInv
<1>3. /\ Started(r) /\ told[r] = "nothing" /\ ~At(r, "helm") /\ ~At(r, "audit")
      /\ child[r] = "none" /\ r \notin file /\ r \notin applied
  BY <1>1, <1>2 DEF At, Started, ProcessInv, AppliedInv
<1>4. /\ OnRequests' /\ ScriptInv(r)' /\ told'[r] # "ok" /\ ~At(r, "audit")'
      /\ \A q \in Requests \ {r} : told'[q] = told[q] /\ req'[q] = req[q]
  <2>1. CASE Advance(r)
    BY <1>2, <1>3, <2>1, Advanced DEF At, Started
  <2>2. CASE Tell(r, "shown") \/ Tell(r, "failed")
    <3>1. PICK a \in {"shown", "failed"} : Tell(r, a)
      BY <2>2
    <3>2. QED
      BY <1>2, <3>1, Told DEF ScriptInv, At, Started, Changes, Reads
  <2>3. QED
    BY <1>1, <2>1, <2>2
<1>5. RequestInv(r)'
  BY <1>1, <1>3, <1>4 DEF RequestInv, ProcessInv, AppliedInv, AuditInv
<1>6. SystemInv'
  BY <1>1, <1>4 DEF IInv, SystemInv
<1>7. \A q \in Requests \ {r} : Same(q)
  BY <1>1, <1>4 DEF Same
<1>8. QED
  BY <1>5, <1>6, <1>7, StepOf

(***************************************************************************)
(* Writing the kubeconfig and starting helm.                               *)
(***************************************************************************)
LEMMA StartKeeps ==
  ASSUME IInv, NEW r \in Requests, CreateTemp(r) \/ NotRun(r) \/ StartHelm(r)
  PROVE  IInv'
<1>1. /\ At(r, "helm") /\ child[r] = "none"
      /\ UNCHANGED <<store, registered, ended, crashes, release, applied, audit>>
      /\ file' \in {file, file \cup {r}, file \ {r}}
  BY DEF CreateTemp, NotRun, StartHelm, removeKubeconfig, NoChange, NoService
<1>2. OnRequests /\ ScriptInv(r) /\ ProcessInv(r) /\ AppliedInv(r) /\ AuditInv(r)
  BY DEF IInv, RequestInv, SystemInv
<1>3. /\ Started(r) /\ told[r] = "nothing" /\ ~At(r, "audit") /\ r \notin applied
  BY <1>1, <1>2 DEF At, Started, AppliedInv
<1>4. CASE /\ UNCHANGED <<req, told>>
           /\ \/ r \in file' /\ child' = [child EXCEPT ![r] = "starting"]
              \/ UNCHANGED child
  <2>1. /\ child'[r] \in {"none", "starting"}
        /\ child'[r] # "none" => r \in file'
        /\ \A q \in Requests \ {r} : child'[q] = child[q]
    BY <1>1, <1>4 DEF IInv, SystemInv
  <2>2. At(r, "helm")' /\ ~At(r, "audit")'
    BY <1>1, <1>3, <1>4 DEF At, Started
  <2>3. /\ told'[r] = "nothing" /\ req'[r] = req[r] /\ r \notin applied'
        /\ audit' = audit /\ store' = store /\ crashes' = crashes
    BY <1>1, <1>3, <1>4
  <2>4. ScriptInv(r)' /\ AuditInv(r)'
    BY <1>2, <1>3, <2>3 DEF ScriptInv, AuditInv
  <2>8. ProcessInv(r)'
    BY <2>1, <2>2 DEF ProcessInv
  <2>9. AppliedInv(r)'
    BY <2>1, <2>2, <2>3 DEF AppliedInv
  <2>5. SystemInv'
    BY <1>1, <1>4 DEF IInv, SystemInv, OnRequests
  <2>6. \A q \in Requests \ {r} : Same(q)
    BY <1>1, <1>4, <2>1 DEF Same
  <2>7. QED
    BY <2>4, <2>5, <2>6, <2>8, <2>9, StepOf DEF RequestInv
<1>5. CASE GiveUp(r) /\ UNCHANGED child /\ r \notin file'
  <2>0. PICK a \in {"failed", "shown"} : Tell(r, a)
    BY <1>5 DEF GiveUp
  <2>1. /\ OnRequests' /\ told'[r] = a
        /\ req'[r] = [op |-> "answered", todo |-> <<>>]
        /\ \A q \in Requests \ {r} : told'[q] = told[q] /\ req'[q] = req[q]
    BY <1>2, <2>0, Told
  <2>2. ScriptInv(r)' /\ ~At(r, "audit")'
    BY <2>1 DEF ScriptInv, At, Started, Changes, Reads
  <2>3. RequestInv(r)'
    BY <1>1, <1>3, <1>5, <2>1, <2>2 DEF RequestInv, ProcessInv, AppliedInv, AuditInv
  <2>4. SystemInv'
    BY <1>1, <1>5, <2>1 DEF IInv, SystemInv
  <2>5. \A q \in Requests \ {r} : Same(q)
    BY <1>1, <1>5, <2>1 DEF Same
  <2>6. QED
    BY <2>3, <2>4, <2>5, StepOf
<1>6. CASE CreateTemp(r)
  BY <1>4, <1>5, <1>6 DEF CreateTemp
<1>7. CASE NotRun(r)
  BY <1>5, <1>7 DEF NotRun, removeKubeconfig
<1>8. CASE StartHelm(r)
  BY <1>4, <1>8 DEF StartHelm
<1>9. QED
  BY <1>6, <1>7, <1>8

(***************************************************************************)
(* What helm does, and what kills it.                                      *)
(***************************************************************************)
LEMMA ProcessKeeps ==
  ASSUME IInv, NEW r \in Requests, HelmBegins(r) \/ HelmEnds(r) \/ Kill(r)
  PROVE  IInv'
<1>1. ScriptInv(r) /\ ProcessInv(r) /\ AppliedInv(r) /\ AuditInv(r)
  BY DEF IInv, RequestInv
<1>2. UNCHANGED <<served, file, audit, told>> /\ child[r] \in {"starting", "changing"}
  BY DEF HelmBegins, HelmEnds, Kill, Running
<1>3. At(r, "helm") /\ ~At(r, "audit") /\ told[r] = "nothing" /\ r \notin applied
  BY <1>1, <1>2 DEF ProcessInv, AppliedInv, At, Started
<1>4. PICK c \in {"changing", "done", "failed", "killed"} :
        /\ child' = [child EXCEPT ![r] = c]
        /\ c = "changing" => req[r].op \in Changes
        /\ \/ applied' = applied /\ (c = "done" => req[r].op \notin Changes)
           \/ applied' = applied \cup {r} /\ c = "done" /\ req[r].op \in Changes
  BY <1>1, <1>2 DEF HelmBegins, HelmEnds, Kill, ProcessInv
<1>5. child'[r] = c /\ \A q \in Requests \ {r} : child'[q] = child[q]
  BY <1>4 DEF IInv, SystemInv
<1>6. /\ At(r, "helm")' /\ ~At(r, "audit")' /\ req'[r].op = req[r].op
      /\ told'[r] = "nothing" /\ ScriptInv(r)' /\ AuditInv(r)'
  BY <1>1, <1>2, <1>3 DEF served, At, Started, ScriptInv, AuditInv
<1>7. ProcessInv(r)'
  BY <1>1, <1>2, <1>4, <1>5, <1>6 DEF ProcessInv
<1>8. AppliedInv(r)'
  BY <1>3, <1>4, <1>5, <1>6 DEF AppliedInv
<1>9. release' \in {"absent", "present", "pending"}
  <2>1. CASE HelmEnds(r)
    BY <1>1, <2>1, CommandsLeave DEF HelmEnds, ProcessInv
  <2>2. CASE HelmBegins(r) \/ Kill(r)
    BY <2>2 DEF HelmBegins, Kill, IInv, SystemInv
  <2>3. QED
    BY <2>1, <2>2
<1>10. SystemInv'
  BY <1>2, <1>4, <1>9 DEF IInv, SystemInv, OnRequests, served
<1>11. \A q \in Requests \ {r} : Same(q)
  BY <1>2, <1>4, <1>5 DEF Same, served
<1>12. QED
  BY <1>6, <1>7, <1>8, <1>10, <1>11, StepOf DEF RequestInv

(***************************************************************************)
(* helm is done and the file is removed: a change goes on to its audit     *)
(* event only if it was applied, and fails only if its context ended.      *)
(***************************************************************************)
LEMMA WaitKeeps ==
  ASSUME IInv, NEW r \in Requests, Wait(r)
  PROVE  IInv'
<1>1. OnRequests /\ ScriptInv(r) /\ ProcessInv(r) /\ AppliedInv(r)
  BY DEF IInv, RequestInv, SystemInv
<1>2. /\ At(r, "helm") /\ file' = file \ {r} /\ child' = [child EXCEPT ![r] = "none"]
      /\ UNCHANGED <<store, registered, ended, crashes, release, applied, audit>>
      /\ \/ child[r] = "done" /\ Advance(r)
         \/ /\ child[r] # "done" \/ r \in ended
            /\ Tell(r, "failed") \/ Tell(r, "shown")
  BY DEF Wait, Finished, GiveUp, removeKubeconfig, NoChange, NoService
<1>3. child'[r] = "none" /\ \A q \in Requests \ {r} : child'[q] = child[q]
  BY <1>2 DEF IInv, SystemInv
<1>4. Started(r) /\ told[r] = "nothing" /\ ~At(r, "audit")
  BY <1>2 DEF At, Started
<1>5. /\ OnRequests' /\ ScriptInv(r)' /\ told'[r] # "ok"
      /\ \A q \in Requests \ {r} : told'[q] = told[q] /\ req'[q] = req[q]
      /\ At(r, "audit")' => child[r] = "done" /\ req[r].op \in Changes
      /\ r \in applied => At(r, "audit")' \/ told'[r] # "nothing"
      /\ r \in applied /\ told'[r] = "failed" => r \in ended
      /\ r \in applied => req'[r].op \in Changes \cup {"answered"}
  <2>1. CASE child[r] = "done" /\ Advance(r)
    <3>1. r \in applied => req[r].op \in Changes
      BY <1>1, <1>2, <1>4 DEF AppliedInv, ScriptInv
    <3>2. At(r, "audit")' => told'[r] = "nothing"
      BY DEF At, Started
    <3>3. QED
      BY <1>1, <1>2, <1>4, <2>1, <3>1, <3>2, Advanced
  <2>2. CASE (child[r] # "done" \/ r \in ended) /\ (Tell(r, "failed") \/ Tell(r, "shown"))
    <3>1. PICK a \in {"failed", "shown"} : Tell(r, a)
      BY <2>2
    <3>2. r \in applied => r \in ended
      BY <1>1, <1>4, <2>2 DEF AppliedInv
    <3>3. QED
      BY <1>1, <3>1, <3>2, Told DEF ScriptInv, At, Started, Changes, Reads
  <2>3. QED
    BY <1>2, <2>1, <2>2
<1>6. ProcessInv(r)'
  BY <1>2, <1>3 DEF ProcessInv
<1>7. AppliedInv(r)'
  BY <1>1, <1>2, <1>3, <1>5 DEF AppliedInv
<1>8. AuditInv(r)'
  BY <1>5 DEF AuditInv
<1>9. SystemInv'
  BY <1>2, <1>5 DEF IInv, SystemInv
<1>10. \A q \in Requests \ {r} : Same(q)
  BY <1>2, <1>3, <1>5 DEF Same
<1>11. QED
  BY <1>5, <1>6, <1>7, <1>8, <1>9, <1>10, StepOf DEF RequestInv

(***************************************************************************)
(* The audit event, the last call of a change.                             *)
(***************************************************************************)
LEMMA AuditKeeps ==
  ASSUME IInv, NEW r \in Requests, logAudit(r)
  PROVE  IInv'
<1>1. OnRequests /\ ScriptInv(r) /\ ProcessInv(r) /\ AppliedInv(r)
  BY DEF IInv, RequestInv, SystemInv
<1>2. /\ At(r, "audit") /\ Advance(r)
      /\ audit' = IF store = "memory" THEN audit \cup {r} ELSE audit
      /\ UNCHANGED <<store, registered, ended, crashes, release, file, child, applied>>
  BY DEF logAudit, NoProcess
<1>3. Started(r) /\ ~At(r, "helm") /\ r \in applied /\ child[r] = "none" /\ r \notin file
  BY <1>1, <1>2 DEF At, Started, AppliedInv, ProcessInv
<1>4. /\ OnRequests' /\ ScriptInv(r)' /\ told'[r] = "ok"
      /\ \A q \in Requests \ {r} : told'[q] = told[q] /\ req'[q] = req[q]
  BY <1>1, <1>2, <1>3, Advanced
<1>5. req'[r].op = "answered" /\ ~At(r, "audit")'
  BY <1>4 DEF ScriptInv, At, Started
<1>6. RequestInv(r)'
  BY <1>2, <1>3, <1>4, <1>5 DEF RequestInv, ProcessInv, AppliedInv, AuditInv
<1>7. SystemInv'
  BY <1>2, <1>4 DEF IInv, SystemInv
<1>8. \A q \in Requests \ {r} : Same(q)
  BY <1>2, <1>4 DEF Same
<1>9. QED
  BY <1>6, <1>7, <1>8, StepOf

(***************************************************************************)
(* A restart: requests, files and processes are gone.                      *)
(***************************************************************************)
LEMMA CrashKeeps ==
  ASSUME IInv, Crash
  PROVE  IInv'
<1>1. crashes \in 0 .. MaxCrashes /\ crashes < MaxCrashes /\ crashes' = crashes + 1
  BY DEF IInv, SystemInv, Crash
<1>2. crashes' \in 0 .. MaxCrashes /\ crashes' # 0
  <2>1. crashes + 1 \in 0 .. MaxCrashes /\ crashes + 1 # 0
    BY <1>1
  <2>2. QED
    BY <1>1, <2>1
<1>3. SystemInv'
  BY <1>2 DEF IInv, SystemInv, OnRequests, Crash
<1>4. ASSUME NEW q \in Requests
      PROVE  RequestInv(q)'
  <2>1. ScriptInv(q) /\ AppliedInv(q) /\ ProcessInv(q)
    BY DEF IInv, RequestInv
  <2>2. CASE Started(q)
    <3>1. told'[q] = "lost" /\ req'[q] = [op |-> "answered", todo |-> <<>>]
      BY <2>2 DEF Crash
    <3>2. QED
      BY <1>2, <2>1, <3>1
      DEF RequestInv, ScriptInv, ProcessInv, AppliedInv, AuditInv, Crash, At, Started, Changes, Reads
  <2>3. CASE ~Started(q)
    <3>1. told'[q] = told[q] /\ req'[q] = req[q]
      BY <2>3 DEF Crash
    <3>2. /\ child'[q] = "none" /\ UNCHANGED <<ended, applied>>
          /\ q \in file' => q \in file
      BY DEF Crash
    <3>3. /\ child[q] = "none" /\ ~At(q, "audit") /\ ~At(q, "audit")' /\ ~At(q, "helm")
          /\ q \in file' => told'[q] = "lost"
      BY <2>1, <2>3, <3>1, <3>2 DEF ProcessInv, At, Started
    <3>4. QED
      BY <1>2, <2>1, <3>1, <3>2, <3>3
      DEF RequestInv, ScriptInv, ProcessInv, AppliedInv, AuditInv
  <2>4. QED
    BY <2>2, <2>3
<1>5. QED
  BY <1>3, <1>4 DEF IInv

(***************************************************************************)
(* The inductive invariant holds at first.                                 *)
(***************************************************************************)
LEMMA InitInv == Init => IInv
<1>1. ASSUME Init
      PROVE  IInv
  <2>1. SystemInv
    BY <1>1 DEF Init, SystemInv, OnRequests
  <2>2. ASSUME NEW r \in Requests
        PROVE  RequestInv(r)
    <3>1. /\ req[r] = [op |-> "none", todo |-> <<>>] /\ told[r] = "nothing"
          /\ child[r] = "none" /\ r \notin file /\ r \notin applied
      BY <1>1 DEF Init
    <3>2. QED
      BY <3>1 DEF RequestInv, ScriptInv, ProcessInv, AppliedInv, AuditInv, At, Started,
                  Changes, Reads
  <2>3. QED
    BY <2>1, <2>2 DEF IInv
<1>2. QED
  BY <1>1

(***************************************************************************)
(* Every step keeps it.                                                    *)
(***************************************************************************)
LEMMA StepInv == IInv /\ [Next]_vars => IInv'
<1> SUFFICES ASSUME IInv, [Next]_vars
             PROVE  IInv'
  OBVIOUS
<1>1. ASSUME NEW r \in Requests, Receive(r)
      PROVE  IInv'
  BY <1>1, ReceiveKeeps
<1>2. ASSUME NEW r \in Requests, Serve(r)
      PROVE  IInv'
  BY <1>2, LookUpKeeps, StartKeeps, WaitKeeps, AuditKeeps DEF Serve, withKubeconfig
<1>3. ASSUME NEW r \in Requests, HelmBegins(r) \/ HelmEnds(r) \/ Kill(r)
      PROVE  IInv'
  BY <1>3, ProcessKeeps
<1>4. CASE DeleteCluster \/ \E r \in Requests : Deadline(r)
  <2>1. \A q \in Requests : Same(q)
    BY <1>4 DEF DeleteCluster, Deadline, Same
  <2>2. SystemInv'
    BY <1>4 DEF DeleteCluster, Deadline, IInv, SystemInv, OnRequests
  <2>3. QED
    BY <2>1, <2>2, Frame DEF IInv
<1>5. CASE Crash
  BY <1>5, CrashKeeps
<1>6. CASE UNCHANGED vars
  <2>1. \A q \in Requests : Same(q)
    BY <1>6 DEF vars, served, Same
  <2>2. SystemInv'
    BY <1>6 DEF vars, served, IInv, SystemInv, OnRequests
  <2>3. QED
    BY <2>1, <2>2, Frame DEF IInv
<1>7. QED
  BY <1>1, <1>2, <1>3, <1>4, <1>5, <1>6 DEF Next

(***************************************************************************)
(* The inductive invariant: where each request is in its script, whose     *)
(* helm process is running, what was applied, told and recorded.           *)
(***************************************************************************)
THEOREM Invariance == Spec => []IInv
  BY InitInv, StepInv, PTL DEF Spec
-----------------------------------------------------------------------------
(***************************************************************************)
(* Type correctness, for any requests and number of crashes.               *)
(***************************************************************************)
THEOREM TypeCorrect == Spec => []TypeOK
<1>1. IInv => TypeOK
  BY DEF IInv, SystemInv, OnRequests, RequestInv, ScriptInv, ProcessInv, TypeOK
<1>2. QED
  BY <1>1, Invariance, PTL

(***************************************************************************)
(* A helm process has its kubeconfig, and a kubeconfig on disk belongs to  *)
(* a request's helm call or was left by a restart (withKubeconfig).        *)
(***************************************************************************)
THEOREM KubeconfigSafe == Spec => []KubeconfigLivesWithHelm
<1>1. IInv => KubeconfigLivesWithHelm
  BY DEF IInv, RequestInv, ProcessInv, At, Started, KubeconfigLivesWithHelm
<1>2. QED
  BY <1>1, Invariance, PTL

(***************************************************************************)
(* In the memory store a change that a client was told of is recorded.     *)
(***************************************************************************)
THEOREM ChangesRecorded == Spec => []ToldChangesAreRecorded
<1>1. IInv => ToldChangesAreRecorded
  BY DEF IInv, RequestInv, AuditInv, ToldChangesAreRecorded
<1>2. QED
  BY <1>1, Invariance, PTL

(***************************************************************************)
(* A change that was applied is told as failed only if its context ended.  *)
(***************************************************************************)
THEOREM SuccessReported == Spec => []SuccessIsReported
<1>1. applied \subseteq Requests /\ IInv => SuccessIsReported
  BY DEF IInv, RequestInv, AppliedInv, SuccessIsReported
<1>2. QED
  BY <1>1, Invariance, PTL DEF IInv, SystemInv
-----------------------------------------------------------------------------
(***************************************************************************)
(* The initial states are those of the promise.                            *)
(***************************************************************************)
LEMMA InitRefines == Init => Abstract!Init
  BY DEF Init, Abstract!Init

(***************************************************************************)
(* A step of the promise in which only one client is told something.       *)
(***************************************************************************)
LEMMA AnswerRefines ==
  ASSUME OnRequests, OnRequests', NEW r \in Requests, told[r] = "nothing",
         \A q \in Requests \ {r} : told'[q] = told[q],
         told'[r] \in {"nothing", "shown", "failed"}, UNCHANGED <<applied, audit>>
  PROVE  [Abstract!Next]_(Abstract!vars)
<1>1. CASE told'[r] = "nothing"
  <2>1. told' = told
    BY <1>1 DEF OnRequests
  <2>2. QED
    BY <2>1 DEF Abstract!vars
<1>2. CASE told'[r] # "nothing"
  <2>1. told' = [told EXCEPT ![r] = told'[r]]
    BY DEF OnRequests
  <2>2. Abstract!Answer(r)
    BY <1>2, <2>1 DEF Abstract!Answer
  <2>3. QED
    BY <2>2 DEF Abstract!Next
<1>3. QED
  BY <1>1, <1>2

(***************************************************************************)
(* Every step is one of the promise or invisible to clients and the log.   *)
(***************************************************************************)
LEMMA StepRefines ==
  ASSUME IInv, IInv', [Next]_vars
  PROVE  [Abstract!Next]_(Abstract!vars)
<1>1. /\ OnRequests /\ OnRequests'
      /\ \A r \in Requests : ScriptInv(r) /\ ProcessInv(r) /\ AppliedInv(r) /\ RequestInv(r)'
  BY DEF IInv, SystemInv, RequestInv
<1>2. ASSUME NEW r \in Requests, NotLive(r) \/ GetClusterKubeconfig(r) \/ withKubeconfig(r) \/ Wait(r)
      PROVE  [Abstract!Next]_(Abstract!vars)
  <2>1. /\ At(r, "kubeconfig") \/ At(r, "helm")
        /\ Advance(r) \/ Tell(r, "shown") \/ Tell(r, "failed") \/ UNCHANGED <<req, told>>
        /\ UNCHANGED <<applied, audit>>
    BY <1>2 DEF NotLive, GetClusterKubeconfig, withKubeconfig, CreateTemp, NotRun, StartHelm, Wait,
        Finished, GiveUp, NoChange, NoProcess, NoService
  <2>2. Started(r) /\ told[r] = "nothing" /\ ~At(r, "audit")
    BY <2>1 DEF At, Started
  <2>3. /\ told'[r] \in {"nothing", "shown", "failed"}
        /\ \A q \in Requests \ {r} : told'[q] = told[q]
    <3>1. CASE Advance(r)
      BY <1>1, <2>2, <3>1, Advanced
    <3>2. CASE Tell(r, "shown")
      BY <1>1, <3>2, Told
    <3>3. CASE Tell(r, "failed")
      BY <1>1, <3>3, Told
    <3>4. CASE UNCHANGED <<req, told>>
      BY <2>2, <3>4
    <3>5. QED
      BY <2>1, <3>1, <3>2, <3>3, <3>4
  <2>4. QED
    BY <1>1, <2>1, <2>2, <2>3, AnswerRefines
<1>3. ASSUME NEW r \in Requests, logAudit(r)
      PROVE  [Abstract!Next]_(Abstract!vars)
  <2>1. At(r, "audit") /\ Advance(r) /\ audit' \in {audit, audit \cup {r}} /\ applied' = applied
    BY <1>3 DEF logAudit, NoProcess
  <2>2. Started(r) /\ told[r] = "nothing" /\ r \in applied
    BY <1>1, <2>1 DEF At, Started, AppliedInv
  <2>3. told'[r] = "ok" /\ \A q \in Requests \ {r} : told'[q] = told[q]
    BY <1>1, <2>1, <2>2, Advanced
  <2>4. told' = [told EXCEPT ![r] = "ok"]
    BY <1>1, <2>3 DEF OnRequests
  <2>5. Abstract!RecordAndAnswer(r)
    BY <2>1, <2>2, <2>4 DEF Abstract!RecordAndAnswer
  <2>6. QED
    BY <2>5 DEF Abstract!Next
<1>4. ASSUME NEW r \in Requests, HelmEnds(r)
      PROVE  [Abstract!Next]_(Abstract!vars)
  <2>1. told[r] = "nothing"
    BY <1>1, <1>4 DEF HelmEnds, ProcessInv, At, Started
  <2>2. CASE applied' = applied \cup {r}
    <3>1. Abstract!Apply(r)
      BY <1>4, <2>1, <2>2 DEF HelmEnds, Abstract!Apply
    <3>2. QED
      BY <3>1 DEF Abstract!Next
  <2>3. CASE applied' = applied
    BY <1>4, <2>3 DEF HelmEnds, Abstract!vars
  <2>4. QED
    BY <1>4, <2>2, <2>3 DEF HelmEnds
<1>5. CASE Crash
  <2>1. audit' \in {audit, {}} /\ applied' = applied
    BY <1>5 DEF Crash
  <2>2. \A r \in Requests : told'[r] \in {told[r]} \cup
                               (IF told[r] = "nothing" THEN {"lost"} ELSE {})
    BY <1>5 DEF Crash, Started
  <2>3. DOMAIN told' = Requests
    BY <1>1 DEF OnRequests
  <2>4. Abstract!Restart
    BY <2>1, <2>2, <2>3 DEF Abstract!Restart
  <2>5. QED
    BY <2>4 DEF Abstract!Next
<1>6. ASSUME UNCHANGED <<applied, audit, told>>
      PROVE  [Abstract!Next]_(Abstract!vars)
  BY <1>6 DEF Abstract!vars
<1>7. ASSUME NEW r \in Requests, Receive(r) \/ HelmBegins(r) \/ Kill(r) \/ Deadline(r)
      PROVE  UNCHANGED <<applied, audit, told>>
  BY <1>7
  DEF Receive, Handle, upgradeHandler, rollbackHandler, installReleaseHandler,
      uninstallReleaseHandler, releaseValuesHandler, dryRunHandler, releaseTestHandler,
      releaseManifestHandler, releaseDiffHandler, listReleaseHistoryHandler,
      HelmBegins, Kill, Deadline
<1>8. DeleteCluster \/ UNCHANGED vars => UNCHANGED <<applied, audit, told>>
  BY DEF DeleteCluster, vars
<1>9. QED
  BY <1>2, <1>3, <1>4, <1>5, <1>6, <1>7, <1>8 DEF Next, Serve

(***************************************************************************)
(* The operations, with their scripts, helm processes, deadlines and       *)
(* restarts, implement the promise of AuditedChange.                       *)
(***************************************************************************)
THEOREM Implementation == Spec => ImplementsAuditedChange
<1>1. Spec => []IInv
  BY Invariance
<1>2. QED
  BY <1>1, InitRefines, StepRefines, PTL DEF Spec, ImplementsAuditedChange, Abstract!Spec
=============================================================================
