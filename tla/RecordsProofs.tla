---------------------------- MODULE RecordsProofs ----------------------------
(***************************************************************************)
(* The records of the API for any requests, providers and number of        *)
(* faults: the invariants of Records.                                      *)
(***************************************************************************)
EXTENDS Records, SequenceTheorems, FiniteSetTheorems, TLAPS

USE FaultsAssumption, RowsAssumption

(* What a method still has to do.  The provider handlers have one script.  *)
Alone  == {RegisterCluster, CreateReport, Download, CreateChannel, UpdateChannel, DeleteChannel,
           CreateRule, Approve, Reject, UpdateOrganization, UpdateUserRole}
Slicing == {CreateReport, CreateChannel, DeleteChannel, CreateRule}
Stage(script, todo) ==
  \/ script \in Alone /\ todo = script
  \/ script = DeleteCluster /\ todo \in {DeleteCluster, <<"CreateAuditEvent">>}
  \/ script = installProvider /\ todo \in {installProvider, <<"SetEnabledProviders">>}
  \/ script \in Slicing /\ todo = <<"store">>

(* The method that a call belongs to, and what comes after the call.       *)
MayCall(script, call) ==
  /\ call = "CreateCluster" => script = RegisterCluster
  /\ call \in {"DeleteCluster", "CreateAuditEvent"} => script = DeleteCluster
  /\ call = "CreateReport" => script = CreateReport
  /\ call = "GetReport" => script = Download
  /\ call = "CreateNotificationChannel" => script = CreateChannel
  /\ call = "UpdateNotificationChannel" => script = UpdateChannel
  /\ call = "DeleteNotificationChannel" => script = DeleteChannel
  /\ call = "CreateNotificationRule" => script = CreateRule
  /\ call = "Approve" => script = Approve
  /\ call = "Reject" => script = Reject
  /\ call = "UpdateOrganization" => script = UpdateOrganization
  /\ call = "UpdateUserRole" => script = UpdateUserRole
  /\ call \in {"GetEnabledProviders", "SetEnabledProviders"} => script = installProvider
  /\ call = "store" => script \in {CreateReport, CreateChannel, DeleteChannel, CreateRule}
Follows(todo) ==
  IF Head(todo) = "DeleteCluster" THEN Len(todo) = 2 /\ Tail(todo) = <<"CreateAuditEvent">>
  ELSE IF Head(todo) = "GetEnabledProviders" THEN Len(todo) = 2 /\ Tail(todo) = <<"SetEnabledProviders">>
  ELSE Len(todo) = 1 /\ Tail(todo) = <<>>

(* The table that a method inserts into; a row belongs to one table.       *)
Births(r, t) == \/ t = "clusters" /\ req[r].script = RegisterCluster
                \/ t = "reports"  /\ req[r].script = CreateReport
                \/ t = "channels" /\ req[r].script = CreateChannel
                \/ t = "rules"    /\ req[r].script = CreateRule
                \/ t = "audit"    /\ req[r].script = DeleteCluster
Born(x, t) == x = t \/ (x \in Requests /\ Births(x, t))

(* What a table says of a row.                                             *)
Words(t) == CASE t = "channels"  -> {"new", "on", "off"}
              [] t = "reports"   -> {"pending", "completed"}
              [] t = "approvals" -> {"new", "approved", "rejected"}
              [] OTHER           -> Marks

Distinct(s) == \A i, j \in 1 .. Len(s) : s[i] = s[j] => i = j
-----------------------------------------------------------------------------
(* The inductive invariant, conjunct by conjunct.                          *)

(* Where a request is.                                                     *)
ScriptInv(r) ==
  /\ Working(r) => told[r] = "nothing" /\ Stage(req[r].script, req[r].todo)
  /\ ~Working(r) /\ told[r] = "nothing" => req[r].script = <<>>

(* Only the memory store has slices to be stored, none of clusters or of   *)
(* audit events; the rows of a table or a slice belong there.              *)
Storing(r) == At(r, "store")
SliceInv == \A r \in Requests : Storing(r) =>
              /\ store = "memory" /\ req[r].into \in {"reports", "channels", "rules"}
              /\ req[r].into = "reports" => req[r].script = CreateReport
OriginInv == /\ \A t \in Tables : \A x \in table[t] : Born(x, t)
             /\ \A r \in Requests : Storing(r) => \A x \in req[r].slice : Born(x, req[r].into)
MarkInv == /\ \A t \in Tables : \A x \in table[t] : mark[x] \in Words(t)
           /\ \A r \in Requests : Storing(r) => \A x \in req[r].slice : mark[x] \in Words(req[r].into)
TimerInv == \A r \in timers : req[r].script = CreateReport
TableInv == SliceInv /\ OriginInv /\ MarkInv /\ TimerInv /\ AckedRowsKept

(* A list to be written back has what was read, and one install of it is   *)
(* of a provider it does not hold; alone, it still is what is enabled.     *)
Holder(r) == At(r, "SetEnabledProviders")
HoldInv ==
  /\ \A r \in Requests : Holder(r) =>
       /\ Distinct(req[r].list) /\ req[r].row \in Providers
       /\ req[r].installs => req[r].row \notin Range(req[r].list)
  /\ ~disturbed =>
       /\ \A r \in Requests : Holder(r) => req[r].list = providers
       /\ \A o, p \in Requests : Holder(o) /\ Holder(p) => o = p
AskInv == \A r \in Requests : /\ Distinct(req[r].list)
                              /\ req[r].script = installProvider => req[r].row \in Providers
ProviderInv == Distinct(providers) /\ AskInv /\ HoldInv /\ ProvidersKept

IInv == TypeOK /\ (\A r \in Requests : ScriptInv(r)) /\ TableInv /\ ProviderInv
-----------------------------------------------------------------------------
(***************************************************************************)
(* Each call belongs to one method, and what the method still does is      *)
(* known.                                                                  *)
(***************************************************************************)
LEMMA Scripts ==
  ASSUME NEW script, NEW todo, Stage(script, todo)
  PROVE  /\ todo # <<>> /\ todo \in Seq(Calls) /\ script # <<>> /\ script \in Seq(Calls)
         /\ Head(todo) \in Calls /\ MayCall(script, Head(todo)) /\ Follows(todo)
<1>1. CASE script = RegisterCluster /\ todo = RegisterCluster
  <2>1. script = <<"CreateCluster">> /\ todo = <<"CreateCluster">>
    BY <1>1 DEF RegisterCluster
  <2>2. script # <<>> /\ script \in Seq(Calls) /\ todo # <<>> /\ todo \in Seq(Calls)
    BY <2>1 DEF Calls
  <2>3. Head(todo) = "CreateCluster" /\ Tail(todo) = <<>> /\ Len(todo) = 1
    BY <2>1
  <2>4. QED
    BY <1>1, <2>2, <2>3 DEF MayCall, Calls, Follows
<1>2. CASE script = CreateReport /\ todo = CreateReport
  <2>1. script = <<"CreateReport">> /\ todo = <<"CreateReport">>
    BY <1>2 DEF CreateReport
  <2>2. script # <<>> /\ script \in Seq(Calls) /\ todo # <<>> /\ todo \in Seq(Calls)
    BY <2>1 DEF Calls
  <2>3. Head(todo) = "CreateReport" /\ Tail(todo) = <<>> /\ Len(todo) = 1
    BY <2>1
  <2>4. QED
    BY <1>2, <2>2, <2>3 DEF MayCall, Calls, Follows
<1>3. CASE script = Download /\ todo = Download
  <2>1. script = <<"GetReport">> /\ todo = <<"GetReport">>
    BY <1>3 DEF Download
  <2>2. script # <<>> /\ script \in Seq(Calls) /\ todo # <<>> /\ todo \in Seq(Calls)
    BY <2>1 DEF Calls
  <2>3. Head(todo) = "GetReport" /\ Tail(todo) = <<>> /\ Len(todo) = 1
    BY <2>1
  <2>4. QED
    BY <1>3, <2>2, <2>3 DEF MayCall, Calls, Follows
<1>4. CASE script = CreateChannel /\ todo = CreateChannel
  <2>1. script = <<"CreateNotificationChannel">> /\ todo = <<"CreateNotificationChannel">>
    BY <1>4 DEF CreateChannel
  <2>2. script # <<>> /\ script \in Seq(Calls) /\ todo # <<>> /\ todo \in Seq(Calls)
    BY <2>1 DEF Calls
  <2>3. Head(todo) = "CreateNotificationChannel" /\ Tail(todo) = <<>> /\ Len(todo) = 1
    BY <2>1
  <2>4. QED
    BY <1>4, <2>2, <2>3 DEF MayCall, Calls, Follows
<1>5. CASE script = UpdateChannel /\ todo = UpdateChannel
  <2>1. script = <<"UpdateNotificationChannel">> /\ todo = <<"UpdateNotificationChannel">>
    BY <1>5 DEF UpdateChannel
  <2>2. script # <<>> /\ script \in Seq(Calls) /\ todo # <<>> /\ todo \in Seq(Calls)
    BY <2>1 DEF Calls
  <2>3. Head(todo) = "UpdateNotificationChannel" /\ Tail(todo) = <<>> /\ Len(todo) = 1
    BY <2>1
  <2>4. QED
    BY <1>5, <2>2, <2>3 DEF MayCall, Calls, Follows
<1>6. CASE script = DeleteChannel /\ todo = DeleteChannel
  <2>1. script = <<"DeleteNotificationChannel">> /\ todo = <<"DeleteNotificationChannel">>
    BY <1>6 DEF DeleteChannel
  <2>2. script # <<>> /\ script \in Seq(Calls) /\ todo # <<>> /\ todo \in Seq(Calls)
    BY <2>1 DEF Calls
  <2>3. Head(todo) = "DeleteNotificationChannel" /\ Tail(todo) = <<>> /\ Len(todo) = 1
    BY <2>1
  <2>4. QED
    BY <1>6, <2>2, <2>3 DEF MayCall, Calls, Follows
<1>7. CASE script = CreateRule /\ todo = CreateRule
  <2>1. script = <<"CreateNotificationRule">> /\ todo = <<"CreateNotificationRule">>
    BY <1>7 DEF CreateRule
  <2>2. script # <<>> /\ script \in Seq(Calls) /\ todo # <<>> /\ todo \in Seq(Calls)
    BY <2>1 DEF Calls
  <2>3. Head(todo) = "CreateNotificationRule" /\ Tail(todo) = <<>> /\ Len(todo) = 1
    BY <2>1
  <2>4. QED
    BY <1>7, <2>2, <2>3 DEF MayCall, Calls, Follows
<1>8. CASE script = Approve /\ todo = Approve
  <2>1. script = <<"Approve">> /\ todo = <<"Approve">>
    BY <1>8 DEF Approve
  <2>2. script # <<>> /\ script \in Seq(Calls) /\ todo # <<>> /\ todo \in Seq(Calls)
    BY <2>1 DEF Calls
  <2>3. Head(todo) = "Approve" /\ Tail(todo) = <<>> /\ Len(todo) = 1
    BY <2>1
  <2>4. QED
    BY <1>8, <2>2, <2>3 DEF MayCall, Calls, Follows
<1>9. CASE script = Reject /\ todo = Reject
  <2>1. script = <<"Reject">> /\ todo = <<"Reject">>
    BY <1>9 DEF Reject
  <2>2. script # <<>> /\ script \in Seq(Calls) /\ todo # <<>> /\ todo \in Seq(Calls)
    BY <2>1 DEF Calls
  <2>3. Head(todo) = "Reject" /\ Tail(todo) = <<>> /\ Len(todo) = 1
    BY <2>1
  <2>4. QED
    BY <1>9, <2>2, <2>3 DEF MayCall, Calls, Follows
<1>10. CASE script = UpdateOrganization /\ todo = UpdateOrganization
  <2>1. script = <<"UpdateOrganization">> /\ todo = <<"UpdateOrganization">>
    BY <1>10 DEF UpdateOrganization
  <2>2. script # <<>> /\ script \in Seq(Calls) /\ todo # <<>> /\ todo \in Seq(Calls)
    BY <2>1 DEF Calls
  <2>3. Head(todo) = "UpdateOrganization" /\ Tail(todo) = <<>> /\ Len(todo) = 1
    BY <2>1
  <2>4. QED
    BY <1>10, <2>2, <2>3 DEF MayCall, Calls, Follows
<1>11. CASE script = UpdateUserRole /\ todo = UpdateUserRole
  <2>1. script = <<"UpdateUserRole">> /\ todo = <<"UpdateUserRole">>
    BY <1>11 DEF UpdateUserRole
  <2>2. script # <<>> /\ script \in Seq(Calls) /\ todo # <<>> /\ todo \in Seq(Calls)
    BY <2>1 DEF Calls
  <2>3. Head(todo) = "UpdateUserRole" /\ Tail(todo) = <<>> /\ Len(todo) = 1
    BY <2>1
  <2>4. QED
    BY <1>11, <2>2, <2>3 DEF MayCall, Calls, Follows
<1>12. CASE script = DeleteCluster /\ todo = DeleteCluster
  <2>1. script = <<"DeleteCluster", "CreateAuditEvent">> /\ todo = <<"DeleteCluster", "CreateAuditEvent">>
    BY <1>12 DEF DeleteCluster
  <2>2. script # <<>> /\ script \in Seq(Calls) /\ todo # <<>> /\ todo \in Seq(Calls)
    BY <2>1 DEF Calls
  <2>3. Head(todo) = "DeleteCluster" /\ Tail(todo) = <<"CreateAuditEvent">> /\ Len(todo) = 2
    BY <2>1
  <2>4. QED
    BY <1>12, <2>2, <2>3 DEF MayCall, Calls, Follows
<1>13. CASE script = DeleteCluster /\ todo = <<"CreateAuditEvent">>
  <2>1. script = <<"DeleteCluster", "CreateAuditEvent">> /\ todo = <<"CreateAuditEvent">>
    BY <1>13 DEF DeleteCluster
  <2>2. script # <<>> /\ script \in Seq(Calls) /\ todo # <<>> /\ todo \in Seq(Calls)
    BY <2>1 DEF Calls
  <2>3. Head(todo) = "CreateAuditEvent" /\ Tail(todo) = <<>> /\ Len(todo) = 1
    BY <2>1
  <2>4. QED
    BY <1>13, <2>2, <2>3 DEF MayCall, Calls, Follows
<1>14. CASE script = installProvider /\ todo = installProvider
  <2>1. script = <<"GetEnabledProviders", "SetEnabledProviders">> /\ todo = <<"GetEnabledProviders", "SetEnabledProviders">>
    BY <1>14 DEF installProvider
  <2>2. script # <<>> /\ script \in Seq(Calls) /\ todo # <<>> /\ todo \in Seq(Calls)
    BY <2>1 DEF Calls
  <2>3. Head(todo) = "GetEnabledProviders" /\ Tail(todo) = <<"SetEnabledProviders">> /\ Len(todo) = 2
    BY <2>1
  <2>4. QED
    BY <1>14, <2>2, <2>3 DEF MayCall, Calls, Follows
<1>15. CASE script = installProvider /\ todo = <<"SetEnabledProviders">>
  <2>1. script = <<"GetEnabledProviders", "SetEnabledProviders">> /\ todo = <<"SetEnabledProviders">>
    BY <1>15 DEF installProvider
  <2>2. script # <<>> /\ script \in Seq(Calls) /\ todo # <<>> /\ todo \in Seq(Calls)
    BY <2>1 DEF Calls
  <2>3. Head(todo) = "SetEnabledProviders" /\ Tail(todo) = <<>> /\ Len(todo) = 1
    BY <2>1
  <2>4. QED
    BY <1>15, <2>2, <2>3 DEF MayCall, Calls, Follows
<1>16. CASE script = CreateReport /\ todo = <<"store">>
  <2>1. script = <<"CreateReport">> /\ todo = <<"store">>
    BY <1>16 DEF CreateReport
  <2>2. script # <<>> /\ script \in Seq(Calls) /\ todo # <<>> /\ todo \in Seq(Calls)
    BY <2>1 DEF Calls
  <2>3. Head(todo) = "store" /\ Tail(todo) = <<>> /\ Len(todo) = 1
    BY <2>1
  <2>4. QED
    BY <1>16, <2>2, <2>3 DEF MayCall, Calls, Follows
<1>17. CASE script = CreateChannel /\ todo = <<"store">>
  <2>1. script = <<"CreateNotificationChannel">> /\ todo = <<"store">>
    BY <1>17 DEF CreateChannel
  <2>2. script # <<>> /\ script \in Seq(Calls) /\ todo # <<>> /\ todo \in Seq(Calls)
    BY <2>1 DEF Calls
  <2>3. Head(todo) = "store" /\ Tail(todo) = <<>> /\ Len(todo) = 1
    BY <2>1
  <2>4. QED
    BY <1>17, <2>2, <2>3 DEF MayCall, Calls, Follows
<1>18. CASE script = DeleteChannel /\ todo = <<"store">>
  <2>1. script = <<"DeleteNotificationChannel">> /\ todo = <<"store">>
    BY <1>18 DEF DeleteChannel
  <2>2. script # <<>> /\ script \in Seq(Calls) /\ todo # <<>> /\ todo \in Seq(Calls)
    BY <2>1 DEF Calls
  <2>3. Head(todo) = "store" /\ Tail(todo) = <<>> /\ Len(todo) = 1
    BY <2>1
  <2>4. QED
    BY <1>18, <2>2, <2>3 DEF MayCall, Calls, Follows
<1>19. CASE script = CreateRule /\ todo = <<"store">>
  <2>1. script = <<"CreateNotificationRule">> /\ todo = <<"store">>
    BY <1>19 DEF CreateRule
  <2>2. script # <<>> /\ script \in Seq(Calls) /\ todo # <<>> /\ todo \in Seq(Calls)
    BY <2>1 DEF Calls
  <2>3. Head(todo) = "store" /\ Tail(todo) = <<>> /\ Len(todo) = 1
    BY <2>1
  <2>4. QED
    BY <1>19, <2>2, <2>3 DEF MayCall, Calls, Follows
<1>20. CASE script \in Alone /\ todo = script
  BY <1>20, <1>1, <1>2, <1>3, <1>4, <1>5, <1>6, <1>7, <1>8, <1>9, <1>10, <1>11, Zenon DEF Alone
<1>21. CASE script = DeleteCluster /\ todo \in {DeleteCluster, <<"CreateAuditEvent">>}
  BY <1>21, <1>12, <1>13, Zenon
<1>22. CASE script = installProvider /\ todo \in {installProvider, <<"SetEnabledProviders">>}
  BY <1>22, <1>14, <1>15, Zenon
<1>23. CASE script \in Slicing /\ todo = <<"store">>
  BY <1>23, <1>16, <1>17, <1>18, <1>19, Zenon DEF Slicing
<1>24. QED
  BY <1>20, <1>21, <1>22, <1>23, Zenon DEF Stage

(***************************************************************************)
(* Induction over the natural numbers, with a set for the predicate.       *)
(***************************************************************************)
LEMMA SetInduction ==
  ASSUME NEW T \in SUBSET Nat, 0 \in T, \A n \in T : n + 1 \in T
  PROVE  T = Nat
<1> DEFINE Less == OpToRel(<, Nat)
<1>1. \A m, n \in Nat : n < m => <<n, m>> \in Less
  BY DEF OpToRel
<1>2. IsWellFoundedOn(Less, Nat)
  BY NatLessThanWellFounded
<1> HIDE DEF Less
<1>3. SUFFICES ASSUME Nat \ T # {} PROVE FALSE
  OBVIOUS
<1>4. \E m \in Nat \ T : \A n \in Nat \ T : ~ (<<n, m>> \in Less)
  <2>1. Nat \ T \subseteq Nat
    OBVIOUS
  <2>2. QED
    BY <1>2, <1>3, <2>1, WFMin, Zenon
<1>5. PICK m \in Nat \ T : \A n \in Nat \ T : ~ (<<n, m>> \in Less)
  BY <1>4
<1>6. m # 0 /\ m \in Nat
  OBVIOUS
<1>7. m - 1 \in Nat /\ m - 1 < m /\ (m - 1) + 1 = m
  BY <1>6
<1>8. m - 1 \in T
  BY <1>1, <1>5, <1>6, <1>7
<1>9. QED
  BY <1>5, <1>7, <1>8
-----------------------------------------------------------------------------
(***************************************************************************)
(* A list with one element more.                                           *)
(***************************************************************************)
LEMMA Appended ==
  ASSUME NEW S, NEW s \in Seq(S), NEW x \in S
  PROVE  /\ Append(s, x) \in Seq(S) /\ Range(Append(s, x)) = Range(s) \cup {x}
         /\ Distinct(s) /\ x \notin Range(s) => Distinct(Append(s, x))
<1>1. /\ Append(s, x) \in Seq(S) /\ Len(Append(s, x)) = Len(s) + 1 /\ Len(s) \in Nat
      /\ \A i \in 1 .. Len(s) : Append(s, x)[i] = s[i]
      /\ Append(s, x)[Len(s) + 1] = x
  OBVIOUS
<1>2. DOMAIN s = 1 .. Len(s) /\ DOMAIN Append(s, x) = 1 .. Len(s) + 1
  BY <1>1
<1>3. Range(Append(s, x)) = Range(s) \cup {x}
  BY <1>1, <1>2 DEF Range
<1>4. ASSUME Distinct(s), x \notin Range(s) PROVE Distinct(Append(s, x))
  <2> SUFFICES ASSUME NEW i \in 1 .. Len(s) + 1, NEW j \in 1 .. Len(s) + 1,
                      Append(s, x)[i] = Append(s, x)[j]
               PROVE  i = j
    BY <1>1 DEF Distinct
  <2>1. \A k \in 1 .. Len(s) : s[k] # x
    BY <1>2, <1>4 DEF Range
  <2>2. QED
    BY <1>1, <1>4, <2>1 DEF Distinct
<1>5. QED
  BY <1>1, <1>3, <1>4

(***************************************************************************)
(* uninstallProvider keeps the other providers in their order.             *)
(***************************************************************************)
Loop(s, p, m, f) == f = [n \in 0 .. m |-> IF n = 0 THEN <<>>
                                          ELSE IF s[n] = p THEN f[n - 1] ELSE Append(f[n - 1], s[n])]

(***************************************************************************)
(* The loop of uninstallProvider has a result for every length.            *)
(***************************************************************************)
LEMMA LoopRuns ==
  ASSUME NEW s, NEW p, NEW m \in Nat
  PROVE  \E f : Loop(s, p, m, f)
<1> DEFINE T == {n \in Nat : \E f : Loop(s, p, n, f)}
<1>1. 0 \in T
  <2>1. Loop(s, p, 0, [n \in 0 .. 0 |-> <<>>])
    BY DEF Loop
  <2>2. QED
    BY <2>1
<1>2. ASSUME NEW n \in T PROVE n + 1 \in T
  <2>1. PICK f : Loop(s, p, n, f)
    OBVIOUS
  <2> DEFINE next == IF s[n + 1] = p THEN f[n] ELSE Append(f[n], s[n + 1])
             g    == [k \in 0 .. n + 1 |-> IF k = n + 1 THEN next ELSE f[k]]
  <2>2. n \in Nat /\ n + 1 \in Nat
    OBVIOUS
  <2>3. \A k \in 0 .. n : f[k] = IF k = 0 THEN <<>> ELSE IF s[k] = p THEN f[k - 1] ELSE Append(f[k - 1], s[k])
    BY <2>1 DEF Loop
  <2>4. ASSUME NEW k \in 0 .. n + 1
        PROVE  g[k] = IF k = 0 THEN <<>> ELSE IF s[k] = p THEN g[k - 1] ELSE Append(g[k - 1], s[k])
    BY <2>2, <2>3
  <2>5. Loop(s, p, n + 1, g)
    BY <2>4 DEF Loop
  <2>6. QED
    BY <2>2, <2>5
<1> HIDE DEF T
<1>3. T \subseteq Nat
  BY DEF T
<1>4. T = Nat
  BY <1>1, <1>2, <1>3, SetInduction
<1>5. QED
  BY <1>4 DEF T

(***************************************************************************)
(* What the loop has kept after any number of elements.                    *)
(***************************************************************************)
LEMMA LoopKeeps ==
  ASSUME NEW S, NEW s \in Seq(S), NEW p, NEW f, Loop(s, p, Len(s), f), NEW n \in 0 .. Len(s)
  PROVE  /\ f[n] \in Seq(S) /\ Range(f[n]) = {s[i] : i \in 1 .. n} \ {p}
         /\ Distinct(s) => Distinct(f[n])
<1> DEFINE Kept(k) == /\ f[k] \in Seq(S) /\ Range(f[k]) = {s[i] : i \in 1 .. k} \ {p}
                      /\ Distinct(s) => Distinct(f[k])
           T == {k \in Nat : k <= Len(s) => Kept(k)}
<1>1. \A k \in 0 .. Len(s) : f[k] = IF k = 0 THEN <<>> ELSE IF s[k] = p THEN f[k - 1] ELSE Append(f[k - 1], s[k])
  BY DEF Loop
<1>2. 0 \in T
  <2>1. f[0] = <<>>
    <3>1. 0 \in 0 .. Len(s)
      OBVIOUS
    <3>2. QED
      BY <1>1, <3>1
  <2>2. <<>> \in Seq(S) /\ Len(<<>>) = 0 /\ Range(<<>>) = {}
    BY DEF Range
  <2>3. Distinct(<<>>)
    BY <2>2 DEF Distinct
  <2>4. {s[i] : i \in 1 .. 0} = {}
    OBVIOUS
  <2>5. QED
    BY <2>1, <2>2, <2>3, <2>4
<1>3. ASSUME NEW k \in T PROVE k + 1 \in T
  <2> SUFFICES ASSUME k + 1 <= Len(s) PROVE Kept(k + 1)
    OBVIOUS
  <2>1. k \in Nat /\ k + 1 \in 0 .. Len(s) /\ k + 1 # 0 /\ Kept(k) /\ s[k + 1] \in S
    OBVIOUS
  <2>2. {s[i] : i \in 1 .. k + 1} = {s[i] : i \in 1 .. k} \cup {s[k + 1]}
    BY <2>1
  <2>3. f[k + 1] = IF s[k + 1] = p THEN f[k] ELSE Append(f[k], s[k + 1])
    BY <1>1, <2>1
  <2>4. CASE s[k + 1] = p
    BY <2>1, <2>2, <2>3, <2>4
  <2>5. CASE s[k + 1] # p
    <3>1. /\ f[k + 1] \in Seq(S) /\ Range(f[k + 1]) = Range(f[k]) \cup {s[k + 1]}
          /\ Distinct(f[k]) /\ s[k + 1] \notin Range(f[k]) => Distinct(f[k + 1])
      BY <2>1, <2>3, <2>5, Appended
    <3>2. Distinct(s) => s[k + 1] \notin Range(f[k])
      BY <2>1 DEF Distinct
    <3>3. QED
      BY <2>1, <2>2, <2>5, <3>1, <3>2
  <2>6. QED
    BY <2>4, <2>5
<1> HIDE DEF T
<1>4. T \subseteq Nat
  BY DEF T
<1>5. n \in T
  BY <1>2, <1>3, <1>4, SetInduction
<1>6. QED
  BY <1>5 DEF T

(***************************************************************************)
(* What uninstallProvider writes back.                                     *)
(***************************************************************************)
LEMMA UninstalledRemoves ==
  ASSUME NEW r \in Requests, req[r].list \in Seq(Providers)
  PROVE  /\ Uninstalled(r) \in Seq(Providers)
         /\ Range(Uninstalled(r)) = Range(req[r].list) \ {req[r].row}
         /\ Distinct(req[r].list) => Distinct(Uninstalled(r))
<1> DEFINE s == req[r].list
           p == req[r].row
           f == CHOOSE f : Loop(s, p, Len(s), f)
<1>1. Uninstalled(r) = f[Len(s)]
  BY Zenon DEF Uninstalled, Loop
<1>2. s \in Seq(Providers) /\ Len(s) \in Nat
  OBVIOUS
<1>3. Loop(s, p, Len(s), f)
  BY <1>2, LoopRuns
<1>4. Range(s) = {s[i] : i \in 1 .. Len(s)}
  BY <1>2 DEF Range
<1> HIDE DEF f, s, p
<1>5. Len(s) \in 0 .. Len(s)
  BY <1>2
<1>6. /\ f[Len(s)] \in Seq(Providers) /\ Range(f[Len(s)]) = Range(s) \ {p}
      /\ Distinct(s) => Distinct(f[Len(s)])
  <2>1. \A n \in 0 .. Len(s) : /\ f[n] \in Seq(Providers) /\ Range(f[n]) = {s[i] : i \in 1 .. n} \ {p}
                               /\ Distinct(s) => Distinct(f[n])
    BY <1>2, <1>3, LoopKeeps
  <2>2. QED
    BY <1>4, <1>5, <2>1
<1>7. QED
  BY <1>1, <1>6 DEF s, p

(***************************************************************************)
(* A list without duplicates has as many members as places.                *)
(***************************************************************************)
LEMMA DistinctLen ==
  ASSUME NEW S, NEW s \in Seq(S), Distinct(s)
  PROVE  Len(s) = Cardinality(Range(s))
<1>1. Len(s) \in Nat /\ DOMAIN s = 1 .. Len(s)
  OBVIOUS
<1>2. IsFiniteSet(1 .. Len(s)) /\ Cardinality(1 .. Len(s)) = Len(s)
  BY <1>1, FS_Interval
<1>3. s \in [1 .. Len(s) -> Range(s)] /\ \A x \in Range(s) : \E i \in 1 .. Len(s) : s[i] = x
  BY <1>1 DEF Range
<1>4. s \in Bijection(1 .. Len(s), Range(s))
  BY <1>1, <1>3 DEF Distinct, Bijection, Injection, Surjection, IsInjective
<1>5. ExistsBijection(1 .. Len(s), Range(s))
  BY <1>4 DEF ExistsBijection
<1>6. QED
  BY <1>2, <1>5, FS_Bijection
-----------------------------------------------------------------------------

(***************************************************************************)
(* The methods that insert rows or read providers are different methods.   *)
(***************************************************************************)
LEMMA Methods ==
  /\ Head(RegisterCluster) = "CreateCluster" /\ Head(DeleteCluster) = "DeleteCluster"
  /\ Head(CreateReport) = "CreateReport" /\ Head(CreateChannel) = "CreateNotificationChannel"
  /\ Head(CreateRule) = "CreateNotificationRule" /\ Head(installProvider) = "GetEnabledProviders"
  /\ Head(DeleteChannel) = "DeleteNotificationChannel" /\ Head(Download) = "GetReport"
  /\ Head(UpdateChannel) = "UpdateNotificationChannel" /\ Head(Approve) = "Approve"
  /\ Head(Reject) = "Reject" /\ Head(UpdateOrganization) = "UpdateOrganization"
  /\ Head(UpdateUserRole) = "UpdateUserRole"
  BY DEF RegisterCluster, DeleteCluster, CreateReport, CreateChannel, CreateRule, installProvider,
     DeleteChannel, Download, UpdateChannel, Approve, Reject, UpdateOrganization, UpdateUserRole

(***************************************************************************)
(* A row belongs to one table.                                             *)
(***************************************************************************)
LEMMA BornOnce ==
  ASSUME NEW x, NEW t \in Tables, NEW u \in Tables, Born(x, t), Born(x, u)
  PROVE  t = u
<1>1. ASSUME NEW r, Births(r, t), Births(r, u) PROVE t = u
  BY <1>1, Methods DEF Births
<1>2. QED
  BY <1>1 DEF Born

(***************************************************************************)
(* A step of one request, which keeps its method, its row and its place.   *)
(***************************************************************************)
Answers == {"nothing", "ok", "error", "lost"}
Moves(r) ==
  /\ \A o \in Requests \ {r} : req'[o] = req[o] /\ told'[o] = told[o]
  /\ req'[r].script = req[r].script /\ req'[r].row = req[r].row
  /\ req'[r].installs = req[r].installs
  /\ req'[r].list = req[r].list \/ Distinct(req'[r].list)
  /\ req' \in [Requests -> Conversations] /\ told' \in [Requests -> Answers]
  /\ ScriptInv(r)'

(***************************************************************************)
(* The last answer of a request.                                           *)
(***************************************************************************)
LEMMA AnswerEnds ==
  ASSUME TypeOK, NEW r \in Requests, NEW a \in {"ok", "error"}, Answer(r, a)
  PROVE  Moves(r) /\ ~Working(r)' /\ told'[r] = a
<1>1. req[r] \in Conversations /\ <<>> \in Seq(Calls)
  BY DEF TypeOK
<1>2. [req[r] EXCEPT !.todo = <<>>] \in Conversations
  BY <1>1 DEF Conversations
<1>3. /\ req' = [req EXCEPT ![r] = [req[r] EXCEPT !.todo = <<>>]] /\ told' = [told EXCEPT ![r] = a]
      /\ req \in [Requests -> Conversations] /\ told \in [Requests -> Answers]
  BY DEF Answer, TypeOK, Answers
<1>4. /\ req' \in [Requests -> Conversations] /\ told' \in [Requests -> Answers]
      /\ req'[r] = [req[r] EXCEPT !.todo = <<>>] /\ told'[r] = a
      /\ \A o \in Requests \ {r} : req'[o] = req[o] /\ told'[o] = told[o]
  BY <1>2, <1>3 DEF Answers
<1>5. /\ req'[r].script = req[r].script /\ req'[r].row = req[r].row
      /\ req'[r].installs = req[r].installs /\ req'[r].todo = <<>>
      /\ req'[r].list = req[r].list
  BY <1>1, <1>4 DEF Conversations
<1>6. ~Working(r)' /\ told'[r] # "nothing"
  BY <1>4, <1>5 DEF Working
<1>7. QED
  BY <1>4, <1>5, <1>6 DEF Moves, ScriptInv

(***************************************************************************)
(* A request under way, and where it is.                                   *)
(***************************************************************************)
LEMMA Begins ==
  ASSUME IInv, NEW r \in Requests, Working(r)
  PROVE  /\ TypeOK /\ ScriptInv(r) /\ req[r] \in Conversations /\ told[r] = "nothing"
         /\ Stage(req[r].script, req[r].todo) /\ MayCall(req[r].script, Head(req[r].todo))
         /\ Follows(req[r].todo) /\ req[r].todo # <<>> /\ req[r].todo \in Seq(Calls)
<1>1. TypeOK /\ ScriptInv(r)
  BY DEF IInv
<1>2. QED
  BY <1>1, Scripts DEF ScriptInv, TypeOK

(***************************************************************************)
(* The next call of a request, or its answer.                              *)
(***************************************************************************)
LEMMA AdvanceMoves ==
  ASSUME IInv, NEW r \in Requests, Working(r), Advance(r)
  PROVE  /\ Moves(r)
         /\ Head(req[r].todo) \notin {"DeleteCluster", "GetEnabledProviders"} => ~Working(r)'
         /\ IF Head(req[r].todo) \in {"DeleteCluster", "GetEnabledProviders"}
            THEN told'[r] = "nothing" ELSE told'[r] = "ok"
         /\ ~At(r, "store")'
         /\ Head(req[r].todo) # "GetEnabledProviders" => ~At(r, "SetEnabledProviders")'
<1>1. /\ TypeOK /\ ScriptInv(r) /\ req[r] \in Conversations /\ told[r] = "nothing"
      /\ Stage(req[r].script, req[r].todo) /\ MayCall(req[r].script, Head(req[r].todo))
      /\ Follows(req[r].todo)
  BY Begins
<1>2. CASE Head(req[r].todo) \notin {"DeleteCluster", "GetEnabledProviders"}
  <2>1. Answer(r, "ok")
    BY <1>1, <1>2 DEF Follows, Advance
  <2>2. QED
    BY <1>1, <1>2, <2>1, AnswerEnds DEF At
<1>3. CASE Head(req[r].todo) \in {"DeleteCluster", "GetEnabledProviders"}
  <2> DEFINE next == [req[r] EXCEPT !.todo = Tail(req[r].todo)]
             call == IF Head(req[r].todo) = "DeleteCluster" THEN "CreateAuditEvent"
                     ELSE "SetEnabledProviders"
  <2>1. /\ Len(req[r].todo) # 1 /\ Tail(req[r].todo) = <<call>> /\ call \in Calls
        /\ req[r].script = IF call = "CreateAuditEvent" THEN DeleteCluster ELSE installProvider
    <3>1. CASE Head(req[r].todo) = "DeleteCluster"
      <4>1. call = "CreateAuditEvent" /\ req[r].script = DeleteCluster
        BY <1>1, <3>1 DEF MayCall
      <4>2. Len(req[r].todo) = 2 /\ Tail(req[r].todo) = <<"CreateAuditEvent">>
        BY <1>1, <3>1 DEF Follows
      <4>3. QED
        BY <4>1, <4>2 DEF Calls
    <3>2. CASE Head(req[r].todo) = "GetEnabledProviders"
      <4>1. call = "SetEnabledProviders" /\ req[r].script = installProvider
        BY <1>1, <3>2 DEF MayCall
      <4>2. Len(req[r].todo) = 2 /\ Tail(req[r].todo) = <<"SetEnabledProviders">>
        BY <1>1, <3>2 DEF Follows
      <4>3. QED
        BY <4>1, <4>2 DEF Calls
    <3>3. QED
      BY <1>3, <3>1, <3>2
  <2>2. req' = [req EXCEPT ![r] = next] /\ told' = told
    BY <2>1 DEF Advance
  <2>3. <<call>> \in Seq(Calls) /\ <<call>> # <<>> /\ Head(<<call>>) = call
    BY <2>1
  <2>4. /\ next \in Conversations /\ next.todo = <<call>> /\ next.script = req[r].script
        /\ next.row = req[r].row /\ next.installs = req[r].installs /\ next.list = req[r].list
    BY <1>1, <2>1, <2>3 DEF Conversations
  <2> HIDE DEF next
  <2>5. /\ req'[r] = next /\ told'[r] = "nothing"
        /\ req' \in [Requests -> Conversations] /\ told' \in [Requests -> Answers]
        /\ \A o \in Requests \ {r} : req'[o] = req[o] /\ told'[o] = told[o]
    BY <1>1, <2>2, <2>4 DEF TypeOK, Answers
  <2>6. Stage(req[r].script, <<call>>)
    BY <1>1, <2>1 DEF Stage
  <2>7. Working(r)' /\ Head(req'[r].todo) = call
    BY <2>3, <2>4, <2>5 DEF Working
  <2>8. ScriptInv(r)'
    BY <2>4, <2>5, <2>6, <2>7 DEF ScriptInv
  <2>9. QED
    BY <1>3, <2>4, <2>5, <2>7, <2>8 DEF Moves, At
<1>4. QED
  BY <1>2, <1>3
-----------------------------------------------------------------------------
(***************************************************************************)
(* The tables, by a step of one request: a row comes with its request or   *)
(* out of a slice, and goes for a deletion.                                *)
(***************************************************************************)
LEMMA TableStep ==
  ASSUME IInv, NEW r \in Requests, Moves(r), Working(r), store' = store,
         faults \in Nat, faults' \in Nat, faults <= faults', mark' \in [Rows -> Marks],
         table' \in [Tables -> SUBSET Rows],
         \A t \in Tables : \A x \in table'[t] :
            \/ x \in table[t]
            \/ x = r /\ Births(r, t) /\ mark'[r] \in Words(t)
            \/ Storing(r) /\ t = req[r].into /\ x \in req[r].slice,
         Storing(r)' =>
            /\ store = "memory" /\ req'[r].into \in {"reports", "channels", "rules"}
            /\ req'[r].into = "reports" => req[r].script = CreateReport
            /\ \A x \in req'[r].slice :
                 \/ x \in table[req'[r].into]
                 \/ x = r /\ Births(r, req'[r].into) /\ mark'[r] \in Words(req'[r].into),
         \A x \in Rows : mark'[x] # mark[x] =>
            \E t \in Tables : (x \in table[t] \/ (x = r /\ Births(r, t))) /\ mark'[x] \in Words(t),
         \A t \in Tables : Durable(t) =>
            \A x \in table[t] : x \in table'[t] \/ (Deletes(r, t) /\ req[r].row = x),
         \A t \in Tables : Durable(t) /\ Births(r, t) /\ told'[r] = "ok" => r \in table'[t],
         \A q \in timers' : q \in timers \/ (q = r /\ req[r].script = CreateReport),
         timers \subseteq Requests
  PROVE  TableInv'
<1>1. /\ SliceInv /\ OriginInv /\ MarkInv /\ TimerInv /\ AckedRowsKept /\ TypeOK
      /\ {"reports", "channels", "rules"} \subseteq Tables
  BY DEF IInv, TableInv, Tables
<1>2. \A o \in Requests : req'[o].script = req[o].script /\ req'[o].row = req[o].row
  BY DEF Moves
<1>3. \A o \in Requests \ {r} : Storing(o)' => Storing(o) /\ req'[o] = req[o]
  BY DEF Moves, Storing, At, Working
<1>4. \A x, t : Born(x, t)' <=> Born(x, t)
  BY <1>2 DEF Born, Births
<1>5. SliceInv'
  BY <1>1, <1>2, <1>3 DEF SliceInv
<1>6. /\ \A t \in Tables : \A x \in table'[t] : Born(x, t)
      /\ \A o \in Requests : Storing(o)' => \A x \in req'[o].slice : Born(x, req'[o].into)
  BY <1>1, <1>3 DEF OriginInv, SliceInv, Born
<1>7. OriginInv'
  BY <1>4, <1>6 DEF OriginInv
<1>8. ASSUME NEW x \in Rows, NEW t \in Tables, Born(x, t), mark[x] \in Words(t)
      PROVE  mark'[x] \in Words(t)
  <2>1. CASE mark'[x] = mark[x]
    BY <1>8, <2>1
  <2>2. CASE mark'[x] # mark[x]
    <3>1. PICK u \in Tables : (x \in table[u] \/ (x = r /\ Births(r, u))) /\ mark'[x] \in Words(u)
      BY <2>2
    <3>2. Born(x, u)
      BY <1>1, <3>1 DEF OriginInv, Born
    <3>3. QED
      BY <1>8, <3>1, <3>2, BornOnce
  <2>3. QED
    BY <2>1, <2>2
<1>9. MarkInv'
  <2>1. ASSUME NEW t \in Tables, NEW x \in table'[t] PROVE mark'[x] \in Words(t)
    <3>1. x \in Rows /\ Born(x, t)
      BY <1>6
    <3>2. CASE x \in table[t] \/ (Storing(r) /\ t = req[r].into /\ x \in req[r].slice)
      BY <1>1, <1>8, <3>1, <3>2 DEF MarkInv
    <3>3. QED
      BY <3>2
  <2>2. ASSUME NEW o \in Requests, Storing(o)', NEW x \in req'[o].slice
        PROVE  mark'[x] \in Words(req'[o].into)
    <3>1. req'[o].into \in Tables /\ Born(x, req'[o].into)
      BY <1>1, <1>5, <1>6, <2>2 DEF SliceInv
    <3>2. x \in Rows
      BY <2>2 DEF Moves, Conversations
    <3>3. CASE o # r
      BY <1>1, <1>3, <1>8, <2>2, <3>1, <3>2, <3>3 DEF MarkInv
    <3>4. CASE o = r /\ x \in table[req'[r].into]
      BY <1>1, <1>8, <3>1, <3>2, <3>4 DEF MarkInv
    <3>5. QED
      BY <2>2, <3>3, <3>4
  <2>3. QED
    BY <2>1, <2>2 DEF MarkInv
<1>10. TimerInv'
  BY <1>1, <1>2 DEF TimerInv
<1>11. AckedRowsKept'
  <2> SUFFICES ASSUME NEW t \in Tables, NEW q \in Requests, Durable(t)', Inserts(q, t)'
               PROVE  q \in table'[t] \/ \E o \in Requests : Deletes(o, t)' /\ req'[o].row = q
    BY DEF AckedRowsKept
  <2>1. Durable(t) /\ \A o \in Requests : Deletes(o, t) => Deletes(o, t)'
    BY <1>2 DEF Durable, Deletes
  <2>2. told'[q] = "ok" /\ Births(q, t)
    BY <1>2 DEF Inserts, Births
  <2>3. CASE q = r
    BY <2>1, <2>2, <2>3
  <2>4. CASE q # r
    <3>1. Inserts(q, t)
      BY <2>2, <2>4 DEF Inserts, Births, Moves
    <3>2. q \in table[t] \/ \E o \in Requests : Deletes(o, t) /\ req[o].row = q
      BY <1>1, <2>1, <3>1 DEF AckedRowsKept
    <3>3. QED
      BY <1>2, <2>1, <3>2
  <2>5. QED
    BY <2>3, <2>4
<1>12. QED
  BY <1>5, <1>7, <1>9, <1>10, <1>11 DEF TableInv

(***************************************************************************)
(* The providers, by a step of a request that does not work on them.       *)
(***************************************************************************)
LEMMA ProvidersStay ==
  ASSUME IInv, NEW r \in Requests, Moves(r), NoProviders, ~Holder(r)'
  PROVE  ProviderInv'
<1>1. /\ providers' = providers /\ wanted' = wanted /\ disturbed' = disturbed
      /\ Distinct(providers) /\ AskInv /\ HoldInv /\ ProvidersKept
  BY DEF NoProviders, IInv, ProviderInv
<1>2. \A o \in Requests : Holder(o)' => Holder(o) /\ req'[o] = req[o]
  BY DEF Holder, At, Working, Moves
<1>3. HoldInv'
  BY <1>1, <1>2 DEF HoldInv
<1>4. AskInv'
  BY <1>1 DEF AskInv, Moves
<1>5. QED
  BY <1>1, <1>3, <1>4 DEF ProviderInv, ProvidersKept, Distinct

(***************************************************************************)
(* Requests that a step leaves alone stay where they are.                  *)
(***************************************************************************)
LEMMA OthersStay ==
  ASSUME IInv, NEW r \in Requests, Moves(r)
  PROVE  \A o \in Requests : ScriptInv(o)'
<1>1. ASSUME NEW o \in Requests \ {r} PROVE ScriptInv(o)'
  <2>1. ScriptInv(o) /\ req'[o] = req[o] /\ told'[o] = told[o]
    BY DEF IInv, Moves
  <2>2. QED
    BY <2>1 DEF ScriptInv, Working
<1>2. QED
  BY <1>1 DEF Moves
-----------------------------------------------------------------------------

(***************************************************************************)
(* A call that is the last of its method, or one of a deletion.            *)
(***************************************************************************)
LEMMA TableKeeps ==
  ASSUME IInv, NEW r \in Requests, Moves(r), Working(r), store' = store, NoProviders,
         faults' \in 0 .. MaxFaults, faults <= faults', mark' \in [Rows -> Marks],
         table' \in [Tables -> SUBSET Rows], ~Holder(r)',
         \A t \in Tables : \A x \in table'[t] :
            \/ x \in table[t]
            \/ x = r /\ Births(r, t) /\ mark'[r] \in Words(t)
            \/ Storing(r) /\ t = req[r].into /\ x \in req[r].slice,
         Storing(r)' =>
            /\ store = "memory" /\ req'[r].into \in {"reports", "channels", "rules"}
            /\ req'[r].into = "reports" => req[r].script = CreateReport
            /\ \A x \in req'[r].slice :
                 \/ x \in table[req'[r].into]
                 \/ x = r /\ Births(r, req'[r].into) /\ mark'[r] \in Words(req'[r].into),
         \A x \in Rows : mark'[x] # mark[x] =>
            \E t \in Tables : (x \in table[t] \/ (x = r /\ Births(r, t))) /\ mark'[x] \in Words(t),
         \A t \in Tables : Durable(t) =>
            \A x \in table[t] : x \in table'[t] \/ (Deletes(r, t) /\ req[r].row = x),
         \A t \in Tables : Durable(t) /\ Births(r, t) /\ told'[r] = "ok" => r \in table'[t],
         timers' \subseteq Requests,
         \A q \in timers' : q \in timers \/ (q = r /\ req[r].script = CreateReport)
  PROVE  IInv'
<1>1. /\ TypeOK /\ faults \in Nat /\ faults' \in Nat /\ timers \subseteq Requests
  BY DEF IInv, TypeOK
<1>2. TableInv'
  BY <1>1, TableStep
<1>3. ProviderInv' /\ \A o \in Requests : ScriptInv(o)'
  BY ProvidersStay, OthersStay
<1>4. TypeOK'
  <2>1. MarkInv' /\ providers' = providers /\ wanted' = wanted /\ disturbed' = disturbed
    BY <1>2 DEF TableInv, NoProviders
  <2>2. /\ store' \in {"memory", "postgres"} /\ providers' \in Seq(Providers)
        /\ wanted' \subseteq Providers /\ disturbed' \in BOOLEAN
        /\ req' \in [Requests -> Conversations] /\ told' \in [Requests -> Answers]
    BY <1>1, <2>1 DEF TypeOK, Moves
  <2>3. QED
    BY <2>1, <2>2 DEF MarkInv, TypeOK, Words, Tables, Answers
<1>5. QED
  BY <1>2, <1>3, <1>4 DEF IInv

(***************************************************************************)
(* A new row, in a statement or under the mutex.                           *)
(***************************************************************************)
LEMMA InsertKeeps ==
  ASSUME IInv, NEW r \in Requests, Working(r), NEW t \in Tables, Births(r, t),
         Head(req[r].todo) \notin {"DeleteCluster", "GetEnabledProviders", "store"},
         Put(t, Plus(t, r)), Advance(r), Rest,
         \/ mark' = mark /\ Words(t) = Marks
         \/ \E m \in Words(t) \cap Marks : mark' = [mark EXCEPT ![r] = m],
         timers' = timers \/ (timers' = timers \cup {r} /\ req[r].script = CreateReport)
  PROVE  IInv'
<1>1. /\ TypeOK /\ r \in Rows /\ table \in [Tables -> SUBSET Rows] /\ mark \in [Rows -> Marks]
      /\ timers \subseteq Requests /\ faults \in 0 .. MaxFaults
  BY DEF IInv, TypeOK, Rows
<1>2. /\ Moves(r) /\ ~Holder(r)' /\ ~Storing(r)' /\ told'[r] = "ok"
  BY AdvanceMoves DEF Holder, Storing
<1>3. store' = store /\ faults' = faults /\ NoProviders
  BY DEF Rest
<1>4. /\ table' \in [Tables -> SUBSET Rows] /\ table'[t] = table[t] \cup {r}
      /\ \A u \in Tables \ {t} : table'[u] = table[u]
  BY <1>1 DEF Put, Plus
<1>5. /\ mark' \in [Rows -> Marks] /\ mark'[r] \in Words(t)
      /\ \A x \in Rows \ {r} : mark'[x] = mark[x]
  BY <1>1
<1>6. \A u \in Tables : Births(r, u) => u = t
  BY BornOnce DEF Born
<1>7. QED
  BY <1>1, <1>2, <1>3, <1>4, <1>5, <1>6, TableKeeps

(***************************************************************************)
(* A deletion, in a statement or under the mutex.                          *)
(***************************************************************************)
LEMMA RemoveKeeps ==
  ASSUME IInv, NEW r \in Requests, Working(r), NEW t \in Tables, Deletes(r, t),
         Head(req[r].todo) \in {"DeleteCluster", "DeleteNotificationChannel"},
         Put(t, Minus(t, r)), Advance(r), Rest, Untimed
  PROVE  IInv'
<1>1. /\ TypeOK /\ table \in [Tables -> SUBSET Rows] /\ mark \in [Rows -> Marks]
      /\ timers \subseteq Requests /\ faults \in 0 .. MaxFaults
      /\ MayCall(req[r].script, Head(req[r].todo))
  BY Begins DEF TypeOK
<1>2. /\ Moves(r) /\ ~Holder(r)' /\ ~Storing(r)'
      /\ Head(req[r].todo) = "DeleteCluster" => told'[r] = "nothing"
  BY AdvanceMoves DEF Holder, Storing
<1>3. /\ store' = store /\ faults' = faults /\ NoProviders /\ mark' = mark /\ timers' = timers
  BY DEF Rest, Untimed
<1>4. /\ table' \in [Tables -> SUBSET Rows] /\ table'[t] = table[t] \ {req[r].row}
      /\ \A u \in Tables \ {t} : table'[u] = table[u]
  BY <1>1 DEF Put, Minus
<1>5. \A u \in Tables : Births(r, u) => told'[r] = "nothing"
  BY <1>1, <1>2, Methods DEF Births, MayCall
<1>6. QED
  BY <1>1, <1>2, <1>3, <1>4, <1>5, TableKeeps

(***************************************************************************)
(* A call that leaves the tables: at most a row of one gets another mark.  *)
(***************************************************************************)
LEMMA QuietKeeps ==
  ASSUME IInv, NEW r \in Requests, Working(r), UNCHANGED <<table, store>>, NoProviders,
         faults' \in 0 .. MaxFaults, faults <= faults', UNCHANGED timers,
         \/ mark' = mark
         \/ \E t \in Tables : \E m \in Words(t) \cap Marks :
              req[r].row \in table[t] /\ mark' = [mark EXCEPT ![req[r].row] = m],
         \/ Answer(r, "error")
         \/ /\ Advance(r) /\ Head(req[r].todo) # "GetEnabledProviders"
            /\ \A t \in Tables : Births(r, t) => ~Durable(t)
  PROVE  IInv'
<1>1. /\ TypeOK /\ table \in [Tables -> SUBSET Rows] /\ mark \in [Rows -> Marks]
      /\ timers \subseteq Requests
  BY DEF IInv, TypeOK
<1>2. Moves(r) /\ ~Holder(r)' /\ ~Storing(r)'
  <2>1. CASE Answer(r, "error")
    BY <1>1, <2>1, AnswerEnds DEF Holder, Storing, At
  <2>2. CASE Advance(r) /\ Head(req[r].todo) # "GetEnabledProviders"
    BY <2>2, AdvanceMoves DEF Holder, Storing
  <2>3. QED
    BY <2>1, <2>2
<1>3. \A t \in Tables : Births(r, t) => ~Durable(t) \/ told'[r] = "error"
  BY <1>1, AnswerEnds
<1>4. /\ mark' \in [Rows -> Marks]
      /\ \A x \in Rows : mark'[x] # mark[x] =>
           \E t \in Tables : x \in table[t] /\ mark'[x] \in Words(t)
  <2>1. CASE mark' = mark
    BY <1>1, <2>1
  <2>2. ASSUME NEW t \in Tables, NEW m \in Words(t) \cap Marks, req[r].row \in table[t],
               mark' = [mark EXCEPT ![req[r].row] = m]
        PROVE  <1>4!:
    BY <1>1, <2>2
  <2>3. QED
    BY <2>1, <2>2
<1>5. QED
  BY <1>1, <1>2, <1>3, <1>4, TableKeeps

(***************************************************************************)
(* A slice built without the lock.                                         *)
(***************************************************************************)
LEMMA SliceKeeps ==
  ASSUME IInv, NEW r \in Requests, NEW call \in Calls, NEW t \in {"reports", "channels", "rules"},
         NEW rows \in SUBSET Rows, Unlocked(r, call, t, rows), call \notin {"DeleteCluster", "GetEnabledProviders"},
         req[r].script \in Slicing, t = "reports" => req[r].script = CreateReport,
         \A x \in rows : x \in table[t] \/ (x = r /\ Births(r, t)),
         \/ mark' = mark /\ (r \in rows /\ Births(r, t) => Words(t) = Marks)
         \/ Births(r, t) /\ \E m \in Words(t) \cap Marks : mark' = [mark EXCEPT ![r] = m],
         timers' = timers
  PROVE  IInv'
<1>1. /\ store = "memory" /\ At(r, call) /\ Working(r) /\ table' = table /\ told' = told
      /\ store' = store /\ faults' = faults /\ NoProviders
  BY DEF Unlocked, At, Rest
<1>2. /\ TypeOK /\ r \in Rows /\ table \in [Tables -> SUBSET Rows] /\ mark \in [Rows -> Marks]
      /\ timers \subseteq Requests /\ faults \in 0 .. MaxFaults /\ t \in Tables
      /\ req \in [Requests -> Conversations] /\ told \in [Requests -> Answers]
  BY DEF IInv, TypeOK, Rows, Tables, Answers
<1>3. /\ Follows(req[r].todo) /\ Head(req[r].todo) = call /\ req[r] \in Conversations
      /\ told[r] = "nothing"
  BY <1>1, Begins DEF At
<1>4. Tail(req[r].todo) = <<>>
  BY <1>3 DEF Follows
<1> DEFINE next == [req[r] EXCEPT !.todo = <<"store">> \o Tail(@), !.into = t, !.slice = rows]
<1>5. /\ req' = [req EXCEPT ![r] = next]
      /\ next = [req[r] EXCEPT !.todo = <<"store">>, !.into = t, !.slice = rows]
  <2>1. <<"store">> \o <<>> = <<"store">>
    OBVIOUS
  <2>2. req' = [req EXCEPT ![r] = next]
    BY <1>2 DEF Unlocked
  <2>3. QED
    BY <1>4, <2>1, <2>2
<1>6. <<"store">> \in Seq(Calls) /\ <<"store">> # <<>> /\ Head(<<"store">>) = "store"
  BY DEF Calls
<1>7. /\ next \in Conversations /\ next.todo = <<"store">> /\ next.into = t /\ next.slice = rows
      /\ next.script = req[r].script /\ next.row = req[r].row /\ next.installs = req[r].installs
      /\ next.list = req[r].list
  BY <1>2, <1>3, <1>5, <1>6 DEF Conversations
<1> HIDE DEF next
<1>8. /\ req'[r] = next /\ \A o \in Requests \ {r} : req'[o] = req[o] /\ told'[o] = told[o]
      /\ req' \in [Requests -> Conversations] /\ told' \in [Requests -> Answers]
  BY <1>1, <1>2, <1>5, <1>7
<1>9. Working(r)' /\ Head(req'[r].todo) = "store"
  BY <1>6, <1>7, <1>8 DEF Working
<1>10. ScriptInv(r)'
  BY <1>1, <1>3, <1>7, <1>8, <1>9 DEF ScriptInv, Stage
<1>11. Moves(r) /\ ~Holder(r)'
  BY <1>7, <1>8, <1>9, <1>10 DEF Moves, Holder, At
<1>12. /\ mark' \in [Rows -> Marks]
       /\ \A x \in Rows : mark'[x] # mark[x] => x = r /\ Births(r, t) /\ mark'[x] \in Words(t)
       /\ r \in rows /\ Births(r, t) => mark'[r] \in Words(t)
  BY <1>2
<1>13. told'[r] = "nothing"
  BY <1>1, <1>3
<1>14. QED
  BY <1>1, <1>2, <1>7, <1>8, <1>11, <1>12, <1>13, TableKeeps

(***************************************************************************)
(* The slice is stored; it never is one of clusters or of audit events.    *)
(***************************************************************************)
LEMMA StoreKeeps ==
  ASSUME IInv, NEW r \in Requests, StoreSlice(r)
  PROVE  IInv'
<1> DEFINE t == req[r].into
<1>1. /\ Storing(r) /\ Working(r) /\ Head(req[r].todo) = "store" /\ Advance(r) /\ mark' = mark
      /\ store' = store /\ faults' = faults /\ NoProviders
      /\ table' = [table EXCEPT ![t] = req[r].slice]
      /\ timers' = IF t = "reports" THEN timers \cup {r} ELSE timers
  BY DEF StoreSlice, Storing, At, Rest, Put
<1>2. /\ TypeOK /\ table \in [Tables -> SUBSET Rows] /\ mark \in [Rows -> Marks]
      /\ timers \subseteq Requests /\ faults \in 0 .. MaxFaults /\ req[r] \in Conversations
      /\ MayCall(req[r].script, "store")
  BY <1>1, Begins DEF TypeOK
<1>3. /\ store = "memory" /\ t \in {"reports", "channels", "rules"}
      /\ t = "reports" => req[r].script = CreateReport
  BY <1>1 DEF IInv, TableInv, SliceInv
<1>4. /\ Moves(r) /\ ~Holder(r)' /\ ~Storing(r)'
  BY <1>1, AdvanceMoves DEF Holder, Storing
<1>5. /\ t \in Tables /\ req[r].slice \subseteq Rows
  BY <1>2, <1>3 DEF Tables, Conversations
<1>6. /\ table' \in [Tables -> SUBSET Rows] /\ table'[t] = req[r].slice
      /\ \A u \in Tables \ {t} : table'[u] = table[u]
  BY <1>1, <1>2, <1>5
<1>7. \A u \in Tables : Durable(u) => u # t /\ u \in {"clusters", "audit"}
  BY <1>3 DEF Durable
<1>8. ~Births(r, "clusters") /\ ~Births(r, "audit")
  BY <1>2, Methods DEF MayCall, Births
<1>9. QED
  BY <1>1, <1>2, <1>3, <1>4, <1>5, <1>6, <1>7, <1>8, TableKeeps
-----------------------------------------------------------------------------

(***************************************************************************)
(* New clusters, audit events, reports, channels and rules.                *)
(***************************************************************************)
LEMMA CreatesKeep ==
  ASSUME IInv, NEW r \in Requests,
         \/ PgCreateCluster(r) \/ MemCreateCluster(r) \/ MemCreateAuditEvent(r)
         \/ PgCreateReport(r) \/ PgCreateChannel(r) \/ PgCreateRule(r)
  PROVE  IInv'
<1>1. /\ {"clusters", "audit", "reports", "channels", "rules"} \subseteq Tables
      /\ Words("clusters") = Marks /\ Words("audit") = Marks /\ Words("rules") = Marks
      /\ "pending" \in Words("reports") \cap Marks /\ "on" \in Words("channels") \cap Marks
  BY DEF Tables, Words, Marks
<1>2. \A call : At(r, call) => Working(r) /\ Head(req[r].todo) = call /\ MayCall(req[r].script, call)
  BY Begins DEF At
<1>3. CASE PgCreateCluster(r) \/ MemCreateCluster(r)
  <2>1. /\ At(r, "CreateCluster") /\ Put("clusters", Plus("clusters", r)) /\ Advance(r) /\ Rest
        /\ Untimed
    BY <1>3 DEF PgCreateCluster, MemCreateCluster, Statement, InLock
  <2>2. Births(r, "clusters")
    BY <1>2, <2>1 DEF Births, MayCall
  <2>3. QED
    BY <1>1, <1>2, <2>1, <2>2, InsertKeeps DEF Untimed
<1>4. CASE MemCreateAuditEvent(r)
  <2>1. /\ At(r, "CreateAuditEvent") /\ Put("audit", Plus("audit", r)) /\ Advance(r) /\ Rest
        /\ Untimed
    BY <1>4 DEF MemCreateAuditEvent, InLock
  <2>2. Births(r, "audit")
    BY <1>2, <2>1 DEF Births, MayCall
  <2>3. QED
    BY <1>1, <1>2, <2>1, <2>2, InsertKeeps DEF Untimed
<1>5. CASE PgCreateReport(r)
  <2>1. /\ At(r, "CreateReport") /\ Put("reports", Plus("reports", r)) /\ Advance(r) /\ Rest
        /\ mark' = [mark EXCEPT ![r] = "pending"] /\ timers' = timers \cup {r}
    BY <1>5 DEF PgCreateReport, Statement
  <2>2. Births(r, "reports") /\ req[r].script = CreateReport
    BY <1>2, <2>1 DEF Births, MayCall
  <2>3. \E m \in Words("reports") \cap Marks : mark' = [mark EXCEPT ![r] = m]
    BY <1>1, <2>1, Zenon
  <2>4. "reports" \in Tables /\ Working(r) /\ Head(req[r].todo) = "CreateReport"
    BY <1>1, <1>2, <2>1
  <2>5. QED
    BY <2>1, <2>2, <2>3, <2>4, InsertKeeps
<1>6. CASE PgCreateChannel(r)
  <2>1. /\ At(r, "CreateNotificationChannel") /\ Put("channels", Plus("channels", r)) /\ Advance(r)
        /\ Rest /\ mark' = [mark EXCEPT ![r] = "on"] /\ timers' = timers
    BY <1>6 DEF PgCreateChannel, Statement, Marked
  <2>2. Births(r, "channels")
    BY <1>2, <2>1 DEF Births, MayCall
  <2>3. \E m \in Words("channels") \cap Marks : mark' = [mark EXCEPT ![r] = m]
    BY <1>1, <2>1, Zenon
  <2>4. "channels" \in Tables /\ Working(r) /\ Head(req[r].todo) = "CreateNotificationChannel"
    BY <1>1, <1>2, <2>1
  <2>5. QED
    BY <2>1, <2>2, <2>3, <2>4, InsertKeeps
<1>7. CASE PgCreateRule(r)
  <2>1. /\ At(r, "CreateNotificationRule") /\ Put("rules", Plus("rules", r)) /\ Advance(r) /\ Rest
        /\ Untimed
    BY <1>7 DEF PgCreateRule, Statement
  <2>2. Births(r, "rules")
    BY <1>2, <2>1 DEF Births, MayCall
  <2>3. QED
    BY <1>1, <1>2, <2>1, <2>2, InsertKeeps DEF Untimed
<1>8. QED
  BY <1>3, <1>4, <1>5, <1>6, <1>7

(***************************************************************************)
(* Slices that the memory store builds without its lock.                   *)
(***************************************************************************)
LEMMA SlicesKeep ==
  ASSUME IInv, NEW r \in Requests,
         \/ MemCreateReport(r) \/ MemCreateChannel(r) \/ MemCreateRule(r)
         \/ /\ req[r].row \in table["channels"]
            /\ Unlocked(r, "DeleteNotificationChannel", "channels", Minus("channels", r)) /\ Untimed
  PROVE  IInv'
<1>1. /\ Words("rules") = Marks /\ "pending" \in Words("reports") \cap Marks
      /\ "on" \in Words("channels") \cap Marks
      /\ {"CreateReport", "CreateNotificationChannel", "CreateNotificationRule",
          "DeleteNotificationChannel"} \subseteq Calls
  BY DEF Words, Marks, Calls
<1>2. \A t \in {"reports", "channels", "rules"} : Plus(t, r) \subseteq Rows /\ Minus(t, r) \subseteq Rows
  BY DEF IInv, TypeOK, Tables, Rows, Plus, Minus
<1>3. \A call : At(r, call) => MayCall(req[r].script, call)
  BY Begins DEF At
<1>4. CASE MemCreateReport(r)
  <2>1. /\ Unlocked(r, "CreateReport", "reports", Plus("reports", r)) /\ At(r, "CreateReport")
        /\ mark' = [mark EXCEPT ![r] = "pending"] /\ timers' = timers
    BY <1>4 DEF MemCreateReport, Marked, Unlocked
  <2>2. req[r].script = CreateReport /\ Births(r, "reports") /\ req[r].script \in Slicing
    BY <1>3, <2>1 DEF MayCall, Births, Slicing
  <2>3. \A x \in Plus("reports", r) : x \in table["reports"] \/ x = r
    BY DEF Plus
  <2>4. QED
    BY <1>1, <1>2, <2>1, <2>2, <2>3, SliceKeeps
<1>5. CASE MemCreateChannel(r)
  <2>1. /\ Unlocked(r, "CreateNotificationChannel", "channels", Plus("channels", r))
        /\ At(r, "CreateNotificationChannel")
        /\ mark' = [mark EXCEPT ![r] = "on"] /\ timers' = timers
    BY <1>5 DEF MemCreateChannel, Marked, Unlocked
  <2>2. Births(r, "channels") /\ req[r].script \in Slicing
    BY <1>3, <2>1 DEF MayCall, Births, Slicing
  <2>3. \A x \in Plus("channels", r) : x \in table["channels"] \/ x = r
    BY DEF Plus
  <2>4. QED
    BY <1>1, <1>2, <2>1, <2>2, <2>3, SliceKeeps
<1>6. CASE MemCreateRule(r)
  <2>1. /\ Unlocked(r, "CreateNotificationRule", "rules", Plus("rules", r))
        /\ At(r, "CreateNotificationRule") /\ mark' = mark /\ timers' = timers
    BY <1>6 DEF MemCreateRule, Untimed, Unlocked
  <2>2. Births(r, "rules") /\ req[r].script \in Slicing
    BY <1>3, <2>1 DEF MayCall, Births, Slicing
  <2>3. \A x \in Plus("rules", r) : x \in table["rules"] \/ x = r
    BY DEF Plus
  <2>4. QED
    BY <1>1, <1>2, <2>1, <2>2, <2>3, SliceKeeps
<1>7. CASE Unlocked(r, "DeleteNotificationChannel", "channels", Minus("channels", r)) /\ Untimed
  <2>1. At(r, "DeleteNotificationChannel") /\ mark' = mark /\ timers' = timers
    BY <1>7 DEF Untimed, Unlocked
  <2>2. req[r].script = DeleteChannel /\ req[r].script \in Slicing
    BY <1>3, <2>1 DEF MayCall, Slicing
  <2>3. ~Births(r, "channels") /\ \A x \in Minus("channels", r) : x \in table["channels"]
    BY <2>2, Methods DEF Births, Minus
  <2>4. QED
    BY <1>1, <1>2, <1>7, <2>1, <2>2, <2>3, SliceKeeps
<1>8. QED
  BY <1>4, <1>5, <1>6, <1>7

(***************************************************************************)
(* Deletions of clusters and channels.                                     *)
(***************************************************************************)
LEMMA DeletesKeep ==
  ASSUME IInv, NEW r \in Requests,
         \/ PgDeleteCluster(r) \/ PgDeleteChannel(r)
         \/ InLock(r, "DeleteCluster", "clusters", Minus("clusters", r)) /\ Untimed
  PROVE  IInv'
<1>1. {"clusters", "channels"} \subseteq Tables
  BY DEF Tables
<1>2. \A call : At(r, call) => Working(r) /\ Head(req[r].todo) = call /\ MayCall(req[r].script, call)
  BY Begins DEF At
<1>3. CASE \/ PgDeleteCluster(r)
           \/ InLock(r, "DeleteCluster", "clusters", Minus("clusters", r)) /\ Untimed
  <2>1. /\ At(r, "DeleteCluster") /\ Put("clusters", Minus("clusters", r)) /\ Advance(r) /\ Rest
        /\ Untimed
    BY <1>3 DEF PgDeleteCluster, Statement, InLock
  <2>2. Deletes(r, "clusters")
    BY <1>2, <2>1 DEF Deletes, MayCall
  <2>3. QED
    BY <1>1, <1>2, <2>1, <2>2, RemoveKeeps
<1>4. CASE PgDeleteChannel(r)
  <2>1. /\ At(r, "DeleteNotificationChannel") /\ Put("channels", Minus("channels", r)) /\ Advance(r)
        /\ Rest /\ Untimed
    BY <1>4 DEF PgDeleteChannel, Statement
  <2>2. Deletes(r, "channels")
    BY <1>2, <2>1 DEF Deletes, MayCall
  <2>3. QED
    BY <1>1, <1>2, <2>1, <2>2, RemoveKeeps
<1>5. QED
  BY <1>3, <1>4

(***************************************************************************)
(* Calls that miss their row, Postgres's refusal of an audit event, reads  *)
(* and the organization's name.                                            *)
(***************************************************************************)
LEMMA MissesKeep ==
  ASSUME IInv, NEW r \in Requests,
         \/ \E call, t : MissesRow(r, call, t)
         \/ PgCreateAuditEvent(r) \/ GetReport(r) \/ MemUpdateOrganization(r)
  PROVE  IInv'
<1>1. /\ table \in [Tables -> SUBSET Rows] /\ faults \in 0 .. MaxFaults /\ faults \in Nat
  BY DEF IInv, TypeOK
<1>2. \A call : At(r, call) => Working(r) /\ Head(req[r].todo) = call /\ MayCall(req[r].script, call)
  BY Begins DEF At
<1>3. CASE \E call, t : MissesRow(r, call, t)
  <2>1. /\ Working(r) /\ Answer(r, "error") /\ table' = table /\ mark' = mark /\ timers' = timers
        /\ store' = store /\ faults' = faults /\ NoProviders
    BY <1>3 DEF MissesRow, At, Untimed, Rest
  <2>2. QED
    BY <1>1, <2>1, QuietKeeps
<1>4. CASE PgCreateAuditEvent(r)
  <2>1. /\ At(r, "CreateAuditEvent") /\ Advance(r) /\ mark' = mark /\ timers' = timers
        /\ store' = store /\ faults' = faults /\ NoProviders /\ store = "postgres"
        /\ Put("audit", table["audit"])
    BY <1>4 DEF PgCreateAuditEvent, Statement, Untimed, Rest
  <2>2. table' = table
    BY <1>1, <2>1 DEF Put
  <2>3. \A t \in Tables : Births(r, t) => ~Durable(t)
    BY <1>2, <2>1, Methods DEF Births, Durable, MayCall
  <2>4. QED
    BY <1>1, <1>2, <2>1, <2>2, <2>3, QuietKeeps
<1>5. CASE GetReport(r)
  <2>1. /\ At(r, "GetReport") /\ (Advance(r) \/ Answer(r, "error")) /\ mark' = mark
        /\ timers' = timers /\ table' = table /\ store' = store /\ faults' = faults /\ NoProviders
    BY <1>5 DEF GetReport, Untimed, Rest
  <2>2. \A t \in Tables : ~Births(r, t)
    BY <1>2, <2>1, Methods DEF Births, MayCall
  <2>3. QED
    BY <1>1, <1>2, <2>1, <2>2, QuietKeeps
<1>6. CASE MemUpdateOrganization(r)
  <2>1. /\ At(r, "UpdateOrganization") /\ Advance(r) /\ mark' = mark
        /\ timers' = timers /\ table' = table /\ store' = store /\ faults' = faults /\ NoProviders
    BY <1>6 DEF MemUpdateOrganization, Rest
  <2>2. \A t \in Tables : ~Births(r, t)
    BY <1>2, <2>1, Methods DEF Births, MayCall
  <2>3. QED
    BY <1>1, <1>2, <2>1, <2>2, QuietKeeps
<1>7. QED
  BY <1>3, <1>4, <1>5, <1>6

(***************************************************************************)
(* An update of one row, found or not, or lost to a change of the slice.   *)
(***************************************************************************)
LEMMA UpdateKeeps ==
  ASSUME IInv, NEW r \in Requests, NEW t \in Tables, NEW m \in Words(t) \cap Marks,
         NEW call \in {"UpdateNotificationChannel", "Approve", "Reject", "UpdateUserRole"},
         PgUpdates(r, call, t, m) \/ MemUpdates(r, call, t, m)
  PROVE  IInv'
<1>1. faults \in 0 .. MaxFaults /\ faults \in Nat
  BY DEF IInv, TypeOK
<1>2. /\ Working(r) /\ Head(req[r].todo) = call /\ table' = table /\ store' = store
      /\ faults' = faults /\ NoProviders
      /\ InPlace(r, t, m) \/ (Untimed /\ (Advance(r) \/ Answer(r, "error")))
  BY DEF PgUpdates, MemUpdates, At, Rest
<1>3. MayCall(req[r].script, call)
  BY <1>2, Begins
<1>4. \A u \in Tables : ~Births(r, u)
  BY <1>3, Methods DEF Births, MayCall
<1>5. /\ timers' = timers /\ (Advance(r) \/ Answer(r, "error"))
      /\ mark' = mark \/ (req[r].row \in table[t] /\ mark' = [mark EXCEPT ![req[r].row] = m])
  BY <1>2 DEF InPlace, Marked, Untimed
<1>6. QED
  BY <1>1, <1>2, <1>4, <1>5, QuietKeeps

(***************************************************************************)
(* Updates of channels, approvals and users.                               *)
(***************************************************************************)
LEMMA UpdatesKeep ==
  ASSUME IInv, NEW r \in Requests,
         \/ PgUpdateChannel(r) \/ MemUpdateChannel(r) \/ PgApprove(r) \/ MemApprove(r)
         \/ PgReject(r) \/ MemReject(r) \/ PgUpdateUserRole(r) \/ MemUpdateUserRole(r)
  PROVE  IInv'
<1>1. /\ {"channels", "approvals", "users"} \subseteq Tables /\ Switch \subseteq Words("channels") \cap Marks
      /\ {"approved", "rejected"} \subseteq Words("approvals") \cap Marks
      /\ Roles \subseteq Words("users") \cap Marks
  BY DEF Tables, Switch, Words, Marks, Roles
<1>2. CASE PgUpdateChannel(r) \/ MemUpdateChannel(r)
  BY <1>1, <1>2, UpdateKeeps DEF PgUpdateChannel, MemUpdateChannel
<1>3. CASE PgApprove(r) \/ MemApprove(r) \/ PgReject(r) \/ MemReject(r)
  BY <1>1, <1>3, UpdateKeeps DEF PgApprove, MemApprove, PgReject, MemReject
<1>4. CASE PgUpdateUserRole(r) \/ MemUpdateUserRole(r)
  BY <1>1, <1>4, UpdateKeeps DEF PgUpdateUserRole, MemUpdateUserRole
<1>5. QED
  BY <1>2, <1>3, <1>4

(***************************************************************************)
(* A statement fails; that of an audit event is not looked at.             *)
(***************************************************************************)
LEMMA StatementFailsKeeps ==
  ASSUME IInv, NEW r \in Requests, StatementFails(r)
  PROVE  IInv'
<1>1. /\ Working(r) /\ table' = table /\ store' = store /\ mark' = mark /\ timers' = timers
      /\ NoProviders /\ store = "postgres" /\ faults < MaxFaults /\ faults' = faults + 1
      /\ (At(r, "CreateAuditEvent") /\ Advance(r)) \/ Answer(r, "error")
  BY DEF StatementFails, NoTables
<1>2. faults' \in 0 .. MaxFaults /\ faults <= faults'
  BY <1>1 DEF IInv, TypeOK
<1>3. At(r, "CreateAuditEvent") =>
        Head(req[r].todo) = "CreateAuditEvent" /\ MayCall(req[r].script, "CreateAuditEvent")
  BY <1>1, Begins DEF At
<1>4. At(r, "CreateAuditEvent") => \A t \in Tables : Births(r, t) => ~Durable(t)
  BY <1>1, <1>3, Methods DEF Births, Durable, MayCall
<1>5. QED
  BY <1>1, <1>2, <1>3, <1>4, QuietKeeps
-----------------------------------------------------------------------------

(***************************************************************************)
(* A request begins: nothing has come of it before.                        *)
(***************************************************************************)
LEMMA StartKeeps ==
  ASSUME IInv, NEW r \in Requests, NEW next \in Conversations, ~Working(r), told[r] = "nothing",
         req' = [req EXCEPT ![r] = next], next.todo = next.script,
         next.script \in Alone \cup {DeleteCluster, installProvider},
         next.script = installProvider => next.row \in Providers, Distinct(next.list),
         UNCHANGED <<store, table, mark, providers, told, timers, wanted, disturbed, faults>>
  PROVE  IInv'
<1>1. /\ TypeOK /\ SliceInv /\ OriginInv /\ MarkInv /\ TimerInv /\ AckedRowsKept
      /\ Distinct(providers) /\ AskInv /\ HoldInv /\ ProvidersKept /\ ScriptInv(r)
      /\ req \in [Requests -> Conversations] /\ timers \subseteq Requests
      /\ \A o \in Requests : ScriptInv(o)
  BY DEF IInv, TypeOK, TableInv, ProviderInv
<1>2. /\ req' \in [Requests -> Conversations] /\ req'[r] = next
      /\ \A o \in Requests \ {r} : req'[o] = req[o]
  BY <1>1
<1>3. Stage(next.script, next.todo)
  BY DEF Stage
<1>4. next.todo # <<>> /\ next.script # <<>>
  BY <1>3, Scripts
<1>5. Head(next.todo) \notin {"store", "SetEnabledProviders"}
  BY Methods DEF Alone
<1>6. ~Storing(r)' /\ ~Holder(r)' /\ Working(r)' /\ ~Storing(r) /\ ~Holder(r)
  BY <1>2, <1>4, <1>5 DEF Storing, Holder, At, Working
<1>7. req[r].script = <<>>
  BY <1>1 DEF ScriptInv
<1>8. /\ RegisterCluster # <<>> /\ CreateReport # <<>> /\ CreateChannel # <<>> /\ CreateRule # <<>>
      /\ DeleteCluster # <<>> /\ DeleteChannel # <<>>
  BY DEF RegisterCluster, CreateReport, CreateChannel, CreateRule, DeleteCluster, DeleteChannel
<1>9. /\ \A t : ~Births(r, t) /\ ~Deletes(r, t)
      /\ \A t : \A o \in Requests \ {r} : (Births(o, t)' <=> Births(o, t)) /\ (Deletes(o, t)' <=> Deletes(o, t))
  BY <1>2, <1>7, <1>8 DEF Births, Deletes
<1>10. \A x, t : Born(x, t) => Born(x, t)'
  BY <1>9 DEF Born
<1>11. \A o \in Requests : Storing(o)' => o # r /\ Storing(o) /\ req'[o] = req[o]
  BY <1>2, <1>6 DEF Storing, At, Working
<1>12. \A o \in Requests : Holder(o)' => o # r /\ Holder(o) /\ req'[o] = req[o]
  BY <1>2, <1>6 DEF Holder, At, Working
<1>13. SliceInv' /\ OriginInv' /\ MarkInv'
  BY <1>1, <1>10, <1>11 DEF SliceInv, OriginInv, MarkInv
<1>14. TimerInv'
  BY <1>1, <1>2, <1>7, <1>8 DEF TimerInv
<1>15. AckedRowsKept'
  <2> SUFFICES ASSUME NEW t \in Tables, NEW q \in Requests, Durable(t)', Inserts(q, t)'
               PROVE  q \in table'[t] \/ \E o \in Requests : Deletes(o, t)' /\ req'[o].row = q
    BY DEF AckedRowsKept
  <2>1. q # r /\ Inserts(q, t) /\ Durable(t)
    BY <1>2 DEF Inserts, Durable
  <2>2. q \in table[t] \/ \E o \in Requests : Deletes(o, t) /\ req[o].row = q
    BY <1>1, <2>1 DEF AckedRowsKept
  <2>3. QED
    BY <1>2, <1>9, <2>2
<1>16. TypeOK' /\ ProvidersKept' /\ Distinct(providers)'
  BY <1>1, <1>2 DEF TypeOK, ProvidersKept, Distinct
<1>17. HoldInv'
  BY <1>1, <1>12 DEF HoldInv
<1>18. AskInv'
  BY <1>1, <1>2 DEF AskInv
<1>19. \A o \in Requests : ScriptInv(o)'
  <2>1. ScriptInv(r)'
    BY <1>2, <1>3, <1>6 DEF ScriptInv
  <2>2. ASSUME NEW o \in Requests \ {r} PROVE ScriptInv(o)'
    BY <1>1, <1>2 DEF ScriptInv, Working
  <2>3. QED
    BY <2>1, <2>2
<1>20. QED
  BY <1>13, <1>14, <1>15, <1>16, <1>17, <1>18, <1>19 DEF IInv, TableInv, ProviderInv

(***************************************************************************)
(* A handler that takes up a call about a row.                             *)
(***************************************************************************)
LEMMA HandleKeeps ==
  ASSUME IInv, NEW r \in Requests, NEW script \in Alone \cup {DeleteCluster}, NEW row \in Rows,
         Handle(r, script, row)
  PROVE  IInv'
<1> DEFINE next == [req[r] EXCEPT !.script = script, !.todo = script, !.row = row]
<1>1. /\ req[r].todo = <<>> /\ told[r] = "nothing" /\ req' = [req EXCEPT ![r] = next]
      /\ UNCHANGED <<store, table, mark, providers, told, timers, wanted, disturbed, faults>>
  BY DEF Handle
<1>2. Stage(script, script)
  BY DEF Stage
<1>3. script \in Seq(Calls) /\ script # installProvider
  BY <1>2, Scripts, Methods DEF Alone
<1>4. req[r] \in Conversations
  BY DEF IInv, TypeOK
<1>5. /\ next \in Conversations /\ next.script = script /\ next.todo = script
      /\ Distinct(next.list)
  <2>1. Distinct(req[r].list)
    BY DEF IInv, ProviderInv, AskInv
  <2>2. QED
    BY <1>3, <1>4, <2>1 DEF Conversations
<1> HIDE DEF next
<1>6. QED
  BY <1>1, <1>3, <1>5, StartKeeps DEF Working

(***************************************************************************)
(* A handler of the providers.                                             *)
(***************************************************************************)
LEMMA OnProviderKeeps ==
  ASSUME IInv, NEW r \in Requests, NEW installs \in BOOLEAN, OnProvider(r, installProvider, installs)
  PROVE  IInv'
<1>1. PICK p \in Providers :
        /\ req[r].todo = <<>> /\ told[r] = "nothing"
        /\ req' = [req EXCEPT ![r].script = installProvider, ![r].todo = installProvider,
                             ![r].row = p, ![r].installs = installs]
        /\ UNCHANGED <<store, table, mark, providers, told, timers, wanted, disturbed, faults>>
  BY DEF OnProvider
<1> DEFINE next == [req[r] EXCEPT !.script = installProvider, !.todo = installProvider,
                                  !.row = p, !.installs = installs]
<1>2. req' = [req EXCEPT ![r] = next]
  BY <1>1
<1>3. Stage(installProvider, installProvider)
  BY DEF Stage
<1>4. installProvider \in Seq(Calls)
  BY <1>3, Scripts
<1>5. req[r] \in Conversations
  BY DEF IInv, TypeOK
<1>6. /\ next \in Conversations /\ next.script = installProvider /\ next.todo = installProvider
      /\ next.row = p /\ Distinct(next.list)
  <2>1. Distinct(req[r].list)
    BY DEF IInv, ProviderInv, AskInv
  <2>2. QED
    BY <1>4, <1>5, <2>1 DEF Conversations
<1> HIDE DEF next
<1>7. QED
  BY <1>1, <1>2, <1>6, StartKeeps DEF Working

(***************************************************************************)
(* The handler of the settings, which may hold the providers once shown.   *)
(***************************************************************************)
LEMMA OrganizationStarts ==
  ASSUME IInv, NEW r \in Requests, updateOrganizationHandler(r)
  PROVE  IInv'
<1>1. PICK shown \in {<<>>, providers} :
        /\ req[r].todo = <<>> /\ told[r] = "nothing"
        /\ req' = [req EXCEPT ![r].script = UpdateOrganization, ![r].todo = UpdateOrganization,
                             ![r].row = r, ![r].list = shown]
        /\ UNCHANGED <<store, table, mark, providers, told, timers, wanted, disturbed, faults>>
  BY DEF updateOrganizationHandler
<1> DEFINE next == [req[r] EXCEPT !.script = UpdateOrganization, !.todo = UpdateOrganization,
                                  !.row = r, !.list = shown]
<1>2. req' = [req EXCEPT ![r] = next]
  BY <1>1
<1>3. UpdateOrganization \in Alone /\ UpdateOrganization # installProvider
  BY Methods DEF Alone
<1>4. UpdateOrganization \in Seq(Calls)
  BY DEF UpdateOrganization, Calls
<1>5. req[r] \in Conversations /\ r \in Rows
  BY DEF IInv, TypeOK, Rows
<1>6. shown \in Seq(Providers) /\ Distinct(shown)
  <2>1. providers \in Seq(Providers) /\ Distinct(providers)
    BY DEF IInv, TypeOK, ProviderInv
  <2>2. <<>> \in Seq(Providers) /\ Distinct(<<>>)
    BY DEF Distinct
  <2>3. QED
    BY <2>1, <2>2
<1>7. /\ next \in Conversations /\ next.script = UpdateOrganization
      /\ next.todo = UpdateOrganization /\ Distinct(next.list)
  BY <1>4, <1>5, <1>6 DEF Conversations
<1> HIDE DEF next
<1>8. QED
  BY <1>1, <1>2, <1>3, <1>7, StartKeeps DEF Working

(***************************************************************************)
(* The fourteen handlers.                                                  *)
(***************************************************************************)
LEMMA ReceiveKeeps ==
  ASSUME IInv, NEW r \in Requests, Receive(r)
  PROVE  IInv'
<1>1. /\ r \in Rows /\ {"clusters", "reports", "channels", "approvals", "users"} \subseteq Tables
      /\ \A t \in Tables : table[t] \cup {r} \subseteq Rows
  BY DEF IInv, TypeOK, Rows, Tables
<1>2. /\ {RegisterCluster, CreateReport, Download, CreateChannel, UpdateChannel} \subseteq Alone
      /\ {DeleteChannel, CreateRule, Approve, Reject, UpdateOrganization} \subseteq Alone
      /\ UpdateUserRole \in Alone /\ uninstallProvider = installProvider
  BY DEF Alone, uninstallProvider, installProvider
<1>3. ASSUME NEW t \in Tables, NEW script \in Alone \cup {DeleteCluster}, OnRow(r, t, script)
      PROVE  IInv'
  BY <1>1, <1>3, HandleKeeps DEF OnRow
<1>4. CASE \/ createClusterHandler(r) \/ createReportHandler(r) \/ createChannelHandler(r)
           \/ createRuleHandler(r)
  BY <1>1, <1>2, <1>4, HandleKeeps DEF createClusterHandler, createReportHandler,
     createChannelHandler, createRuleHandler
<1>5. CASE deleteClusterHandler(r) \/ reportDownloadHandler(r) \/ updateChannelHandler(r)
  BY <1>1, <1>2, <1>3, <1>5 DEF deleteClusterHandler, reportDownloadHandler, updateChannelHandler
<1>6. CASE \/ deleteChannelHandler(r) \/ approveHandler(r) \/ rejectHandler(r)
           \/ updateUserRoleHandler(r)
  BY <1>1, <1>2, <1>3, <1>6 DEF deleteChannelHandler, approveHandler, rejectHandler,
     updateUserRoleHandler
<1>7. CASE installProviderHandler(r) \/ uninstallProviderHandler(r)
  BY <1>2, <1>7, OnProviderKeeps DEF installProviderHandler, uninstallProviderHandler
<1>8. QED
  BY <1>4, <1>5, <1>6, <1>7, OrganizationStarts DEF Receive
-----------------------------------------------------------------------------

(***************************************************************************)
(* A report's goroutine finds no cluster of its report's name.             *)
(***************************************************************************)
LEMMA CompleteReportKeeps ==
  ASSUME IInv, NEW r \in Requests, CompleteReport(r)
  PROVE  IInv'
<1>1. /\ TypeOK /\ SliceInv /\ OriginInv /\ MarkInv /\ TimerInv /\ AckedRowsKept
      /\ ProviderInv /\ (\A o \in Requests : ScriptInv(o))
  BY DEF IInv, TableInv
<1>2. /\ r \in timers /\ timers' = timers \ {r} /\ table' = table /\ req' = req /\ told' = told
      /\ store' = store /\ faults' = faults /\ NoProviders /\ UpdateClusterStatus(r)
  BY DEF CompleteReport, Rest
<1>3. r \notin table["clusters"]
  <2>1. SUFFICES ASSUME Born(r, "clusters") PROVE FALSE
    BY <1>1 DEF OriginInv, Tables
  <2>2. r # "clusters"
    BY DEF Tables
  <2>3. req[r].script = RegisterCluster
    BY <2>1, <2>2 DEF Born, Births
  <2>4. req[r].script = CreateReport
    BY <1>1, <1>2 DEF TimerInv
  <2>5. QED
    BY <2>3, <2>4, Methods
<1>4. mark' = mark
  BY <1>2, <1>3 DEF UpdateClusterStatus
<1>5. SliceInv' /\ OriginInv' /\ MarkInv'
  BY <1>1, <1>2, <1>4 DEF SliceInv, OriginInv, MarkInv, Storing, At, Working, Born, Births
<1>6. TimerInv' /\ AckedRowsKept'
  BY <1>1, <1>2 DEF TimerInv, AckedRowsKept, Durable, Inserts, Deletes
<1>7. ProviderInv'
  BY <1>1, <1>2 DEF NoProviders, ProviderInv, Distinct, AskInv, HoldInv, ProvidersKept, Holder, At, Working
<1>8. \A o \in Requests : ScriptInv(o)'
  BY <1>1, <1>2 DEF ScriptInv, Working
<1>9. TypeOK'
  BY <1>1, <1>2, <1>4 DEF TypeOK, NoProviders
<1>10. QED
  BY <1>5, <1>6, <1>7, <1>8, <1>9 DEF IInv, TableInv
-----------------------------------------------------------------------------
(***************************************************************************)
(* The tables, by a call that works on the providers or the settings.      *)
(***************************************************************************)
LEMMA TablesStay ==
  ASSUME IInv, NEW r \in Requests, Moves(r), Working(r), ~Storing(r)',
         table' = table, store' = store, mark' = mark, timers' = timers,
         faults' \in 0 .. MaxFaults, faults <= faults',
         \A t \in Tables : ~Births(r, t)
  PROVE  TableInv'
<1>1. /\ TypeOK /\ faults \in Nat /\ faults' \in Nat /\ timers \subseteq Requests
      /\ table \in [Tables -> SUBSET Rows] /\ mark \in [Rows -> Marks]
  BY DEF IInv, TypeOK
<1>2. QED
  BY <1>1, TableStep

(***************************************************************************)
(* All of the invariant, by such a call.                                   *)
(***************************************************************************)
LEMMA AllStays ==
  ASSUME IInv, NEW r \in Requests, Moves(r), Working(r), ~Storing(r)',
         table' = table, store' = store, mark' = mark, timers' = timers,
         faults' \in 0 .. MaxFaults, faults <= faults',
         \A t \in Tables : ~Births(r, t), ProviderInv',
         providers' \in Seq(Providers), wanted' \subseteq Providers, disturbed' \in BOOLEAN
  PROVE  IInv'
<1>1. TableInv' /\ \A o \in Requests : ScriptInv(o)'
  BY TablesStay, OthersStay
<1>2. /\ MarkInv' /\ req' \in [Requests -> Conversations] /\ told' \in [Requests -> Answers]
      /\ store' \in {"memory", "postgres"} /\ table' \in [Tables -> SUBSET Rows]
      /\ mark' \in [Rows -> Marks] /\ timers' \subseteq Requests
  BY <1>1 DEF TableInv, Moves, IInv, TypeOK
<1>3. TypeOK'
  BY <1>2 DEF MarkInv, TypeOK, Words, Tables, Answers
<1>4. QED
  BY <1>1, <1>3 DEF IInv

(***************************************************************************)
(* A list of providers that was read, or could not be.                     *)
(***************************************************************************)
LEMMA ReadKeeps ==
  ASSUME IInv, NEW r \in Requests, At(r, "GetEnabledProviders"), NEW list \in Seq(Providers),
         Distinct(list), req[r].installs => req[r].row \notin Range(list),
         req' = [req EXCEPT ![r].todo = Tail(@), ![r].list = list], told' = told,
         disturbed' \in BOOLEAN, disturbed => disturbed',
         ~disturbed' => list = providers /\ ~Holding(r),
         faults' \in 0 .. MaxFaults, faults <= faults', NoTables,
         providers' = providers, wanted' = wanted
  PROVE  IInv'
<1>1. Working(r) /\ Head(req[r].todo) = "GetEnabledProviders"
  BY DEF At
<1>2. /\ TypeOK /\ req[r] \in Conversations /\ told[r] = "nothing"
      /\ MayCall(req[r].script, Head(req[r].todo)) /\ Follows(req[r].todo)
  BY <1>1, Begins
<1>3. /\ req[r].script = installProvider /\ Tail(req[r].todo) = <<"SetEnabledProviders">>
      /\ \A t \in Tables : ~Births(r, t)
  BY <1>1, <1>2, Methods DEF MayCall, Follows, Births
<1>4. /\ Distinct(providers) /\ AskInv /\ HoldInv /\ ProvidersKept
      /\ req \in [Requests -> Conversations] /\ told \in [Requests -> Answers]
  BY <1>2 DEF IInv, ProviderInv, TypeOK, Answers
<1> DEFINE next == [req[r] EXCEPT !.todo = <<"SetEnabledProviders">>, !.list = list]
<1>5. req' = [req EXCEPT ![r] = next]
  BY <1>3, <1>4
<1>6. /\ <<"SetEnabledProviders">> \in Seq(Calls) /\ <<"SetEnabledProviders">> # <<>>
      /\ Head(<<"SetEnabledProviders">>) = "SetEnabledProviders"
  BY DEF Calls
<1>7. /\ next \in Conversations /\ next.todo = <<"SetEnabledProviders">> /\ next.list = list
      /\ next.script = req[r].script /\ next.row = req[r].row /\ next.installs = req[r].installs
  BY <1>2, <1>6 DEF Conversations
<1> HIDE DEF next
<1>8. /\ req'[r] = next /\ \A o \in Requests \ {r} : req'[o] = req[o] /\ told'[o] = told[o]
      /\ req' \in [Requests -> Conversations] /\ told' \in [Requests -> Answers]
      /\ told'[r] = "nothing"
  BY <1>2, <1>4, <1>5, <1>7
<1>9. Working(r)' /\ Head(req'[r].todo) = "SetEnabledProviders"
  BY <1>6, <1>7, <1>8 DEF Working
<1>10. ScriptInv(r)'
  BY <1>3, <1>7, <1>8, <1>9 DEF ScriptInv, Stage
<1>11. Moves(r) /\ ~Storing(r)'
  BY <1>7, <1>8, <1>9, <1>10 DEF Moves, Storing, At
<1>12. AskInv'
  BY <1>4, <1>11 DEF AskInv, Moves
<1>13. HoldInv'
  <2>1. \A o \in Requests \ {r} : Holder(o)' => Holder(o) /\ req'[o] = req[o]
    BY <1>8 DEF Holder, At, Working
  <2>2. req[r].row \in Providers
    BY <1>3, <1>4 DEF AskInv
  <2>3. ASSUME ~disturbed' PROVE \A o \in Requests \ {r} : ~Holder(o)
    BY <2>3 DEF Holding, Holder
  <2>4. QED
    BY <1>4, <1>7, <1>8, <2>1, <2>2, <2>3 DEF HoldInv
<1>14. ProviderInv'
  BY <1>4, <1>12, <1>13 DEF ProviderInv, ProvidersKept, Distinct
<1>15. QED
  BY <1>1, <1>2, <1>3, <1>11, <1>14, AllStays DEF NoTables, TypeOK

(***************************************************************************)
(* The read of the enabled providers.                                      *)
(***************************************************************************)
LEMMA GetKeeps ==
  ASSUME IInv, NEW r \in Requests, GetEnabledProviders(r) \/ PgReadFails(r)
  PROVE  IInv'
<1>1. At(r, "GetEnabledProviders") /\ Working(r) /\ Head(req[r].todo) = "GetEnabledProviders"
  BY DEF GetEnabledProviders, PgReadFails, At
<1>2. /\ TypeOK /\ MayCall(req[r].script, "GetEnabledProviders") /\ Distinct(providers)
      /\ providers \in Seq(Providers) /\ disturbed \in BOOLEAN
      /\ faults \in 0 .. MaxFaults /\ faults \in Nat
  BY <1>1, Begins DEF IInv, ProviderInv, TypeOK
<1>3. CASE GetEnabledProviders(r) /\ AlreadyInstalled(r)
  <2>1. /\ Answer(r, "ok") /\ NoTables /\ NoProviders /\ faults' = faults
    BY <1>3 DEF GetEnabledProviders, NoProviders
  <2>2. Moves(r) /\ ~Working(r)'
    BY <1>2, <2>1, AnswerEnds
  <2>3. ~Holder(r)' /\ ~Storing(r)' /\ \A t \in Tables : ~Births(r, t)
    BY <1>2, <2>2, Methods DEF Holder, Storing, At, MayCall, Births
  <2>4. ProviderInv'
    BY <2>1, <2>2, <2>3, ProvidersStay
  <2>5. QED
    BY <1>1, <1>2, <2>1, <2>2, <2>3, <2>4, AllStays DEF NoTables, NoProviders, TypeOK
<1>4. CASE GetEnabledProviders(r) /\ ~AlreadyInstalled(r)
  <2>1. /\ req' = [req EXCEPT ![r].todo = Tail(@), ![r].list = providers] /\ told' = told
        /\ disturbed' = (disturbed \/ Holding(r)) /\ NoTables /\ providers' = providers
        /\ wanted' = wanted /\ faults' = faults
    BY <1>4 DEF GetEnabledProviders
  <2>2. req[r].installs => req[r].row \notin Range(providers)
    BY <1>4 DEF AlreadyInstalled
  <2>3. disturbed' \in BOOLEAN /\ (disturbed => disturbed') /\ (~disturbed' => ~Holding(r))
    BY <1>2, <2>1, Zenon DEF Holding
  <2>4. faults' \in 0 .. MaxFaults /\ faults <= faults'
    BY <1>2, <2>1
  <2>5. /\ disturbed' \in BOOLEAN
        /\ disturbed => disturbed'
        /\ ~disturbed' => providers = providers /\ ~Holding(r)
    BY <2>3
  <2> HIDE DEF NoTables
  <2>6. QED
    BY <1>1, <1>2, <2>1, <2>2, <2>4, <2>5, ReadKeeps
<1>5. CASE PgReadFails(r)
  <2>1. /\ req' = [req EXCEPT ![r].todo = Tail(@), ![r].list = <<>>] /\ told' = told
        /\ disturbed' = TRUE /\ NoTables /\ providers' = providers /\ wanted' = wanted
        /\ faults < MaxFaults /\ faults' = faults + 1
    BY <1>5 DEF PgReadFails
  <2>2. <<>> \in Seq(Providers) /\ Distinct(<<>>) /\ Range(<<>>) = {}
    BY DEF Distinct, Range
  <2>3. faults' \in 0 .. MaxFaults /\ faults <= faults'
    BY <1>2, <2>1
  <2>4. QED
    BY <1>1, <2>1, <2>2, <2>3, ReadKeeps
<1>6. QED
  BY <1>3, <1>4, <1>5

(***************************************************************************)
(* The list that is written back.                                          *)
(***************************************************************************)
LEMMA SetKeeps ==
  ASSUME IInv, NEW r \in Requests, SetEnabledProviders(r)
  PROVE  IInv'
<1>1. /\ Holder(r) /\ Working(r) /\ Head(req[r].todo) = "SetEnabledProviders"
      /\ Advance(r) /\ NoTables /\ disturbed' = disturbed /\ faults' = faults
      /\ providers' = IF req[r].installs THEN Installed(r) ELSE Uninstalled(r)
      /\ wanted' = IF req[r].installs THEN wanted \cup {req[r].row} ELSE wanted \ {req[r].row}
  BY DEF SetEnabledProviders, Holder, At
<1>2. /\ TypeOK /\ req[r] \in Conversations /\ MayCall(req[r].script, "SetEnabledProviders")
      /\ AskInv /\ HoldInv /\ ProvidersKept
  BY <1>1, Begins DEF IInv, ProviderInv
<1>3. Moves(r) /\ ~Storing(r)' /\ ~Holder(r)' /\ \A t \in Tables : ~Births(r, t)
  BY <1>1, <1>2, AdvanceMoves, Methods DEF Holder, Storing, MayCall, Births
<1>4. /\ req[r].list \in Seq(Providers) /\ Distinct(req[r].list) /\ req[r].row \in Providers
      /\ req[r].installs => req[r].row \notin Range(req[r].list)
  BY <1>1, <1>2 DEF HoldInv, Conversations
<1>5. /\ providers' \in Seq(Providers) /\ Distinct(providers')
      /\ Range(providers') = IF req[r].installs THEN Range(req[r].list) \cup {req[r].row}
                             ELSE Range(req[r].list) \ {req[r].row}
  <2>1. CASE req[r].installs
    BY <1>1, <1>4, <2>1, Appended DEF Installed
  <2>2. CASE ~req[r].installs
    BY <1>1, <1>4, <2>2, UninstalledRemoves
  <2>3. QED
    BY <2>1, <2>2
<1>6. ProvidersKept'
  BY <1>1, <1>2, <1>5 DEF ProvidersKept, HoldInv
<1>7. \A o \in Requests : Holder(o)' => o # r /\ Holder(o) /\ req'[o] = req[o]
  BY <1>3 DEF Moves, Holder, At, Working
<1>8. HoldInv'
  BY <1>1, <1>2, <1>7 DEF HoldInv
<1>9. AskInv'
  BY <1>2, <1>3 DEF AskInv, Moves
<1>10. ProviderInv'
  BY <1>5, <1>6, <1>8, <1>9 DEF ProviderInv, Distinct
<1>11. wanted' \subseteq Providers /\ disturbed' \in BOOLEAN /\ faults' \in 0 .. MaxFaults /\ faults <= faults'
  BY <1>1, <1>2, <1>4 DEF TypeOK
<1>12. QED
  BY <1>1, <1>3, <1>5, <1>10, <1>11, AllStays DEF NoTables

(***************************************************************************)
(* A client replaces the settings, with the providers in them.             *)
(***************************************************************************)
LEMMA OrganizationKeeps ==
  ASSUME IInv, NEW r \in Requests, PgUpdateOrganization(r)
  PROVE  IInv'
<1>1. /\ Working(r) /\ Head(req[r].todo) = "UpdateOrganization" /\ Advance(r) /\ NoTables
      /\ wanted' = wanted /\ faults' = faults
      /\ \/ providers' = providers /\ disturbed' = disturbed
         \/ providers' = req[r].list /\ disturbed' = TRUE
  BY DEF PgUpdateOrganization, At
<1>2. /\ TypeOK /\ MayCall(req[r].script, "UpdateOrganization") /\ Distinct(providers)
      /\ req[r] \in Conversations /\ AskInv /\ HoldInv /\ ProvidersKept
  BY <1>1, Begins DEF IInv, ProviderInv
<1>3. Moves(r) /\ ~Storing(r)' /\ ~Holder(r)' /\ \A t \in Tables : ~Births(r, t)
  BY <1>1, <1>2, AdvanceMoves, Methods DEF Holder, Storing, MayCall, Births
<1>4. req[r].list \in Seq(Providers) /\ Distinct(req[r].list)
  BY <1>2 DEF AskInv, TypeOK, Conversations
<1>5. \A o \in Requests : Holder(o)' => Holder(o) /\ req'[o] = req[o]
  BY <1>3 DEF Moves, Holder, At, Working
<1>6. HoldInv' /\ ProvidersKept'
  BY <1>1, <1>2, <1>5 DEF HoldInv, ProvidersKept
<1>7. AskInv'
  BY <1>2, <1>3 DEF AskInv, Moves
<1>8. Distinct(providers)' /\ providers' \in Seq(Providers) /\ disturbed' \in BOOLEAN
  <2>1. providers \in Seq(Providers) /\ disturbed \in BOOLEAN
    BY <1>2 DEF TypeOK
  <2>2. Distinct(providers')
    BY <1>1, <1>2, <1>4
  <2>3. QED
    BY <1>1, <1>4, <2>1, <2>2 DEF Distinct
<1>9. faults' \in 0 .. MaxFaults /\ faults <= faults' /\ wanted' \subseteq Providers
  BY <1>1, <1>2 DEF TypeOK
<1>10. QED
  BY <1>1, <1>3, <1>6, <1>7, <1>8, <1>9, AllStays DEF NoTables, ProviderInv
-----------------------------------------------------------------------------

(***************************************************************************)
(* A restart: no request goes on, and the memory store is seeded again.    *)
(***************************************************************************)
LEMMA RestartKeeps ==
  ASSUME IInv, Restart
  PROVE  IInv'
<1>1. /\ TypeOK /\ SliceInv /\ OriginInv /\ MarkInv /\ AckedRowsKept /\ Distinct(providers)
      /\ AskInv /\ ProvidersKept /\ (\A o \in Requests : ScriptInv(o))
      /\ req \in [Requests -> Conversations] /\ told \in [Requests -> Answers]
      /\ faults \in 0 .. MaxFaults /\ store \in {"memory", "postgres"}
  BY DEF IInv, TypeOK, TableInv, ProviderInv, Answers
<1>2. /\ faults < MaxFaults /\ faults' = faults + 1 /\ timers' = {} /\ store' = store /\ mark' = mark
      /\ told' = [r \in Requests |-> IF Working(r) THEN "lost" ELSE told[r]]
      /\ req' = [r \in Requests |-> [req[r] EXCEPT !.todo = <<>>]]
      /\ store = "memory" => /\ table' = Seeded({"users"}) /\ providers' = <<>>
                             /\ wanted' = {} /\ disturbed' = disturbed
      /\ store # "memory" => /\ table' = table /\ providers' = providers
                             /\ wanted' = wanted /\ disturbed' = disturbed
  BY DEF Restart
<1>3. ASSUME NEW r \in Requests
      PROVE  /\ req'[r] \in Conversations /\ req'[r].todo = <<>> /\ req'[r].script = req[r].script
             /\ req'[r].row = req[r].row /\ req'[r].list = req[r].list
             /\ told'[r] = IF Working(r) THEN "lost" ELSE told[r]
  <2>1. req[r] \in Conversations /\ req'[r] = [req[r] EXCEPT !.todo = <<>>] /\ <<>> \in Seq(Calls)
    BY <1>1, <1>2
  <2>2. QED
    BY <1>2, <2>1 DEF Conversations
<1>4. req' \in [Requests -> Conversations] /\ told' \in [Requests -> Answers]
  BY <1>1, <1>2, <1>3 DEF Answers
<1>5. \A r \in Requests : ~Working(r)' /\ ~Storing(r)' /\ ~Holder(r)'
  BY <1>3 DEF Storing, Holder, At, Working
<1>6. ASSUME NEW r \in Requests PROVE ScriptInv(r)'
  BY <1>1, <1>3, <1>5 DEF ScriptInv
<1>7. \A x, t : Born(x, t)' <=> Born(x, t)
  BY <1>3 DEF Born, Births
<1>8. /\ table' \in [Tables -> SUBSET Rows] /\ providers' \in Seq(Providers)
      /\ wanted' \subseteq Providers /\ Distinct(providers')
      /\ \A t \in Tables : \A x \in table'[t] : Born(x, t) /\ mark[x] \in Words(t)
      /\ ~disturbed' => Range(providers') = wanted'
  <2>1. CASE store = "memory"
    <3>1. /\ table' = [t \in Tables |-> IF t = "users" THEN {t} ELSE {}]
          /\ providers' = <<>> /\ wanted' = {}
      BY <1>2, <2>1 DEF Seeded
    <3>2. <<>> \in Seq(Providers) /\ Distinct(<<>>) /\ Range(<<>>) = {}
      BY DEF Distinct, Range
    <3>3. mark["users"] \in Words("users")
      BY <1>1 DEF TypeOK, Words, Rows, Tables
    <3>4. QED
      BY <3>1, <3>2, <3>3 DEF Born, Rows
  <2>2. CASE store # "memory"
    BY <1>1, <1>2, <2>2 DEF TypeOK, OriginInv, MarkInv, ProvidersKept
  <2>3. QED
    BY <2>1, <2>2
<1>9. SliceInv' /\ OriginInv' /\ MarkInv' /\ TimerInv'
  BY <1>2, <1>5, <1>7, <1>8 DEF SliceInv, OriginInv, MarkInv, TimerInv
<1>10. AckedRowsKept'
  <2> SUFFICES ASSUME NEW t \in Tables, NEW q \in Requests, Durable(t)', Inserts(q, t)'
               PROVE  q \in table'[t] \/ \E o \in Requests : Deletes(o, t)' /\ req'[o].row = q
    BY DEF AckedRowsKept
  <2>1. store = "postgres" /\ Durable(t)
    BY <1>1, <1>2 DEF Durable
  <2>2. Inserts(q, t)
    BY <1>3 DEF Inserts
  <2>3. q \in table[t] \/ \E o \in Requests : Deletes(o, t) /\ req[o].row = q
    BY <1>1, <2>1, <2>2 DEF AckedRowsKept
  <2>4. QED
    BY <1>2, <1>3, <2>1, <2>3 DEF Deletes
<1>11. ProviderInv'
  BY <1>1, <1>3, <1>5, <1>8 DEF ProviderInv, Distinct, AskInv, HoldInv, ProvidersKept
<1>12. TypeOK'
  <2>1. faults' \in 0 .. MaxFaults /\ disturbed' = disturbed
    BY <1>1, <1>2
  <2>2. QED
    BY <1>1, <1>2, <1>4, <1>8, <1>9, <2>1 DEF MarkInv, TypeOK, Words, Tables, Answers
<1>13. QED
  BY <1>6, <1>9, <1>10, <1>11, <1>12 DEF IInv, TableInv

(***************************************************************************)
(* The calls of the stores.                                                *)
(***************************************************************************)
LEMMA CallKeeps ==
  ASSUME IInv, NEW r \in Requests, Call(r)
  PROVE  IInv'
<1>1. CASE \/ PgCreateCluster(r) \/ MemCreateCluster(r) \/ MemCreateAuditEvent(r)
           \/ PgCreateReport(r) \/ PgCreateChannel(r) \/ PgCreateRule(r)
  BY <1>1, CreatesKeep
<1>2. CASE MemCreateReport(r) \/ MemCreateChannel(r) \/ MemCreateRule(r)
  BY <1>2, SlicesKeep
<1>3. CASE PgDeleteCluster(r) \/ PgDeleteChannel(r)
  BY <1>3, DeletesKeep
<1>4. CASE MemDeleteCluster(r)
  BY <1>4, DeletesKeep, MissesKeep DEF MemDeleteCluster
<1>5. CASE MemDeleteChannel(r)
  BY <1>5, SlicesKeep, MissesKeep DEF MemDeleteChannel
<1>6. CASE PgCreateAuditEvent(r) \/ GetReport(r) \/ MemUpdateOrganization(r)
  BY <1>6, MissesKeep
<1>7. CASE StoreSlice(r)
  BY <1>7, StoreKeeps
<1>8. CASE \/ PgUpdateChannel(r) \/ MemUpdateChannel(r) \/ PgApprove(r) \/ MemApprove(r)
           \/ PgReject(r) \/ MemReject(r) \/ PgUpdateUserRole(r) \/ MemUpdateUserRole(r)
  BY <1>8, UpdatesKeep
<1>9. CASE GetEnabledProviders(r)
  BY <1>9, GetKeeps
<1>10. CASE SetEnabledProviders(r)
  BY <1>10, SetKeeps
<1>11. CASE PgUpdateOrganization(r)
  BY <1>11, OrganizationKeeps
<1>12. QED
  BY <1>1, <1>2, <1>3, <1>4, <1>5, <1>6, <1>7, <1>8, <1>9, <1>10, <1>11 DEF Call
-----------------------------------------------------------------------------
(***************************************************************************)
(* Both stores as they are seeded.                                         *)
(***************************************************************************)
LEMMA InitInv ==
  ASSUME Init
  PROVE  IInv
<1>1. /\ store \in {"memory", "postgres"} /\ providers = <<>>
      /\ table \in {Seeded(tables) : tables \in Seeds(store)}
      /\ mark = [x \in Rows |-> IF x = "reports" THEN "completed" ELSE "new"]
      /\ req = [r \in Requests |-> [script |-> <<>>, todo |-> <<>>, row |-> r,
                                    installs |-> FALSE, into |-> "none", slice |-> {}, list |-> <<>>]]
      /\ told = [r \in Requests |-> "nothing"]
      /\ timers = {} /\ wanted = {} /\ disturbed = FALSE /\ faults = 0
  BY DEF Init
<1>2. \A r \in Requests : /\ req[r].script = <<>> /\ req[r].todo = <<>> /\ told[r] = "nothing"
                         /\ req[r].list = <<>>
  BY <1>1
<1>3. \A r \in Requests : ~Working(r) /\ ~Storing(r) /\ ~Holder(r) /\ ScriptInv(r)
  BY <1>2 DEF Working, Storing, Holder, At, ScriptInv
<1>4. /\ table \in [Tables -> SUBSET Rows]
      /\ \A t \in Tables : \A x \in table[t] : x = t
  BY <1>1 DEF Seeded, Rows
<1>5. /\ mark \in [Rows -> Marks]
      /\ \A t \in Tables : mark[t] \in Words(t)
  BY <1>1 DEF Marks, Words, Rows, Tables
<1>6. /\ <<>> \in Seq(Calls) /\ <<>> \in Seq(Providers) /\ Range(<<>>) = {} /\ Distinct(<<>>)
      /\ installProvider # <<>>
  BY DEF Range, Distinct, installProvider
<1>7. /\ req \in [Requests -> Conversations]
      /\ told \in [Requests -> {"nothing", "ok", "error", "lost"}]
  BY <1>1, <1>6 DEF Conversations, Rows
<1>8. SliceInv /\ OriginInv /\ MarkInv /\ TimerInv
  BY <1>1, <1>3, <1>4, <1>5 DEF SliceInv, OriginInv, MarkInv, TimerInv, Born
<1>9. AckedRowsKept
  BY <1>2 DEF AckedRowsKept, Inserts
<1>10. ProviderInv
  BY <1>1, <1>2, <1>3, <1>6 DEF ProviderInv, AskInv, HoldInv, ProvidersKept
<1>11. TypeOK
  <2>1. /\ \A x \in table["channels"]  : mark[x] \in {"new", "on", "off"}
        /\ \A x \in table["reports"]   : mark[x] \in {"pending", "completed"}
        /\ \A x \in table["approvals"] : mark[x] \in {"new", "approved", "rejected"}
    BY <1>8 DEF MarkInv, Words, Tables
  <2>2. faults = 0 /\ disturbed \in BOOLEAN /\ timers \subseteq Requests
    BY <1>1
  <2>3. 0 \in 0 .. MaxFaults
    OBVIOUS
  <2>4. QED
    BY <1>1, <1>4, <1>5, <1>6, <1>7, <2>1, <2>2, <2>3 DEF TypeOK
<1>12. QED
  BY <1>3, <1>8, <1>9, <1>10, <1>11 DEF IInv, TableInv

(***************************************************************************)
(* Every step keeps the invariant.                                         *)
(***************************************************************************)
LEMMA StepInv ==
  ASSUME IInv, [Next]_vars
  PROVE  IInv'
<1>1. CASE UNCHANGED vars
  BY <1>1 DEF vars, IInv, TypeOK, ScriptInv, TableInv, SliceInv, OriginInv, MarkInv, TimerInv,
     AckedRowsKept, ProviderInv, AskInv, HoldInv, ProvidersKept, Distinct, Storing, Holder, At,
     Working, Born, Births, Durable, Inserts, Deletes
<1>2. ASSUME NEW r \in Requests, Receive(r) PROVE IInv'
  BY <1>2, ReceiveKeeps
<1>3. ASSUME NEW r \in Requests, Call(r) PROVE IInv'
  BY <1>3, CallKeeps
<1>4. ASSUME NEW r \in Requests, CompleteReport(r) PROVE IInv'
  BY <1>4, CompleteReportKeeps
<1>5. ASSUME NEW r \in Requests, StatementFails(r) PROVE IInv'
  BY <1>5, StatementFailsKeeps
<1>6. ASSUME NEW r \in Requests, PgReadFails(r) PROVE IInv'
  BY <1>6, GetKeeps
<1>7. CASE Restart
  BY <1>7, RestartKeeps
<1>8. QED
  BY <1>1, <1>2, <1>3, <1>4, <1>5, <1>6, <1>7 DEF Next
-----------------------------------------------------------------------------
(***************************************************************************)
(* The invariant holds throughout.                                         *)
(***************************************************************************)
THEOREM Invariance == Spec => []IInv
<1>1. Init => IInv
  BY InitInv
<1>2. IInv /\ [Next]_vars => IInv'
  BY StepInv
<1>3. QED
  BY <1>1, <1>2, PTL DEF Spec

(***************************************************************************)
(* The state has its type, and a row never says what another table says:   *)
(* a report is never switched on, nor an approval completed.               *)
(***************************************************************************)
THEOREM TypeCorrect == Spec => []TypeOK
<1>1. IInv => TypeOK
  BY DEF IInv
<1>2. QED
  BY <1>1, Invariance, PTL

(***************************************************************************)
(* However many installs and uninstalls overlap, fail or are lost, and     *)
(* whatever settings clients send, no provider is listed twice.            *)
(***************************************************************************)
THEOREM NoDuplicates == Spec => []NoDuplicateProviders
<1>1. IInv => NoDuplicateProviders
  BY DistinctLen DEF IInv, TypeOK, ProviderInv, NoDuplicateProviders
<1>2. QED
  BY <1>1, Invariance, PTL

(***************************************************************************)
(* The enabled providers are what the acknowledged changes add up to as    *)
(* long as no two of them overlapped, no read failed and no client         *)
(* replaced the settings.                                                  *)
(***************************************************************************)
THEOREM ProvidersStayWanted == Spec => []ProvidersKept
<1>1. IInv => ProvidersKept
  BY DEF IInv, ProviderInv
<1>2. QED
  BY <1>1, Invariance, PTL

(***************************************************************************)
(* A row that was acknowledged stays until somebody asks to delete it,     *)
(* where a mutex or Postgres keeps it: CreateCluster, CreateAuditEvent,    *)
(* and on Postgres CreateReport, CreateNotificationChannel and             *)
(* CreateNotificationRule.                                                 *)
(***************************************************************************)
THEOREM AckedRowsStay == Spec => []AckedRowsKept
<1>1. IInv => AckedRowsKept
  BY DEF IInv, TableInv
<1>2. QED
  BY <1>1, Invariance, PTL
=============================================================================
