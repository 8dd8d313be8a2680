--------------------------- MODULE AuditedChange ---------------------------
(***************************************************************************)
(* What the release operations promise, without helm, files or deadlines:  *)
(* a client is told "ok", and the audit log names a change, only after     *)
(* that change has been applied to the cluster; an answer is final.        *)
(***************************************************************************)
CONSTANT Requests
VARIABLES applied,    \* requests whose change helm has completed
          audit,      \* requests whose change is in the audit log
          told        \* what each client was told

vars == <<applied, audit, told>>

Init == applied = {} /\ audit = {} /\ told = [r \in Requests |-> "nothing"]

Apply(r)  == told[r] = "nothing" /\ applied' = applied \cup {r} /\ UNCHANGED <<audit, told>>

Answer(r) == /\ told[r] = "nothing"
             /\ \/ told' = [told EXCEPT ![r] = "failed"]
                \/ told' = [told EXCEPT ![r] = "shown"]        \* a read
                \/ r \in applied /\ told' = [told EXCEPT ![r] = "ok"]
             /\ UNCHANGED <<applied, audit>>

(* The last step of a change records it and answers.                       *)
RecordAndAnswer(r) == /\ told[r] = "nothing" /\ r \in applied
                      /\ audit' \in {audit, audit \cup {r}}
                      /\ told' = [told EXCEPT ![r] = "ok"]
                      /\ UNCHANGED applied

(* A restart loses requests that were not answered, and perhaps the log.   *)
Restart == /\ audit' \in {audit, {}}
           /\ \A r \in Requests : told'[r] \in {told[r]} \cup
                 (IF told[r] = "nothing" THEN {"lost"} ELSE {})
           /\ DOMAIN told' = Requests
           /\ UNCHANGED applied

Next == \/ \E r \in Requests : Apply(r) \/ Answer(r) \/ RecordAndAnswer(r)
        \/ Restart

Spec == Init /\ [][Next]_vars
=============================================================================
