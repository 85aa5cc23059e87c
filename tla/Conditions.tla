------------------------------ MODULE Conditions ------------------------------
(***************************************************************************)
(* The status of a custom resource: a phase and the three standard         *)
(* conditions, and how the operator edits them (helpers/status.go and the  *)
(* setProgressing / setReady / setDegraded methods of the reconcilers).    *)
(* A condition's reason is a function of its type and is left out; message *)
(* texts are reduced to the classes a status update can tell apart.        *)
(***************************************************************************)
EXTENDS Naturals

CondTypes == {"Ready", "Progressing", "Degraded"}

(* Error classes: a Kubernetes lookup failed; the server could not be      *)
(* reached (or its answer was lost); the server refused the statement.     *)
Errors   == {"unresolved", "unreachable", "refused"}
Messages == {"", "reconciling", "reconciled"} \cup Errors
Phases   == {""} \cup CondTypes

Condition    == [status : {"Absent", "True", "False"}, gen : Nat, msg : Messages]
NoCondition  == [status |-> "Absent", gen |-> 0, msg |-> ""]
NoConditions == [t \in CondTypes |-> NoCondition]

(* A condition is rewritten only when it is absent or was set for another  *)
(* generation or with another message; its current status is not looked at.*)
Changed(conds, t, gen, msg) ==
  conds[t].status = "Absent" \/ conds[t].gen # gen \/ conds[t].msg # msg

(* Fault: the other conditions are left as they are.                       *)
SetConditionOnly(conds, t, gen, msg) ==
  IF Changed(conds, t, gen, msg)
  THEN [conds EXCEPT ![t] = [status |-> "True", gen |-> gen, msg |-> msg]] ELSE conds

SetConditionStatus(conds, t, gen, msg) ==
  [u \in CondTypes |->
     IF u = t
     THEN IF Changed(conds, t, gen, msg)
          THEN [status |-> "True", gen |-> gen, msg |-> msg]
          ELSE conds[t]
     ELSE IF conds[u].status = "Absent" THEN conds[u]
          ELSE [conds[u] EXCEPT !.status = "False"]]

(* Fault: the phase takes the reason of the condition for its type.        *)
SetStatusByReason(o, t, msg) ==
  [o EXCEPT !.conds = SetConditionStatus(@, t, o.gen, msg),
            !.phase = IF t = "Ready" THEN "Reconciled" ELSE t]

(* setProgressing, setReady, setDegraded on the object in memory: the      *)
(* other conditions are cleared in any case, the phase moves only when the *)
(* active condition was rewritten.                                         *)
SetStatus(o, t, msg) ==
  [o EXCEPT !.conds = SetConditionStatus(@, t, o.gen, msg),
            !.phase = IF Changed(o.conds, t, o.gen, msg) THEN t ELSE @]

(* Exactly the condition the phase names is True; no phase, no condition.  *)
Coherent(o) ==
  \A t \in CondTypes : o.conds[t].status = "True" <=> o.phase = t
===============================================================================
