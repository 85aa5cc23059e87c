---------------------------- MODULE ManagedResource ----------------------------
(***************************************************************************)
(* What a reconciler promises about the things it manages on a PostgreSQL  *)
(* server, seen from outside: a thing is made only while an object with    *)
(* the operator's finalizer asks for it, is taken away only while that     *)
(* object is being deleted, and the object is let go only without it.      *)
(* How the operator gets there (cache, queue, retries, crashes) is hidden. *)
(***************************************************************************)
CONSTANT Keys  \* the custom resources, each naming one thing

VARIABLES
  claim,    \* what each resource asks for: it is "none", "open" or "closing"
  guarded,  \* the resources that carry the operator's finalizer
  held      \* the resources whose thing exists on the server

vars == <<claim, guarded, held>>

TypeOK ==
  /\ claim \in [Keys -> {"none", "open", "closing"}]
  /\ guarded \in SUBSET Keys /\ held \in SUBSET Keys

Init == claim = [k \in Keys |-> "none"] /\ guarded = {} /\ held = {}

Move(k, to) == claim' = [claim EXCEPT ![k] = to]

Claim(k) == claim[k] = "none" /\ Move(k, "open") /\ UNCHANGED <<guarded, held>>
Guard(k) == claim[k] = "open" /\ guarded' = guarded \cup {k} /\ UNCHANGED <<claim, held>>

(* A withdrawn claim closes at once unless a finalizer holds it open.      *)
Withdraw(k) ==
  /\ claim[k] = "open" /\ UNCHANGED <<guarded, held>>
  /\ Move(k, "closing") \/ (k \notin guarded /\ Move(k, "none"))

(* The operator may still be at work on a version from before the deletion.*)
Provision(k) == k \in guarded /\ held' = held \cup {k} /\ UNCHANGED <<claim, guarded>>

Deprovision(k) == claim[k] = "closing" /\ held' = held \ {k} /\ UNCHANGED <<claim, guarded>>

Release(k) ==
  /\ claim[k] = "closing" /\ k \notin held
  /\ guarded' = guarded \ {k}
  /\ UNCHANGED claim \/ Move(k, "none")
  /\ UNCHANGED held

Next == \E k \in Keys : \/ Claim(k) \/ Guard(k) \/ Withdraw(k)
                        \/ Provision(k) \/ Deprovision(k) \/ Release(k)

Spec == Init /\ [][Next]_vars
===============================================================================
