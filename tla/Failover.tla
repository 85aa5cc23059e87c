------------------------------- MODULE Failover -------------------------------
(***************************************************************************)
(* The role controller in a deployment with leader election.  A manager    *)
(* that stands by runs no controller and holds no PostgresRole; when it    *)
(* wins the lease its controllers start, and their informers list the      *)
(* objects afresh.  The variables of RoleController are those of the       *)
(* manager that leads.                                                     *)
(*                                                                         *)
(* The lease says who may work; nothing tells a PostgreSQL server.  It     *)
(* runs out while its holder is suspended or cut off from the network,     *)
(* whatever statement the worker has in hand, and that one may reach the   *)
(* server when somebody else leads already.                                *)
(***************************************************************************)
EXTENDS RoleController

VARIABLE stragglers  \* statements of former leaders that are yet to arrive

Statement == [step : {"write", "drop"}, found : BOOLEAN, password : Password,
              server : Servers, name : Names,
              on : SUBSET Attributes, off : SUBSET Attributes]

FailoverTypeOK == TypeOK /\ stragglers \subseteq Statement

FailoverInit == Init /\ stragglers = {}

(* What the worker is about to send, if it is at its last statement.       *)
InHand ==
  IF pc = "resource" /\ frame.step \in {"write", "drop"}
  THEN {[step |-> frame.step, found |-> frame.found, password |-> frame.password,
         server |-> server, name |-> name, on |-> obj.spec.on, off |-> obj.spec.off]}
  ELSE {}

Creates(x) == x.step = "write" /\ ~x.found

(* What a statement leaves of the role it names when it arrives.           *)
Outcome(x) ==
  LET r == roles[x.server][x.name]
  IN  CASE x.step = "drop" /\ DropRoleAccepted(r, <<x.server, x.name>> \in pinned) -> DropRole(r)
        [] Creates(x) /\ CreateRoleAccepted(r, x.on, x.off)
             -> CreateRole(r, x.password, x.on, x.off)
        [] x.step = "write" /\ x.found /\ AlterRoleAccepted(r, x.on, x.off)
             -> AlterRole(r, x.password, x.on, x.off)
        [] OTHER -> r

Arrive(x) ==
  /\ x \in stragglers /\ stragglers' = stragglers \ {x}
  /\ roles' = [roles EXCEPT ![x.server][x.name] = Outcome(x)]
  /\ UNCHANGED <<loopVars, pinned, resolvable, secrets, frame>>

(* Fault: the new leader's controllers start with an empty queue.          *)
TakeOverEmpty ==
  /\ Fault
  /\ pc' = "idle" /\ obj' = NoObject /\ frame' = Fresh
  /\ cache' = api /\ watch' = [k \in Keys |-> {}] /\ queue' = {}
  /\ stragglers' = stragglers \cup InHand
  /\ UNCHANGED <<api, cur, edits, external>>

(* The lease of a leader runs out in the middle of what it does, and the   *)
(* next one starts like a process that was restarted.  A statement that    *)
(* never arrives is Restart itself.                                        *)
TakeOver ==
  /\ Restart /\ frame' = Fresh /\ UNCHANGED external
  /\ stragglers' = stragglers \cup InHand

FailoverNext == \/ Next /\ UNCHANGED stragglers
                \/ TakeOver
                \/ \E x \in stragglers : Arrive(x)

FailoverSpec     == FailoverInit /\ [][FailoverNext]_<<vars, stragglers>>
FailoverFairSpec == FailoverSpec /\ Fairness
-------------------------------------------------------------------------------
(* Whoever leads, an object that stays gets its role.  A statement of a    *)
(* former leader may undo that after the object says Ready, and nothing    *)
(* but the resync looks at the role again (the controller is set up with   *)
(* For alone, role_controller.go:217).                                     *)
ConvergesWhoeverLeads == [](stragglers = {}) \/ Resyncs => Converges

(* Of the statements that arrive late only a CREATE ROLE leaves a role     *)
(* nobody will drop: a late ALTER makes none, and a late DROP takes away   *)
(* what the next reconcile makes again.                                    *)
OnlyLateCreatesOrphan == [](\A x \in stragglers : ~Creates(x)) => []NoOrphanRole
===============================================================================
