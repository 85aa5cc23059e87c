---------------------------- MODULE Failover_proofs ----------------------------
(***************************************************************************)
(* What a change of leader cannot break, although statements of former     *)
(* leaders still arrive: types and statuses, which no statement touches,   *)
(* and, as long as no CREATE ROLE is late, the guard over every role.      *)
(***************************************************************************)
EXTENDS Failover, RoleController_proofs

(* To the role controller a change of leader is a restart.                 *)
LEMMA TakeOverRestarts == TakeOver => Next
  BY DEF TakeOver, Next

LEMMA InHandType ==
  ASSUME TypeOK, LoopInv
  PROVE  InHand \subseteq Statement
<1>1. CASE pc = "resource" /\ frame.step \in {"write", "drop"}
  <2>1. frame.found \in BOOLEAN /\ frame.password \in Password
    BY DEF TypeOK, Frame
  <2>2. /\ server \in Servers /\ name \in Names
        /\ obj.spec.on \in SUBSET Attributes /\ obj.spec.off \in SUBSET Attributes
    BY <1>1, WorkerTypes
  <2> HIDE DEF server, name
  <2>3. QED
    BY <1>1, <2>1, <2>2 DEF InHand, Statement
<1>2. CASE ~(pc = "resource" /\ frame.step \in {"write", "drop"})
  BY <1>2 DEF InHand
<1>3. QED
  BY <1>1, <1>2

LEMMA OutcomeType ==
  ASSUME TypeOK, NEW x \in Statement
  PROVE  Outcome(x) \in Role
<1>1. /\ roles[x.server][x.name] \in Role /\ x.password \in Password
      /\ x.on \in SUBSET Attributes /\ x.off \in SUBSET Attributes
  BY DEF TypeOK, Statement
<1>2. QED
  BY <1>1, StatementTypes DEF Outcome

(* A late statement changes one role and nothing the worker knows.         *)
LEMMA ArriveKeeps ==
  ASSUME TypeOK, LoopInv, StatusInv, stragglers \subseteq Statement,
         NEW x \in stragglers, Arrive(x)
  PROVE  TypeOK' /\ LoopInv' /\ StatusInv' /\ stragglers' \subseteq Statement
<1>1. /\ roles' = [roles EXCEPT ![x.server][x.name] = Outcome(x)]
      /\ stragglers' = stragglers \ {x}
      /\ UNCHANGED <<loopVars, pinned, resolvable, secrets, frame>>
  BY DEF Arrive
<1>2. x.server \in Servers /\ x.name \in Names /\ Outcome(x) \in Role
  BY OutcomeType DEF Statement
<1>3. roles' \in [Servers -> [Names -> Role]]
  BY <1>1, <1>2 DEF TypeOK
<1>4. LoopTypeOK' /\ LoopInv'
  BY <1>1, LoopStutters DEF TypeOK, loopVars, objects, worker, LoopTypeOK
<1>5. StatusInv'
  BY <1>1 DEF StatusInv, StatusCoherent, Coherent, loopVars
<1>6. QED
  BY <1>1, <1>3, <1>4, <1>5 DEF TypeOK

LEMMA FailoverStarts == FailoverInit => FailoverTypeOK /\ LoopInv /\ StatusInv
  BY InitEstablishes, InitStatus DEF FailoverInit, FailoverTypeOK

LEMMA FailoverKeeps ==
  ASSUME FailoverTypeOK, LoopInv, StatusInv, [FailoverNext]_<<vars, stragglers>>
  PROVE  FailoverTypeOK' /\ LoopInv' /\ StatusInv'
<1>1. TypeOK /\ stragglers \subseteq Statement
  BY DEF FailoverTypeOK
<1>2. CASE [Next]_vars /\ stragglers' \subseteq Statement
  BY <1>1, <1>2, NextKeeps, NextKeepsStatus DEF FailoverTypeOK
<1>3. CASE TakeOver
  BY <1>1, <1>2, <1>3, InHandType, TakeOverRestarts DEF TakeOver
<1>4. CASE \E x \in stragglers : Arrive(x)
  BY <1>1, <1>4, ArriveKeeps DEF FailoverTypeOK
<1>5. QED
  BY <1>1, <1>2, <1>3, <1>4 DEF FailoverNext

(* A manager that takes over in the middle of anything keeps every         *)
(* variable to its type, and what it knows of the objects is consistent    *)
(* (LoopInv) whatever its predecessors left on the way.                    *)
THEOREM FailoverTypeCorrect == FailoverSpec => [](FailoverTypeOK /\ LoopInv)
<1>1. FailoverTypeOK /\ LoopInv /\ StatusInv /\ [FailoverNext]_<<vars, stragglers>>
        => FailoverTypeOK' /\ LoopInv' /\ StatusInv'
  BY FailoverKeeps
<1>2. QED
  BY <1>1, FailoverStarts, PTL DEF FailoverSpec

(* The status of an object stays coherent through changes of leader in the *)
(* middle of a reconcile.                                                  *)
THEOREM StatusSurvivesTakeOver == FailoverSpec => []StatusCoherent
<1>1. FailoverTypeOK /\ LoopInv /\ StatusInv /\ [FailoverNext]_<<vars, stragglers>>
        => FailoverTypeOK' /\ LoopInv' /\ StatusInv'
  BY FailoverKeeps
<1>2. StatusInv => StatusCoherent
  BY DEF StatusInv
<1>3. QED
  BY <1>1, <1>2, FailoverStarts, PTL DEF FailoverSpec
--------------------------------------------------------------------------------
NoLateCreate == \A x \in stragglers : ~Creates(x)

(* A statement that is no CREATE ROLE makes no role.                       *)
LEMMA NoneMade ==
  ASSUME TypeOK, NEW x \in Statement, ~Creates(x), Outcome(x).exists
  PROVE  roles[x.server][x.name].exists
<1> DEFINE r == roles[x.server][x.name]
<1>1. r \in Role
  BY DEF TypeOK, Statement
<1>2. Outcome(x) = DropRole(r) \/ Outcome(x) = r \/ AlterRoleAccepted(r, x.on, x.off)
  BY DEF Outcome
<1>3. ~DropRole(r).exists
  BY DEF DropRole, NoRole
<1> HIDE DEF r
<1>4. r.exists
  BY <1>2, <1>3 DEF AlterRoleAccepted
<1>5. QED
  BY <1>4 DEF r

LEMMA ArriveKeepsRoleInv ==
  ASSUME TypeOK, RoleInv, LoopInv', stragglers \subseteq Statement, NoLateCreate,
         NEW x \in stragglers, Arrive(x)
  PROVE  RoleInv'
<1>1. /\ roles' = [roles EXCEPT ![x.server][x.name] = Outcome(x)]
      /\ UNCHANGED <<api, pc, cur, obj, frame>>
  BY DEF Arrive, loopVars
<1>2. x \in Statement /\ ~Creates(x)
  BY DEF NoLateCreate
<1>3. \A s \in Servers, n \in Names : roles'[s][n].exists => roles[s][n].exists
  BY <1>1, <1>2, NoneMade DEF TypeOK, Statement
<1>4. name \in Names /\ name' = name
  BY <1>1, RoleAssumption DEF name, TypeOK, LoopTypeOK
<1>5. RoleChecked' /\ NoOrphanRole'
  BY <1>1, <1>3, <1>4 DEF RoleInv, RoleChecked, FrameFits, NoOrphanRole
<1>6. QED
  BY <1>5 DEF RoleInv

LEMMA FailoverKeepsRoleInv ==
  ASSUME FailoverTypeOK, RoleInv, StatusInv, OneServer, NoLateCreate,
         [FailoverNext]_<<vars, stragglers>>
  PROVE  RoleInv'
<1>1. TypeOK /\ LoopInv /\ stragglers \subseteq Statement
  BY DEF FailoverTypeOK, RoleInv
<1>2. CASE [Next]_vars
  BY <1>1, <1>2, NextKeepsRoleInv
<1>3. CASE \E x \in stragglers : Arrive(x)
  BY <1>1, <1>3, ArriveKeeps, ArriveKeepsRoleInv
<1>4. QED
  BY <1>2, <1>3, TakeOverRestarts DEF FailoverNext

(* With one server, no role outlives the last object that guards it as     *)
(* long as no former leader has a CREATE ROLE on the way, however many     *)
(* times the leader changes and whatever else arrives late.                *)
THEOREM OnlyLateCreates ==
  ASSUME OneServer
  PROVE  FailoverSpec => OnlyLateCreatesOrphan
<1>1. FailoverInit => FailoverTypeOK /\ RoleInv /\ StatusInv
  BY FailoverStarts, InitEstablishesRoleInv DEF FailoverInit
<1>2. FailoverTypeOK /\ RoleInv /\ StatusInv /\ NoLateCreate
        /\ [FailoverNext]_<<vars, stragglers>>
        => FailoverTypeOK' /\ RoleInv' /\ StatusInv'
  BY FailoverKeeps, FailoverKeepsRoleInv DEF RoleInv
<1>3. RoleInv => NoOrphanRole
  BY DEF RoleInv
<1>4. FailoverSpec /\ []NoLateCreate => []NoOrphanRole
  BY <1>1, <1>2, <1>3, PTL DEF FailoverSpec
<1>5. QED
  BY <1>4, PTL DEF OnlyLateCreatesOrphan, NoLateCreate
================================================================================
