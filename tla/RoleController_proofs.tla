------------------------- MODULE RoleController_proofs -------------------------
(***************************************************************************)
(* The types of the role controller, for any number of objects, servers,   *)
(* names, specs, edits and faults; and, where no spec can leave its        *)
(* server, that no role is orphaned and none is dropped under a live       *)
(* object.  The steps of the loop are covered by ReconcileLoop_proofs.     *)
(***************************************************************************)
EXTENDS RoleController, ReconcileLoop_proofs

(* The worker is about to read or write a role its object really names:    *)
(* it checked its object, and every object has a spec some user wrote.     *)
LEMMA CheckedTypes ==
  ASSUME TypeOK, WorkerChecked, ObjectsSpecified, pc = "resource"
  PROVE  /\ obj \in Object /\ obj.exists /\ obj.spec \in Specs /\ obj \in Seen(cur)
         /\ server \in Servers /\ name \in Names /\ role \in Role
         /\ obj.spec.on \in SUBSET Attributes /\ obj.spec.off \in SUBSET Attributes
<1>1. obj \in Object /\ cur \in Keys /\ obj \in Seen(cur)
  BY DEF TypeOK, LoopTypeOK, Seen
<1>2. obj.exists /\ obj.spec \in Specs
  BY <1>1 DEF WorkerChecked, ObjectsSpecified
<1>3. QED
  BY <1>1, <1>2, RoleAssumption DEF server, name, role, TypeOK

LEMMA WorkerTypes ==
  ASSUME TypeOK, LoopInv, pc = "resource"
  PROVE  /\ obj \in Object /\ obj.exists /\ obj.spec \in Specs /\ obj \in Seen(cur)
         /\ server \in Servers /\ name \in Names /\ role \in Role
         /\ obj.spec.on \in SUBSET Attributes /\ obj.spec.off \in SUBSET Attributes
  BY CheckedTypes DEF LoopInv

(* The statements leave roles.                                             *)
LEMMA StatementTypes ==
  ASSUME NEW r \in Role, NEW pw \in Password,
         NEW on \in SUBSET Attributes, NEW off \in SUBSET Attributes
  PROVE  /\ CreateRole(r, pw, on, off) \in Role
         /\ AlterRole(r, pw, on, off) \in Role
         /\ DropRole(r) \in Role
  BY PgRoleAssumption DEF CreateRole, AlterRole, DropRole, NoRole, Role, Password

LEMMA FreshType == Fresh \in Frame
  BY DEF Fresh, Frame, Steps, Password

(* To the loop a step of ReconcileResource is its end, or nothing.         *)
LEMMA ResourceSteps ==
  ASSUME ReconcileResource
  PROVE  Succeed \/ (\E msg \in Errors : Fail(msg)) \/ UNCHANGED loopVars
  BY DEF ReconcileResource, CheckRole, GetPassword, WriteRole, RemoveRole, Exec, Continue, Errors

LEMMA ExecKeepsTypes ==
  ASSUME TypeOK, WorkerChecked, ObjectsSpecified,
         NEW accepted, NEW new \in Role, pc = "resource", Exec(accepted, new)
  PROVE  TypeOK'
<1>1. server \in Servers /\ name \in Names
  BY CheckedTypes
<1>2. faults' \in 0 .. MaxFaults /\ (Succeed \/ \E msg \in Errors : Fail(msg))
  BY LoopAssumption DEF Exec, Fault, Errors, TypeOK, LoopTypeOK
<1>3. LoopTypeOK'
  BY <1>2, ResultKeepsTypes DEF TypeOK
<1>4. roles' \in [Servers -> [Names -> Role]]
  BY <1>1 DEF Exec, TypeOK
<1>5. QED
  BY <1>3, <1>4, FreshType DEF TypeOK, Exec

LEMMA ResourceKeepsTypes ==
  ASSUME TypeOK, WorkerChecked, ObjectsSpecified, ReconcileResource
  PROVE  TypeOK'
<1> pc = "resource"
  BY DEF ReconcileResource, CheckRole, GetPassword, WriteRole, RemoveRole
<1>1. CASE WriteRole
  BY <1>1, CheckedTypes, StatementTypes, ExecKeepsTypes DEF WriteRole, TypeOK, Frame
<1>2. CASE RemoveRole
  BY <1>2, CheckedTypes, StatementTypes, ExecKeepsTypes DEF RemoveRole, Password
<1>3. CASE CheckRole \/ GetPassword
  <2>1. faults' \in 0 .. MaxFaults
    BY <1>3, LoopAssumption
       DEF CheckRole, GetPassword, Fault, Continue, loopVars, TypeOK, LoopTypeOK
  <2>2. LoopTypeOK'
    <3>1. CASE UNCHANGED loopVars
      BY <3>1 DEF loopVars, TypeOK, LoopTypeOK
    <3>2. QED
      BY <2>1, <3>1, ResourceSteps, ResultKeepsTypes, <1>3 DEF ReconcileResource, TypeOK
  <2>3. frame' \in Frame
    <3>1. ASSUME NEW step \in Steps, NEW found \in BOOLEAN, NEW pw \in Password,
                 Continue(step, found, pw)
          PROVE  frame' \in Frame
      BY <3>1 DEF Continue, Frame
    <3>2. "drop" \in Steps /\ "password" \in Steps /\ "write" \in Steps
          /\ NoPassword \in Password /\ secrets[cur] \in Password
          /\ role.exists \in BOOLEAN /\ frame.found \in BOOLEAN
      BY CheckedTypes DEF Steps, Password, TypeOK, LoopTypeOK, Frame, Role
    <3>3. CASE CheckRole
      BY <3>1, <3>2, <3>3 DEF CheckRole, TypeOK
    <3>4. CASE GetPassword
      BY <3>1, <3>2, <3>4, FreshType DEF GetPassword
    <3>5. QED
      BY <1>3, <3>3, <3>4
  <2>4. UNCHANGED external
    BY <1>3 DEF CheckRole, GetPassword
  <2>5. QED
    BY <2>2, <2>3, <2>4 DEF TypeOK, external
<1>4. QED
  BY <1>1, <1>2, <1>3 DEF ReconcileResource

(* Every step keeps the types ...                                          *)
LEMMA NextKeepsTypes ==
  ASSUME TypeOK, WorkerChecked, ObjectsSpecified, [Next]_vars
  PROVE  TypeOK'
<1>1. CASE (LoopWorker \/ Environment) /\ UNCHANGED <<external, frame>>
  BY <1>1, LoopWorkerKeepsTypes, EnvironmentKeepsTypes DEF TypeOK, external
<1>2. CASE ReconcileResource
  BY <1>2, ResourceKeepsTypes
<1>3. CASE Restart /\ frame' = Fresh /\ UNCHANGED external
  BY <1>3, FreshType, EnvironmentKeepsTypes DEF TypeOK, external
<1>4. CASE Disturb
  <2>1. LoopTypeOK'
    BY <1>4, LoopAssumption DEF Disturb, Fault, TypeOK, LoopTypeOK, worker
  <2>2. roles' = roles /\ frame' = frame
    BY <1>4 DEF Disturb
  <2>3. pinned' \in SUBSET (Servers \X Names)
    <3>1. ASSUME NEW s \in Servers, NEW n \in Names, pinned' = pinned \cup {<<s, n>>}
          PROVE  pinned' \in SUBSET (Servers \X Names)
      BY <3>1 DEF TypeOK
    <3>2. QED
      BY <1>4, <3>1 DEF Disturb, TypeOK
  <2>4. resolvable' \in SUBSET Servers
    BY <1>4 DEF Disturb, TypeOK
  <2>5. secrets' \in [Keys -> Password]
    BY <1>4 DEF Disturb, TypeOK
  <2>6. QED
    BY <2>1, <2>2, <2>3, <2>4, <2>5 DEF TypeOK
<1>5. CASE Repair \/ UNCHANGED vars
  <2>1. LoopTypeOK'
    BY <1>5 DEF Repair, vars, TypeOK, LoopTypeOK, loopVars
  <2>2. QED
    BY <1>5, <2>1 DEF Repair, vars, TypeOK, external
<1>6. QED
  BY <1>1, <1>2, <1>3, <1>4, <1>5 DEF Next

(* ... and what ReconcileLoop knows of versions.                           *)
LEMMA NextKeeps ==
  ASSUME TypeOK, LoopInv, [Next]_vars
  PROVE  TypeOK' /\ LoopInv'
<1>1. TypeOK'
  BY NextKeepsTypes DEF LoopInv
<1>2. CASE UNCHANGED <<objects, worker, cache, queue, edits>>
  BY <1>1, <1>2, LoopStutters DEF TypeOK, LoopTypeOK
<1>3. CASE Disturb \/ Repair \/ UNCHANGED vars
  BY <1>2, <1>3 DEF Disturb, Repair, vars, loopVars, objects, worker
<1>4. CASE ReconcileResource
  BY <1>1, <1>2, <1>4, ResourceSteps, ResultKeepsInv DEF TypeOK, loopVars, objects, worker
<1>5. QED
  BY <1>1, <1>3, <1>4, LoopWorkerKeepsInv, EnvironmentKeepsInv DEF Next, TypeOK

LEMMA InitEstablishes == Init => TypeOK /\ LoopInv
<1> SUFFICES ASSUME Init PROVE TypeOK /\ LoopInv
  OBVIOUS
<1>1. LoopTypeOK /\ LoopInv
  BY LoopStarts DEF Init
<1>2. NoRole \in Role /\ Fresh \in Frame
  BY DEF NoRole, Role, Fresh, Frame, Steps, Password
<1>3. QED
  BY <1>1, <1>2 DEF Init, TypeOK, Password

(* Whatever users, faults and crashes do, every variable keeps its type    *)
(* and the operator's views of an object stay consistent with the server's.*)
THEOREM TypeCorrect == Spec => [](TypeOK /\ LoopInv)
  BY InitEstablishes, NextKeeps, PTL DEF Spec
-------------------------------------------------------------------------------
(* A step of the loop orphans no role: it takes the finalizer only from an *)
(* object whose role is gone.                                              *)
LEMMA LoopKeepsRoleInv ==
  ASSUME TypeOK, TypeOK', LoopInv', OneServer, RoleInv, UNCHANGED roles,
         \/ (LoopWorker \/ Environment) /\ UNCHANGED frame
         \/ Restart /\ frame' = Fresh
  PROVE  RoleInv'
<1>1. RoleChecked'
  <2>1. CASE Environment /\ UNCHANGED frame
    <3>1. UNCHANGED worker
      BY <2>1 DEF Environment, ChangeSpec, Create, Delete, Edit, Deliver, Resync,
         ReleaseForeign
    <3>2. QED
      BY <2>1, <3>1 DEF RoleInv, RoleChecked, FrameFits, worker, name
  <2>2. CASE LoopWorker /\ UNCHANGED frame
    <3>1. pc # "resource" /\ pc' # "removeFinalizer"
      BY <2>2 DEF LoopWorker, Conclude, Get, Entry, AddFinalizer, SetProgressing, SetReady,
         SetDegraded, RemoveFinalizer, UpdateStatus, Request, Return
    <3>2. QED
      BY <2>2, <3>1 DEF RoleInv, RoleChecked, FrameFits
  <2>3. CASE Restart /\ frame' = Fresh
    BY <2>3 DEF Restart, Fresh, RoleChecked, FrameFits
  <2>4. QED
    BY <2>1, <2>2, <2>3
<1>2. NoOrphanRole'
  <2>1. ASSUME NEW s \in Servers, NEW n \in Names, roles[s][n].exists
        PROVE  \E k \in Keys : Guarded(api'[k]) /\ NameOf[k] = n
    <3>1. PICK k \in Keys : Guarded(api[k]) /\ NameOf[k] = n
      BY <2>1 DEF RoleInv, NoOrphanRole
    <3>2. CASE RemoveFinalizer /\ k = cur
      BY <2>1, <3>1, <3>2 DEF RemoveFinalizer, RoleInv, RoleChecked, FrameFits, name
    <3>3. QED
      BY <3>1, <3>2, OnlyRemovalUnguards DEF TypeOK, RoleInv
  <2>2. QED
    BY <2>1, RoleAssumption DEF NoOrphanRole, OneServer, LoopInv, ObjectsSpecified, Guarded
<1>3. QED
  BY <1>1, <1>2 DEF RoleInv

(* The statements orphan no role: one is created only for an object that   *)
(* the operator has guarded, and the object is let go only without it.     *)
LEMMA ExecKeepsRoleInv ==
  ASSUME TypeOK, LoopInv', OneServer, RoleInv, pc = "resource", NEW accepted, NEW new \in Role,
         Exec(accepted, new), new.exists => ~obj.deleting,
         obj.deleting => ~new.exists
  PROVE  RoleInv'
<1>1. server \in Servers /\ name \in Names /\ obj \in Seen(cur) /\ cur \in Keys
  BY WorkerTypes DEF RoleInv, TypeOK, LoopTypeOK
<1>2. /\ api' = api /\ cur' = cur /\ frame' = Fresh
      /\ roles' = roles \/ roles' = [roles EXCEPT ![server][name] = new]
      /\ pc' = "removeFinalizer" => roles' = [roles EXCEPT ![server][name] = new] /\ obj.deleting
  BY DEF Exec, Succeed, Fail, Return, objects
<1>3. RoleChecked'
  BY <1>1, <1>2 DEF RoleChecked, FrameFits, OneServer, TypeOK, Fresh, name
<1>4. new.exists => Guarded(api[cur])
  BY <1>1 DEF RoleInv, LoopInv, WorkerChecked, GuardSeen, LiveGuarded, Guarded
<1>5. ASSUME NEW s \in Servers, NEW n \in Names, roles'[s][n].exists
      PROVE  \E k \in Keys : Guarded(api[k]) /\ NameOf[k] = n
  <2>1. roles[s][n].exists \/ (n = name /\ new.exists)
    BY <1>1, <1>2, <1>5 DEF TypeOK
  <2>2. QED
    BY <1>1, <1>4, <2>1 DEF RoleInv, NoOrphanRole, name
<1>6. NoOrphanRole'
  BY <1>2, <1>5, RoleAssumption
     DEF NoOrphanRole, OneServer, RoleInv, LoopInv, ObjectsSpecified, Guarded
<1>7. QED
  BY <1>3, <1>6 DEF RoleInv

LEMMA ReconcileResourceKeepsRoleInv ==
  ASSUME TypeOK, LoopInv', OneServer, RoleInv, ReconcileResource
  PROVE  RoleInv'
<1> pc = "resource"
  BY DEF ReconcileResource, CheckRole, GetPassword, WriteRole, RemoveRole
<1>0. /\ obj \in Object /\ role \in Role /\ frame \in Frame /\ server \in Servers
      /\ obj.spec.on \in SUBSET Attributes /\ obj.spec.off \in SUBSET Attributes
  BY WorkerTypes DEF RoleInv, TypeOK
<1>1. CASE WriteRole
  BY <1>0, <1>1, StatementTypes, ExecKeepsRoleInv
     DEF WriteRole, RoleInv, RoleChecked, FrameFits, Frame, Object
<1>2. CASE RemoveRole
  <2>1. DropRole(role) \in Role /\ ~DropRole(role).exists
    BY <1>0, StatementTypes DEF DropRole, NoRole, Role, Password
  <2>2. QED
    BY <1>2, <2>1, ExecKeepsRoleInv DEF RemoveRole
<1>3. CASE CheckRole \/ GetPassword
  <2>1. api' = api /\ roles' = roles /\ cur' = cur
    BY <1>3 DEF CheckRole, GetPassword, Continue, Succeed, Fail, external, objects, loopVars
  <2>2. NoOrphanRole'
    BY <2>1 DEF RoleInv, NoOrphanRole
  <2>3. RoleChecked'
    <3>1. CASE CheckRole
      BY <1>0, <2>1, <3>1 DEF CheckRole, Continue, Succeed, Fail, Return, loopVars, RoleInv,
         RoleChecked, FrameFits, OneServer, role, name, Object
    <3>2. CASE GetPassword
      BY <1>0, <2>1, <3>2 DEF GetPassword, Continue, Fail, Return, loopVars, RoleInv,
         RoleChecked, FrameFits, Fresh, name, Object
    <3>3. QED
      BY <1>3, <3>1, <3>2
  <2>4. QED
    BY <2>2, <2>3 DEF RoleInv
<1>4. QED
  BY <1>1, <1>2, <1>3 DEF ReconcileResource

LEMMA NextKeepsRoleInv ==
  ASSUME TypeOK, OneServer, RoleInv, [Next]_vars
  PROVE  RoleInv'
<1>1. TypeOK' /\ LoopInv'
  BY NextKeeps DEF RoleInv
<1>2. CASE Disturb \/ Repair \/ UNCHANGED vars
  <2>1. UNCHANGED <<api, roles, pc, cur, obj, frame>>
    BY <1>2 DEF Disturb, Repair, vars, loopVars, external, worker
  <2>2. QED
    BY <1>1, <2>1 DEF RoleInv, RoleChecked, FrameFits, NoOrphanRole, name
<1>3. QED
  BY <1>1, <1>2, LoopKeepsRoleInv, ReconcileResourceKeepsRoleInv DEF Next, external

LEMMA InitEstablishesRoleInv == Init => RoleInv
<1> SUFFICES ASSUME Init PROVE RoleInv
  OBVIOUS
<1>1. \A s \in Servers, n \in Names : ~roles[s][n].exists
  BY DEF Init, NoRole
<1>2. QED
  BY <1>1, InitEstablishes
     DEF RoleInv, RoleChecked, FrameFits, NoOrphanRole, Init, LoopInit, Fresh

(* The invariant the theorems below rest on.                               *)
THEOREM RoleInvHolds ==
  ASSUME OneServer
  PROVE  Spec => [](TypeOK /\ RoleInv)
<1>1. Init => TypeOK /\ RoleInv
  BY InitEstablishes, InitEstablishesRoleInv
<1>2. TypeOK /\ RoleInv /\ [Next]_vars => TypeOK' /\ RoleInv'
  BY NextKeeps, NextKeepsRoleInv DEF RoleInv
<1>3. QED
  BY <1>1, <1>2, PTL DEF Spec

(* As long as all objects refer to one server, no role outlives the last   *)
(* object that guards it, whatever is lost, repeated or restarted.         *)
THEOREM NoOrphans ==
  ASSUME OneServer
  PROVE  Spec => []NoOrphanRole
<1>1. TypeOK /\ RoleInv => NoOrphanRole
  BY DEF RoleInv
<1>2. QED
  BY <1>1, RoleInvHolds, PTL

(* Only RemoveRole drops a role: the one of the worker's object, which is  *)
(* being deleted in every version since the one the worker read.           *)
LEMMA DropsOnlyDeleting ==
  ASSUME TypeOK, RoleInv, OneNameEach, [Next]_vars,
         NEW s \in Servers, NEW n \in Names, roles[s][n].exists, ~roles'[s][n].exists,
         NEW k \in Keys, NameOf[k] = n, api[k].exists
  PROVE  api[k].deleting
<1>1. roles' # roles
  OBVIOUS
<1>2. WriteRole \/ RemoveRole
  BY <1>1 DEF Next, ReconcileResource, CheckRole, GetPassword, Disturb, Repair, vars, external
<1> pc = "resource"
  BY <1>2 DEF WriteRole, RemoveRole
<1>3. server \in Servers /\ name \in Names /\ role \in Role /\ obj \in Seen(cur) /\ cur \in Keys
  BY WorkerTypes DEF RoleInv, TypeOK, LoopTypeOK
<1>4. RemoveRole
  <2>1. ASSUME NEW accepted, NEW new, new.exists, Exec(accepted, new)
        PROVE  FALSE
    BY <1>1, <1>3, <2>1 DEF Exec, TypeOK
  <2>2. CASE WriteRole
    <3>1. CreateRole(role, frame.password, obj.spec.on, obj.spec.off).exists
      BY DEF CreateRole
    <3>2. frame.found /\ AlterRoleAccepted(role, obj.spec.on, obj.spec.off) =>
            AlterRole(role, frame.password, obj.spec.on, obj.spec.off).exists
      BY <1>3 DEF AlterRole, AlterRoleAccepted, Role
    <3>3. ~AlterRoleAccepted(role, obj.spec.on, obj.spec.off) => ~frame.found
      BY <1>1, <2>2, <3>1, <2>1 DEF WriteRole, Exec
    <3>4. QED
      BY <2>1, <2>2, <3>1, <3>2, <3>3 DEF WriteRole
  <2>3. QED
    BY <1>2, <2>2
<1>5. obj.deleting /\ n = name
  <2>1. obj.deleting
    BY <1>4 DEF RemoveRole, RoleInv, RoleChecked, FrameFits
  <2>2. roles' = [roles EXCEPT ![server][name] = DropRole(role)]
    BY <1>1, <1>4 DEF RemoveRole, Exec
  <2>3. QED
    BY <1>3, <2>1, <2>2 DEF TypeOK
<1>6. Guarded(api[cur]) /\ k = cur
  BY <1>3, <1>5 DEF RoleInv, NoOrphanRole, OneNameEach, name
<1>7. ~LiveGuarded(api[cur])
  BY <1>3, <1>5 DEF RoleInv, LoopInv, NotResurrected, VersionsOrdered
<1>8. QED
  BY <1>6, <1>7 DEF LiveGuarded

(* When no two objects name one role, a role is dropped only while the     *)
(* object that names it is being deleted, however stale the operator's     *)
(* view of it is.                                                          *)
THEOREM DropsNothingLive ==
  ASSUME OneServer, OneNameEach
  PROVE  Spec => NeverDropsLive
<1>1. TypeOK /\ RoleInv /\ [Next]_vars =>
        [\A s \in Servers, n \in Names :
           roles[s][n].exists /\ ~roles'[s][n].exists
             => \A k \in Keys : NameOf[k] = n /\ api[k].exists /\ api[k].spec.server = s
                                  => api[k].deleting]_vars
  BY DropsOnlyDeleting
<1>2. QED
  BY <1>1, RoleInvHolds, PTL DEF Spec, NeverDropsLive
-------------------------------------------------------------------------------
LEMMA InitStatus == Init => StatusInv
<1> SUFFICES ASSUME Init PROVE StatusInv
  OBVIOUS
<1>1. pc = "idle" /\ \A k \in Keys : api[k] = NoObject
  BY DEF Init, LoopInit
<1>2. QED
  BY <1>1, NoObjectCoherent DEF StatusInv, StatusCoherent, Coherent

LEMMA NextKeepsStatus ==
  ASSUME TypeOK, StatusInv, [Next]_vars
  PROVE  StatusInv'
<1>1. CASE UNCHANGED <<api, pc, obj>>
  BY <1>1 DEF StatusInv, StatusCoherent, Coherent
<1>2. CASE ReconcileResource
  BY <1>1, <1>2, ResourceSteps, ResultKeepsStatus DEF loopVars, TypeOK
<1>3. CASE Disturb \/ Repair \/ UNCHANGED vars
  BY <1>1, <1>3 DEF Disturb, Repair, vars, loopVars, worker
<1>4. QED
  BY <1>2, <1>3, LoopKeepsStatus DEF Next, TypeOK

(* Whatever was read, lost or repeated, the stored phase names the one     *)
(* condition that is True.                                                 *)
THEOREM StatusNeverContradicts == Spec => []StatusCoherent
<1>1. StatusInv => StatusCoherent
  BY DEF StatusInv
<1>2. QED
  BY <1>1, InitStatus, NextKeepsStatus, TypeCorrect, PTL DEF Spec
-------------------------------------------------------------------------------
Held(k) == \E s \in Servers : roles[s][NameOf[k]].exists

(* A write to one object is a step of the abstract specification.          *)
LEMMA MoveRefines ==
  ASSUME NEW k \in Keys, \A j \in Keys \ {k} : api'[j] = api[j], roles' = roles, Moves(k, Held(k))
  PROVE  [Lifecycle!Next]_(Lifecycle!vars)
<1> DEFINE claim   == [j \in Keys |-> ClaimOf(api[j])]
           guarded == {j \in Keys : Guarded(api[j])}
           held    == {j \in Keys : \E s \in Servers : roles[s][NameOf[j]].exists}
<1>1. held' = held /\ (k \in held <=> Held(k))
  BY DEF Held
<1>2. claim' = [claim EXCEPT ![k] = ClaimOf(api'[k])] /\ claim[k] = ClaimOf(api[k])
  BY DEF ClaimOf
<1>3. /\ Guarded(api'[k]) => guarded' = guarded \cup {k}
      /\ ~Guarded(api'[k]) => guarded' = guarded \ {k}
      /\ k \in guarded <=> Guarded(api[k])
  BY DEF Guarded
<1> HIDE DEF claim, guarded, held
<1>5. CASE ClaimOf(api'[k]) = ClaimOf(api[k]) /\ Guarded(api'[k]) = Guarded(api[k])
  <2>1. claim' = claim
    BY <1>2, <1>5 DEF claim
  <2>2. guarded' = guarded
    BY <1>3, <1>5
  <2>3. QED
    BY <1>1, <2>1, <2>2 DEF Lifecycle!vars, claim, guarded, held
<1>6. CASE ClaimOf(api[k]) = "none" /\ ClaimOf(api'[k]) = "open"
           /\ Guarded(api'[k]) = Guarded(api[k])
  <2>1. guarded' = guarded
    BY <1>3, <1>6
  <2>2. Lifecycle!Claim(k)
    BY <1>1, <1>2, <1>6, <2>1 DEF Lifecycle!Claim, Lifecycle!Move, claim, guarded, held
  <2>3. QED
    BY <2>2 DEF Lifecycle!Next
<1>7. CASE ClaimOf(api[k]) = "open" /\ ClaimOf(api'[k]) = "closing"
           /\ Guarded(api'[k]) = Guarded(api[k])
  <2>1. guarded' = guarded
    BY <1>3, <1>7
  <2>2. Lifecycle!Withdraw(k)
    BY <1>1, <1>2, <1>7, <2>1 DEF Lifecycle!Withdraw, Lifecycle!Move, claim, guarded, held
  <2>3. QED
    BY <2>2 DEF Lifecycle!Next
<1>8. CASE ClaimOf(api[k]) = "open" /\ ClaimOf(api'[k]) = "none"
           /\ ~Guarded(api[k]) /\ ~Guarded(api'[k])
  <2>1. guarded' = guarded /\ k \notin guarded
    BY <1>3, <1>8
  <2>2. Lifecycle!Withdraw(k)
    BY <1>1, <1>2, <1>8, <2>1 DEF Lifecycle!Withdraw, Lifecycle!Move, claim, guarded, held
  <2>3. QED
    BY <2>2 DEF Lifecycle!Next
<1>9. CASE ClaimOf(api[k]) = "open" /\ ClaimOf(api'[k]) = "open" /\ Guarded(api'[k])
  <2>1. claim' = claim
    BY <1>2, <1>9 DEF claim
  <2>2. Lifecycle!Guard(k)
    BY <1>1, <1>2, <1>3, <1>9, <2>1 DEF Lifecycle!Guard, claim, guarded, held
  <2>3. QED
    BY <2>2 DEF Lifecycle!Next
<1>10. CASE ClaimOf(api[k]) = "closing" /\ ClaimOf(api'[k]) \in {"closing", "none"}
            /\ ~Held(k) /\ ~Guarded(api'[k])
  <2>1. claim' = claim \/ claim' = [claim EXCEPT ![k] = "none"]
    BY <1>2, <1>10 DEF claim
  <2>2. Lifecycle!Release(k)
    BY <1>1, <1>2, <1>3, <1>10, <2>1 DEF Lifecycle!Release, Lifecycle!Move, claim, guarded, held
  <2>3. QED
    BY <2>2 DEF Lifecycle!Next
<1>11. QED
  BY <1>5, <1>6, <1>7, <1>8, <1>9, <1>10 DEF Moves

LEMMA HeldGuarded ==
  ASSUME RoleInv, OneNameEach, NEW k \in Keys, Held(k)
  PROVE  Guarded(api[k])
<1>1. PICK s \in Servers : roles[s][NameOf[k]].exists
  BY DEF Held
<1>2. NameOf[k] \in Names
  BY RoleAssumption
<1>3. QED
  BY <1>1, <1>2 DEF RoleInv, NoOrphanRole, OneNameEach

(* The loop refines the abstract specification.                            *)
LEMMA LoopRefines ==
  ASSUME TypeOK, RoleInv, OneServer, OneNameEach, roles' = roles,
         LoopWorker \/ Environment \/ Restart
  PROVE  [Lifecycle!Next]_(Lifecycle!vars)
<1> DEFINE held == {k \in Keys : Held(k)}
<1>1. \A k \in held : Guarded(api[k])
  BY HeldGuarded
<1>2. pc = "removeFinalizer" => cur \notin held
  BY DEF RoleInv, RoleChecked, Held, name
<1>3. \E k \in Keys : (\A j \in Keys \ {k} : api'[j] = api[j]) /\ Moves(k, k \in held)
  BY <1>1, <1>2, LoopMoves DEF TypeOK, RoleInv
<1>4. PICK k \in Keys : (\A j \in Keys \ {k} : api'[j] = api[j]) /\ Moves(k, Held(k))
  BY <1>3 DEF Moves
<1>5. QED
  BY <1>4, MoveRefines

(* A statement makes or removes the role of one object.                    *)
LEMMA StatementRefines ==
  ASSUME TypeOK, RoleInv, OneServer, OneNameEach, ReconcileResource
  PROVE  [Lifecycle!Next]_(Lifecycle!vars)
<1> DEFINE claim   == [j \in Keys |-> ClaimOf(api[j])]
           guarded == {j \in Keys : Guarded(api[j])}
           held    == {j \in Keys : \E s \in Servers : roles[s][NameOf[j]].exists}
<1> pc = "resource"
  BY DEF ReconcileResource, CheckRole, GetPassword, WriteRole, RemoveRole
<1>1. /\ server \in Servers /\ name \in Names /\ obj \in Seen(cur) /\ cur \in Keys
      /\ obj \in Object
  BY WorkerTypes DEF RoleInv, TypeOK, LoopTypeOK
<1>2. api' = api
  BY DEF ReconcileResource, CheckRole, GetPassword, WriteRole, RemoveRole, Exec, Continue,
     Succeed, Fail, objects, loopVars
<1>3. claim' = claim /\ guarded' = guarded
  BY <1>2
<1>4. CASE roles' = roles
  BY <1>2, <1>4 DEF Lifecycle!vars
<1>5. ASSUME NEW accepted, NEW new, Exec(accepted, new), roles' # roles
      PROVE  held' = IF new.exists THEN held \cup {cur} ELSE held \ {cur}
  <2>1. roles' = [roles EXCEPT ![server][name] = new]
    BY <1>5 DEF Exec
  <2>2. \A s \in Servers, j \in Keys :
          roles'[s][NameOf[j]] = IF j = cur THEN new ELSE roles[s][NameOf[j]]
    <3> TAKE s \in Servers, j \in Keys
    <3>1. s = server /\ NameOf[j] \in Names /\ (NameOf[j] = name <=> j = cur)
      BY <1>1, RoleAssumption DEF OneServer, OneNameEach, name
    <3>2. /\ roles \in [Servers -> [Names -> Role]]
          /\ roles[s] \in [Names -> Role]
      BY DEF TypeOK
    <3>3. roles'[s] = [roles[s] EXCEPT ![name] = new]
      BY <1>1, <2>1, <3>1, <3>2
    <3>4. QED
      BY <3>1, <3>2, <3>3
  <2>3. server \in Servers /\ ((\E s \in Servers : roles'[s][NameOf[cur]].exists) <=> new.exists)
    BY <1>1, <2>2
  <2>4. \A j \in Keys \ {cur} : (\E s \in Servers : roles'[s][NameOf[j]].exists)
                                <=> (\E s \in Servers : roles[s][NameOf[j]].exists)
    BY <2>2
  <2>5. QED
    BY <1>1, <2>3, <2>4
<1> HIDE DEF claim, guarded, held
<1> PICK k \in Keys : k = cur
  BY <1>1
<1>6. CASE held' = held \cup {cur} /\ ~obj.deleting
  <2>1. LiveGuarded(obj)
    BY <1>6 DEF RoleInv, LoopInv, WorkerChecked, LiveGuarded, Guarded
  <2>2. Guarded(api[k])
    BY <1>1, <2>1 DEF RoleInv, LoopInv, GuardSeen
  <2>3. Lifecycle!Provision(k)
    BY <1>3, <1>6, <2>2 DEF Lifecycle!Provision, claim, guarded, held
  <2>4. QED
    BY <2>3 DEF Lifecycle!Next
<1>7. CASE held' = held \ {cur} /\ obj.deleting
  <2>1. CASE cur \notin held
    BY <1>3, <1>7, <2>1 DEF Lifecycle!vars, claim, guarded, held
  <2>2. CASE cur \in held
    <3>1. Guarded(api[cur])
      BY <1>1, <2>2, HeldGuarded DEF held, Held
    <3>2. ~LiveGuarded(api[cur])
      BY <1>1, <1>7 DEF RoleInv, LoopInv, NotResurrected, VersionsOrdered
    <3>3. ClaimOf(api[cur]) = "closing"
      BY <3>1, <3>2 DEF LiveGuarded, Guarded, ClaimOf
    <3>4. Lifecycle!Deprovision(k)
      BY <1>3, <1>7, <3>3 DEF Lifecycle!Deprovision, claim, guarded, held
    <3>5. QED
      BY <3>4 DEF Lifecycle!Next
  <2>3. QED
    BY <2>1, <2>2
<1>8. CASE WriteRole /\ roles' # roles
  <2>1. ~obj.deleting /\ frame.step = "write"
    BY <1>1, <1>8 DEF WriteRole, RoleInv, RoleChecked, FrameFits, Object
  <2>2. CreateRole(role, frame.password, obj.spec.on, obj.spec.off).exists
    BY DEF CreateRole
  <2>3. role \in Role
    BY WorkerTypes DEF RoleInv
  <2>4. AlterRoleAccepted(role, obj.spec.on, obj.spec.off)
          => AlterRole(role, frame.password, obj.spec.on, obj.spec.off).exists
    BY <2>3 DEF AlterRole, AlterRoleAccepted, Role
  <2>5. held' = held \cup {cur}
    BY <1>5, <1>8, <2>2, <2>4 DEF WriteRole, Exec
  <2>6. QED
    BY <1>6, <2>1, <2>5
<1>9. CASE RemoveRole /\ roles' # roles
  <2>1. obj.deleting
    BY <1>9 DEF RemoveRole, RoleInv, RoleChecked, FrameFits
  <2>2. ~DropRole(role).exists
    BY DEF DropRole, NoRole
  <2>3. held' = held \ {cur}
    BY <1>5, <1>9, <2>2 DEF RemoveRole
  <2>4. QED
    BY <1>7, <2>1, <2>3
<1>10. CASE CheckRole \/ GetPassword
  BY <1>4, <1>10 DEF CheckRole, GetPassword, external
<1>11. QED
  BY <1>4, <1>8, <1>9, <1>10 DEF ReconcileResource

(* With one server and distinct names the controller implements the        *)
(* abstract specification: cache, queue, retries and crashes do not show.  *)
THEOREM ImplementsManagedResource ==
  ASSUME OneServer, OneNameEach
  PROVE  Spec => RefinesManagedResource
<1>1. Init => Lifecycle!Init
  <2> SUFFICES ASSUME Init PROVE Lifecycle!Init
    OBVIOUS
  <2>1. \A k \in Keys : ClaimOf(api[k]) = "none" /\ ~Guarded(api[k])
    BY DEF Init, LoopInit, NoObject, ClaimOf, Guarded
  <2>2. \A k \in Keys, s \in Servers : ~roles[s][NameOf[k]].exists
    BY RoleAssumption DEF Init, NoRole
  <2>3. QED
    BY <2>1, <2>2 DEF Lifecycle!Init
<1>2. ASSUME TypeOK, RoleInv, [Next]_vars
      PROVE  [Lifecycle!Next]_(Lifecycle!vars)
  <2>1. CASE Disturb \/ Repair \/ UNCHANGED vars
    <3>1. api' = api /\ roles' = roles
      BY <2>1 DEF Disturb, Repair, vars, loopVars, external
    <3>2. QED
      BY <3>1 DEF Lifecycle!vars
  <2>2. QED
    BY <1>2, <2>1, LoopRefines, StatementRefines DEF Next, external
<1>3. QED
  BY <1>1, <1>2, RoleInvHolds, PTL DEF Spec, RefinesManagedResource, Lifecycle!Spec
-------------------------------------------------------------------------------
(* A statement the server accepts leaves the role as the spec wants it.    *)
LEMMA WriteSatisfies ==
  ASSUME TypeOK, LoopInv, PasswordFits, pc = "resource", frame.step = "write"
  PROVE  LET s == obj.spec  pw == frame.password
         IN  /\ CreateRoleAccepted(role, s.on, s.off)
                  => Satisfies(CreateRole(role, pw, s.on, s.off), s)
             /\ AlterRoleAccepted(role, s.on, s.off)
                  => Satisfies(AlterRole(role, pw, s.on, s.off), s)
<1>1. role \in Role
  BY WorkerTypes
<1>2. ASSUME Consistent(obj.spec.on, obj.spec.off)
      PROVE  Satisfies(CreateRole(role, frame.password, obj.spec.on, obj.spec.off), obj.spec)
  BY <1>2 DEF Consistent, CreateRole, Satisfies, PasswordFits
<1>3. ASSUME Consistent(obj.spec.on, obj.spec.off), role.exists
      PROVE  Satisfies(AlterRole(role, frame.password, obj.spec.on, obj.spec.off), obj.spec)
  BY <1>1, <1>3 DEF Consistent, AlterRole, Satisfies, PasswordFits, Role
<1>4. QED
  BY <1>2, <1>3 DEF CreateRoleAccepted, AlterRoleAccepted

(* A statement touches the role of an object that says Ready only by       *)
(* making it once more what the object wants.                              *)
LEMMA ExecKeepsReady ==
  ASSUME TypeOK, RoleReadyInv, OneNameEach, pc = "resource", NEW accepted, NEW new,
         Exec(accepted, new), accepted /\ ~obj.deleting => Satisfies(new, obj.spec)
  PROVE  ReadyIsReal' /\ ReadyEarned'
<1>1. /\ obj \in Object /\ obj \in Seen(cur) /\ cur \in Keys
      /\ server \in Servers /\ name \in Names
  BY WorkerTypes DEF RoleReadyInv, TypeOK, LoopTypeOK
<1>2. api' = api /\ cur' = cur
  BY DEF Exec, Succeed, Fail, objects
<1>3. roles' = roles \/ (accepted /\ roles' = [roles EXCEPT ![server][name] = new])
  BY DEF Exec
<1>4. ASSUME NEW k \in Keys, SaysReady(k)
      PROVE  Satisfies(roles'[api[k].spec.server][NameOf[k]], api[k].spec)
  <2>1. Satisfies(roles[api[k].spec.server][NameOf[k]], api[k].spec)
    BY <1>4 DEF RoleReadyInv, ReadyIsReal
  <2>2. CASE k = cur
    <3>1. ~obj.deleting /\ obj.spec = api[k].spec
      BY <1>1, <1>4, <2>2 DEF RoleReadyInv, ReadyInv, ReadySettled
    <3>2. CASE accepted /\ roles' = [roles EXCEPT ![server][name] = new]
      <4>1. roles'[server][name] = new
        BY <1>1, <3>2 DEF TypeOK
      <4>2. QED
        BY <2>2, <3>1, <3>2, <4>1 DEF server, name
    <3>3. QED
      BY <1>3, <2>1, <3>2
  <2>3. CASE k # cur
    <3>1. api[k].spec \in Specs /\ NameOf[k] \in Names /\ NameOf[k] # name
      BY <1>1, <1>4, <2>3, RoleAssumption
         DEF RoleReadyInv, LoopInv, ObjectsSpecified, SaysReady, Reports, OneNameEach, name
    <3>2. roles'[api[k].spec.server][NameOf[k]] = roles[api[k].spec.server][NameOf[k]]
      BY <1>1, <1>3, <3>1, RoleAssumption DEF TypeOK
    <3>3. QED
      BY <2>1, <3>2
  <2>4. QED
    BY <2>2, <2>3
<1>5. ReadyIsReal'
  BY <1>2, <1>4 DEF ReadyIsReal, SaysReady
<1>6. ReadyEarned'
  <2> SUFFICES ASSUME pc' = "setReady", ~obj'.deleting
               PROVE  Satisfies(roles'[obj'.spec.server][NameOf[cur]], obj'.spec)
    BY <1>2 DEF ReadyEarned, role, server, name
  <2>1. Succeed /\ accepted /\ roles' = [roles EXCEPT ![server][name] = new]
    BY DEF Exec, Fail, Return
  <2>2. obj' = SetStatus(obj, "Ready", "reconciled")
    BY <2>1 DEF Succeed, Return
  <2>3. obj'.deleting = obj.deleting /\ obj'.spec = obj.spec
    BY <1>1, <2>2, SetStatusKeeps, StatusWords
  <2>4. roles'[server][name] = new
    BY <1>1, <2>1 DEF TypeOK
  <2>5. QED
    BY <2>1, <2>3, <2>4 DEF server, name
<1>7. QED
  BY <1>5, <1>6

(* The frame of ReconcileResource fits the object it is about.             *)
LEMMA FrameKept ==
  ASSUME TypeOK, LoopInv, FrameFits, PasswordFits, [Next]_vars
  PROVE  FrameFits' /\ PasswordFits'
<1>1. CASE LoopWorker /\ UNCHANGED frame
  <2>1. pc # "resource"
    BY <1>1 DEF LoopWorker, Conclude, Get, AddFinalizer, SetProgressing, SetReady,
       SetDegraded, RemoveFinalizer
  <2>2. QED
    BY <1>1, <2>1 DEF FrameFits, PasswordFits
<1>2. ASSUME frame' = Fresh
      PROVE  FrameFits' /\ PasswordFits'
  BY <1>2 DEF FrameFits, PasswordFits, Fresh
<1>3. CASE UNCHANGED <<pc, obj, frame>>
  BY <1>3 DEF FrameFits, PasswordFits
<1>4. CASE Environment /\ UNCHANGED frame
  BY <1>3, <1>4 DEF Environment, ChangeSpec, Create, Delete, Edit, Deliver, Resync,
     ReleaseForeign, worker
<1>5. CASE CheckRole
  BY <1>5 DEF CheckRole, Continue, loopVars, FrameFits, PasswordFits, TypeOK, LoopTypeOK, Object
<1>6. CASE GetPassword
  <2>1. frame.step = "password" /\ ~obj.deleting /\ pc = "resource"
    BY <1>6 DEF GetPassword, FrameFits, TypeOK, LoopTypeOK, Object
  <2>2. CASE frame' = Fresh
    BY <1>2, <2>2
  <2>3. ASSUME NEW pw, Continue("write", frame.found, pw),
               pw # NoPassword <=> obj.spec.passwordSecret
        PROVE  FrameFits' /\ PasswordFits'
    BY <2>1, <2>3 DEF Continue, loopVars, FrameFits, PasswordFits
  <2>4. QED
    BY <1>6, <2>2, <2>3 DEF GetPassword
<1>7. CASE WriteRole \/ RemoveRole
  BY <1>2, <1>7 DEF WriteRole, RemoveRole, Exec
<1>8. CASE Disturb \/ Repair \/ UNCHANGED vars
  BY <1>3, <1>8 DEF Disturb, Repair, vars, loopVars, worker
<1>9. QED
  BY <1>1, <1>2, <1>4, <1>5, <1>6, <1>7, <1>8 DEF Next, ReconcileResource

LEMMA NextKeepsReady ==
  ASSUME TypeOK, RoleReadyInv, OneNameEach, [Next]_vars
  PROVE  RoleReadyInv'
<1>1. TypeOK' /\ LoopInv' /\ FrameFits' /\ PasswordFits'
  BY NextKeeps, FrameKept DEF RoleReadyInv
<1>2. ASSUME UNCHANGED <<api, roles, pc, cur, obj>>
      PROVE  ReadyIsReal' /\ ReadyEarned'
  BY <1>2 DEF RoleReadyInv, ReadyIsReal, ReadyEarned, SaysReady, role, server, name
<1>3. ASSUME UNCHANGED <<watch, cache, api, pc, cur, obj>>
      PROVE  ReadyInv'
  <2>1. \A k \in Keys : Seen(k)' = Seen(k)
    BY <1>3 DEF Seen
  <2>2. QED
    BY <1>3, <2>1 DEF RoleReadyInv, ReadyInv, VersionsAgree, ReadyNotAhead, ReadyOnSuccess,
       ReadySettled, SaysReady
<1>4. CASE (LoopWorker \/ Environment \/ Restart) /\ roles' = roles
  <2>1. ReadyInv'
    BY <1>4, LoopKeepsReady DEF RoleReadyInv, TypeOK
  <2>2. ReadyIsReal'
    <3> SUFFICES ASSUME NEW k \in Keys, SaysReady(k)'
                 PROVE  Satisfies(roles[api'[k].spec.server][NameOf[k]], api'[k].spec)
      BY <1>4 DEF ReadyIsReal
    <3>1. /\ api'[k].spec = api[k].spec
          /\ SaysReady(k) \/ (/\ pc = "setReady" /\ k = cur /\ Current
                              /\ obj.spec = api[k].spec /\ ~obj.deleting)
      BY <1>4, ReadyArises DEF RoleReadyInv, TypeOK
    <3>2. QED
      BY <3>1 DEF RoleReadyInv, ReadyIsReal, ReadyEarned, role, server, name
  <2>3. ReadyEarned'
    <3>1. CASE Environment
      <4>1. UNCHANGED worker
        BY <3>1 DEF Environment, ChangeSpec, Create, Delete, Edit, Deliver, Resync,
           ReleaseForeign
      <4>2. QED
        BY <1>4, <4>1 DEF RoleReadyInv, ReadyEarned, worker, role, server, name
    <3>2. CASE LoopWorker \/ Restart
      BY <3>2 DEF LoopWorker, Conclude, Get, Entry, AddFinalizer, SetProgressing, SetReady,
         SetDegraded, RemoveFinalizer, UpdateStatus, Request, Return, Restart, ReadyEarned
    <3>3. QED
      BY <1>4, <3>1, <3>2
  <2>4. QED
    BY <1>1, <2>1, <2>2, <2>3 DEF RoleReadyInv
<1>5. CASE WriteRole \/ RemoveRole
  <2> pc = "resource"
    BY <1>5 DEF WriteRole, RemoveRole
  <2>1. ReadyInv'
    BY <1>5, ResultKeepsReady DEF WriteRole, RemoveRole, Exec, Errors, RoleReadyInv, TypeOK
  <2>2. ASSUME WriteRole
        PROVE  ReadyIsReal' /\ ReadyEarned'
    BY <2>2, WriteSatisfies, ExecKeepsReady DEF WriteRole, RoleReadyInv
  <2>3. ASSUME RemoveRole
        PROVE  ReadyIsReal' /\ ReadyEarned'
    <3>1. obj.deleting
      BY <2>3 DEF RemoveRole, RoleReadyInv, FrameFits
    <3>2. QED
      BY <2>3, <3>1, ExecKeepsReady DEF RemoveRole
  <2>4. QED
    BY <1>1, <1>5, <2>1, <2>2, <2>3 DEF RoleReadyInv
<1>6. CASE CheckRole \/ GetPassword
  <2>1. CASE UNCHANGED loopVars
    BY <1>1, <1>2, <1>3, <1>6, <2>1 DEF CheckRole, GetPassword, external, loopVars, RoleReadyInv
  <2>2. CASE Succeed \/ \E msg \in Errors : Fail(msg)
    <3>1. ReadyInv'
      BY <2>2, ResultKeepsReady DEF RoleReadyInv, TypeOK
    <3>2. api' = api /\ roles' = roles
      BY <1>6, <2>2 DEF Succeed, Fail, objects, CheckRole, GetPassword, external
    <3>3. ReadyIsReal'
      BY <3>2 DEF RoleReadyInv, ReadyIsReal, SaysReady
    <3>4. pc' = "setReady" => CheckRole /\ obj.deleting /\ Succeed
      BY <1>6, <2>2 DEF CheckRole, GetPassword, Fail, Return, Continue, loopVars
    <3>5. pc' = "setReady" => obj'.deleting
      <4>1. obj \in Object
        BY DEF TypeOK, LoopTypeOK
      <4>2. SetStatus(obj, "Ready", "reconciled").deleting = obj.deleting
        BY <4>1, SetStatusKeeps, StatusWords
      <4>3. QED
        BY <3>4, <4>2 DEF Succeed, Return
    <3>6. QED
      BY <1>1, <3>1, <3>3, <3>5 DEF RoleReadyInv, ReadyEarned
  <2>3. QED
    BY <1>6, <2>1, <2>2 DEF CheckRole, GetPassword, Continue, Errors
<1>7. CASE Disturb \/ Repair \/ UNCHANGED vars
  BY <1>1, <1>2, <1>3, <1>7 DEF Disturb, Repair, vars, loopVars, external, worker, RoleReadyInv
<1>8. QED
  BY <1>4, <1>5, <1>6, <1>7 DEF Next, ReconcileResource, external

(* When no two objects name one role, an object that says Ready for its    *)
(* current generation is backed by a role as its spec wants it, whatever   *)
(* was read late, lost, repeated or restarted; also when specs move from   *)
(* server to server.                                                       *)
THEOREM ReadyIsNeverALie ==
  ASSUME OneNameEach
  PROVE  Spec => []ReadyIsReal
<1>1. Init => RoleReadyInv
  <2> SUFFICES ASSUME Init PROVE RoleReadyInv
    OBVIOUS
  <2>1. LoopInv /\ ReadyInv
    BY InitEstablishes, LoopStartsReady DEF Init
  <2>2. pc = "idle" /\ frame.step = "begin" /\ \A k \in Keys : ~api[k].exists
    BY DEF Init, LoopInit, Fresh, NoObject
  <2>3. QED
    BY <2>1, <2>2 DEF RoleReadyInv, FrameFits, PasswordFits, ReadyEarned, ReadyIsReal,
       SaysReady, Reports
<1>2. TypeOK /\ RoleReadyInv /\ [Next]_vars => RoleReadyInv'
  BY NextKeepsReady
<1>3. RoleReadyInv => ReadyIsReal
  BY DEF RoleReadyInv
<1>4. QED
  BY <1>1, <1>2, <1>3, TypeCorrect, PTL DEF Spec

===============================================================================
