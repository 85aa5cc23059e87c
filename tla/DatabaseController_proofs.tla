----------------------- MODULE DatabaseController_proofs -----------------------
(***************************************************************************)
(* What the database controller promises, for any number of objects,       *)
(* servers, names, secrets, privilege lists, edits and faults: its types;  *)
(* that Ready is never a lie and a resync never a disturbance; and, where  *)
(* no spec can leave its server and no CREATE DATABASE outlives its        *)
(* connection, that no database is orphaned.                               *)
(***************************************************************************)
EXTENDS DatabaseController, ReconcileLoop_proofs, FiniteSetTheorems

(* The worker is about a database that its user specified.                 *)
LEMMA WorkerTypes ==
  ASSUME TypeOK, LoopInv, pc = "resource"
  PROVE  /\ obj \in Object /\ obj.exists /\ obj.spec \in Specs /\ obj \in Seen(cur)
         /\ cur \in Keys /\ server \in Servers /\ name \in Databases /\ database \in Database
         /\ obj.spec.owner \in Names /\ present[server] \in SUBSET Names
         /\ obj.spec.privileges \in Seq(Privilege)
         /\ Len(obj.spec.privileges) \in Nat /\ Len(obj.spec.privileges) <= MaxEntries
<1>1. obj \in Object /\ cur \in Keys /\ obj \in Seen(cur)
  BY DEF TypeOK, LoopTypeOK, Seen
<1>2. obj.exists /\ obj.spec \in Specs
  BY <1>1 DEF LoopInv, WorkerChecked, ObjectsSpecified
<1>3. obj.spec.privileges \in Seq(Privilege)
  BY <1>2, DatabaseAssumption
<1>4. QED
  BY <1>1, <1>2, <1>3, DatabaseAssumption
     DEF server, name, database, TypeOK, SurroundingsTypeOK

LEMMA GranteeTypes == \A n \in Names : Grantee(n) \in Grantees
  BY DEF Grantee, Grantees

LEMMA ExistingTypes ==
  ASSUME NEW d \in Database, d.exists
  PROVE  d \in [exists : {TRUE}, owner : Names, acl : [Grantees -> SUBSET Privileges]]
<1>1. ~NoDatabase.exists
  BY DEF NoDatabase
<1>2. QED
  BY <1>1 DEF Database

(* The statements leave databases.                                         *)
LEMMA StatementTypes ==
  ASSUME NEW d \in Database, NEW owner \in Names
  PROVE  /\ NoDatabase \in Database /\ CreateDatabase(owner) \in Database
         /\ d.exists => /\ ChownDatabase(d, owner) \in Database
                        /\ \A g \in Grantees, ps \in SUBSET Privileges :
                             /\ GrantPrivileges(d, g, ps) \in Database
                             /\ RevokePrivileges(d, g, ps) \in Database
<1>1. NoDatabase \in Database
  BY DEF Database
<1>2. CreateDatabase(owner) \in Database
  BY DEF CreateDatabase, Database, Privileges
<1>3. ASSUME d.exists
      PROVE  ChownDatabase(d, owner) \in Database
  BY <1>3, ExistingTypes DEF ChownDatabase, Database, Grantees
<1>4. ASSUME d.exists, NEW g \in Grantees, NEW ps \in SUBSET Privileges
      PROVE  GrantPrivileges(d, g, ps) \in Database /\ RevokePrivileges(d, g, ps) \in Database
  BY <1>4, ExistingTypes DEF GrantPrivileges, RevokePrivileges, Database
<1>5. QED
  BY <1>1, <1>2, <1>3, <1>4

(* An entry of the list the worker has come to.                            *)
LEMMA EntryTypes ==
  ASSUME TypeOK, LoopInv, pc = "resource", frame.i \in DOMAIN obj.spec.privileges
  PROVE  /\ entry \in Privilege /\ entry.granted \in SUBSET Privileges
         /\ frame.i \in 1 .. MaxEntries
         /\ entry.role \notin missing => GetName(entry.role) \in Names
<1>1. /\ obj.spec.privileges \in Seq(Privilege)
      /\ Len(obj.spec.privileges) \in Nat /\ Len(obj.spec.privileges) <= MaxEntries
  BY WorkerTypes
<1>2. entry \in Privilege /\ frame.i \in 1 .. Len(obj.spec.privileges)
  BY <1>1 DEF entry
<1>3. entry.granted \in SUBSET Privileges /\ entry.role \in Names \cup Refs
  BY <1>2 DEF Privilege
<1>4. GetName(entry.role) \in Names
  BY <1>3 DEF GetName, TypeOK, SurroundingsTypeOK
<1>5. frame.i \in 1 .. MaxEntries
  BY <1>1, <1>2, DatabaseAssumption
<1>6. QED
  BY <1>2, <1>3, <1>4, <1>5
-------------------------------------------------------------------------------
(* What a step of the worker needs to keep besides the databases.          *)
FrameInv == FrameFits /\ InList

LEMMA FreshFits == ASSUME frame' = Fresh PROVE frame' \in Frame /\ FrameInv'
<1>1. Fresh \in Frame
  BY DatabaseAssumption DEF Fresh, Frame, Steps
<1>2. frame'.step = "begin"
  BY DEF Fresh
<1>3. QED
  BY <1>1, <1>2 DEF FrameInv, FrameFits, InList

(* Reconcile returns, or goes on to a later statement.                     *)
LEMMA ResultKeeps ==
  ASSUME TypeOK, LoopInv, Succeed \/ \E msg \in Errors : Fail(msg), faults' \in 0 .. MaxFaults,
         frame' = Fresh, UNCHANGED <<present, pinned, lookups>>,
         databases' \in [Servers -> [Databases -> Database]], late' \in SUBSET Creation
  PROVE  TypeOK' /\ LoopInv' /\ FrameInv'
<1>1. LoopTypeOK' /\ LoopInv'
  BY ResultKeepsTypes, ResultKeepsInv DEF TypeOK
<1>2. QED
  BY <1>1, FreshFits DEF TypeOK, SurroundingsTypeOK, lookups

LEMMA GotoKeeps ==
  ASSUME TypeOK, LoopInv, pc = "resource", NEW step \in Steps, NEW i \in 0 .. MaxEntries + 1,
         NEW r \in Names \cup {NoOwner}, Goto(step, i, r), UNCHANGED <<present, pinned, lookups>>,
         databases' \in [Servers -> [Databases -> Database]], late' = late,
         step # "begin", obj.deleting <=> step = "drop",
         step \in {"entry", "grant", "revoke"} => i >= 1,
         step \in {"grant", "revoke"} => i \in DOMAIN obj.spec.privileges /\ r \in Names
  PROVE  TypeOK' /\ LoopInv' /\ FrameInv'
<1>1. LoopTypeOK' /\ LoopInv'
  BY LoopStutters DEF Goto, TypeOK, LoopTypeOK, loopVars, objects, worker
<1>2. frame' = [step |-> step, i |-> i, role |-> r] /\ UNCHANGED <<pc, obj>>
  BY DEF Goto, loopVars
<1>3. frame' \in Frame
  BY <1>2 DEF Frame
<1>4. FrameFits'
  BY <1>2 DEF FrameFits
<1>5. InList'
  BY <1>2 DEF InList
<1>6. QED
  BY <1>1, <1>3, <1>4, <1>5 DEF TypeOK, SurroundingsTypeOK, lookups, FrameInv

(* What Exec does, whether the server accepts the statement or not.        *)
LEMMA ExecKeeps ==
  ASSUME TypeOK, LoopInv, NEW accepted, NEW new, accepted => new \in Database,
         NEW step \in Steps, NEW i \in 0 .. MaxEntries + 1, NEW r \in Names \cup {NoOwner},
         pc = "resource", Exec(accepted, new, Goto(step, i, r)), late' = late,
         step # "begin", obj.deleting <=> step = "drop",
         step \in {"entry", "grant", "revoke"} => i >= 1,
         step \in {"grant", "revoke"} => i \in DOMAIN obj.spec.privileges /\ r \in Names
  PROVE  TypeOK' /\ LoopInv' /\ FrameInv'
<1>1. server \in Servers /\ name \in Databases
  BY WorkerTypes
<1>2. databases' \in [Servers -> [Databases -> Database]]
  BY <1>1 DEF Exec, Store, TypeOK
<1>3. CASE Goto(step, i, r)
  BY <1>2, <1>3, GotoKeeps DEF Exec
<1>4. CASE Fail("refused") /\ frame' = Fresh /\ UNCHANGED faults
  BY <1>2, <1>4, ResultKeeps DEF Exec, Errors, TypeOK, LoopTypeOK
<1>5. CASE Broken
  BY <1>2, <1>5, ResultKeeps, LoopAssumption
     DEF Exec, Broken, Fault, Errors, TypeOK, LoopTypeOK
<1>6. QED
  BY <1>3, <1>4, <1>5 DEF Exec

LEMMA ReconcileResourceKeeps ==
  ASSUME TypeOK, LoopInv, FrameInv, ReconcileResource
  PROVE  TypeOK' /\ LoopInv' /\ FrameInv'
<1> pc = "resource"
  BY DEF ReconcileResource, CheckDatabase, DropDatabase, CreateDatabaseNow, ChownDatabaseNow,
     ReadEntry, GrantNow, RevokeNow
<1>1. /\ server \in Servers /\ name \in Databases /\ database \in Database
      /\ obj.spec.owner \in Names /\ obj.deleting \in BOOLEAN
      /\ MaxEntries \in Nat /\ {0, 1} \subseteq 0 .. MaxEntries + 1
      /\ Len(obj.spec.privileges) \in Nat /\ obj.spec.privileges \in Seq(Privilege)
  BY WorkerTypes, DatabaseAssumption DEF Object
<1>2. /\ frame.i \in 0 .. MaxEntries + 1 /\ frame.step \in Steps
      /\ frame.role \in Names \cup {NoOwner}
      /\ databases \in [Servers -> [Databases -> Database]] /\ late \in SUBSET Creation
      /\ faults \in 0 .. MaxFaults
  BY DEF TypeOK, Frame, LoopTypeOK
<1>3. Fault => faults' \in 0 .. MaxFaults
  BY <1>2, LoopAssumption DEF Fault
<1>4. CASE CheckDatabase
  <2>1. frame.step = "begin" /\ UNCHANGED external
    BY <1>4 DEF CheckDatabase
  <2>2. CASE (Succeed \/ \E msg \in Errors : Fail(msg)) /\ UNCHANGED frame
             /\ faults' \in 0 .. MaxFaults
    <3>1. LoopTypeOK' /\ LoopInv'
      BY <2>2, ResultKeepsTypes, ResultKeepsInv DEF TypeOK
    <3>2. QED
      BY <2>1, <2>2, <3>1
         DEF TypeOK, SurroundingsTypeOK, external, lookups, FrameInv, FrameFits, InList
  <2>3. ASSUME NEW step \in {"drop", "create", "chown"}, Goto(step, 0, NoOwner),
               obj.deleting <=> step = "drop"
        PROVE  TypeOK' /\ LoopInv' /\ FrameInv'
    BY <1>1, <1>2, <2>1, <2>3, GotoKeeps DEF external, Steps
  <2>4. QED
    BY <1>1, <1>2, <1>3, <1>4, <2>2, <2>3 DEF CheckDatabase, Errors
<1>5. CASE DropDatabase
  <2>1. NoDatabase \in Database /\ frame.step = "drop" /\ obj.deleting
    BY <1>5, StatementTypes DEF DropDatabase, FrameInv, FrameFits, Database
  <2>2. databases' \in [Servers -> [Databases -> Database]] /\ late' \in SUBSET Creation
    BY <1>1, <1>2, <1>5, <2>1 DEF DropDatabase, Exec, Store
  <2>3. faults' \in 0 .. MaxFaults /\ frame' = Fresh
        /\ (Succeed \/ \E msg \in Errors : Fail(msg))
    BY <1>2, <1>3, <1>5 DEF DropDatabase, Exec, Broken, Errors
  <2>4. QED
    BY <1>5, <2>2, <2>3, ResultKeeps DEF DropDatabase, Exec
<1>6. /\ 1 \in 0 .. MaxEntries + 1 /\ 1 >= 1 /\ "entry" \in Steps
      /\ NoOwner \in Names \cup {NoOwner}
      /\ "entry" # "begin" /\ "entry" # "drop" /\ "entry" \notin {"grant", "revoke"}
  BY <1>1 DEF Steps
<1>7. CASE CreateDatabaseNow
  <2>1. CreateDatabase(obj.spec.owner) \in Database /\ ~obj.deleting
    BY <1>1, <1>7, StatementTypes DEF CreateDatabaseNow, FrameInv, FrameFits
  <2>2. ASSUME Broken, late' = late \cup {[server |-> server, name |-> name,
                                           owner |-> obj.spec.owner]},
               UNCHANGED <<databases, present, pinned, lookups>>
        PROVE  TypeOK' /\ LoopInv' /\ FrameInv'
    <3>1. late' \in SUBSET Creation
      BY <1>1, <1>2, <2>2 DEF Creation
    <3>2. faults' \in 0 .. MaxFaults /\ frame' = Fresh
          /\ (Succeed \/ \E msg \in Errors : Fail(msg))
      BY <1>3, <2>2 DEF Broken, Errors
    <3>3. QED
      BY <1>2, <2>2, <3>1, <3>2, ResultKeeps
  <2>3. ASSUME NEW accepted, late' = late,
               Exec(accepted, CreateDatabase(obj.spec.owner), Goto("entry", 1, NoOwner))
        PROVE  TypeOK' /\ LoopInv' /\ FrameInv'
    BY <1>1, <1>6, <2>1, <2>3, ExecKeeps
  <2>4. QED
    BY <1>7, <2>2, <2>3 DEF CreateDatabaseNow
<1>8. CASE ChownDatabaseNow
  <2>1. /\ ChownDatabaseAccepted(database, present[server], obj.spec.owner)
             => ChownDatabase(database, obj.spec.owner) \in Database
        /\ ~obj.deleting
    BY <1>1, <1>8, StatementTypes DEF ChownDatabaseNow, ChownDatabaseAccepted, FrameInv, FrameFits
  <2>2. ASSUME NEW accepted, accepted => ChownDatabase(database, obj.spec.owner) \in Database,
               Exec(accepted, ChownDatabase(database, obj.spec.owner), Goto("entry", 1, NoOwner)),
               late' = late
        PROVE  TypeOK' /\ LoopInv' /\ FrameInv'
    BY <1>1, <1>6, <2>1, <2>2, ExecKeeps
  <2>3. QED
    BY <1>8, <2>1, <2>2 DEF ChownDatabaseNow
<1>9. CASE ReadEntry
  <2>1. frame.step = "entry" /\ ~obj.deleting /\ UNCHANGED external /\ frame.i >= 1
    BY <1>9 DEF ReadEntry, FrameInv, FrameFits, InList
  <2>2. CASE (Succeed \/ Fail("unresolved")) /\ frame' = Fresh /\ UNCHANGED faults
    BY <1>2, <2>1, <2>2, ResultKeeps DEF external, Errors
  <2>3. CASE frame.i <= Len(obj.spec.privileges) /\ entry.role \notin missing
             /\ Goto("grant", frame.i, GetName(entry.role))
    <3>1. frame.i \in DOMAIN obj.spec.privileges
      BY <1>1, <1>2, <2>1, <2>3
    <3>2. GetName(entry.role) \in Names
      BY <2>3, <3>1, EntryTypes
    <3>3. QED
      BY <1>2, <2>1, <2>3, <3>1, <3>2, GotoKeeps DEF external, Steps
  <2>4. QED
    BY <1>9, <2>2, <2>3 DEF ReadEntry
<1>10. ASSUME GrantNow \/ RevokeNow
      PROVE  /\ ~obj.deleting /\ frame.i \in DOMAIN obj.spec.privileges /\ frame.role \in Names
             /\ entry.granted \in SUBSET Privileges /\ frame.i \in 1 .. MaxEntries
             /\ Grantee(frame.role) \in Grantees
  BY <1>10, EntryTypes, GranteeTypes DEF GrantNow, RevokeNow, FrameInv, FrameFits, InList
<1>11. ASSUME GrantNow \/ RevokeNow, NEW step \in {"entry", "revoke"}, NEW i \in Nat,
              NEW r \in Names \cup {NoOwner},
              step = "entry" => i = frame.i + 1, step = "revoke" => i = frame.i /\ r = frame.role,
              NEW accepted, NEW new, accepted => new \in Database,
              \/ Goto(step, i, r) /\ UNCHANGED external
              \/ Exec(accepted, new, Goto(step, i, r)) /\ late' = late
       PROVE  TypeOK' /\ LoopInv' /\ FrameInv'
  <2>1. /\ i \in 0 .. MaxEntries + 1 /\ i >= 1 /\ ~obj.deleting /\ step \in Steps
        /\ step = "revoke" => i \in DOMAIN obj.spec.privileges /\ r \in Names
        /\ step # "begin" /\ step # "drop" /\ step # "grant"
    BY <1>1, <1>10, <1>11 DEF Steps
  <2>2. CASE Goto(step, i, r) /\ UNCHANGED external
    BY <1>2, <2>1, <2>2, GotoKeeps DEF external
  <2>3. CASE Exec(accepted, new, Goto(step, i, r)) /\ late' = late
    BY <1>11, <2>1, <2>3, ExecKeeps
  <2>4. QED
    BY <1>11, <2>2, <2>3
<1>12. CASE GrantNow
  <2> DEFINE new == GrantPrivileges(database, Grantee(frame.role), entry.granted)
  <2>1. GrantAccepted(database, present[server], Grantee(frame.role)) => new \in Database
    BY <1>1, <1>10, <1>12, StatementTypes DEF GrantAccepted
  <2> HIDE DEF new
  <2>2. frame.i \in Nat
    BY <1>2
  <2>3. CASE Goto("revoke", frame.i, frame.role) /\ UNCHANGED external
    BY <1>2, <1>11, <1>12, <2>1, <2>2, <2>3
  <2>4. CASE Exec(GrantAccepted(database, present[server], Grantee(frame.role)), new,
                  Goto("revoke", frame.i, frame.role)) /\ late' = late
    BY <1>2, <1>11, <1>12, <2>1, <2>2, <2>4
  <2>5. QED
    BY <1>12, <2>3, <2>4 DEF GrantNow, new
<1>13. CASE RevokeNow
  <2> DEFINE new == RevokePrivileges(database, Grantee(frame.role), Privileges \ entry.granted)
  <2>1. GrantAccepted(database, present[server], Grantee(frame.role)) => new \in Database
    BY <1>1, <1>10, <1>13, StatementTypes DEF GrantAccepted
  <2> HIDE DEF new
  <2>2. frame.i + 1 \in Nat
    BY <1>2
  <2>3. CASE Goto("entry", frame.i + 1, NoOwner) /\ UNCHANGED external
    BY <1>11, <1>13, <2>1, <2>2, <2>3
  <2>4. CASE Exec(GrantAccepted(database, present[server], Grantee(frame.role)), new,
                  Goto("entry", frame.i + 1, NoOwner)) /\ late' = late
    BY <1>11, <1>13, <2>1, <2>2, <2>4
  <2>5. QED
    BY <1>13, <2>3, <2>4 DEF RevokeNow, new
<1>14. QED
  BY <1>4, <1>5, <1>7, <1>8, <1>9, <1>12, <1>13 DEF ReconcileResource

LEMMA CompleteCreateKeeps ==
  ASSUME TypeOK, CompleteCreate
  PROVE  databases' \in [Servers -> [Databases -> Database]] /\ late' \in SUBSET Creation
<1> PICK c \in late :
      /\ late' = late \ {c}
      /\ \/ databases' = [databases EXCEPT ![c.server][c.name] = CreateDatabase(c.owner)]
         \/ UNCHANGED databases
  BY DEF CompleteCreate
<1>1. c.server \in Servers /\ c.name \in Databases /\ c.owner \in Names
  BY DEF TypeOK, Creation
<1>2. CreateDatabase(c.owner) \in Database
  BY <1>1, StatementTypes DEF Database
<1>3. QED
  BY <1>1, <1>2 DEF TypeOK

(* Every step keeps the types, what ReconcileLoop knows of versions, and   *)
(* the place of the worker in the list.                                    *)
LEMMA NextKeeps ==
  ASSUME TypeOK, LoopInv, FrameInv, [Next]_vars
  PROVE  TypeOK' /\ LoopInv' /\ FrameInv'
<1>1. ASSUME UNCHANGED <<frame, pc, obj>> \/ frame' = Fresh
      PROVE  FrameInv' /\ frame' \in Frame
  BY <1>1, FreshFits DEF FrameInv, FrameFits, InList, TypeOK
<1>2. CASE LoopWorker /\ UNCHANGED <<external, frame>>
  <2>1. pc # "resource"
    BY <1>2 DEF LoopWorker, Conclude, Get, AddFinalizer, SetProgressing, SetReady,
       SetDegraded, RemoveFinalizer
  <2>2. FrameInv'
    BY <1>2, <2>1 DEF FrameInv, FrameFits, InList
  <2>3. QED
    BY <1>2, <2>2, LoopWorkerKeepsTypes, LoopWorkerKeepsInv
       DEF TypeOK, external, lookups, SurroundingsTypeOK
<1>3. CASE Environment /\ UNCHANGED <<external, frame>>
  <2>1. UNCHANGED worker
    BY <1>3 DEF Environment, ChangeSpec, Create, Delete, Edit, Deliver, Resync, ReleaseForeign
  <2>2. QED
    BY <1>1, <1>3, <2>1, EnvironmentKeepsTypes, EnvironmentKeepsInv
       DEF TypeOK, external, lookups, SurroundingsTypeOK, worker
<1>4. CASE ReconcileResource
  BY <1>4, ReconcileResourceKeeps
<1>5. CASE Restart /\ frame' = Fresh /\ UNCHANGED external
  BY <1>1, <1>5, EnvironmentKeepsTypes, EnvironmentKeepsInv
     DEF TypeOK, external, lookups, SurroundingsTypeOK
<1>6. CASE CompleteCreate
  <2>1. LoopTypeOK' /\ LoopInv'
    BY <1>6, LoopStutters DEF CompleteCreate, TypeOK, LoopTypeOK, loopVars, objects, worker
  <2>2. QED
    BY <1>1, <1>6, <2>1, CompleteCreateKeeps
       DEF CompleteCreate, TypeOK, SurroundingsTypeOK, lookups, loopVars
<1>7. CASE Disturb
  <2>1. faults' \in 0 .. MaxFaults
    BY <1>7, LoopAssumption DEF Disturb, Fault, TypeOK, LoopTypeOK
  <2>2. LoopTypeOK' /\ LoopInv'
    BY <1>7, <2>1, LoopStutters DEF Disturb, TypeOK, objects, worker
  <2>3. SurroundingsTypeOK' /\ pinned' \in SUBSET (Servers \X Databases)
    <3>1. ASSUME NEW s \in Servers, NEW n \in Names, DropRole(s, n)
          PROVE  SurroundingsTypeOK' /\ pinned' \in SUBSET (Servers \X Databases)
      BY <3>1 DEF DropRole, TypeOK, SurroundingsTypeOK, lookups
    <3>2. ASSUME NEW s \in Servers, NEW n \in Databases, Pin(s, n)
          PROVE  SurroundingsTypeOK' /\ pinned' \in SUBSET (Servers \X Databases)
      BY <3>2 DEF Pin, TypeOK, SurroundingsTypeOK, lookups
    <3>3. CASE LoseLookup /\ UNCHANGED <<present, pinned>>
      BY <3>3 DEF LoseLookup, Rotate, TypeOK, SurroundingsTypeOK
    <3>4. QED
      BY <1>7, <3>1, <3>2, <3>3 DEF Disturb
  <2>4. QED
    BY <1>1, <1>7, <2>2, <2>3 DEF Disturb, TypeOK, worker
<1>8. CASE Repair
  <2>1. LoopTypeOK' /\ LoopInv'
    BY <1>8, LoopStutters DEF Repair, TypeOK, LoopTypeOK, loopVars, objects, worker
  <2>2. SurroundingsTypeOK' /\ pinned' \in SUBSET (Servers \X Databases)
    BY <1>8 DEF Repair, MakeRole, RestoreLookup, TypeOK, SurroundingsTypeOK, lookups
  <2>3. QED
    BY <1>1, <1>8, <2>1, <2>2 DEF Repair, TypeOK, loopVars
<1>9. CASE UNCHANGED vars
  <2>1. LoopTypeOK' /\ LoopInv'
    BY <1>9, LoopStutters DEF vars, TypeOK, LoopTypeOK, loopVars, objects, worker
  <2>2. QED
    BY <1>1, <1>9, <2>1 DEF vars, TypeOK, external, lookups, SurroundingsTypeOK, loopVars
<1>10. QED
  BY <1>2, <1>3, <1>4, <1>5, <1>6, <1>7, <1>8, <1>9 DEF Next

LEMMA InitEstablishes == Init => TypeOK /\ LoopInv /\ FrameInv
<1> SUFFICES ASSUME Init PROVE TypeOK /\ LoopInv /\ FrameInv
  OBVIOUS
<1>1. LoopTypeOK /\ LoopInv
  BY LoopStarts DEF Init
<1>2. frame \in Frame /\ FrameInv
  BY DatabaseAssumption DEF Init, Fresh, Frame, Steps, FrameInv, FrameFits, InList
<1>3. databases \in [Servers -> [Databases -> Database]]
  BY DEF Init, Database
<1>4. QED
  BY <1>1, <1>2, <1>3 DEF Init, TypeOK, SurroundingsInit, SurroundingsTypeOK

(* Whatever users, faults and crashes do, every variable keeps its type,   *)
(* the operator's views of an object stay consistent with the server's,    *)
(* and the worker never reads past the end of a privilege list.            *)
THEOREM TypeCorrect == Spec => [](TypeOK /\ LoopInv /\ FrameFits /\ InList)
<1>1. Init => TypeOK /\ LoopInv /\ FrameInv
  BY InitEstablishes
<1>2. TypeOK /\ LoopInv /\ FrameInv /\ [Next]_vars => TypeOK' /\ LoopInv' /\ FrameInv'
  BY NextKeeps
<1>3. FrameInv => FrameFits /\ InList
  BY DEF FrameInv
<1>4. QED
  BY <1>1, <1>2, <1>3, PTL DEF Spec
-------------------------------------------------------------------------------
(* A step of ReconcileResource is a statement, the end of it, or both: it  *)
(* leaves a database to an object that stays and none to one being deleted.*)
LEMMA ResourceSteps ==
  ASSUME ReconcileResource
  PROVE  /\ UNCHANGED <<api, present, lookups>> /\ pc = "resource"
         /\ \/ Succeed \/ \E msg \in Errors : Fail(msg)
            \/ UNCHANGED <<watch, cache, queue, pc, cur, obj, edits, faults>>
<1>1. CASE CheckDatabase \/ ReadEntry
  BY <1>1 DEF CheckDatabase, ReadEntry, Goto, external, loopVars, Succeed, Fail, objects, Errors
<1>2. CASE DropDatabase
  BY <1>2 DEF DropDatabase, Exec, Broken, Succeed, Fail, objects, Errors
<1>3. CASE CreateDatabaseNow \/ ChownDatabaseNow
  BY <1>3 DEF CreateDatabaseNow, ChownDatabaseNow, Exec, Broken, Goto, loopVars, Fail, objects,
     Errors
<1>4. CASE GrantNow \/ RevokeNow
  BY <1>4 DEF GrantNow, RevokeNow, Exec, Broken, Goto, external, loopVars, Fail, objects, Errors
<1>5. QED
  BY <1>1, <1>2, <1>3, <1>4 DEF ReconcileResource

LEMMA Statements ==
  ASSUME TypeOK, LoopInv, FrameInv, ReconcileResource
  PROVE  \/ UNCHANGED databases
         \/ \E new \in Database : /\ databases' = [databases EXCEPT ![server][name] = new]
                                  /\ new.exists <=> ~obj.deleting
<1> DEFINE Goal == \/ UNCHANGED databases
                   \/ \E new \in Database : /\ databases' = [databases EXCEPT ![server][name] = new]
                                            /\ new.exists <=> ~obj.deleting
<1> pc = "resource"
  BY ResourceSteps
<1>1. /\ obj.spec.owner \in Names /\ database \in Database /\ "PUBLIC" \in Grantees
      /\ obj.deleting \in BOOLEAN
  BY WorkerTypes DEF Grantees, Object
<1>2. ASSUME NEW new, UNCHANGED databases \/ Store(new),
             Store(new) => new \in Database /\ (new.exists <=> ~obj.deleting)
      PROVE  Goal
  BY <1>2 DEF Store
<1> SUFFICES Goal
  OBVIOUS
<1> HIDE DEF Goal
<1>3. CASE DropDatabase
  <2>1. obj.deleting /\ NoDatabase \in Database /\ ~NoDatabase.exists
    BY <1>3, StatementTypes DEF DropDatabase, FrameInv, FrameFits, Database, NoDatabase
  <2>2. QED
    BY <1>2, <1>3, <2>1 DEF DropDatabase, Exec
<1>4. CASE CreateDatabaseNow
  <2>1. /\ ~obj.deleting /\ CreateDatabase(obj.spec.owner) \in Database
        /\ CreateDatabase(obj.spec.owner).exists
    BY <1>1, <1>4, StatementTypes DEF CreateDatabaseNow, FrameInv, FrameFits, CreateDatabase
  <2>2. UNCHANGED databases \/ Store(CreateDatabase(obj.spec.owner))
    BY <1>4 DEF CreateDatabaseNow, Exec
  <2>3. QED
    BY <1>2, <2>1, <2>2
<1>5. CASE ChownDatabaseNow
  <2>1. ~obj.deleting
    BY <1>5 DEF ChownDatabaseNow, FrameInv, FrameFits
  <2>2. ASSUME database.exists
        PROVE  /\ ChownDatabase(database, obj.spec.owner) \in Database
               /\ ChownDatabase(database, obj.spec.owner).exists
    <3>1. ChownDatabase(database, obj.spec.owner) \in Database
      BY <1>1, <2>2, StatementTypes
    <3>2. QED
      BY <1>1, <2>2, <3>1 DEF ChownDatabase, Database
  <2>3. UNCHANGED databases \/ (database.exists /\ Store(ChownDatabase(database, obj.spec.owner)))
    BY <1>5 DEF ChownDatabaseNow, ChownDatabaseAccepted, Exec
  <2>4. CASE UNCHANGED databases
    BY <2>4 DEF Goal
  <2>5. CASE database.exists /\ Store(ChownDatabase(database, obj.spec.owner))
    BY <1>2, <2>1, <2>2, <2>5
  <2>6. QED
    BY <2>3, <2>4, <2>5
<1>6. ASSUME GrantNow \/ RevokeNow, database.exists, NEW ps \in SUBSET Privileges
      PROVE  LET g == Grantee(frame.role)
             IN  /\ GrantPrivileges(database, g, ps) \in Database
                 /\ GrantPrivileges(database, g, ps).exists
                 /\ RevokePrivileges(database, g, ps) \in Database
                 /\ RevokePrivileges(database, g, ps).exists
  <2>1. Grantee(frame.role) \in Grantees
    BY <1>6, GranteeTypes DEF GrantNow, RevokeNow, FrameInv, InList
  <2>2. QED
    BY <1>1, <1>6, <2>1, StatementTypes DEF GrantPrivileges, RevokePrivileges, Database
<1>7. ASSUME GrantNow \/ RevokeNow
      PROVE  ~obj.deleting /\ entry.granted \in SUBSET Privileges
  BY <1>7, EntryTypes DEF GrantNow, RevokeNow, FrameInv, FrameFits, InList
<1>8. CASE GrantNow
  <2>1. CASE UNCHANGED databases
    BY <2>1 DEF Goal
  <2>2. CASE /\ database.exists
             /\ Store(GrantPrivileges(database, Grantee(frame.role), entry.granted))
    BY <1>2, <1>6, <1>7, <1>8, <2>2
  <2>3. QED
    BY <1>8, <2>1, <2>2 DEF GrantNow, GrantAccepted, Exec, external
<1>9. CASE RevokeNow
  <2>1. CASE UNCHANGED databases
    BY <2>1 DEF Goal
  <2>2. CASE /\ database.exists
             /\ Store(RevokePrivileges(database, Grantee(frame.role), Privileges \ entry.granted))
    BY <1>2, <1>6, <1>7, <1>9, <2>2
  <2>3. QED
    BY <1>9, <2>1, <2>2 DEF RevokeNow, GrantAccepted, Exec, external
<1>10. CASE CheckDatabase \/ ReadEntry
  BY <1>10 DEF CheckDatabase, ReadEntry, external, Goal
<1>11. QED
  BY <1>3, <1>4, <1>5, <1>8, <1>9, <1>10 DEF ReconcileResource

(* The worker comes to take a finalizer away only when the database of its *)
(* object is gone.                                                         *)
LEMMA DroppedFirst ==
  ASSUME TypeOK, LoopInv, FrameInv, ReconcileResource, pc' = "removeFinalizer"
  PROVE  cur' = cur /\ obj' = obj /\ obj.deleting /\ ~databases'[server][name].exists
<1> pc = "resource"
  BY ResourceSteps
<1>1. Succeed /\ cur' = cur /\ obj' = obj /\ obj.deleting /\ obj.deleting \in BOOLEAN
  BY ResourceSteps, WorkerTypes DEF Succeed, Fail, Return, Object
<1>2. CASE CheckDatabase
  BY <1>1, <1>2 DEF CheckDatabase, external, Fail, Return, Goto, loopVars, database
<1>3. CASE DropDatabase
  <2>1. (databases' = databases /\ ~database.exists) \/ Store(NoDatabase)
    BY <1>3 DEF DropDatabase, Exec, Broken, Fail, Return
  <2>2. server \in Servers /\ name \in Databases
    BY WorkerTypes
  <2>3. QED
    BY <1>1, <2>1, <2>2 DEF Store, database, TypeOK, NoDatabase
<1>4. frame.step \in {"create", "chown", "entry", "grant", "revoke"} => ~obj.deleting
  BY <1>1 DEF FrameInv, FrameFits
<1>5. QED
  BY <1>1, <1>2, <1>3, <1>4
     DEF ReconcileResource, CreateDatabaseNow, ChownDatabaseNow, ReadEntry, GrantNow, RevokeNow

LEMMA NothingBecomesLate ==
  ASSUME NothingLate, late = {}, ReconcileResource
  PROVE  late' = {}
<1>1. ~(Cardinality(late) < MaxLate)
  BY FS_EmptySet DEF NothingLate
<1>2. QED
  BY <1>1 DEF ReconcileResource, CheckDatabase, DropDatabase, CreateDatabaseNow, ChownDatabaseNow,
     ReadEntry, GrantNow, RevokeNow, external

(* A step of the loop orphans no database: it takes the finalizer only from*)
(* an object whose database is gone.                                       *)
LEMMA LoopKeepsDatabaseInv ==
  ASSUME TypeOK, TypeOK', LoopInv', FrameInv', OneServer, DatabaseInv, UNCHANGED <<databases, late>>,
         \/ (LoopWorker \/ Environment) /\ UNCHANGED frame
         \/ Restart /\ frame' = Fresh
  PROVE  DatabaseInv'
<1>1. DatabaseChecked'
  <2>1. CASE Environment
    <3>1. UNCHANGED worker
      BY <2>1 DEF Environment, ChangeSpec, Create, Delete, Edit, Deliver, Resync,
         ReleaseForeign
    <3>2. QED
      BY <3>1 DEF DatabaseInv, DatabaseChecked, FrameInv, worker, name
  <2>2. CASE LoopWorker \/ Restart
    <3>1. pc' # "removeFinalizer"
      BY <2>2 DEF LoopWorker, Conclude, Get, Entry, AddFinalizer, SetProgressing, SetReady,
         SetDegraded, RemoveFinalizer, UpdateStatus, Request, Return, Restart
    <3>2. QED
      BY <3>1 DEF DatabaseInv, DatabaseChecked, FrameInv
  <2>3. QED
    BY <2>1, <2>2
<1>2. NoOrphanDatabase'
  <2>1. ASSUME NEW s \in Servers, NEW n \in Databases, databases[s][n].exists
        PROVE  \E k \in Keys : Guarded(api'[k]) /\ NameOf[k] = n
    <3>1. PICK k \in Keys : Guarded(api[k]) /\ NameOf[k] = n
      BY <2>1 DEF DatabaseInv, NoOrphanDatabase
    <3>2. CASE RemoveFinalizer /\ k = cur
      BY <2>1, <3>1, <3>2 DEF RemoveFinalizer, DatabaseInv, DatabaseChecked, name
    <3>3. QED
      BY <3>1, <3>2, OnlyRemovalUnguards DEF TypeOK, DatabaseInv
  <2>2. QED
    BY <2>1, DatabaseAssumption
       DEF NoOrphanDatabase, OneServer, LoopInv, ObjectsSpecified, Guarded
<1>3. QED
  BY <1>1, <1>2 DEF DatabaseInv

(* A database is left only to an object that the operator has guarded, and *)
(* the object is let go only without it.                                   *)
LEMMA StatementsKeepDatabaseInv ==
  ASSUME TypeOK, LoopInv', FrameInv, FrameInv', OneServer, NothingLate, DatabaseInv,
         ReconcileResource
  PROVE  DatabaseInv'
<1>1. /\ server \in Servers /\ name \in Databases /\ obj \in Seen(cur) /\ cur \in Keys
      /\ api' = api /\ LoopInv
  BY WorkerTypes, ResourceSteps DEF DatabaseInv
<1>2. DatabaseChecked'
  <2>1. late' = {} /\ FrameFits'
    BY NothingBecomesLate DEF DatabaseInv, DatabaseChecked, FrameInv
  <2>2. ASSUME pc' = "removeFinalizer", NEW s \in Servers
        PROVE  ~databases'[s][NameOf[cur']].exists
    <3>1. cur' = cur /\ ~databases'[server][name].exists
      BY <1>1, <2>2, DroppedFirst
    <3>2. s = server
      BY <1>1 DEF OneServer
    <3>3. QED
      BY <3>1, <3>2 DEF name
  <2>3. QED
    BY <2>1, <2>2 DEF DatabaseChecked, name
<1>3. ~obj.deleting => Guarded(api[cur])
  BY <1>1, ResourceSteps DEF LoopInv, WorkerChecked, GuardSeen, LiveGuarded, Guarded
<1>4. ASSUME NEW s \in Servers, NEW n \in Databases, databases'[s][n].exists
      PROVE  \E k \in Keys : Guarded(api[k]) /\ NameOf[k] = n
  <2>1. databases[s][n].exists \/ (n = name /\ ~obj.deleting)
    <3>1. CASE UNCHANGED databases
      BY <1>4, <3>1
    <3>2. ASSUME NEW new \in Database, databases' = [databases EXCEPT ![server][name] = new],
                 new.exists <=> ~obj.deleting
          PROVE  databases[s][n].exists \/ (n = name /\ ~obj.deleting)
      BY <1>1, <1>4, <3>2 DEF TypeOK
    <3>3. QED
      BY <1>1, <3>1, <3>2, Statements
  <2>2. QED
    BY <1>1, <1>3, <2>1 DEF DatabaseInv, NoOrphanDatabase, name
<1>5. NoOrphanDatabase'
  BY <1>1, <1>4, DatabaseAssumption
     DEF NoOrphanDatabase, OneServer, LoopInv, ObjectsSpecified, Guarded
<1>6. QED
  BY <1>2, <1>5 DEF DatabaseInv

LEMMA NextKeepsDatabaseInv ==
  ASSUME TypeOK, OneServer, NothingLate, FrameInv, DatabaseInv, [Next]_vars
  PROVE  DatabaseInv'
<1>1. TypeOK' /\ LoopInv' /\ FrameInv'
  BY NextKeeps DEF DatabaseInv
<1>2. CASE Disturb \/ Repair \/ UNCHANGED vars
  <2>1. UNCHANGED <<api, databases, late, pc, cur, obj, frame>>
    BY <1>2 DEF Disturb, Repair, vars, loopVars, external, worker
  <2>2. QED
    BY <1>1, <2>1 DEF DatabaseInv, DatabaseChecked, FrameInv, NoOrphanDatabase, name
<1>3. ~CompleteCreate
  BY DEF CompleteCreate, DatabaseInv, DatabaseChecked
<1>4. QED
  BY <1>1, <1>2, <1>3, LoopKeepsDatabaseInv, StatementsKeepDatabaseInv DEF Next, external

(* The invariant the two theorems below rest on.                           *)
THEOREM DatabaseInvHolds ==
  ASSUME OneServer, NothingLate
  PROVE  Spec => [](TypeOK /\ FrameInv /\ DatabaseInv)
<1>1. Init => TypeOK /\ FrameInv /\ DatabaseInv
  <2> SUFFICES ASSUME Init PROVE TypeOK /\ FrameInv /\ DatabaseInv
    OBVIOUS
  <2>1. \A s \in Servers, n \in Databases : ~databases[s][n].exists
    BY DEF Init, NoDatabase
  <2>2. QED
    BY <2>1, InitEstablishes
       DEF DatabaseInv, DatabaseChecked, FrameInv, NoOrphanDatabase, Init, LoopInit
<1>2. TypeOK /\ FrameInv /\ DatabaseInv /\ [Next]_vars => TypeOK' /\ FrameInv' /\ DatabaseInv'
  BY NextKeeps, NextKeepsDatabaseInv DEF DatabaseInv
<1>3. QED
  BY <1>1, <1>2, PTL DEF Spec

(* As long as all objects refer to one server and no CREATE DATABASE goes  *)
(* on without its connection, no database outlives the last object that    *)
(* guards it, whichever statement is lost, refused, repeated or cut off.   *)
THEOREM NoOrphans ==
  ASSUME OneServer, NothingLate
  PROVE  Spec => []NoOrphanDatabase
<1>1. DatabaseInv => NoOrphanDatabase
  BY DEF DatabaseInv
<1>2. QED
  BY <1>1, DatabaseInvHolds, PTL
-------------------------------------------------------------------------------
Held(k) == \E s \in Servers : databases[s][NameOf[k]].exists

(* A write to one object is a step of the abstract specification.          *)
LEMMA MoveRefines ==
  ASSUME NEW k \in Keys, \A j \in Keys \ {k} : api'[j] = api[j], databases' = databases, Moves(k, Held(k))
  PROVE  [Lifecycle!Next]_(Lifecycle!vars)
<1> DEFINE claim   == [j \in Keys |-> ClaimOf(api[j])]
           guarded == {j \in Keys : Guarded(api[j])}
           held    == {j \in Keys : \E s \in Servers : databases[s][NameOf[j]].exists}
<1>1. held' = held /\ (k \in held <=> Held(k))
  BY DEF Held
<1>2. claim' = [claim EXCEPT ![k] = ClaimOf(api'[k])] /\ claim[k] = ClaimOf(api[k])
  BY DEF ClaimOf
<1>3. /\ Guarded(api'[k]) => guarded' = guarded \cup {k}
      /\ ~Guarded(api'[k]) => guarded' = guarded \ {k}
      /\ k \in guarded <=> Guarded(api[k])
  BY DEF Guarded
<1> HIDE DEF claim, guarded, held
<1>5. CASE ClaimOf(api'[k]) = ClaimOf(api[k]) /\ Guarded(api'[k]) = Guarded(api[k])
  <2>1. claim' = claim
    BY <1>2, <1>5 DEF claim
  <2>2. guarded' = guarded
    BY <1>3, <1>5
  <2>3. QED
    BY <1>1, <2>1, <2>2 DEF Lifecycle!vars, claim, guarded, held
<1>6. CASE ClaimOf(api[k]) = "none" /\ ClaimOf(api'[k]) = "open"
           /\ Guarded(api'[k]) = Guarded(api[k])
  <2>1. guarded' = guarded
    BY <1>3, <1>6
  <2>2. Lifecycle!Claim(k)
    BY <1>1, <1>2, <1>6, <2>1 DEF Lifecycle!Claim, Lifecycle!Move, claim, guarded, held
  <2>3. QED
    BY <2>2 DEF Lifecycle!Next
<1>7. CASE ClaimOf(api[k]) = "open" /\ ClaimOf(api'[k]) = "closing"
           /\ Guarded(api'[k]) = Guarded(api[k])
  <2>1. guarded' = guarded
    BY <1>3, <1>7
  <2>2. Lifecycle!Withdraw(k)
    BY <1>1, <1>2, <1>7, <2>1 DEF Lifecycle!Withdraw, Lifecycle!Move, claim, guarded, held
  <2>3. QED
    BY <2>2 DEF Lifecycle!Next
<1>8. CASE ClaimOf(api[k]) = "open" /\ ClaimOf(api'[k]) = "none"
           /\ ~Guarded(api[k]) /\ ~Guarded(api'[k])
  <2>1. guarded' = guarded /\ k \notin guarded
    BY <1>3, <1>8
  <2>2. Lifecycle!Withdraw(k)
    BY <1>1, <1>2, <1>8, <2>1 DEF Lifecycle!Withdraw, Lifecycle!Move, claim, guarded, held
  <2>3. QED
    BY <2>2 DEF Lifecycle!Next
<1>9. CASE ClaimOf(api[k]) = "open" /\ ClaimOf(api'[k]) = "open" /\ Guarded(api'[k])
  <2>1. claim' = claim
    BY <1>2, <1>9 DEF claim
  <2>2. Lifecycle!Guard(k)
    BY <1>1, <1>2, <1>3, <1>9, <2>1 DEF Lifecycle!Guard, claim, guarded, held
  <2>3. QED
    BY <2>2 DEF Lifecycle!Next
<1>10. CASE ClaimOf(api[k]) = "closing" /\ ClaimOf(api'[k]) \in {"closing", "none"}
            /\ ~Held(k) /\ ~Guarded(api'[k])
  <2>1. claim' = claim \/ claim' = [claim EXCEPT ![k] = "none"]
    BY <1>2, <1>10 DEF claim
  <2>2. Lifecycle!Release(k)
    BY <1>1, <1>2, <1>3, <1>10, <2>1 DEF Lifecycle!Release, Lifecycle!Move, claim, guarded, held
  <2>3. QED
    BY <2>2 DEF Lifecycle!Next
<1>11. QED
  BY <1>5, <1>6, <1>7, <1>8, <1>9, <1>10 DEF Moves

LEMMA HeldGuarded ==
  ASSUME DatabaseInv, OneNameEach, NEW k \in Keys, Held(k)
  PROVE  Guarded(api[k])
<1>1. PICK s \in Servers : databases[s][NameOf[k]].exists
  BY DEF Held
<1>2. NameOf[k] \in Databases
  BY DatabaseAssumption
<1>3. QED
  BY <1>1, <1>2 DEF DatabaseInv, NoOrphanDatabase, OneNameEach

(* The loop refines the abstract specification.                            *)
LEMMA LoopRefines ==
  ASSUME TypeOK, DatabaseInv, OneServer, OneNameEach, databases' = databases,
         LoopWorker \/ Environment \/ Restart
  PROVE  [Lifecycle!Next]_(Lifecycle!vars)
<1> DEFINE held == {k \in Keys : Held(k)}
<1>1. \A k \in held : Guarded(api[k])
  BY HeldGuarded
<1>2. pc = "removeFinalizer" => cur \notin held
  BY DEF DatabaseInv, DatabaseChecked, Held, name
<1>3. \E k \in Keys : (\A j \in Keys \ {k} : api'[j] = api[j]) /\ Moves(k, k \in held)
  BY <1>1, <1>2, LoopMoves DEF TypeOK, DatabaseInv
<1>4. PICK k \in Keys : (\A j \in Keys \ {k} : api'[j] = api[j]) /\ Moves(k, Held(k))
  BY <1>3 DEF Moves
<1>5. QED
  BY <1>4, MoveRefines

(* A statement makes or removes the database of one object, or changes one *)
(* that is there.                                                          *)
LEMMA StatementRefines ==
  ASSUME TypeOK, DatabaseInv, FrameInv, OneServer, OneNameEach, ReconcileResource
  PROVE  [Lifecycle!Next]_(Lifecycle!vars)
<1> DEFINE claim   == [j \in Keys |-> ClaimOf(api[j])]
           guarded == {j \in Keys : Guarded(api[j])}
           held    == {j \in Keys : \E s \in Servers : databases[s][NameOf[j]].exists}
<1>1. /\ server \in Servers /\ name \in Databases /\ obj \in Seen(cur) /\ cur \in Keys
      /\ obj \in Object /\ api' = api /\ pc = "resource"
  BY WorkerTypes, ResourceSteps DEF DatabaseInv
<1>2. claim' = claim /\ guarded' = guarded
  BY <1>1
<1>3. CASE databases' = databases
  BY <1>1, <1>3 DEF Lifecycle!vars
<1>4. ASSUME NEW new \in Database, databases' = [databases EXCEPT ![server][name] = new]
      PROVE  held' = IF new.exists THEN held \cup {cur} ELSE held \ {cur}
  <2>1. \A s \in Servers, j \in Keys :
          databases'[s][NameOf[j]] = IF j = cur THEN new ELSE databases[s][NameOf[j]]
    <3> TAKE s \in Servers, j \in Keys
    <3>1. s = server /\ NameOf[j] \in Databases /\ (NameOf[j] = name <=> j = cur)
      BY <1>1, DatabaseAssumption DEF OneServer, OneNameEach, name
    <3>2. /\ databases \in [Servers -> [Databases -> Database]]
          /\ databases[s] \in [Databases -> Database]
      BY DEF TypeOK
    <3>3. databases'[s] = [databases[s] EXCEPT ![name] = new]
      BY <1>1, <1>4, <3>1, <3>2
    <3>4. QED
      BY <3>1, <3>2, <3>3
  <2>2. (\E s \in Servers : databases'[s][NameOf[cur]].exists) <=> new.exists
    BY <1>1, <2>1
  <2>3. \A j \in Keys \ {cur} : (\E s \in Servers : databases'[s][NameOf[j]].exists)
                                <=> (\E s \in Servers : databases[s][NameOf[j]].exists)
    BY <2>1
  <2>4. QED
    BY <1>1, <2>2, <2>3
<1> HIDE DEF claim, guarded, held
<1> PICK k \in Keys : k = cur
  BY <1>1
<1>5. CASE held' = held \cup {cur} /\ ~obj.deleting
  <2>1. LiveGuarded(obj)
    BY <1>1, <1>5 DEF DatabaseInv, LoopInv, WorkerChecked, LiveGuarded, Guarded
  <2>2. Guarded(api[k])
    BY <1>1, <2>1 DEF DatabaseInv, LoopInv, GuardSeen
  <2>3. Lifecycle!Provision(k)
    BY <1>2, <1>5, <2>2 DEF Lifecycle!Provision, claim, guarded, held
  <2>4. QED
    BY <2>3 DEF Lifecycle!Next
<1>6. CASE held' = held \ {cur} /\ obj.deleting
  <2>1. CASE cur \notin held
    BY <1>2, <1>6, <2>1 DEF Lifecycle!vars, claim, guarded, held
  <2>2. CASE cur \in held
    <3>1. Guarded(api[cur])
      BY <1>1, <2>2, HeldGuarded DEF held, Held
    <3>2. ~LiveGuarded(api[cur])
      BY <1>1, <1>6 DEF DatabaseInv, LoopInv, NotResurrected, VersionsOrdered
    <3>3. ClaimOf(api[cur]) = "closing"
      BY <3>1, <3>2 DEF LiveGuarded, Guarded, ClaimOf
    <3>4. Lifecycle!Deprovision(k)
      BY <1>2, <1>6, <3>3 DEF Lifecycle!Deprovision, claim, guarded, held
    <3>5. QED
      BY <3>4 DEF Lifecycle!Next
  <2>3. QED
    BY <2>1, <2>2
<1>7. ASSUME NEW new \in Database, databases' = [databases EXCEPT ![server][name] = new],
             new.exists <=> ~obj.deleting
      PROVE  [Lifecycle!Next]_(Lifecycle!vars)
  <2>1. /\ ~obj.deleting => held' = held \cup {cur}
        /\ obj.deleting => held' = held \ {cur}
    BY <1>4, <1>7
  <2>2. QED
    BY <1>5, <1>6, <2>1
<1>8. QED
  BY <1>1, <1>3, <1>7, Statements DEF DatabaseInv

(* With one server, distinct names and no CREATE DATABASE that goes on     *)
(* without its connection the controller implements the abstract           *)
(* specification, however many statements a reconcile takes.               *)
THEOREM ImplementsManagedResource ==
  ASSUME OneServer, OneNameEach, NothingLate
  PROVE  Spec => RefinesManagedResource
<1>1. Init => Lifecycle!Init
  <2> SUFFICES ASSUME Init PROVE Lifecycle!Init
    OBVIOUS
  <2>1. \A k \in Keys : ClaimOf(api[k]) = "none" /\ ~Guarded(api[k])
    BY DEF Init, LoopInit, NoObject, ClaimOf, Guarded
  <2>2. \A k \in Keys, s \in Servers : ~databases[s][NameOf[k]].exists
    BY DatabaseAssumption DEF Init, NoDatabase
  <2>3. QED
    BY <2>1, <2>2 DEF Lifecycle!Init
<1>2. ASSUME TypeOK, FrameInv, DatabaseInv, [Next]_vars
      PROVE  [Lifecycle!Next]_(Lifecycle!vars)
  <2>1. CASE Disturb \/ Repair \/ UNCHANGED vars
    <3>1. api' = api /\ databases' = databases
      BY <2>1 DEF Disturb, Repair, vars, loopVars, external
    <3>2. QED
      BY <3>1 DEF Lifecycle!vars
  <2>2. ~CompleteCreate
    BY <1>2 DEF CompleteCreate, DatabaseInv, DatabaseChecked
  <2>3. QED
    BY <1>2, <2>1, <2>2, LoopRefines, StatementRefines DEF Next, external
<1>3. QED
  BY <1>1, <1>2, DatabaseInvHolds, PTL DEF Spec, RefinesManagedResource, Lifecycle!Spec
-------------------------------------------------------------------------------
(* In a list without repetitions each entry is the only one about its      *)
(* grantee, and so the list leaves a grantee what that entry says.         *)
LEMMA ListTypes ==
  ASSUME SurroundingsTypeOK, NEW s \in Specs, NEW i \in DOMAIN s.privileges
  PROVE  Grantee(GetName(s.privileges[i].role)) \in Grantees
<1>1. s.privileges \in Seq(Privilege)
  BY DatabaseAssumption
<1>2. s.privileges[i] \in Privilege
  BY <1>1
<1>3. GetName(s.privileges[i].role) \in Names
  BY <1>2 DEF Privilege, GetName, SurroundingsTypeOK
<1>4. QED
  BY <1>3, GranteeTypes

LEMMA OnlyEntry ==
  ASSUME SurroundingsTypeOK, NEW s \in Specs, NoRepeats(s),
         NEW i \in DOMAIN s.privileges, NEW j \in DOMAIN s.privileges,
         Grantee(GetName(s.privileges[i].role)) = Grantee(GetName(s.privileges[j].role))
  PROVE  i = j
<1> DEFINE g == Grantee(GetName(s.privileges[i].role))
           E == EntriesFor(s, g)
<1>1. s.privileges \in Seq(Privilege)
  BY DatabaseAssumption
<1>2. g \in Grantees
  BY ListTypes
<1>3. Cardinality(E) <= 1 /\ {i, j} \subseteq E
  BY <1>2 DEF NoRepeats, EntriesFor
<1>4. IsFiniteSet(E)
  <2>1. E \subseteq 1 .. Len(s.privileges) /\ Len(s.privileges) \in Nat
    BY <1>1 DEF EntriesFor
  <2>2. IsFiniteSet(1 .. Len(s.privileges))
    BY <2>1, FS_Interval
  <2>3. QED
    BY <2>1, <2>2, FS_Subset
<1> HIDE DEF E
<1>5. Cardinality({i, j}) <= Cardinality(E) /\ Cardinality(E) \in Nat
  BY <1>3, <1>4, FS_Subset, FS_CardinalityType
<1>6. ASSUME i # j
      PROVE  Cardinality({i} \cup {j}) = 2
  <2>1. IsFiniteSet({i}) /\ Cardinality({i}) = 1 /\ j \notin {i}
    BY <1>6, FS_Singleton
  <2>2. Cardinality({i} \cup {j}) = Cardinality({i}) + 1
    BY <2>1, FS_AddElement
  <2>3. QED
    BY <2>1, <2>2
<1>7. {i} \cup {j} = {i, j}
  OBVIOUS
<1>8. QED
  BY <1>3, <1>5, <1>6, <1>7

LEMMA ListedEach ==
  ASSUME SurroundingsTypeOK, NEW s \in Specs, NoRepeats(s), NEW d
  PROVE  AsListed(d, s) <=> /\ d.exists /\ d.owner = s.owner
                            /\ \A i \in DOMAIN s.privileges : Holds(d, s.privileges[i])
<1>1. s.privileges \in Seq(Privilege) /\ Len(s.privileges) \in Nat
  BY DatabaseAssumption
<1>2. ASSUME NEW i \in DOMAIN s.privileges
      PROVE  LET g == Grantee(GetName(s.privileges[i].role))
             IN  g \in Grantees /\ Listed(s, g) /\ Granted(s, g) = s.privileges[i].granted
  <2> DEFINE g == Grantee(GetName(s.privileges[i].role))
  <2>1. g \in Grantees
    BY ListTypes
  <2>2. EntriesFor(s, g) = {i}
    BY OnlyEntry DEF EntriesFor
  <2>3. i \in Nat
    BY <1>1
  <2>4. Max({i}) = i
    BY <2>3 DEF Max
  <2>5. QED
    BY <2>1, <2>2, <2>4 DEF Listed, Granted
<1>3. ASSUME NEW g \in Grantees, Listed(s, g)
      PROVE  \E i \in DOMAIN s.privileges : Grantee(GetName(s.privileges[i].role)) = g
  BY <1>3 DEF Listed, EntriesFor
<1>4. QED
  BY <1>2, <1>3 DEF AsListed, Holds

(* A statement on a database that is as listed leaves it as it is.         *)
LEMMA InOrderStays ==
  ASSUME TypeOK, LoopInv, FrameInv, EntriesApplied, ReconcileResource, ~obj.deleting,
         NoRepeats(obj.spec), AsListed(database, obj.spec)
  PROVE  databases' = databases
<1> pc = "resource"
  BY ResourceSteps
<1>1. /\ server \in Servers /\ name \in Databases /\ database \in Database /\ obj.spec \in Specs
      /\ databases \in [Servers -> [Databases -> Database]] /\ SurroundingsTypeOK
  BY WorkerTypes DEF TypeOK
<1>2. /\ database.exists /\ database.owner = obj.spec.owner
      /\ \A i \in DOMAIN obj.spec.privileges : Holds(database, obj.spec.privileges[i])
  BY <1>1, ListedEach
<1>3. Store(database) => databases' = databases
  BY <1>1 DEF Store, database
<1>4. CASE CreateDatabaseNow
  BY <1>2, <1>4 DEF CreateDatabaseNow, CreateDatabaseAccepted, Exec
<1>5. CASE ChownDatabaseNow
  <2>1. ChownDatabase(database, obj.spec.owner) = database
    BY <1>2 DEF ChownDatabase
  <2>2. QED
    BY <1>3, <1>5, <2>1 DEF ChownDatabaseNow, Exec
<1>6. ASSUME GrantNow \/ RevokeNow
      PROVE  /\ Grantee(frame.role) \in Grantees
             /\ database.acl[Grantee(frame.role)] = entry.granted
  <2>1. frame.role \in Names /\ frame.i \in DOMAIN obj.spec.privileges
        /\ frame.role = GetName(entry.role)
    BY <1>6 DEF GrantNow, RevokeNow, FrameInv, InList, EntriesApplied
  <2>2. QED
    BY <1>2, <2>1, GranteeTypes DEF Holds, entry
<1>7. database \in [exists : {TRUE}, owner : Names, acl : [Grantees -> SUBSET Privileges]]
  BY <1>1, <1>2, ExistingTypes
<1>8. CASE GrantNow
  <2>1. GrantPrivileges(database, Grantee(frame.role), entry.granted) = database
    BY <1>6, <1>7, <1>8 DEF GrantPrivileges
  <2>2. QED
    BY <1>3, <1>8, <2>1 DEF GrantNow, Exec, external
<1>9. CASE RevokeNow
  <2>1. RevokePrivileges(database, Grantee(frame.role), Privileges \ entry.granted) = database
    BY <1>6, <1>7, <1>9 DEF RevokePrivileges
  <2>2. QED
    BY <1>3, <1>9, <2>1 DEF RevokeNow, Exec, external
<1>10. CASE CheckDatabase \/ ReadEntry
  BY <1>10 DEF CheckDatabase, ReadEntry, external
<1>11. ~DropDatabase
  BY DEF DropDatabase, FrameInv, FrameFits
<1>12. QED
  BY <1>4, <1>5, <1>8, <1>9, <1>10, <1>11 DEF ReconcileResource

(* What the worker leaves behind when it goes on to an entry, or to the    *)
(* second statement of one.                                                *)
LEMMA GotoApplied ==
  ASSUME NEW step \in {"entry", "grant", "revoke"}, NEW i, NEW r, NEW d, Goto(step, i, r),
         secrets' = secrets, databases'[server][name] = d, d.exists, d.owner = obj.spec.owner,
         step # "entry" => r = GetName(obj.spec.privileges[i].role),
         NoRepeats(obj.spec) =>
           /\ \A j \in DOMAIN obj.spec.privileges : j < i => Holds(d, obj.spec.privileges[j])
           /\ step = "revoke" => obj.spec.privileges[i].granted \subseteq d.acl[Grantee(r)]
  PROVE  EntriesApplied'
<1>1. UNCHANGED <<obj, cur>> /\ frame' = [step |-> step, i |-> i, role |-> r]
  BY DEF Goto, loopVars
<1>2. NoRepeats(obj.spec)' = NoRepeats(obj.spec)
  BY <1>1 DEF NoRepeats, EntriesFor, GetName
<1>3. database' = d /\ entry' = obj.spec.privileges[i]
  BY <1>1 DEF database, server, name, entry
<1>4. QED
  BY <1>1, <1>2, <1>3 DEF EntriesApplied, Holds, GetName

(* The worker keeps on its way through the list what it has put in order.  *)
LEMMA ResourceApplies ==
  ASSUME TypeOK, LoopInv, FrameInv, EntriesApplied, ReconcileResource
  PROVE  EntriesApplied'
<1> pc = "resource"
  BY ResourceSteps
<1>1. /\ server \in Servers /\ name \in Databases /\ database \in Database /\ obj.spec \in Specs
      /\ databases \in [Servers -> [Databases -> Database]] /\ SurroundingsTypeOK
      /\ secrets' = secrets
  BY WorkerTypes, ResourceSteps DEF TypeOK, lookups
<1>2. \A new : Store(new) => databases'[server][name] = new
  BY <1>1 DEF Store
<1>3. CASE frame' = Fresh
  BY <1>3 DEF EntriesApplied, Fresh
<1>4. CASE CheckDatabase
  <2>1. frame'.step \notin {"entry", "grant", "revoke"}
    BY <1>4 DEF CheckDatabase, Goto
  <2>2. QED
    BY <2>1 DEF EntriesApplied
<1>5. CASE DropDatabase
  BY <1>3, <1>5 DEF DropDatabase, Exec, Broken
<1>6. ASSUME NEW new, Store(new), Goto("entry", 1, NoOwner), new.exists,
             new.owner = obj.spec.owner
      PROVE  EntriesApplied'
  <2>1. \A j \in DOMAIN obj.spec.privileges : ~(j < 1)
    BY WorkerTypes
  <2>2. QED
    BY <1>1, <1>2, <1>6, <2>1, GotoApplied
<1>7. CASE CreateDatabaseNow
  <2>1. CreateDatabase(obj.spec.owner).exists
        /\ CreateDatabase(obj.spec.owner).owner = obj.spec.owner
    BY DEF CreateDatabase
  <2>2. \/ frame' = Fresh
        \/ Store(CreateDatabase(obj.spec.owner)) /\ Goto("entry", 1, NoOwner)
    BY <1>7 DEF CreateDatabaseNow, Exec, Broken
  <2>3. QED
    BY <1>3, <1>6, <2>1, <2>2
<1>8. CASE ChownDatabaseNow
  <2>1. \/ frame' = Fresh
        \/ /\ database.exists /\ Store(ChownDatabase(database, obj.spec.owner))
           /\ Goto("entry", 1, NoOwner)
    BY <1>8 DEF ChownDatabaseNow, ChownDatabaseAccepted, Exec, Broken
  <2>2. ASSUME database.exists
        PROVE  /\ ChownDatabase(database, obj.spec.owner).exists
               /\ ChownDatabase(database, obj.spec.owner).owner = obj.spec.owner
    BY <1>1, <2>2, ExistingTypes DEF ChownDatabase
  <2>3. QED
    BY <1>3, <1>6, <2>1, <2>2
<1>9. ASSUME frame.step \in {"entry", "grant", "revoke"}
      PROVE  /\ database.exists /\ database.owner = obj.spec.owner
             /\ frame.step # "entry" => frame.role = GetName(entry.role)
             /\ database \in [exists : {TRUE}, owner : Names, acl : [Grantees -> SUBSET Privileges]]
             /\ databases[server][name] = database
  BY <1>1, <1>9, ExistingTypes DEF EntriesApplied, database
<1>10. CASE ReadEntry
  <2>1. \/ frame' = Fresh
        \/ Goto("grant", frame.i, GetName(entry.role)) /\ databases' = databases
    BY <1>10 DEF ReadEntry, external
  <2>2. CASE Goto("grant", frame.i, GetName(entry.role)) /\ databases' = databases
    BY <1>1, <1>9, <1>10, <2>2, GotoApplied DEF ReadEntry, EntriesApplied, entry
  <2>3. QED
    BY <1>3, <2>1, <2>2
<1>11. ASSUME GrantNow \/ RevokeNow
       PROVE  /\ frame.i \in DOMAIN obj.spec.privileges /\ frame.i \in Nat
              /\ Grantee(frame.role) \in Grantees /\ entry = obj.spec.privileges[frame.i]
              /\ entry.granted \in SUBSET Privileges
              /\ NoRepeats(obj.spec) =>
                   \A j \in DOMAIN obj.spec.privileges :
                     /\ j \in Nat
                     /\ Grantee(GetName(obj.spec.privileges[j].role)) \in Grantees
                     /\ j # frame.i =>
                          Grantee(GetName(obj.spec.privileges[j].role)) # Grantee(frame.role)
                     /\ j < frame.i => Holds(database, obj.spec.privileges[j])
  <2>1. frame.i \in DOMAIN obj.spec.privileges /\ frame.role = GetName(entry.role)
        /\ frame.role \in Names /\ entry.granted \in SUBSET Privileges /\ frame.i \in Nat
    <3>1. frame.step \in {"grant", "revoke"} /\ frame.i \in Nat
      BY <1>11 DEF GrantNow, RevokeNow, TypeOK, Frame
    <3>2. frame.i \in DOMAIN obj.spec.privileges /\ frame.role \in Names
      BY <3>1 DEF FrameInv, InList
    <3>3. QED
      BY <1>9, <3>1, <3>2, EntryTypes
  <2>2. \A j \in DOMAIN obj.spec.privileges : j \in Nat
    BY WorkerTypes
  <2>3. QED
    BY <1>1, <1>11, <2>1, <2>2, GranteeTypes, ListTypes, OnlyEntry
       DEF GrantNow, RevokeNow, EntriesApplied, entry
<1>12. CASE GrantNow
  <2> DEFINE g   == Grantee(frame.role)
             new == GrantPrivileges(database, g, entry.granted)
  <2>1. frame.step = "grant" /\ database.exists
    BY <1>9, <1>12 DEF GrantNow
  <2>2. CASE entry.granted = {} /\ Goto("revoke", frame.i, frame.role) /\ databases' = databases
    BY <1>1, <1>9, <1>11, <1>12, <2>1, <2>2, GotoApplied
  <2>3. CASE Store(new) /\ Goto("revoke", frame.i, frame.role)
    <3>1. /\ new.exists /\ new.owner = obj.spec.owner
          /\ new.acl[g] = database.acl[g] \cup entry.granted
          /\ \A h \in Grantees \ {g} : new.acl[h] = database.acl[h]
      BY <1>9, <1>11, <1>12, <2>1 DEF GrantPrivileges
    <3>2. databases'[server][name] = new
      BY <1>2, <2>3
    <3> HIDE DEF new
    <3>3. NoRepeats(obj.spec) =>
            \A j \in DOMAIN obj.spec.privileges : j < frame.i => Holds(new, obj.spec.privileges[j])
      BY <1>11, <1>12, <3>1 DEF Holds
    <3>4. QED
      BY <1>1, <1>9, <1>11, <1>12, <2>1, <2>3, <3>1, <3>2, <3>3, GotoApplied
  <2>4. QED
    BY <1>3, <1>12, <2>2, <2>3 DEF GrantNow, Exec, Broken, external
<1>13. CASE RevokeNow
  <2> DEFINE g   == Grantee(frame.role)
             new == RevokePrivileges(database, g, Privileges \ entry.granted)
  <2>1. frame.step = "revoke" /\ database.exists
        /\ (NoRepeats(obj.spec) => entry.granted \subseteq database.acl[g])
    BY <1>9, <1>13 DEF RevokeNow, EntriesApplied
  <2>2. database.acl[g] \subseteq Privileges
    BY <1>9, <1>11, <1>13, <2>1
  <2>3. ASSUME NEW d, d.exists, d.owner = obj.spec.owner, databases'[server][name] = d,
               NoRepeats(obj.spec) => d.acl[g] = entry.granted,
               \A h \in Grantees \ {g} : d.acl[h] = database.acl[h],
               Goto("entry", frame.i + 1, NoOwner)
        PROVE  EntriesApplied'
    <3>1. ASSUME NoRepeats(obj.spec), NEW j \in DOMAIN obj.spec.privileges, j < frame.i + 1
          PROVE  Holds(d, obj.spec.privileges[j])
      <4>1. CASE j = frame.i
        <5>1. Grantee(GetName(obj.spec.privileges[j].role)) = g
          BY <1>9, <1>11, <1>13, <2>1, <4>1
        <5>2. QED
          BY <1>11, <1>13, <2>3, <3>1, <4>1, <5>1 DEF Holds
      <4>2. CASE j # frame.i
        BY <1>11, <1>13, <2>3, <3>1, <4>2 DEF Holds
      <4>3. QED
        BY <4>1, <4>2
    <3>2. QED
      BY <1>1, <2>3, <3>1, GotoApplied
  <2>4. CASE Privileges \ entry.granted = {} /\ Goto("entry", frame.i + 1, NoOwner)
             /\ databases' = databases
    <3>1. NoRepeats(obj.spec) => database.acl[g] = entry.granted
      BY <1>11, <1>13, <2>1, <2>2, <2>4
    <3>2. QED
      BY <1>9, <2>1, <2>3, <2>4, <3>1
  <2>5. CASE Store(new) /\ Goto("entry", frame.i + 1, NoOwner)
    <3>1. /\ new.exists /\ new.owner = obj.spec.owner
          /\ new.acl[g] = database.acl[g] \ (Privileges \ entry.granted)
          /\ \A h \in Grantees \ {g} : new.acl[h] = database.acl[h]
      BY <1>9, <1>11, <1>13, <2>1 DEF RevokePrivileges
    <3>2. databases'[server][name] = new
      BY <1>2, <2>5
    <3> HIDE DEF new
    <3>3. NoRepeats(obj.spec) => new.acl[g] = entry.granted
      BY <1>11, <1>13, <2>1, <2>2, <3>1
    <3>4. QED
      BY <2>3, <2>5, <3>1, <3>2, <3>3
  <2>6. QED
    BY <1>3, <1>13, <2>4, <2>5 DEF RevokeNow, Exec, Broken, external
<1>14. QED
  BY <1>4, <1>5, <1>7, <1>8, <1>10, <1>12, <1>13 DEF ReconcileResource

LEMMA ResourceEarns ==
  ASSUME TypeOK, LoopInv, FrameInv, EntriesApplied, ReconcileResource
  PROVE  ReadyEarned'
<1> SUFFICES ASSUME pc' = "setReady", ~obj'.deleting, NoRepeats(obj.spec)'
             PROVE  AsListed(database, obj.spec)'
  BY DEF ReadyEarned
<1> pc = "resource"
  BY ResourceSteps
<1>1. /\ obj \in Object /\ obj.spec \in Specs /\ SurroundingsTypeOK
      /\ Len(obj.spec.privileges) \in Nat /\ obj.spec.privileges \in Seq(Privilege)
  BY WorkerTypes DEF TypeOK
<1>2. Succeed /\ cur' = cur /\ obj' = SetStatus(obj, "Ready", "reconciled")
  BY ResourceSteps DEF Succeed, Fail, Return
<1>3. obj'.deleting = obj.deleting /\ obj'.spec = obj.spec
  BY <1>1, <1>2, SetStatusKeeps, StatusWords
<1>4. ReadEntry /\ frame.i > Len(obj.spec.privileges)
  <2>1. ~CheckDatabase
    BY <1>2, <1>3 DEF CheckDatabase, Fail, Return, Goto, loopVars
  <2>2. ~DropDatabase
    BY <1>3 DEF DropDatabase, FrameInv, FrameFits
  <2>3. pc' # pc /\ ~\E msg \in Errors : Fail(msg)
    BY DEF Fail, Return
  <2>4. QED
    BY <2>1, <2>2, <2>3
       DEF ReconcileResource, CreateDatabaseNow, ChownDatabaseNow, ReadEntry, GrantNow, RevokeNow,
           Exec, Broken, Goto, loopVars, Errors
<1>5. secrets' = secrets /\ databases' = databases /\ frame.step = "entry" /\ frame.i \in Nat
  BY <1>4 DEF ReadEntry, external, lookups, TypeOK, Frame
<1>6. NoRepeats(obj.spec)
  BY <1>3, <1>5 DEF NoRepeats, EntriesFor, GetName
<1>7. \A i \in DOMAIN obj.spec.privileges : i < frame.i
  BY <1>1, <1>4, <1>5
<1>8. AsListed(database, obj.spec)
  BY <1>1, <1>5, <1>6, <1>7, ListedEach DEF EntriesApplied
<1>9. database' = database
  BY <1>2, <1>3, <1>5 DEF database, server, name
<1>10. ASSUME NEW g \in Grantees
       PROVE  /\ Listed(obj.spec, g)' = Listed(obj.spec, g)
              /\ Granted(obj.spec, g)' = Granted(obj.spec, g)
  <2>1. EntriesFor(obj.spec, g)' = EntriesFor(obj.spec, g)
    BY <1>3, <1>5 DEF EntriesFor, GetName
  <2>2. QED
    BY <1>3, <2>1 DEF Listed, Granted
<1>11. QED
  BY <1>3, <1>8, <1>9, <1>10 DEF AsListed

(* A CREATE DATABASE that comes late changes no database that exists.      *)
LEMMA LateOnlyCreates ==
  ASSUME TypeOK, CompleteCreate, NEW s \in Servers, NEW n \in Databases, databases[s][n].exists
  PROVE  databases'[s][n] = databases[s][n]
<1> PICK c \in late :
      IF CreateDatabaseAccepted(databases[c.server][c.name], present[c.server], c.owner)
      THEN databases' = [databases EXCEPT ![c.server][c.name] = CreateDatabase(c.owner)]
      ELSE UNCHANGED databases
  BY DEF CompleteCreate
<1>1. c.server \in Servers /\ c.name \in Databases
  BY DEF TypeOK, Creation
<1>2. QED
  BY <1>1 DEF CreateDatabaseAccepted, TypeOK

LEMMA NextKeepsReadyInv ==
  ASSUME TypeOK, LoopInv, ReadyInv, [Next]_vars
  PROVE  ReadyInv'
<1>1. CASE UNCHANGED <<api, watch, cache, pc, cur, obj>>
  <2>1. \A k \in Keys : Seen(k)' = Seen(k)
    BY <1>1 DEF Seen
  <2>2. QED
    BY <1>1, <2>1 DEF ReadyInv, VersionsAgree, ReadyNotAhead, ReadyOnSuccess, ReadySettled,
       SaysReady
<1>2. CASE ReconcileResource
  BY <1>1, <1>2, ResourceSteps, ResultKeepsReady DEF TypeOK
<1>3. CASE CompleteCreate \/ Disturb \/ Repair \/ UNCHANGED vars
  BY <1>1, <1>3 DEF CompleteCreate, Disturb, Repair, vars, loopVars, worker
<1>4. QED
  BY <1>2, <1>3, LoopKeepsReady DEF Next, TypeOK

(* What a list asks for does not change as long as the secrets do not.     *)
LEMMA ReadingKept ==
  ASSUME secrets' = secrets, NEW k \in Keys, api'[k].spec = api[k].spec
  PROVE  /\ NoRepeats(api[k].spec)' = NoRepeats(api[k].spec)
         /\ /\ databases'[api[k].spec.server][NameOf[k]] = Target(k)
            /\ AsListed(Target(k), api[k].spec)
            => AsListed(Target(k), api[k].spec)'
<1>1. ASSUME NEW g \in Grantees
      PROVE  /\ EntriesFor(api[k].spec, g)' = EntriesFor(api[k].spec, g)
             /\ Listed(api[k].spec, g)' = Listed(api[k].spec, g)
             /\ Granted(api[k].spec, g)' = Granted(api[k].spec, g)
  <2>1. EntriesFor(api[k].spec, g)' = EntriesFor(api[k].spec, g)
    BY DEF EntriesFor, GetName
  <2>2. QED
    BY <2>1 DEF Listed, Granted
<1>2. databases'[api[k].spec.server][NameOf[k]] = Target(k) => Target(k)' = Target(k)
  BY DEF Target
<1>3. NoRepeats(api[k].spec)' = NoRepeats(api[k].spec)
  BY <1>1 DEF NoRepeats
<1>4. QED
  BY <1>1, <1>2, <1>3 DEF AsListed

(* No step breaks what an object reports, or reports what is not so.       *)
LEMMA RealKept ==
  ASSUME TypeOK, DatabaseReadyInv, OneNameEach, [Next]_vars, secrets' = secrets,
         NEW k \in Keys, SaysReady(k)', NoRepeats(api[k].spec)'
  PROVE  AsListed(Target(k), api[k].spec)'
<1>1. /\ api'[k].spec = api[k].spec
      /\ \/ SaysReady(k)
         \/ /\ pc = "setReady" /\ k = cur /\ obj.spec = api[k].spec /\ ~obj.deleting
            /\ databases' = databases
  <2>1. CASE (LoopWorker \/ Environment \/ Restart) /\ databases' = databases
    BY <2>1, ReadyArises DEF DatabaseReadyInv, TypeOK
  <2>2. CASE api' = api
    BY <2>2 DEF SaysReady
  <2>3. QED
    BY <2>1, <2>2, ResourceSteps
       DEF Next, CompleteCreate, Disturb, Repair, vars, loopVars, external
<1>2. NoRepeats(api[k].spec)
  BY <1>1, ReadingKept
<1>3. AsListed(Target(k), api[k].spec)
  BY <1>1, <1>2 DEF DatabaseReadyInv, ReadyIsReal, ReadyEarned, database, server, name, Target
<1>4. databases'[api[k].spec.server][NameOf[k]] = Target(k)
  <2>1. CASE databases' = databases
    BY <2>1 DEF Target
  <2>2. ASSUME SaysReady(k)
        PROVE  api[k].spec.server \in Servers /\ NameOf[k] \in Databases
    BY <2>2, DatabaseAssumption
       DEF SaysReady, Reports, DatabaseReadyInv, LoopInv, ObjectsSpecified
  <2>3. CASE CompleteCreate /\ SaysReady(k)
    BY <1>3, <2>2, <2>3, LateOnlyCreates DEF AsListed, Target
  <2>4. CASE ReconcileResource /\ SaysReady(k)
    <3>1. /\ server \in Servers /\ name \in Databases /\ cur \in Keys /\ obj \in Seen(cur)
          /\ name = NameOf[cur]
      BY <2>4, ResourceSteps, WorkerTypes DEF DatabaseReadyInv, name
    <3>2. CASE k = cur
      <4>1. ~obj.deleting /\ obj.spec = api[k].spec
        BY <2>4, <3>1, <3>2 DEF DatabaseReadyInv, ReadyInv, ReadySettled
      <4>2. AsListed(database, obj.spec)
        BY <1>3, <3>2, <4>1 DEF database, server, name, Target
      <4>3. databases' = databases
        BY <1>2, <2>4, <4>1, <4>2, InOrderStays DEF DatabaseReadyInv, FrameInv
      <4>4. QED
        BY <2>1, <4>3
    <3>3. CASE k # cur
      <4>1. NameOf[k] # name
        BY <3>1, <3>3 DEF OneNameEach
      <4>2. ASSUME NEW new, databases' = [databases EXCEPT ![server][name] = new]
            PROVE  databases'[api[k].spec.server][NameOf[k]] = Target(k)
        BY <2>2, <2>4, <3>1, <4>1, <4>2 DEF Target, TypeOK
      <4>3. QED
        BY <2>1, <2>4, <4>2, Statements DEF DatabaseReadyInv, FrameInv
    <3>4. QED
      BY <3>2, <3>3
  <2>5. databases' = databases \/ CompleteCreate \/ ReconcileResource
    BY DEF Next, external, Disturb, Repair, vars
  <2>6. databases' = databases \/ SaysReady(k)
    BY <1>1
  <2>7. QED
    BY <2>1, <2>3, <2>4, <2>5, <2>6
<1>5. QED
  BY <1>1, <1>3, <1>4, ReadingKept

(* The worker's place in the list, and what it is about to report.         *)
LEMMA WorkKept ==
  ASSUME TypeOK, DatabaseReadyInv, [Next]_vars, secrets' = secrets
  PROVE  EntriesApplied' /\ ReadyEarned'
<1>1. ASSUME UNCHANGED <<pc, obj, cur, frame>>,
             \A s \in Servers, n \in Databases :
               databases[s][n].exists => databases'[s][n] = databases[s][n]
      PROVE  EntriesApplied' /\ ReadyEarned'
  <2>1. NoRepeats(obj.spec)' = NoRepeats(obj.spec)
    BY <1>1 DEF NoRepeats, EntriesFor, GetName
  <2>2. pc \in {"resource", "setReady"} /\ database.exists => database' = database
    <3> SUFFICES ASSUME pc \in {"resource", "setReady"}, database.exists
                 PROVE  database' = database
      OBVIOUS
    <3>1. obj.spec \in Specs /\ cur \in Keys
      BY DEF DatabaseReadyInv, LoopInv, WorkerChecked, ObjectsSpecified, Seen, TypeOK, LoopTypeOK
    <3>2. server \in Servers /\ name \in Databases
      BY <3>1, DatabaseAssumption DEF server, name
    <3>3. QED
      BY <1>1, <3>2 DEF database, server, name
  <2>3. EntriesApplied'
    <3> SUFFICES ASSUME frame.step \in {"entry", "grant", "revoke"}
                 PROVE  EntriesApplied'
      BY <1>1 DEF EntriesApplied
    <3>1. pc = "resource" /\ database.exists /\ EntriesApplied
      BY DEF DatabaseReadyInv, FrameFits, EntriesApplied
    <3>2. database' = database /\ entry' = entry
      BY <1>1, <2>2, <3>1 DEF entry
    <3>3. QED
      BY <1>1, <2>1, <3>1, <3>2 DEF EntriesApplied, Holds, GetName
  <2>4. ReadyEarned'
    <3> SUFFICES ASSUME pc = "setReady", ~obj.deleting, NoRepeats(obj.spec)
                 PROVE  AsListed(database, obj.spec)'
      BY <1>1, <2>1 DEF ReadyEarned
    <3>1. AsListed(database, obj.spec)
      BY DEF DatabaseReadyInv, ReadyEarned
    <3>2. database' = database
      BY <2>2, <3>1 DEF AsListed
    <3>3. ASSUME NEW g \in Grantees
          PROVE  /\ Listed(obj.spec, g)' = Listed(obj.spec, g)
                 /\ Granted(obj.spec, g)' = Granted(obj.spec, g)
      <4>1. EntriesFor(obj.spec, g)' = EntriesFor(obj.spec, g)
        BY <1>1 DEF EntriesFor, GetName
      <4>2. QED
        BY <1>1, <4>1 DEF Listed, Granted
    <3>4. QED
      BY <1>1, <3>1, <3>2, <3>3 DEF AsListed
  <2>5. QED
    BY <2>3, <2>4
<1>2. ASSUME frame'.step = "begin", pc' # "setReady"
      PROVE  EntriesApplied' /\ ReadyEarned'
  BY <1>2 DEF EntriesApplied, ReadyEarned
<1>3. CASE LoopWorker /\ UNCHANGED frame
  <2>1. pc # "resource" /\ pc' # "setReady"
    BY <1>3 DEF LoopWorker, Conclude, Get, Entry, AddFinalizer, SetProgressing, SetReady,
       SetDegraded, RemoveFinalizer, UpdateStatus, Request, Return
  <2>2. frame.step = "begin"
    BY <2>1 DEF DatabaseReadyInv, FrameFits
  <2>3. QED
    BY <1>2, <1>3, <2>1, <2>2
<1>4. CASE Environment /\ UNCHANGED <<frame, databases>>
  <2>1. UNCHANGED worker
    BY <1>4 DEF Environment, ChangeSpec, Create, Delete, Edit, Deliver, Resync, ReleaseForeign
  <2>2. QED
    BY <1>1, <1>4, <2>1 DEF worker
<1>5. CASE Restart /\ frame' = Fresh
  BY <1>2, <1>5 DEF Restart, Fresh
<1>6. CASE ReconcileResource
  BY <1>6, ResourceApplies, ResourceEarns DEF DatabaseReadyInv, FrameInv
<1>7. CASE CompleteCreate
  BY <1>1, <1>7, LateOnlyCreates DEF CompleteCreate, loopVars
<1>8. CASE Disturb \/ Repair \/ UNCHANGED vars
  BY <1>1, <1>8 DEF Disturb, Repair, vars, loopVars, external, worker
<1>9. QED
  BY <1>3, <1>4, <1>5, <1>6, <1>7, <1>8 DEF Next, external

(* The invariant the two theorems below rest on.                           *)
THEOREM DatabaseReadyInvHolds ==
  ASSUME OneNameEach
  PROVE  SteadySpec => [](TypeOK /\ DatabaseReadyInv)
<1>1. Init => TypeOK /\ DatabaseReadyInv
  <2> SUFFICES ASSUME Init PROVE TypeOK /\ DatabaseReadyInv
    OBVIOUS
  <2>1. TypeOK /\ LoopInv /\ FrameFits /\ InList /\ ReadyInv
    BY InitEstablishes, LoopStartsReady DEF FrameInv, Init
  <2>2. pc = "idle" /\ frame.step = "begin" /\ \A k \in Keys : ~api[k].exists
    BY DEF Init, LoopInit, Fresh, NoObject
  <2>3. QED
    BY <2>1, <2>2 DEF DatabaseReadyInv, EntriesApplied, ReadyEarned, ReadyIsReal, SaysReady,
       Reports
<1>2. TypeOK /\ DatabaseReadyInv /\ [Next /\ UNCHANGED secrets]_vars
        => TypeOK' /\ DatabaseReadyInv'
  <2> SUFFICES ASSUME TypeOK, DatabaseReadyInv, [Next /\ UNCHANGED secrets]_vars
               PROVE  TypeOK' /\ DatabaseReadyInv'
    OBVIOUS
  <2>1. [Next]_vars /\ secrets' = secrets
    BY DEF vars, external, lookups
  <2>2. TypeOK' /\ LoopInv' /\ FrameInv' /\ ReadyInv'
    BY <2>1, NextKeeps, NextKeepsReadyInv DEF DatabaseReadyInv, FrameInv
  <2>3. EntriesApplied' /\ ReadyEarned'
    BY <2>1, WorkKept
  <2>4. ReadyIsReal'
    BY <2>1, RealKept DEF ReadyIsReal
  <2>5. QED
    BY <2>2, <2>3, <2>4 DEF DatabaseReadyInv, FrameInv
<1>3. QED
  BY <1>1, <1>2, PTL DEF SteadySpec

(* When no two objects name one database and secrets keep the names they   *)
(* hold, an object that says Ready for its current generation is backed by *)
(* a database as its spec lists it, whichever of the statements failed,    *)
(* was cut off or repeated, and however late a CREATE DATABASE takes       *)
(* effect.                                                                 *)
THEOREM ReadyIsNeverALie ==
  ASSUME OneNameEach
  PROVE  SteadySpec => []ReadyIsReal
<1>1. DatabaseReadyInv => ReadyIsReal
  BY DEF DatabaseReadyInv
<1>2. QED
  BY <1>1, DatabaseReadyInvHolds, PTL

(* And to reconcile what is in order changes nothing for a moment.         *)
THEOREM ResyncDisturbsNothing ==
  ASSUME OneNameEach
  PROVE  SteadySpec => DisturbsNothing
<1> DEFINE Undisturbed == pc = "resource" /\ ~obj.deleting /\ obj.spec = api[cur].spec
                            /\ AsListed(database, obj.spec) /\ NoRepeats(obj.spec)
                          => databases'[server][name] = database
<1>1. ASSUME TypeOK, DatabaseReadyInv, [Next]_vars
      PROVE  Undisturbed
  <2> SUFFICES ASSUME pc = "resource", ~obj.deleting, AsListed(database, obj.spec),
                      NoRepeats(obj.spec)
               PROVE  databases'[server][name] = database
    OBVIOUS
  <2>1. server \in Servers /\ name \in Databases
    BY <1>1, WorkerTypes DEF DatabaseReadyInv
  <2>2. CASE ReconcileResource
    BY <1>1, <2>2, InOrderStays DEF DatabaseReadyInv, FrameInv, database
  <2>3. CASE CompleteCreate
    BY <1>1, <2>1, <2>3, LateOnlyCreates DEF AsListed, database
  <2>4. CASE databases' = databases
    BY <2>4 DEF database
  <2>5. QED
    BY <1>1, <2>2, <2>3, <2>4 DEF Next, external, Disturb, Repair, vars
<1>2. TypeOK /\ DatabaseReadyInv /\ [Next /\ UNCHANGED secrets]_vars => [Undisturbed]_vars
  BY <1>1
<1>3. QED
  BY <1>2, DatabaseReadyInvHolds, PTL DEF SteadySpec, DisturbsNothing
================================================================================
