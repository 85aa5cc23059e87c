---------------------- MODULE MembershipController_proofs ----------------------
(***************************************************************************)
(* What the membership controller promises, for any number of objects,     *)
(* servers, names, secrets, specs, edits and faults: as long as users      *)
(* change the pair of an object only while it is not granted, no           *)
(* membership outlives the objects that would revoke it; and as long as no *)
(* two objects are about one pair, none is revoked under an object that    *)
(* grants it and none is there that an object reports as revoked.          *)
(***************************************************************************)
EXTENDS MembershipController, ReconcileLoop_proofs

LEMMA PairTypes ==
  ASSUME SurroundingsTypeOK, NEW s \in Specs
  PROVE  s.server \in Servers /\ PairOf(s) \in Pair
  BY MembershipAssumption DEF SurroundingsTypeOK, PairOf, GetName, Pair

(* The worker is about the pair of an object that its user specified.      *)
LEMMA WorkerTypes ==
  ASSUME TypeOK, LoopInv, pc = "resource"
  PROVE  /\ obj \in Object /\ obj.exists /\ obj.spec \in Specs /\ obj \in Seen(cur)
         /\ cur \in Keys /\ server \in Servers /\ PairOf(obj.spec) \in Pair
         /\ obj.spec.granted \in BOOLEAN
<1>1. obj \in Object /\ cur \in Keys /\ obj \in Seen(cur)
  BY DEF TypeOK, LoopTypeOK, Seen
<1>2. obj.exists /\ obj.spec \in Specs
  BY <1>1 DEF LoopInv, WorkerChecked, ObjectsSpecified
<1>3. QED
  BY <1>1, <1>2, PairTypes, MembershipAssumption DEF server, TypeOK

LEMMA FrameTypes ==
  /\ Fresh \in Frame
  /\ \A step \in Steps \ {"begin"}, p \in Pair : [step |-> step, pair |-> p] \in Frame
  /\ \A f \in Frame : f.step # "begin" => f.pair \in Pair
  BY DEF Fresh, Frame

(* What Exec does to everything but the memberships.                       *)
LEMMA ExecKeeps ==
  ASSUME TypeOK, LoopInv, NEW accepted, NEW new \in SUBSET Pair, pc = "resource",
         Exec(accepted, new)
  PROVE  TypeOK' /\ LoopInv'
<1>1. server \in Servers
  BY WorkerTypes
<1>2. faults' \in 0 .. MaxFaults /\ (Succeed \/ \E msg \in Errors : Fail(msg))
  BY LoopAssumption DEF Exec, Fault, Errors, TypeOK, LoopTypeOK
<1>3. LoopTypeOK' /\ LoopInv'
  BY <1>2, ResultKeepsTypes, ResultKeepsInv DEF TypeOK
<1>4. members' \in [Servers -> SUBSET Pair]
  BY <1>1 DEF Exec, TypeOK
<1>5. QED
  BY <1>3, <1>4, FrameTypes DEF TypeOK, Exec, SurroundingsTypeOK, lookups

LEMMA ReconcileResourceKeeps ==
  ASSUME TypeOK, LoopInv, ReconcileResource
  PROVE  TypeOK' /\ LoopInv'
<1> pc = "resource"
  BY DEF ReconcileResource, ResolveNames, CheckMembership, Grant, Revoke
<1>1. ASSUME Succeed \/ \E msg \in Errors : Fail(msg), faults' \in 0 .. MaxFaults,
             frame' \in Frame, UNCHANGED external
      PROVE  TypeOK' /\ LoopInv'
  BY <1>1, ResultKeepsTypes, ResultKeepsInv DEF TypeOK, external, lookups, SurroundingsTypeOK
<1>2. ASSUME NEW step \in Steps \ {"begin"}, NEW p \in Pair, Continue(step, p),
             UNCHANGED external
      PROVE  TypeOK' /\ LoopInv'
  <2>1. LoopTypeOK' /\ LoopInv'
    BY <1>2, LoopStutters DEF Continue, TypeOK, LoopTypeOK, loopVars, objects, worker
  <2>2. QED
    BY <1>2, <2>1, FrameTypes DEF Continue, TypeOK, external, lookups, SurroundingsTypeOK
<1>3. CASE ResolveNames
  <2>1. CASE Fail("unresolved") /\ UNCHANGED <<frame, faults>>
    BY <1>1, <1>3, <2>1 DEF ResolveNames, Errors, TypeOK, LoopTypeOK
  <2>2. QED
    BY <1>2, <1>3, <2>1, WorkerTypes DEF ResolveNames, Steps
<1>4. CASE CheckMembership
  <2>1. frame.pair \in Pair
    BY <1>4, FrameTypes DEF CheckMembership, TypeOK
  <2>2. CASE Fault /\ Fail("unreachable") /\ frame' = Fresh
    BY <1>1, <1>4, <2>2, FrameTypes, LoopAssumption
       DEF CheckMembership, Fault, Errors, TypeOK, LoopTypeOK
  <2>3. CASE Succeed /\ frame' = Fresh /\ UNCHANGED faults
    BY <1>1, <1>4, <2>3, FrameTypes DEF CheckMembership, TypeOK, LoopTypeOK
  <2>4. CASE Continue("grant", frame.pair) \/ Continue("revoke", frame.pair)
    BY <1>2, <1>4, <2>1, <2>4 DEF CheckMembership, Steps
  <2>5. QED
    BY <1>4, <2>2, <2>3, <2>4 DEF CheckMembership
<1>5. CASE Grant \/ Revoke
  <2>1. frame.pair \in Pair /\ server \in Servers
    BY <1>5, FrameTypes, WorkerTypes DEF Grant, Revoke, TypeOK
  <2>2. /\ GrantRole(members[server], frame.pair[1], frame.pair[2]) \in SUBSET Pair
        /\ RevokeRole(members[server], frame.pair[1], frame.pair[2]) \in SUBSET Pair
    BY <2>1 DEF GrantRole, RevokeRole, TypeOK, Pair
  <2>3. QED
    BY <1>5, <2>2, ExecKeeps DEF Grant, Revoke
<1>6. QED
  BY <1>3, <1>4, <1>5 DEF ReconcileResource

(* Every step keeps the types, and what ReconcileLoop knows of versions.   *)
LEMMA NextKeeps ==
  ASSUME TypeOK, LoopInv, [Next]_vars
  PROVE  TypeOK' /\ LoopInv'
<1>1. CASE (LoopWorker \/ Environment) /\ UNCHANGED <<external, frame>>
  BY <1>1, LoopWorkerKeepsTypes, LoopWorkerKeepsInv, EnvironmentKeepsTypes,
     EnvironmentKeepsInv DEF TypeOK, external, lookups, SurroundingsTypeOK
<1>2. CASE ReconcileResource
  BY <1>2, ReconcileResourceKeeps
<1>3. CASE Restart /\ frame' = Fresh /\ UNCHANGED external
  BY <1>3, FrameTypes, EnvironmentKeepsTypes, EnvironmentKeepsInv
     DEF TypeOK, external, lookups, SurroundingsTypeOK
<1>4. CASE Disturb
  <2>1. faults' \in 0 .. MaxFaults
    BY <1>4, LoopAssumption DEF Disturb, Fault, TypeOK, LoopTypeOK
  <2>2. LoopTypeOK' /\ LoopInv'
    BY <1>4, <2>1, LoopStutters DEF Disturb, TypeOK, objects, worker
  <2>3. SurroundingsTypeOK' /\ members' \in [Servers -> SUBSET Pair]
    <3>1. ASSUME NEW s \in Servers, NEW n \in Names, DropRole(s, n)
          PROVE  SurroundingsTypeOK' /\ members' \in [Servers -> SUBSET Pair]
      BY <3>1 DEF DropRole, Without, TypeOK, SurroundingsTypeOK, lookups
    <3>2. CASE LoseLookup /\ UNCHANGED <<members, present>>
      BY <3>2 DEF LoseLookup, Rotate, TypeOK, SurroundingsTypeOK
    <3>3. QED
      BY <1>4, <3>1, <3>2 DEF Disturb
  <2>4. QED
    BY <1>4, <2>2, <2>3 DEF Disturb, TypeOK
<1>5. CASE Repair
  <2>1. LoopTypeOK' /\ LoopInv'
    BY <1>5, LoopStutters DEF Repair, TypeOK, LoopTypeOK, loopVars, objects, worker
  <2>2. SurroundingsTypeOK'
    BY <1>5 DEF Repair, MakeRole, RestoreLookup, TypeOK, SurroundingsTypeOK, lookups
  <2>3. QED
    BY <1>5, <2>1, <2>2 DEF Repair, TypeOK
<1>6. CASE UNCHANGED vars
  <2>1. LoopTypeOK' /\ LoopInv'
    BY <1>6, LoopStutters DEF vars, TypeOK, LoopTypeOK, loopVars, objects, worker
  <2>2. QED
    BY <1>6, <2>1 DEF vars, TypeOK, external, lookups, SurroundingsTypeOK
<1>7. QED
  BY <1>1, <1>2, <1>3, <1>4, <1>5, <1>6 DEF Next

LEMMA InitEstablishes == Init => TypeOK /\ LoopInv
<1> SUFFICES ASSUME Init PROVE TypeOK /\ LoopInv
  OBVIOUS
<1>1. LoopTypeOK /\ LoopInv
  BY LoopStarts DEF Init
<1>2. QED
  BY <1>1, FrameTypes DEF Init, TypeOK, SurroundingsInit, SurroundingsTypeOK

(* Whatever users, faults and crashes do, every variable keeps its type    *)
(* and the operator's views of an object stay consistent with the server's.*)
THEOREM TypeCorrect == Spec => [](TypeOK /\ LoopInv)
  BY InitEstablishes, NextKeeps, PTL DEF Spec
-------------------------------------------------------------------------------
(* Specs that are about one thing stand for one pair, and an object keeps  *)
(* what it is about while a reconcile is under way or its pair a member.   *)
LEMMA SamePair ==
  ASSUME NEW s, NEW t, About(s) = About(t)
  PROVE  PairOf(s) = PairOf(t) /\ s.server = t.server
  BY DEF About, PairOf

LEMMA SpecKept ==
  ASSUME PairsKept, NEW k \in Keys, api[k].exists, api'[k].exists,
         frame.step # "begin" \/ PairOf(api[k].spec) \in members[api[k].spec.server]
  PROVE  About(api'[k].spec) = About(api[k].spec) /\ PairOf(api[k].spec)' = PairOf(api[k].spec)
  BY DEF PairsKept, PairOf, GetName, About

LEMMA FrameKept ==
  ASSUME TypeOK, LoopInv, FrameFits, [Next]_vars, PairsKept
  PROVE  FrameFits'
<1>1. CASE frame' = Fresh
  BY <1>1 DEF FrameFits, Fresh
<1>2. CASE LoopWorker /\ UNCHANGED frame
  <2>1. pc # "resource"
    BY <1>2 DEF LoopWorker, Conclude, Get, AddFinalizer, SetProgressing, SetReady,
       SetDegraded, RemoveFinalizer
  <2>2. QED
    BY <1>2, <2>1 DEF FrameFits
<1>3. ASSUME UNCHANGED <<pc, cur, obj, frame>>, Guarded(api'[cur]) => Guarded(api[cur])
      PROVE  FrameFits'
  <2> SUFFICES ASSUME frame.step # "begin", Guarded(api'[cur]),
                      About(obj.spec) = About(api'[cur].spec)
               PROVE  frame.pair = PairOf(obj.spec)'
    BY <1>3 DEF FrameFits, Guarded, About
  <2>1. Guarded(api[cur]) /\ cur \in Keys
    BY <1>3 DEF TypeOK, LoopTypeOK
  <2> PICK k \in Keys : k = cur
    BY <2>1
  <2>2. About(api'[k].spec) = About(api[k].spec) /\ PairOf(api[k].spec)' = PairOf(api[k].spec)
    BY <2>1, SpecKept DEF Guarded
  <2>3. frame.pair = PairOf(obj.spec) /\ PairOf(obj.spec) = PairOf(api[k].spec)
    BY <2>1, <2>2, SamePair DEF FrameFits
  <2>4. QED
    BY <1>3, <2>2, <2>3 DEF About, PairOf, GetName
<1>4. CASE Environment /\ UNCHANGED frame
  <2>1. UNCHANGED worker
    BY <1>4 DEF Environment, ChangeSpec, Create, Delete, Edit, Deliver, Resync, ReleaseForeign
  <2>2. QED
    BY <1>3, <1>4, <2>1, EnvironmentNeverGuards DEF worker, TypeOK, LoopTypeOK
<1>5. ASSUME frame.step = "begin", pc = "resource", Continue("check", PairOf(obj.spec)),
             UNCHANGED lookups
      PROVE  FrameFits'
  BY <1>5 DEF Continue, FrameFits, lookups, PairOf, GetName, loopVars
<1>6. CASE ResolveNames
  BY <1>5, <1>6 DEF ResolveNames, external, FrameFits
<1>7. CASE CheckMembership
  <2>1. FrameFits /\ frame.step # "begin" /\ pc = "resource" /\ UNCHANGED external
        /\ obj.deleting \in BOOLEAN
    BY <1>7 DEF CheckMembership, TypeOK, LoopTypeOK, Object
  <2>2. ASSUME NEW step, Continue(step, frame.pair),
               step = "grant" => ~obj.deleting /\ obj.spec.granted,
               step = "revoke" => obj.deleting \/ ~obj.spec.granted
        PROVE  FrameFits'
    BY <2>1, <2>2 DEF Continue, loopVars, FrameFits, external, lookups, PairOf, GetName, Guarded,
       About
  <2>3. QED
    BY <1>1, <1>7, <2>2 DEF CheckMembership
<1>8. CASE Grant \/ Revoke
  BY <1>1, <1>8 DEF Grant, Revoke, Exec
<1>9. CASE Disturb \/ Repair \/ UNCHANGED vars
  BY <1>3, <1>9 DEF Disturb, Repair, vars, loopVars, worker, Guarded
<1>10. QED
  BY <1>1, <1>2, <1>4, <1>6, <1>7, <1>8, <1>9 DEF Next, ReconcileResource
-------------------------------------------------------------------------------
LEMMA ResourceSteps ==
  ASSUME ReconcileResource
  PROVE  /\ UNCHANGED <<api, present, lookups>> /\ pc = "resource"
         /\ \/ Succeed \/ \E msg \in Errors : Fail(msg)
            \/ UNCHANGED <<watch, cache, pc, cur, obj>>
<1>1. CASE ResolveNames \/ CheckMembership
  BY <1>1 DEF ResolveNames, CheckMembership, Continue, external, loopVars, Succeed, Fail, objects,
     Errors
<1>2. CASE Grant \/ Revoke
  BY <1>2 DEF Grant, Revoke, Exec, Succeed, Fail, objects, Errors
<1>3. QED
  BY <1>1, <1>2 DEF ReconcileResource

LEMMA OtherSteps ==
  ASSUME Disturb \/ Repair \/ UNCHANGED vars
  PROVE  UNCHANGED <<api, watch, cache, pc, cur, obj, frame>>
  BY DEF Disturb, Repair, vars, loopVars, worker

LEMMA NextSeen ==
  ASSUME TypeOK, LoopInv, [Next]_vars, NEW k \in Keys, NEW q \in Seen(k)'
  PROVE  q = api'[k] \/ \E p \in Seen(k) : Alike(q, p)
<1>1. CASE UNCHANGED <<watch, cache, pc, cur, obj>>
  BY <1>1 DEF Seen, Alike
<1>2. CASE ReconcileResource
  BY <1>1, <1>2, ResourceSteps, ResultSeen DEF TypeOK
<1>3. QED
  BY <1>1, <1>2, SeenSteps, OtherSteps DEF Next, TypeOK

LEMMA NextKeepsReadyInv ==
  ASSUME TypeOK, LoopInv, ReadyInv, [Next]_vars
  PROVE  ReadyInv'
<1>1. CASE UNCHANGED <<api, watch, cache, pc, cur, obj>>
  <2>1. \A k \in Keys : Seen(k)' = Seen(k)
    BY <1>1 DEF Seen
  <2>2. QED
    BY <1>1, <2>1 DEF ReadyInv, VersionsAgree, ReadyNotAhead, ReadyOnSuccess, ReadySettled,
       SaysReady
<1>2. CASE ReconcileResource
  BY <1>1, <1>2, ResourceSteps, ResultKeepsReady DEF TypeOK
<1>3. QED
  BY <1>1, <1>2, OtherSteps, LoopKeepsReady DEF Next, TypeOK

(* A version that grants is about what the current one is about, and       *)
(* PairsKept lets no later one be about anything else while it is in sight.*)
LEMMA GrantsKept ==
  ASSUME TypeOK, MembershipInv, PairsKept, [Next]_vars, TypeOK', LoopInv', ReadyInv'
  PROVE  GrantsAgree'
<1> SUFFICES ASSUME NEW k \in Keys, NEW o \in Seen(k)', NEW p \in Seen(k)' \cup {api'[k]},
                    LiveGuarded(o), o.spec.granted, p.exists, o.rv <= p.rv
             PROVE  About(p.spec) = About(o.spec)
  BY DEF GrantsAgree, LiveGuarded, Guarded, About
<1>1. o = api'[k] \/ \E q \in Seen(k) : Alike(o, q)
  BY NextSeen DEF MembershipInv
<1>2. p = api'[k] \/ \E q \in Seen(k) : Alike(p, q)
  BY NextSeen DEF MembershipInv
<1>3. CASE o = api'[k]
  <2>1. p \in Seen(k)' => p.rv <= api'[k].rv /\ p.rv \in Nat /\ api'[k].rv \in Nat
    BY DEF LoopInv, VersionsOrdered, Seen, TypeOK, LoopTypeOK, Object
  <2>2. p.spec = api'[k].spec
    BY <1>3, <2>1 DEF ReadyInv, VersionsAgree
  <2>3. QED
    BY <1>3, <2>2
<1>4. ASSUME NEW q \in Seen(k), Alike(o, q)
      PROVE  About(p.spec) = About(o.spec)
  <2>1. LiveGuarded(q) /\ q.spec.granted /\ q.rv = o.rv /\ q.spec = o.spec
    BY <1>4 DEF Alike, LiveGuarded, Guarded
  <2>2. CASE p = api'[k]
    <3>1. api[k].exists /\ q.rv <= api[k].rv
      BY <2>1 DEF MembershipInv, LoopInv, GuardSeen, VersionsOrdered, Guarded
    <3>2. About(api[k].spec) = About(q.spec)
      BY <2>1, <3>1 DEF MembershipInv, GrantsAgree
    <3>3. About(api'[k].spec) = About(api[k].spec)
      BY <2>1, <2>2, <3>1 DEF PairsKept, About
    <3>4. QED
      BY <2>1, <2>2, <3>2, <3>3
  <2>3. ASSUME NEW r \in Seen(k), Alike(p, r)
        PROVE  About(p.spec) = About(o.spec)
    BY <2>1, <2>3 DEF Alike, MembershipInv, GrantsAgree
  <2>4. QED
    BY <1>2, <2>2, <2>3
<1>5. QED
  BY <1>1, <1>3, <1>4
-------------------------------------------------------------------------------
(* Who answers for a membership goes on doing so as long as the finalizer  *)
(* stays.                                                                  *)
LEMMA AnswersKept ==
  ASSUME TypeOK, MembershipInv, PairsKept, [Next]_vars,
         NEW k \in Keys, NEW s \in Servers, NEW p \in members[s], Claims(k, s, p), Answers(k),
         Guarded(api'[k]), ~(pc' = "removeFinalizer" /\ cur' = k)
  PROVE  Claims(k, s, p)' /\ Answers(k)'
<1>1. About(api'[k].spec) = About(api[k].spec) /\ PairOf(api[k].spec)' = PairOf(api[k].spec)
  BY SpecKept DEF Claims, Guarded
<1>2. Claims(k, s, p)'
  BY <1>1 DEF Claims, Guarded, About
<1>3. ASSUME NEW o \in Seen(k)', o.exists
      PROVE  About(o.spec) = About(api'[k].spec)
  <2>1. ASSUME NEW q \in Seen(k), Alike(o, q)
        PROVE  About(o.spec) = About(api'[k].spec)
    BY <1>1, <1>3, <2>1 DEF Alike, Answers
  <2>2. QED
    BY <2>1, NextSeen DEF MembershipInv
<1>4. Answers(k)'
  BY <1>3 DEF Answers, About, Guarded
<1>5. QED
  BY <1>2, <1>4

(* What the worker is about when it stands for a membership it answers for.*)
LEMMA FrameAnswers ==
  ASSUME TypeOK, MembershipInv, pc = "resource", frame.step # "begin",
         NEW s \in Servers, NEW p \in members[s], Claims(cur, s, p), Answers(cur)
  PROVE  p = frame.pair /\ s = server /\ PairOf(obj.spec) = frame.pair
<1>1. obj.exists /\ obj \in Seen(cur) /\ cur \in Keys
  BY WorkerTypes DEF MembershipInv
<1>2. About(obj.spec) = About(api[cur].spec) /\ Guarded(api[cur])
  BY <1>1 DEF Answers
<1>3. frame.pair = PairOf(obj.spec)
  BY <1>2 DEF MembershipInv, FrameFits
<1>4. QED
  BY <1>2, <1>3, SamePair DEF Claims, server

(* Nothing but Grant makes a membership, and the worker does not let go of *)
(* its object while the pair it stands for is a member.                    *)
LEMMA AnsweredKept ==
  ASSUME TypeOK, MembershipInv, PairsKept, [Next]_vars,
         \A s \in Servers : members'[s] \subseteq members[s],
         \A k \in Keys : Guarded(api[k]) => Guarded(api'[k]) \/ (pc = "removeFinalizer" /\ k = cur),
         pc' = "removeFinalizer" =>
           UNCHANGED <<pc, cur>> \/ (pc = "resource" /\ frame.step # "begin" /\ cur' = cur
                                     /\ frame.pair \notin members'[server])
  PROVE  AllAnswered'
<1> SUFFICES ASSUME NEW s \in Servers, NEW p \in members'[s]
             PROVE  \E k \in Keys : Claims(k, s, p)' /\ Answers(k)'
  BY DEF AllAnswered
<1>1. PICK k \in Keys : Claims(k, s, p) /\ Answers(k)
  BY DEF MembershipInv, AllAnswered
<1>2. Guarded(api'[k])
  BY <1>1 DEF Answers
<1>3. ~(pc' = "removeFinalizer" /\ cur' = k)
  BY <1>1, FrameAnswers DEF Answers
<1>4. Claims(k, s, p)' /\ Answers(k)'
  BY <1>1, <1>2, <1>3, AnswersKept
<1>5. QED
  BY <1>4
(* A loop step takes the finalizer only from an object it is letting go.   *)
LEMMA LoopKeepsAnswered ==
  ASSUME TypeOK, MembershipInv, PairsKept, [Next]_vars, UNCHANGED members,
         LoopWorker \/ Environment \/ Restart
  PROVE  AllAnswered'
<1>1. \A k \in Keys : Guarded(api[k]) => Guarded(api'[k]) \/ (pc = "removeFinalizer" /\ k = cur)
  BY OnlyRemovalUnguards DEF TypeOK, MembershipInv, RemoveFinalizer
<1>2. pc' = "removeFinalizer" => UNCHANGED <<pc, cur>>
  <2>1. CASE Environment
    BY <2>1 DEF Environment, ChangeSpec, Create, Delete, Edit, Deliver, Resync, ReleaseForeign,
       worker
  <2>2. CASE LoopWorker \/ Restart
    BY <2>2 DEF LoopWorker, Conclude, Get, Entry, AddFinalizer, SetProgressing, SetReady,
       SetDegraded, RemoveFinalizer, UpdateStatus, Request, Return, Restart
  <2>3. QED
    BY <2>1, <2>2
<1>3. QED
  BY <1>1, <1>2, AnsweredKept

(* The worker is to grant only what its object answers for.                *)
LEMMA GrantAnswers ==
  ASSUME TypeOK, MembershipInv, pc = "resource", frame.step = "grant"
  PROVE  Claims(cur, server, frame.pair) /\ Answers(cur)
<1>1. /\ obj \in Object /\ obj.exists /\ obj \in Seen(cur) /\ cur \in Keys
      /\ ~obj.deleting /\ obj.spec.granted
  BY WorkerTypes DEF MembershipInv, FrameFits
<1>2. LiveGuarded(obj)
  BY <1>1 DEF MembershipInv, LoopInv, WorkerChecked, LiveGuarded, Guarded
<1>3. Guarded(api[cur])
  BY <1>1, <1>2 DEF MembershipInv, LoopInv, GuardSeen
<1>4. \A o \in Seen(cur) \cup {api[cur]} : obj.rv <= o.rv
  BY <1>1 DEF MembershipInv, LoopInv, VersionsOrdered, Seen, TypeOK, LoopTypeOK, Object
<1>5. \A o \in Seen(cur) \cup {api[cur]} : o.exists => About(o.spec) = About(obj.spec)
  BY <1>1, <1>2, <1>4 DEF MembershipInv, GrantsAgree
<1>6. frame.pair = PairOf(obj.spec)
  BY <1>3, <1>5 DEF MembershipInv, FrameFits, Guarded
<1>7. QED
  BY <1>3, <1>5, <1>6, SamePair DEF Claims, Answers, Guarded, server

(* What ReconcileResource does to the memberships, and what it has seen to *)
(* when it succeeds for an object that wants none.                         *)
LEMMA ResourceEffects ==
  ASSUME TypeOK, LoopInv, ReconcileResource
  PROVE  /\ ~Grant => \A s \in Servers : members'[s] \subseteq members[s]
         /\ Grant => \A s \in Servers : \A p \in members'[s] :
                       p \in members[s] \/ (s = server /\ p = frame.pair)
         /\ pc' \in {"removeFinalizer", "setReady"} /\ (obj.deleting \/ ~obj.spec.granted) =>
              Grant \/ (frame.step # "begin" /\ frame.pair \notin members'[server])
<1> DEFINE done == pc' \in {"removeFinalizer", "setReady"}
<1>1. /\ pc = "resource" /\ obj.spec.granted \in BOOLEAN /\ server \in Servers /\ obj \in Object
      /\ frame.step # "begin" => frame.pair \in Pair
  BY ResourceSteps, WorkerTypes, FrameTypes DEF TypeOK
<1>2. ~done \/ Succeed
  BY <1>1, ResourceSteps DEF Fail, Return
<1>3. CASE ResolveNames
  BY <1>1, <1>3 DEF ResolveNames, external, Continue, loopVars, Fail, Return, Grant
<1>4. CASE CheckMembership
  <2>1. UNCHANGED members /\ frame.step = "check" /\ frame.pair \in Pair
    BY <1>1, <1>4 DEF CheckMembership, external
  <2>2. IsMemberOf(members[server], frame.pair[1], frame.pair[2]) <=> frame.pair \in members[server]
    BY <2>1 DEF IsMemberOf, Pair
  <2>3. done /\ (obj.deleting \/ ~obj.spec.granted)
          => ~IsMemberOf(members[server], frame.pair[1], frame.pair[2])
    <3>1. done => ~Continue("revoke", frame.pair) /\ ~Continue("grant", frame.pair)
                  /\ ~Fail("unreachable")
      BY <1>1 DEF Continue, loopVars, Fail, Return
    <3>2. QED
      BY <1>1, <1>4, <3>1 DEF CheckMembership, Object
  <2>4. QED
    BY <2>1, <2>2, <2>3 DEF Grant
<1>5. CASE Revoke
  <2>1. frame.pair \in Pair /\ frame.step = "revoke"
    BY <1>1, <1>5 DEF Revoke
  <2> DEFINE new == RevokeRole(members[server], frame.pair[1], frame.pair[2])
  <2>2. new = members[server] \ {frame.pair}
    BY <2>1 DEF RevokeRole, Pair
  <2> HIDE DEF new
  <2>3. /\ members' = members \/ members' = [members EXCEPT ![server] = new]
        /\ done => members' = [members EXCEPT ![server] = new]
    BY <1>5 DEF Revoke, Exec, Fail, Return, new
  <2>4. QED
    BY <1>1, <2>1, <2>2, <2>3 DEF TypeOK, Grant
<1>6. CASE Grant
  <2>1. frame.pair \in Pair
    BY <1>1, <1>6 DEF Grant
  <2> DEFINE new == GrantRole(members[server], frame.pair[1], frame.pair[2])
  <2>2. new = members[server] \cup {frame.pair}
    BY <2>1 DEF GrantRole, Pair
  <2> HIDE DEF new
  <2>3. members' = members \/ members' = [members EXCEPT ![server] = new]
    BY <1>6 DEF Grant, Exec, new
  <2>4. QED
    BY <1>1, <1>6, <2>2, <2>3 DEF TypeOK
<1>7. QED
  BY <1>3, <1>4, <1>5, <1>6 DEF ReconcileResource

LEMMA ResourceKeepsAnswered ==
  ASSUME TypeOK, MembershipInv, PairsKept, [Next]_vars, ReconcileResource
  PROVE  AllAnswered'
<1>1. /\ UNCHANGED <<api, lookups, cur>> /\ pc = "resource" /\ cur \in Keys
      /\ server \in Servers
      /\ pc' = "removeFinalizer" => obj.deleting
  BY ResourceSteps, ResultSeen, WorkerTypes DEF TypeOK, MembershipInv, Succeed, Fail, Return
<1>2. CASE ~Grant
  <2>1. \A k \in Keys : Guarded(api[k]) => Guarded(api'[k])
    BY <1>1
  <2>2. \A s \in Servers : members'[s] \subseteq members[s]
    BY <1>2, ResourceEffects DEF MembershipInv
  <2>3. pc' = "removeFinalizer" => frame.step # "begin" /\ frame.pair \notin members'[server]
    BY <1>1, <1>2, ResourceEffects DEF MembershipInv
  <2>4. QED
    BY <1>1, <2>1, <2>2, <2>3, AnsweredKept
<1>3. CASE Grant
  <2>1. Claims(cur, server, frame.pair) /\ Answers(cur) /\ ~obj.deleting
    BY <1>1, <1>3, GrantAnswers DEF Grant, MembershipInv, FrameFits
  <2>2. \A s \in Servers : \A p \in members'[s] : p \in members[s] \/ (s = server /\ p = frame.pair)
    BY <1>3, ResourceEffects DEF MembershipInv
  <2>3. ASSUME NEW k \in Keys, NEW s \in Servers, NEW p, Claims(k, s, p), Answers(k)
        PROVE  Claims(k, s, p)' /\ Answers(k)'
    <3>1. \A o \in Seen(k)' : \E q \in Seen(k) : Alike(o, q)
      BY <1>3, ResultSeen DEF TypeOK, Grant, Exec, Errors
    <3>2. QED
      BY <1>1, <2>1, <2>3, <3>1
         DEF Claims, Answers, Alike, Guarded, PairOf, GetName, lookups, About
  <2>4. QED
    BY <1>1, <2>1, <2>2, <2>3 DEF AllAnswered, MembershipInv
<1>4. QED
  BY <1>2, <1>3

LEMMA NextKeepsMembershipInv ==
  ASSUME TypeOK, MembershipInv, PairsKept, [Next]_vars
  PROVE  MembershipInv'
<1>1. TypeOK' /\ LoopInv' /\ ReadyInv' /\ FrameFits' /\ GrantsAgree'
  BY NextKeeps, NextKeepsReadyInv, FrameKept, GrantsKept DEF MembershipInv
<1>2. CASE Disturb \/ Repair \/ UNCHANGED vars
  <2>1. \A s \in Servers : members'[s] \subseteq members[s]
    BY <1>2 DEF Disturb, DropRole, Without, Repair, vars, external, TypeOK
  <2>2. AllAnswered'
    BY <1>2, <2>1, OtherSteps, AnsweredKept
  <2>3. QED
    BY <1>1, <2>2 DEF MembershipInv
<1>3. AllAnswered'
  BY <1>1, <1>2, LoopKeepsAnswered, ResourceKeepsAnswered DEF Next, MembershipInv, external
<1>4. QED
  BY <1>1, <1>3 DEF MembershipInv

LEMMA InitEstablishesMembershipInv == Init => MembershipInv
<1> SUFFICES ASSUME Init PROVE MembershipInv
  OBVIOUS
<1>1. LoopInv /\ ReadyInv
  BY InitEstablishes, LoopStartsReady DEF Init
<1>2. \A k \in Keys : Seen(k) = {NoObject} /\ api[k] = NoObject
  BY DEF Init, LoopInit, Seen
<1>3. FrameFits /\ AllAnswered
  BY DEF Init, FrameFits, Fresh, AllAnswered
<1>4. GrantsAgree
  BY <1>2 DEF GrantsAgree
<1>5. QED
  BY <1>1, <1>3, <1>4 DEF MembershipInv

(* The invariant the theorems below rest on.                               *)
THEOREM MembershipInvHolds == SteadySpec => [](TypeOK /\ MembershipInv)
<1>1. Init => TypeOK /\ MembershipInv
  BY InitEstablishes, InitEstablishesMembershipInv
<1>2. TypeOK /\ MembershipInv /\ [Next /\ PairsKept]_vars => (TypeOK /\ MembershipInv)'
  <2> SUFFICES ASSUME TypeOK, MembershipInv, [Next /\ PairsKept]_vars
               PROVE  (TypeOK /\ MembershipInv)'
    OBVIOUS
  <2>1. UNCHANGED vars => PairsKept
    BY DEF vars, loopVars, external, lookups, PairsKept, PairOf, GetName, About
  <2>2. QED
    BY <2>1, NextKeeps, NextKeepsMembershipInv DEF MembershipInv
<1>3. QED
  BY <1>1, <1>2, PTL DEF SteadySpec

(* Whatever is lost, repeated or restarted, and however late the operator  *)
(* learns of it: while an object's pair changes only when it is no member, *)
(* each membership has an object that will have it revoked.                *)
THEOREM NoOrphans == SteadySpec => []NoOrphanMembership
<1>1. MembershipInv => NoOrphanMembership
  BY DEF MembershipInv, AllAnswered, Answers, NoOrphanMembership
<1>2. QED
  BY <1>1, MembershipInvHolds, PTL
-------------------------------------------------------------------------------
(* Without a role being dropped only Revoke takes a membership.            *)
LEMMA OnlyRevokeTakes ==
  ASSUME TypeOK, LoopInv, [Next]_vars, present' = present,
         NEW s \in Servers, NEW p \in members[s], p \notin members'[s]
  PROVE  pc = "resource" /\ frame.step = "revoke" /\ s = server /\ p = frame.pair
<1>1. members' # members
  OBVIOUS
<1>2. Grant \/ Revoke
  <2>1. ~Disturb
    BY <1>1 DEF Disturb, DropRole, TypeOK, SurroundingsTypeOK
  <2>2. QED
    BY <1>1, <2>1
       DEF Next, ReconcileResource, ResolveNames, CheckMembership, Repair, vars, external
<1>3. server \in Servers /\ frame.pair \in Pair
  BY <1>2, WorkerTypes, FrameTypes DEF Grant, Revoke, TypeOK
<1>4. CASE Grant
  <2>1. members' = [members EXCEPT ![server] = @ \cup {frame.pair}]
    BY <1>1, <1>3, <1>4 DEF Grant, Exec, GrantRole, Pair
  <2>2. QED
    BY <1>3, <2>1 DEF TypeOK
<1>5. CASE Revoke
  <2>1. members' = [members EXCEPT ![server] = @ \ {frame.pair}]
    BY <1>1, <1>3, <1>5 DEF Revoke, Exec, RevokeRole, Pair
  <2>2. QED
    BY <1>3, <1>5, <2>1 DEF TypeOK, Revoke
<1>6. QED
  BY <1>2, <1>4, <1>5

LEMMA RevokesOnlyWithdrawn ==
  ASSUME TypeOK, MembershipInv, PairsApart, [Next]_vars, present' = present,
         NEW s \in Servers, NEW p \in members[s], p \notin members'[s],
         NEW k \in Keys, Claims(k, s, p)
  PROVE  api[k].deleting \/ \E o \in Seen(k) : o.exists /\ ~o.deleting /\ ~o.spec.granted
<1>1. pc = "resource" /\ frame.step = "revoke" /\ s = server /\ p = frame.pair
  BY OnlyRevokeTakes DEF MembershipInv
<1>2. k = cur
  BY <1>1 DEF PairsApart
<1>3. /\ obj \in Object /\ obj.exists /\ obj \in Seen(cur)
      /\ obj.deleting \/ ~obj.spec.granted
  BY <1>1, WorkerTypes DEF MembershipInv, FrameFits
<1>4. CASE ~obj.deleting
  BY <1>2, <1>3, <1>4
<1>5. CASE obj.deleting
  <2>1. PICK j \in Keys : Claims(j, s, p) /\ Guarded(api[j])
    BY DEF MembershipInv, AllAnswered, Answers
  <2>2. Guarded(api[k])
    BY <2>1 DEF PairsApart, TypeOK
  <2>3. ~LiveGuarded(api[k])
    BY <1>2, <1>3, <1>5 DEF MembershipInv, LoopInv, NotResurrected, VersionsOrdered
  <2>4. QED
    BY <2>2, <2>3 DEF LiveGuarded
<1>6. QED
  BY <1>4, <1>5

(* When no two objects are about one pair, the operator revokes none that  *)
(* its object grants and always has since the version the worker read: no  *)
(* leftover of an earlier object of that name takes it from a later one.   *)
THEOREM RevokesNothingLive == SteadySpec /\ []PairsApart => NeverRevokesLive
<1>1. TypeOK /\ MembershipInv /\ PairsApart /\ [Next /\ PairsKept]_vars =>
        [\A s \in Servers : \A p \in members[s] \ members'[s] :
           present' = present =>
             \A k \in Keys : Claims(k, s, p) =>
               api[k].deleting \/ \E o \in Seen(k) : o.exists /\ ~o.deleting /\ ~o.spec.granted]_vars
  BY RevokesOnlyWithdrawn
<1>2. QED
  BY <1>1, MembershipInvHolds, PTL DEF SteadySpec, NeverRevokesLive
-------------------------------------------------------------------------------
ReadyRevokedInv == RevocationEarned /\ ReadyMeansRevoked

(* A membership that an object claims after a step in which none was made  *)
(* is one it claimed, and was alone to answer for, before.                 *)
LEMMA ClaimedBefore ==
  ASSUME TypeOK, MembershipInv, PairsKept, [Next]_vars, PairsApart',
         \A s \in Servers : members'[s] \subseteq members[s],
         \A k \in Keys : Guarded(api[k]) => Guarded(api'[k]) \/ (pc = "removeFinalizer" /\ k = cur),
         NEW k \in Keys, NEW s \in Servers, NEW p \in members'[s], Claims(k, s, p)'
  PROVE  Claims(k, s, p) /\ Answers(k)
<1>1. PICK j \in Keys : Claims(j, s, p) /\ Answers(j)
  BY DEF MembershipInv, AllAnswered
<1>2. p \in Pair /\ p \in members[s]
  BY DEF TypeOK
<1>3. api[j].exists /\ api'[j].exists
  BY <1>1 DEF Answers, Guarded
<1>4. About(api'[j].spec) = About(api[j].spec) /\ PairOf(api[j].spec)' = PairOf(api[j].spec)
  BY <1>1, <1>2, <1>3, SpecKept DEF Claims
<1>5. Claims(j, s, p)'
  BY <1>1, <1>3, <1>4 DEF Claims, About
<1>6. j = k
  BY <1>2, <1>5 DEF PairsApart
<1>7. QED
  BY <1>1, <1>6

(* Revocation stays earned while the worker has not yet written Ready.     *)
LEMMA EarnedKept ==
  ASSUME TypeOK, MembershipInv, PairsKept, [Next]_vars, PairsApart', RevocationEarned, TypeOK',
         LoopInv', \A s \in Servers : members'[s] \subseteq members[s],
         \A k \in Keys : Guarded(api[k]) => Guarded(api'[k]) \/ (pc = "removeFinalizer" /\ k = cur),
         UNCHANGED worker
  PROVE  RevocationEarned'
<1> SUFFICES ASSUME pc = "setReady", ~obj.deleting, ~obj.spec.granted, Guarded(api'[cur]),
                    About(obj.spec) = About(api'[cur].spec),
                    PairOf(obj.spec)' \in members'[server]
             PROVE  FALSE
  BY DEF RevocationEarned, worker, server, Guarded, About
<1>1. cur \in Keys /\ obj \in Seen(cur) /\ obj.exists
  BY DEF TypeOK, LoopTypeOK, Seen, MembershipInv, LoopInv, WorkerChecked
<1> PICK k \in Keys : k = cur
  BY <1>1
<1>2. server \in Servers
  BY <1>1, MembershipAssumption DEF MembershipInv, LoopInv, ObjectsSpecified, server
<1> PICK s \in Servers : s = server
  BY <1>2
<1>3. PICK p \in members'[s] : p = PairOf(obj.spec)'
  OBVIOUS
<1>4. Claims(k, s, p)'
  BY <1>3 DEF Claims, Guarded, About, PairOf, GetName, worker, server
<1>5. Claims(k, s, p) /\ Answers(k)
  BY <1>4, ClaimedBefore
<1>6. Guarded(api[k]) /\ About(obj.spec) = About(api[k].spec)
  BY <1>1, <1>5 DEF Answers
<1>7. PairOf(obj.spec) = p /\ p \in members[s]
  BY <1>5, <1>6, SamePair DEF Claims
<1>8. QED
  BY <1>6, <1>7 DEF RevocationEarned

LEMMA LoopKeepsRevoked ==
  ASSUME TypeOK, MembershipInv, PairsKept, [Next]_vars, PairsApart, PairsApart', ReadyRevokedInv,
         TypeOK', LoopInv', LoopWorker \/ Environment \/ Restart, UNCHANGED external
  PROVE  ReadyRevokedInv'
<1>1. members' = members /\ \A s \in Servers : members'[s] \subseteq members[s]
  BY DEF external
<1>2. \A k \in Keys : Guarded(api[k]) => Guarded(api'[k]) \/ (pc = "removeFinalizer" /\ k = cur)
  BY OnlyRemovalUnguards DEF TypeOK, MembershipInv, RemoveFinalizer
<1>3. RevocationEarned'
  <2>1. CASE Environment
    <3>1. UNCHANGED worker
      BY <2>1 DEF Environment, ChangeSpec, Create, Delete, Edit, Deliver, Resync, ReleaseForeign
    <3>2. QED
      BY <1>1, <1>2, <3>1, EarnedKept DEF ReadyRevokedInv
  <2>2. CASE LoopWorker \/ Restart
    <3>1. pc' # "setReady"
      BY <2>2 DEF LoopWorker, Conclude, Get, Entry, AddFinalizer, SetProgressing, SetReady,
         SetDegraded, RemoveFinalizer, UpdateStatus, Request, Return, Restart
    <3>2. QED
      BY <3>1 DEF RevocationEarned
  <2>3. QED
    BY <2>1, <2>2
<1>4. ReadyMeansRevoked'
  <2> SUFFICES ASSUME NEW k \in Keys, SaysReady(k)', ~api'[k].spec.granted,
                      PairOf(api'[k].spec) \in members[api'[k].spec.server]
               PROVE  FALSE
    BY <1>1 DEF ReadyMeansRevoked, external, lookups, PairOf, GetName
  <2>1. /\ api'[k].spec = api[k].spec
        /\ SaysReady(k) \/ (/\ pc = "setReady" /\ k = cur /\ Current
                            /\ obj.spec = api[k].spec /\ ~obj.deleting)
    BY ReadyArises DEF MembershipInv, TypeOK
  <2>2. CASE SaysReady(k)
    BY <2>1, <2>2 DEF ReadyRevokedInv, ReadyMeansRevoked
  <2>3. CASE pc = "setReady" /\ k = cur /\ Current /\ obj.spec = api[k].spec /\ ~obj.deleting
    <3>1. api[k].exists /\ api[k].spec.server \in Servers
      BY <2>3, MembershipAssumption DEF Current, MembershipInv, LoopInv, ObjectsSpecified
    <3>2. PICK p \in members[api[k].spec.server] : p = PairOf(api[k].spec)
      BY <2>1
    <3>3. Claims(k, api[k].spec.server, p) /\ p \in Pair
      BY <3>1, <3>2 DEF Claims, TypeOK
    <3>4. PICK j \in Keys : Claims(j, api[k].spec.server, p) /\ Guarded(api[j])
      BY <3>1 DEF MembershipInv, AllAnswered, Answers
    <3>5. Guarded(api[k])
      BY <3>1, <3>3, <3>4 DEF PairsApart
    <3>6. QED
      BY <2>1, <2>3, <3>2, <3>5 DEF ReadyRevokedInv, RevocationEarned, server
  <2>4. QED
    BY <2>1, <2>2, <2>3
<1>5. QED
  BY <1>3, <1>4 DEF ReadyRevokedInv

(* Where no membership is made and no object written, what an object says  *)
(* of its pair stays true, also when the pair becomes another.             *)
LEMMA RevokedKept ==
  ASSUME TypeOK, MembershipInv, PairsKept, [Next]_vars, PairsApart', ReadyMeansRevoked,
         \A s \in Servers : members'[s] \subseteq members[s], UNCHANGED api
  PROVE  ReadyMeansRevoked'
<1> SUFFICES ASSUME NEW k \in Keys, SaysReady(k), ~api[k].spec.granted,
                    PairOf(api[k].spec)' \in members'[api[k].spec.server]
             PROVE  FALSE
  BY DEF ReadyMeansRevoked, SaysReady
<1>1. api[k].exists /\ api[k].spec.server \in Servers
  BY MembershipAssumption DEF SaysReady, Reports, MembershipInv, LoopInv, ObjectsSpecified
<1>2. PICK s \in Servers : s = api[k].spec.server
  BY <1>1
<1>3. PICK p \in members'[s] : p = PairOf(api[k].spec)'
  BY <1>2
<1>4. Claims(k, s, p)'
  BY <1>1, <1>2, <1>3 DEF Claims
<1>5. Claims(k, s, p)
  BY <1>4, ClaimedBefore
<1>6. QED
  BY <1>2, <1>5 DEF Claims, ReadyMeansRevoked

LEMMA ResourceKeepsRevoked ==
  ASSUME TypeOK, MembershipInv, PairsKept, [Next]_vars, PairsApart, PairsApart', ReadyRevokedInv,
         ReconcileResource
  PROVE  ReadyRevokedInv'
<1>1. /\ UNCHANGED <<api, lookups, cur>> /\ pc = "resource" /\ cur \in Keys
      /\ obj.spec.granted \in BOOLEAN /\ server \in Servers /\ obj \in Seen(cur)
      /\ obj \in Object /\ PairOf(obj.spec) \in Pair
  BY ResourceSteps, ResultSeen, WorkerTypes DEF TypeOK, MembershipInv
<1>2. pc' = "setReady" => obj'.spec = obj.spec /\ obj'.deleting = obj.deleting
  BY <1>1, ResourceSteps, ResultSeen DEF TypeOK, Alike
<1>3. RevocationEarned'
  <2> SUFFICES ASSUME pc' = "setReady", ~obj.deleting, ~obj.spec.granted, Guarded(api[cur]),
                      About(obj.spec) = About(api[cur].spec)
               PROVE  PairOf(obj.spec) \notin members'[server]
    BY <1>1, <1>2 DEF RevocationEarned, server, lookups, PairOf, GetName, About, Guarded
  <2>1. ~Grant
    BY DEF Grant, MembershipInv, FrameFits
  <2>2. frame.step # "begin" /\ frame.pair \notin members'[server]
    BY <2>1, ResourceEffects DEF MembershipInv
  <2>3. frame.pair = PairOf(obj.spec)
    BY <2>2 DEF MembershipInv, FrameFits
  <2>4. QED
    BY <2>2, <2>3
<1>4. ReadyMeansRevoked'
  <2>1. CASE ~Grant
    BY <1>1, <2>1, ResourceEffects, RevokedKept DEF MembershipInv, ReadyRevokedInv
  <2>2. CASE Grant
    <3> SUFFICES ASSUME NEW k \in Keys, SaysReady(k), ~api[k].spec.granted,
                        PairOf(api[k].spec) \in members'[api[k].spec.server]
                 PROVE  FALSE
      BY <1>1 DEF ReadyMeansRevoked, SaysReady, lookups, PairOf, GetName
    <3>1. api[k].exists /\ api[k].spec.server \in Servers
      BY MembershipAssumption DEF SaysReady, Reports, MembershipInv, LoopInv, ObjectsSpecified
    <3>2. api[k].spec.server = server /\ PairOf(api[k].spec) = frame.pair
      BY <2>2, <3>1, ResourceEffects DEF MembershipInv, ReadyRevokedInv, ReadyMeansRevoked
    <3>3. Claims(cur, server, frame.pair) /\ Claims(k, server, frame.pair)
      BY <1>1, <2>2, <3>1, <3>2, GrantAnswers DEF Grant, Claims
    <3>4. frame.pair \in Pair
      BY <2>2, FrameTypes DEF Grant, TypeOK
    <3>5. k = cur
      BY <1>1, <3>3, <3>4 DEF PairsApart
    <3>6. obj.spec = api[k].spec
      BY <1>1, <3>5 DEF MembershipInv, ReadyInv, ReadySettled
    <3>7. QED
      BY <2>2, <3>6 DEF Grant, MembershipInv, FrameFits
  <2>3. QED
    BY <2>1, <2>2
<1>5. QED
  BY <1>3, <1>4 DEF ReadyRevokedInv

LEMMA NextKeepsRevoked ==
  ASSUME TypeOK, MembershipInv, PairsKept, [Next]_vars, PairsApart, PairsApart', ReadyRevokedInv
  PROVE  ReadyRevokedInv'
<1>1. TypeOK' /\ LoopInv'
  BY NextKeeps DEF MembershipInv
<1>2. CASE Disturb \/ Repair \/ UNCHANGED vars
  <2>1. \A s \in Servers : members'[s] \subseteq members[s]
    BY <1>2 DEF Disturb, DropRole, Without, Repair, vars, external, TypeOK
  <2>2. UNCHANGED <<api, worker>>
    BY <1>2, OtherSteps DEF worker
  <2>3. QED
    BY <1>1, <2>1, <2>2, EarnedKept, RevokedKept DEF ReadyRevokedInv
<1>3. QED
  BY <1>1, <1>2, LoopKeepsRevoked, ResourceKeepsRevoked DEF Next

(* An object that says Ready of a withdrawn membership speaks the truth,   *)
(* also after grants whose answer was lost, restarts and secrets that came *)
(* to hold another name, as long as no other object is about its pair.     *)
THEOREM ReadyIsRevoked == SteadySpec /\ []PairsApart => []ReadyMeansRevoked
<1>1. Init => ReadyRevokedInv
  <2> SUFFICES ASSUME Init PROVE ReadyRevokedInv
    OBVIOUS
  <2>1. pc = "idle" /\ \A s \in Servers : members[s] = {}
    BY DEF Init, LoopInit
  <2>2. \A k \in Keys : ~SaysReady(k)
    BY DEF Init, LoopInit, SaysReady, Reports, NoObject
  <2>3. QED
    BY <2>1, <2>2 DEF ReadyRevokedInv, RevocationEarned, ReadyMeansRevoked
<1>2. ASSUME TypeOK, MembershipInv, PairsApart, PairsApart', ReadyRevokedInv,
             [Next /\ PairsKept]_vars
      PROVE  ReadyRevokedInv'
  <2>1. UNCHANGED vars => PairsKept
    BY DEF vars, loopVars, external, lookups, PairsKept, PairOf, GetName, About
  <2>2. QED
    BY <1>2, <2>1, NextKeepsRevoked
<1>3. ReadyRevokedInv => ReadyMeansRevoked
  BY DEF ReadyRevokedInv
<1>4. QED
  BY <1>1, <1>2, <1>3, MembershipInvHolds, PTL DEF SteadySpec
===============================================================================
