------------------------- MODULE MembershipController -------------------------
(***************************************************************************)
(* PostgresRoleMembershipReconciler: the shared loop with the              *)
(* ReconcileResource of PostgresRoleMembership objects.  Nothing in such   *)
(* an object is immutable, and the names of the two roles may come from    *)
(* secrets, so what is revoked need not be what was granted.               *)
(***************************************************************************)
EXTENDS Surroundings, PgMembership

ASSUME MembershipAssumption ==
  Specs \subseteq [server : Servers, role : Names \cup Refs, member : Names \cup Refs,
                   granted : BOOLEAN]

VARIABLES
  members,  \* the memberships on each server
  frame     \* local variables of ReconcileResource

external == <<members, present, lookups>>
vars     == <<loopVars, external, frame>>

Steps == {"begin", "check", "grant", "revoke"}
Frame == [step : {"begin"}, pair : {<<>>}] \cup [step : Steps \ {"begin"}, pair : Pair]
Fresh == [step |-> "begin", pair |-> <<>>]

TypeOK ==
  /\ LoopTypeOK /\ SurroundingsTypeOK
  /\ members \in [Servers -> SUBSET Pair]
  /\ frame \in Frame

Init ==
  /\ LoopInit /\ SurroundingsInit
  /\ members = [s \in Servers |-> {}]
  /\ frame = Fresh

PairOf(s) == <<GetName(s.role), GetName(s.member)>>

server == obj.spec.server
-------------------------------------------------------------------------------
Continue(step, pair) == frame' = [step |-> step, pair |-> pair] /\ UNCHANGED loopVars

(* GetPostgresHandle and the two GetName, all from the cache.              *)
ResolveNames ==
  /\ pc = "resource" /\ frame.step = "begin"
  /\ IF server \in resolvable /\ {obj.spec.role, obj.spec.member} \cap missing = {}
     THEN Continue("check", PairOf(obj.spec))
     ELSE Fail("unresolved") /\ UNCHANGED <<frame, faults>>
  /\ UNCHANGED external

(* Fault: a membership that exists is left alone.                          *)
CheckGrantOnly ==
  LET isMember == IsMemberOf(members[server], frame.pair[1], frame.pair[2])
      wanted   == ~obj.deleting /\ obj.spec.granted
  IN  /\ pc = "resource" /\ frame.step = "check"
      /\ \/ Fault /\ Fail("unreachable") /\ frame' = Fresh
         \/ isMember = wanted /\ Succeed /\ frame' = Fresh /\ UNCHANGED faults
         \/ ~isMember /\ wanted /\ Continue("grant", frame.pair)
         \/ isMember /\ ~wanted /\ Succeed /\ frame' = Fresh /\ UNCHANGED faults
      /\ UNCHANGED external

CheckMembership ==
  LET isMember == IsMemberOf(members[server], frame.pair[1], frame.pair[2])
      wanted   == ~obj.deleting /\ obj.spec.granted
  IN  /\ pc = "resource" /\ frame.step = "check"
      /\ \/ Fault /\ Fail("unreachable") /\ frame' = Fresh
         \/ isMember = wanted /\ Succeed /\ frame' = Fresh /\ UNCHANGED faults
         \/ ~isMember /\ wanted /\ Continue("grant", frame.pair)
         \/ isMember /\ ~wanted /\ Continue("revoke", frame.pair)
      /\ UNCHANGED external

(* handler.Exec, the last call of ReconcileResource: the server accepts    *)
(* the statement, refuses it, or the connection breaks, before or after    *)
(* the statement took effect.                                              *)
Exec(accepted, new) ==
  LET Store == members' = [members EXCEPT ![server] = new]
  IN  /\ \/ accepted /\ Store /\ Succeed /\ UNCHANGED faults
         \/ ~accepted /\ UNCHANGED members /\ Fail("refused") /\ UNCHANGED faults
         \/ UNCHANGED members /\ Fault /\ Fail("unreachable")
         \/ accepted /\ Store /\ Fault /\ Fail("unreachable")
      /\ frame' = Fresh
      /\ UNCHANGED <<present, lookups>>

Grant ==
  LET r == frame.pair[1]  m == frame.pair[2]
  IN  /\ pc = "resource" /\ frame.step = "grant"
      /\ Exec(GrantAccepted(members[server], present[server], r, m),
              GrantRole(members[server], r, m))

Revoke ==
  LET r == frame.pair[1]  m == frame.pair[2]
  IN  /\ pc = "resource" /\ frame.step = "revoke"
      /\ Exec(RevokeAccepted(present[server], r, m), RevokeRole(members[server], r, m))

ReconcileResource == ResolveNames \/ CheckMembership \/ Grant \/ Revoke
-------------------------------------------------------------------------------
(* What others do: with a role go its memberships.                         *)
DropRole(s, n) ==
  /\ n \in present[s]
  /\ present' = [present EXCEPT ![s] = @ \ {n}]
  /\ members' = [members EXCEPT ![s] = Without(@, n)]
  /\ UNCHANGED lookups

Disturb ==
  /\ \/ \E s \in Servers, n \in Names : DropRole(s, n)
     \/ LoseLookup /\ UNCHANGED <<members, present>>
  /\ Fault
  /\ UNCHANGED <<api, watch, cache, queue, worker, edits, frame>>

Repair ==
  /\ MakeRole \/ (RestoreLookup /\ UNCHANGED present)
  /\ UNCHANGED <<loopVars, members, frame>>

Next ==
  \/ (LoopWorker \/ Environment) /\ UNCHANGED <<external, frame>>
  \/ ReconcileResource
  \/ Restart /\ frame' = Fresh /\ UNCHANGED external
  \/ Disturb
  \/ Repair

Spec == Init /\ [][Next]_vars

(* Users who change the pair an object stands for, in its spec or in the   *)
(* secrets, only while it is not granted and no reconcile is about it; in  *)
(* the spec only when no version still on its way to the operator asks for *)
(* the old pair.                                                           *)
About(s) == <<s.server, s.role, s.member>>
PairsKept ==
  \A k \in Keys : api[k].exists /\ api'[k].exists =>
    LET s == api[k].spec
    IN  \/ About(api'[k].spec) = About(s) /\ PairOf(api[k].spec)' = PairOf(s)
        \/ /\ frame.step = "begin" /\ PairOf(s) \notin members[s.server]
           /\ About(api'[k].spec) = About(s)
              \/ \A o \in Seen(k) : LiveGuarded(o) => ~o.spec.granted

SteadySpec == Init /\ [][Next /\ PairsKept]_vars
-------------------------------------------------------------------------------
Claims(k, s, p) == api[k].exists /\ api[k].spec.server = s /\ PairOf(api[k].spec) = p

(* A membership exists only as long as some object for that pair carries   *)
(* the finalizer that will have it revoked.                                *)
NoOrphanMembership ==
  \A s \in Servers : \A p \in members[s] : \E k \in Keys : Claims(k, s, p) /\ Guarded(api[k])

(* What makes NoOrphanMembership inductive.  What ReconcileResource found  *)
(* out still fits its object, as long as that has not moved on.            *)
FrameFits ==
  frame.step # "begin" =>
    /\ pc = "resource"
    /\ frame.step = "grant" => ~obj.deleting /\ obj.spec.granted
    /\ frame.step = "revoke" => obj.deleting \/ ~obj.spec.granted
    /\ Guarded(api[cur]) /\ About(obj.spec) = About(api[cur].spec)
         => frame.pair = PairOf(obj.spec)

(* Whoever acts on a version that grants acts for the current one.         *)
GrantsAgree ==
  \A k \in Keys : \A o \in Seen(k), p \in Seen(k) \cup {api[k]} :
    LiveGuarded(o) /\ o.spec.granted /\ p.exists /\ o.rv <= p.rv
      => About(p.spec) = About(o.spec)

(* Each membership has an object that will have it revoked: one that all   *)
(* versions in sight agree about and that is not just being let go.        *)
Answers(k) ==
  /\ Guarded(api[k]) /\ ~(pc = "removeFinalizer" /\ cur = k)
  /\ \A o \in Seen(k) : o.exists => About(o.spec) = About(api[k].spec)
AllAnswered ==
  \A s \in Servers : \A p \in members[s] : \E k \in Keys : Claims(k, s, p) /\ Answers(k)

MembershipInv == LoopInv /\ ReadyInv /\ FrameFits /\ GrantsAgree /\ AllAnswered

(* No two objects are about one pair, nor is the worker about the pair of  *)
(* another object than its own.  The code does not see to it.              *)
PairsApart ==
  /\ \A s \in Servers, p \in Pair, j, k \in Keys : Claims(j, s, p) /\ Claims(k, s, p) => j = k
  /\ frame.step # "begin" => \A k \in Keys \ {cur} : ~Claims(k, server, frame.pair)

(* A membership is revoked only for an object on its way out or one whose  *)
(* owner has withdrawn it: a copy of an earlier object of that name does   *)
(* not take from a later one what it asks for.                             *)
NeverRevokesLive ==
  [][\A s \in Servers : \A p \in members[s] \ members'[s] :
       present' = present =>
         \A k \in Keys : Claims(k, s, p) =>
           api[k].deleting \/ \E o \in Seen(k) : o.exists /\ ~o.deleting /\ ~o.spec.granted]_vars

(* An object that says Ready of a withdrawn membership speaks the truth,   *)
(* however many grants were under way or unanswered when it was withdrawn. *)
ReadyMeansRevoked ==
  \A k \in Keys :
    SaysReady(k) /\ ~api[k].spec.granted
      => PairOf(api[k].spec) \notin members[api[k].spec.server]

(* The worker is about to write Ready of a withdrawn membership only when  *)
(* the pair it stands for is none.                                         *)
RevocationEarned ==
  LET decided == /\ pc = "setReady" /\ ~obj.deleting /\ ~obj.spec.granted
                 /\ Guarded(api[cur]) /\ About(obj.spec) = About(api[cur].spec)
  IN  decided => PairOf(obj.spec) \notin members[server]

(* Nothing of an object that is gone is left ("Finalizers to ensure clean  *)
(* deletion", README.md:8).  Both names may change under the object, and   *)
(* the pair that is revoked is the last one, not the one granted.          *)
CleanRevocation ==
  (\A k \in Keys : ~api[k].exists) => \A s \in Servers : members[s] = {}
-------------------------------------------------------------------------------
(* As for roles.                                                           *)
Fairness ==
  /\ WF_vars(Conclude /\ UNCHANGED <<external, frame>>) /\ WF_vars(ReconcileResource)
  /\ \A k \in Keys : /\ SF_vars(Get(k) /\ UNCHANGED <<external, frame>>)
                     /\ WF_vars(Deliver(k) /\ UNCHANGED <<external, frame>>)

SteadyFairSpec == SteadySpec /\ Fairness

(* The informer resyncs every ten hours: nothing else wakes the operator   *)
(* when a role is made again or a secret rotates.                          *)
Resyncs == \A k \in Keys : WF_vars(Resync(k) /\ UNCHANGED <<external, frame>>)

(* The pair of k is a member exactly if k grants it.                       *)
Fulfilled(k) == LET s == api[k].spec
                IN  PairOf(s) \in members[s.server] <=> s.granted
Grantable(k) == LET s == api[k].spec
                IN  ~Cyclic(members[s.server], GetName(s.role), GetName(s.member))

(* When the surroundings stay healthy, an object that stays is brought to  *)
(* what it asks for and kept there, also after a role was dropped and made *)
(* again or a secret rotated, be it only with the next resync.             *)
Converges ==
  <>[]Calm /\ Resyncs => \A k \in Keys : <>[](Live(k) /\ Grantable(k) => Fulfilled(k))

(* An object marked for deletion loses the operator's finalizer.           *)
Deprovisions ==
  <>[]Calm => \A k \in Keys : (api[k].deleting ~> ~Guarded(api[k]))
===============================================================================
