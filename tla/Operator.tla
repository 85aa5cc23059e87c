------------------------------- MODULE Operator -------------------------------
(***************************************************************************)
(* The whole operator on one PostgreSQL server: three controllers side by  *)
(* side, each with a worker of its own, and every one acting on what the   *)
(* others make and need.  A role cannot be dropped while it owns or may    *)
(* use a database, it has to be there before a database or a membership    *)
(* can refer to it, and it takes its memberships with it.                  *)
(*                                                                         *)
(* RoleController and its siblings look at one controller closely; here an *)
(* object and what it names are one thing, the informer is always up to    *)
(* date, statuses are left out, and a step of a worker is one statement,   *)
(* with the query before it where no other controller can make its answer  *)
(* stale.                                                                  *)
(***************************************************************************)
EXTENDS PgServer, Naturals

CONSTANTS
  RoleObjects,        \* the roles that have an object: some of Names
  DatabaseObjects,    \* the databases that have an object
  MembershipObjects,  \* the pairs <<role, member>> that have an object
  Wish,               \* Wish[x]: what a user may write into the object of x
  NoWish, Publics, NoOwner,
  MaxEvents           \* bound on user operations and crashes

PD == INSTANCE PgDatabase
PM == INSTANCE PgMembership

Things == RoleObjects \cup DatabaseObjects \cup MembershipObjects
Kinds  == {RoleObjects, DatabaseObjects, MembershipObjects}
Wishes == {NoWish} \cup UNION {Wish[x] : x \in Things}

ASSUME OperatorAssumption ==
  /\ RoleObjects \cap DatabaseObjects = {} /\ RoleObjects \cap MembershipObjects = {}
  /\ DatabaseObjects \cap MembershipObjects = {}
  /\ RoleObjects \subseteq Names /\ MembershipObjects \subseteq PM!Pair
  /\ \A d \in DatabaseObjects : \A w \in Wish[d] :
       /\ w.owner \in Names
       /\ \A e \in w.entries : e.role \in Names /\ e.granted \subseteq PD!Privileges
       /\ \A e, f \in w.entries : PD!Grantee(e.role) = PD!Grantee(f.role) => e = f
  /\ \A p \in MembershipObjects : Wish[p] \subseteq [granted : BOOLEAN]

VARIABLES
  object,     \* the object of each thing
  queue,      \* things waiting for their controller
  worker,     \* the worker of each kind
  present,    \* the roles of the server
  databases,  \* its databases
  members,    \* its memberships
  events

server == <<present, databases, members>>
vars   == <<object, queue, worker, server, events>>

ListEntries == UNION {w.entries : w \in UNION {Wish[d] : d \in DatabaseObjects}}

Object == [claim : {"none", "open", "closing"}, guarded : BOOLEAN, wish : Wishes]
Absent == [claim |-> "none", guarded |-> FALSE, wish |-> NoWish]

(* left: the entries of the list still to be gone through.                 *)
Worker == [step : {"idle", "begin", "entries", "write", "release"},
           of : Things \cup {NoWish}, saw : Object, left : SUBSET ListEntries]
Idle   == [step |-> "idle", of |-> NoWish, saw |-> Absent, left |-> {}]

TypeOK ==
  /\ object \in [Things -> Object]
  /\ queue \subseteq Things
  /\ worker \in [Kinds -> Worker]
  /\ \A K \in Kinds : worker[K].step # "idle" => worker[K].of \in K /\ worker[K].saw.guarded
  /\ present \subseteq Names
  /\ databases \in [DatabaseObjects -> PD!Database]
  /\ members \subseteq PM!Pair

Applied(w) == [claim |-> "open", guarded |-> FALSE, wish |-> w]

(* The operator is installed where some objects may be waiting for it.     *)
Init ==
  /\ \E wish \in [Things -> Wishes] :
       /\ \A x \in Things : wish[x] \in Wish[x] \cup {NoWish}
       /\ object = [x \in Things |-> IF wish[x] = NoWish THEN Absent ELSE Applied(wish[x])]
  /\ queue = {x \in Things : object[x] # Absent}
  /\ worker = [K \in Kinds |-> Idle]
  /\ present = {} /\ members = {}
  /\ databases = [d \in DatabaseObjects |-> PD!NoDatabase]
  /\ events = 0
-------------------------------------------------------------------------------
(* Fault: reconciles objects that do not carry the finalizer yet.          *)
GetUnguarded(x) ==
  \E K \in Kinds :
    /\ x \in K \cap queue /\ worker[K] = Idle
    /\ queue' = queue \ {x}
    /\ worker' = IF object[x] = Absent THEN worker
                 ELSE [worker EXCEPT ![K] = [step |-> "begin", of |-> x,
                                             saw |-> object[x], left |-> {}]]
    /\ UNCHANGED <<object, server, events>>

(* The worker of a kind takes up an object, if it still exists; the        *)
(* finalizer comes first, and the object again after that.                 *)
Get(x) ==
  \E K \in Kinds :
    /\ x \in K \cap queue /\ worker[K] = Idle
    /\ IF object[x].claim = "open" /\ ~object[x].guarded
       THEN object' = [object EXCEPT ![x].guarded = TRUE] /\ UNCHANGED <<queue, worker>>
       ELSE /\ queue' = queue \ {x}
            /\ worker' = IF object[x] = Absent THEN worker
                         ELSE [worker EXCEPT ![K] = [step |-> "begin", of |-> x,
                                                     saw |-> object[x], left |-> {}]]
            /\ UNCHANGED object
    /\ UNCHANGED <<server, events>>

(* The worker is at x, in that step.                                       *)
At(K, x, step, claim) ==
  worker[K].of = x /\ worker[K].step = step /\ worker[K].saw.claim = claim

Goto(K, step, left) ==
  /\ worker' = [worker EXCEPT ![K].step = step, ![K].left = left]
  /\ UNCHANGED <<object, queue>>

(* Fault: an error is logged, not returned.                                *)
FailSilently(K) == worker' = [worker EXCEPT ![K] = Idle] /\ UNCHANGED <<object, queue>>

Fail(K) ==
  /\ worker' = [worker EXCEPT ![K] = Idle]
  /\ queue' = queue \cup {worker[K].of}
  /\ UNCHANGED object

(* Done; the finalizer of an object that is being deleted is next.         *)
Succeed(K) ==
  /\ worker' = [worker EXCEPT ![K] = IF worker[K].saw.claim = "closing"
                                     THEN [@ EXCEPT !.step = "release"] ELSE Idle]
  /\ UNCHANGED <<object, queue>>

Release(x) ==
  /\ \E K \in Kinds : /\ worker[K].of = x /\ worker[K].step = "release"
                      /\ worker' = [worker EXCEPT ![K] = Idle]
  /\ object' = [object EXCEPT ![x] = Absent]
  /\ UNCHANGED <<queue, server, events>>

(* A role that owns a database or has privileges on one is not dropped.    *)
Needed(n) == \E d \in DatabaseObjects : databases[d].owner = n \/ databases[d].acl[n] # {}

WriteRole(r) ==
  /\ At(RoleObjects, r, "begin", "open")
  /\ present' = present \cup {r}
  /\ Succeed(RoleObjects)
  /\ UNCHANGED <<databases, members, events>>

(* Fault: the error of a refused DROP ROLE is not looked at.               *)
RemoveRoleUnchecked(r) ==
  /\ At(RoleObjects, r, "begin", "closing")
  /\ IF Needed(r)
     THEN UNCHANGED <<present, members>>
     ELSE present' = present \ {r} /\ members' = PM!Without(members, r)
  /\ Succeed(RoleObjects)
  /\ UNCHANGED <<databases, events>>

RemoveRole(r) ==
  /\ At(RoleObjects, r, "begin", "closing")
  /\ IF Needed(r)
     THEN Fail(RoleObjects) /\ UNCHANGED <<present, members>>
     ELSE /\ present' = present \ {r} /\ members' = PM!Without(members, r)
          /\ Succeed(RoleObjects)
  /\ UNCHANGED <<databases, events>>

(* A statement on the database d that the server may refuse.               *)
Exec(d, accepted, new, Done) ==
  /\ IF accepted THEN databases' = [databases EXCEPT ![d] = new] /\ Done
                 ELSE UNCHANGED databases /\ Fail(DatabaseObjects)
  /\ UNCHANGED <<present, members, events>>

(* Fault: a database that exists is taken to be finished.                  *)
WriteDatabaseOnce(d) ==
  LET w == worker[DatabaseObjects].saw.wish
  IN  /\ At(DatabaseObjects, d, "begin", "open")
      /\ IF databases[d].exists
         THEN Succeed(DatabaseObjects) /\ UNCHANGED <<server, events>>
         ELSE Exec(d, PD!CreateDatabaseAccepted(databases[d], present, w.owner),
                   PD!CreateDatabase(w.owner),
                   Goto(DatabaseObjects, "entries", w.entries))

WriteDatabase(d) ==
  LET w == worker[DatabaseObjects].saw.wish
      Entries == Goto(DatabaseObjects, "entries", w.entries)
  IN  /\ At(DatabaseObjects, d, "begin", "open")
      /\ IF databases[d].exists
         THEN Exec(d, PD!ChownDatabaseAccepted(databases[d], present, w.owner),
                   PD!ChownDatabase(databases[d], w.owner), Entries)
         ELSE Exec(d, PD!CreateDatabaseAccepted(databases[d], present, w.owner),
                   PD!CreateDatabase(w.owner), Entries)

(* The GRANT and the REVOKE of one entry; no other controller can come in  *)
(* between the two.  The entries are about different grantees, so the      *)
(* order they are taken in does not matter.                                *)
WriteEntry(d) ==
  LET left == worker[DatabaseObjects].left
  IN  /\ At(DatabaseObjects, d, "entries", "open")
      /\ \E e \in left :
           LET g == PD!Grantee(e.role)
           IN  Exec(d, PD!GrantAccepted(databases[d], present, g),
                    [databases[d] EXCEPT !.acl[g] = e.granted],
                    Goto(DatabaseObjects, "entries", left \ {e}))

FinishDatabase(d) ==
  /\ At(DatabaseObjects, d, "entries", "open") /\ worker[DatabaseObjects].left = {}
  /\ Succeed(DatabaseObjects)
  /\ UNCHANGED <<server, events>>

DropDatabase(d) ==
  /\ At(DatabaseObjects, d, "begin", "closing")
  /\ Exec(d, TRUE, PD!NoDatabase, Succeed(DatabaseObjects))

(* The query whether p is a member, and the statement after it: the role   *)
(* controller may drop one of the two roles in between.                    *)
Wanted == worker[MembershipObjects].saw.claim = "open" /\ worker[MembershipObjects].saw.wish.granted
CheckMembership(p) ==
  /\ worker[MembershipObjects].of = p /\ worker[MembershipObjects].step = "begin"
  /\ IF PM!IsMemberOf(members, p[1], p[2]) = Wanted
     THEN Succeed(MembershipObjects)
     ELSE Goto(MembershipObjects, "write", {})
  /\ UNCHANGED <<server, events>>

WriteMembership(p) ==
  LET accepted == IF Wanted THEN PM!GrantAccepted(members, present, p[1], p[2])
                            ELSE PM!RevokeAccepted(present, p[1], p[2])
      new == IF Wanted THEN PM!GrantRole(members, p[1], p[2])
                       ELSE PM!RevokeRole(members, p[1], p[2])
  IN  /\ worker[MembershipObjects].of = p /\ worker[MembershipObjects].step = "write"
      /\ IF accepted THEN members' = new /\ Succeed(MembershipObjects)
                     ELSE UNCHANGED members /\ Fail(MembershipObjects)
      /\ UNCHANGED <<present, databases, events>>

Work(K) ==
  \E x \in K : \/ WriteRole(x) \/ RemoveRole(x)
               \/ WriteDatabase(x) \/ WriteEntry(x) \/ FinishDatabase(x) \/ DropDatabase(x)
               \/ CheckMembership(x) \/ WriteMembership(x) \/ Release(x)
-------------------------------------------------------------------------------
(* The users, in any order; every version reaches the queue.               *)
Edit(x, new) ==
  /\ events < MaxEvents /\ events' = events + 1
  /\ object' = [object EXCEPT ![x] = new] /\ queue' = queue \cup {x}
  /\ UNCHANGED <<worker, server>>

Apply(x, w) ==
  /\ object[x].wish # w
  /\ Edit(x, IF object[x] = Absent THEN Applied(w) ELSE [object[x] EXCEPT !.wish = w])

Delete(x) ==
  /\ object[x].claim = "open"
  /\ Edit(x, IF object[x].guarded THEN [object[x] EXCEPT !.claim = "closing"] ELSE Absent)

Stays(x) == object[x].claim = "open"

(* What the object of x asks for is there.                                 *)
Served(x) ==
  LET w == object[x].wish
  IN  CASE x \in RoleObjects       -> x \in present
        [] x \in MembershipObjects -> x \in members <=> w.granted
        [] x \in DatabaseObjects   ->
             /\ databases[x].exists /\ databases[x].owner = w.owner
             /\ \A e \in w.entries : databases[x].acl[PD!Grantee(e.role)] = e.granted

(* The ten hour resync, as far as it finds something to do: to reconcile   *)
(* what is in order changes nothing (DatabaseController DisturbsNothing).  *)
Resync(x) ==
  /\ Stays(x) /\ ~Served(x) /\ x \notin queue
  /\ queue' = queue \cup {x}
  /\ UNCHANGED <<object, worker, server, events>>

(* The one process dies between any two statements, and comes back.        *)
Restart ==
  /\ events < MaxEvents /\ events' = events + 1
  /\ worker' = [K \in Kinds |-> Idle]
  /\ queue' = {x \in Things : object[x] # Absent}
  /\ UNCHANGED <<object, server>>

Next ==
  \/ \E K \in Kinds : Work(K)
  \/ \E x \in Things : Get(x) \/ Delete(x) \/ Resync(x) \/ \E w \in Wish[x] : Apply(x, w)
  \/ Restart

(* As in the modules of the controllers.                                   *)
Fairness == /\ \A K \in Kinds : WF_vars(Work(K))
            /\ \A x \in Things : SF_vars(Get(x))

Spec == Init /\ [][Next]_vars /\ Fairness
-------------------------------------------------------------------------------
(* The roles an object refers to.                                          *)
Refers(x) ==
  CASE x \in RoleObjects       -> {}
    [] x \in MembershipObjects -> {x[1], x[2]}
    [] x \in DatabaseObjects   -> {object[x].wish.owner}
                                    \cup {e.role : e \in object[x].wish.entries}

NothingLeft == /\ \A x \in Things : object[x] = Absent
               /\ present = {} /\ members = {}
               /\ \A d \in DatabaseObjects : ~databases[d].exists

(* When the users delete everything, in any order, everything goes: a role *)
(* that is still needed waits for what needs it, which does not wait for   *)
(* the role (README.md:8 "Finalizers to ensure clean deletion").           *)
TearsDown == <>[](\A x \in Things : ~Stays(x)) => <>[]NothingLeft

(* In whatever order the users create objects, and delete and create again *)
(* the ones others refer to, an object that stays together with the roles  *)
(* it refers to gets what it asks for: controllers that wait for one       *)
(* another do not do so for ever, and a membership that went with its role *)
(* is back with a resync.                                                  *)
Resyncs == \A x \in Things : WF_vars(Resync(x))
Serves ==
  Resyncs => \A x \in Things :
    <>[](Stays(x) /\ \A n \in Refers(x) \cap RoleObjects : Stays(n)) => <>[](Stays(x) /\ Served(x))

(* Roles and databases keep to ManagedResource whatever the other          *)
(* controllers do to them (memberships do not: they go with their roles).  *)
Lifecycle == INSTANCE ManagedResource WITH
  Keys    <- RoleObjects \cup DatabaseObjects,
  claim   <- [x \in RoleObjects \cup DatabaseObjects |-> object[x].claim],
  guarded <- {x \in RoleObjects \cup DatabaseObjects : object[x].guarded},
  held    <- (present \cap RoleObjects) \cup {d \in DatabaseObjects : databases[d].exists}

(* What makes it so: while a worker is at an object nobody else takes the  *)
(* object's finalizer or what it names away, or gives it back.             *)
ObjectsFit ==
  \A x \in Things : IF object[x].claim = "none" THEN object[x] = Absent
                    ELSE /\ object[x].wish \in Wish[x]
                         /\ object[x].claim = "closing" => object[x].guarded
WorkersFit ==
  \A K \in Kinds :
    LET w == worker[K]
    IN  w.step # "idle" =>
          /\ object[w.of].guarded /\ w.saw.wish \in Wish[w.of]
          /\ w.saw.claim = "closing" => object[w.of].claim = "closing"
          /\ w.step = "release" => /\ w.saw.claim = "closing"
                                   /\ w.of \in RoleObjects => w.of \notin present
                                   /\ w.of \in DatabaseObjects => ~databases[w.of].exists
OperatorInv == ObjectsFit /\ WorkersFit

StepsOfManagedResource == [][Lifecycle!Next]_(Lifecycle!vars)

(* Nothing keeps the object of a role that is being deleted once no object *)
(* refers to the role any more (README.md:8 "Finalizers to ensure clean    *)
(* deletion").  The code does not do so: an entry that left the list of a  *)
(* database left its privileges there, and DROP ROLE is refused for ever.  *)
RolesGo ==
  \A r \in RoleObjects :
    ~<>[](object[r].claim = "closing"
          /\ \A x \in Things : object[x] # Absent => r \notin Refers(x))
===============================================================================
