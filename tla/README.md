# pg-resource-operator, specified

A TLA+ model of the operator in this repository: what it keeps in Kubernetes and on
PostgreSQL servers, how its reconcilers move between the two, what they do to each other,
and what may go wrong on the way. TLC checks the model on small instances; TLAPS proves the
safety results for every size.

## The system

The operator is one process at a time; with `--leader-elect` others stand by. For each of three kinds of custom resource it runs a
controller with one worker. A controller keeps no state of its own: everything it knows
it reads from an informer cache, and everything it does is a remote call, either to the
Kubernetes API server or to a PostgreSQL server.

| Component | Source | State | Operations | Hard behaviour |
|---|---|---|---|---|
| Reconcile loop (one per kind, the same code three times) | `internal/controller/*_controller.go`, `Reconcile` | the object in memory for the length of one call | read from the cache; add the finalizer; write a status; remove the finalizer; return, with or without requeue | the cache is stale; a request conflicts, or its answer is lost; the process crashes between two calls; objects are deleted and created again under one name |
| Status conditions | `internal/helpers/status.go`, `set*` methods | phase and three conditions per object | set one, clear the others | written only when a generation or message changed |
| Role controller | `role_controller.go`, `ReconcileResource`, `GetPassword` | roles of a server | CREATE, ALTER, DROP ROLE | check-then-act on existence; drop refused while something depends on the role; secrets |
| Membership controller | `postgresrolemembership_controller.go` | `pg_auth_members` | GRANT, REVOKE | both names are mutable and may come from secrets |
| Database controller | `database_controller.go`, `pg/database.go`, `pg/grant.go` | databases, owners, privileges | CREATE, ALTER OWNER, DROP DATABASE; GRANT and REVOKE per entry | many statements, no transaction; entries that vanish from the spec |
| Connection lookup | `api/v1/postgres_reference.go` | none | Postgres object and secret to a URI | two reads from two caches that change; three namespaces |
| Role name lookup | `api/v1/role_source.go` | none | literal or secret key to a name | secret gone, empty or changed |
| Manager | `cmd/main.go` | the informer caches | start, stop, lead, stand by | a restart or another leader with whatever was half done; a statement of the last leader that arrives when the next one is at work |
| Identifier validation | `pg/helpers.go` | none | | not called by anything |

They interact through shared state only. The reconcilers read Postgres objects and
secrets that others write. The three controllers work on one PostgreSQL server, where a
role cannot be dropped while it owns a database or holds a privilege on one, and where
dropping it removes its memberships.

What makes each component correct:

- *Loop*: the server-side thing exists only under the protection of the finalizer; it is
  taken away only for an object that is being deleted; the finalizer goes only after it;
  a failure is always retried; phase and conditions tell one story and a true one.
- *Role controller*: the role ends up as the spec wants it, and leaves with the object.
- *Membership*: the pair granted is the pair revoked.
- *Database*: owner and privileges end up as listed, with each entry applied whole.
- *Lookups*: what is found is what object and secret stood for together, whoever asks.
- *All controllers together*: whatever the order of creation and deletion, an object that
  stays is served and one that is deleted goes.
- *A new leader*: it takes up what the last one left, wherever that stopped, and whatever of it
  still arrives.

## Modules

| Module | Models |
|---|---|
| `Conditions` | phase and conditions, `SetConditionStatus`, the `set*` methods |
| `ReconcileLoop` | `Reconcile`, cut at its remote calls, with API server, watch, cache, queue, users, crashes; `LoopInv`, what is always true of the versions the operator may act on |
| `PgServer` | the servers and role names the statement modules share |
| `PgRole` | roles and the statements of `pg/role.go` |
| `RoleController` | `ReconcileLoop` plus the role's `ReconcileResource`; properties, fairness |
| `Failover` | `RoleController` under leader election: another manager takes over, statements of former leaders arrive late |
| `Surroundings` | what memberships and databases find around them: roles, Postgres objects, secrets that hold names; `GetName` |
| `PgMembership` | role memberships and the statements of `pg/rolemembership.go` |
| `MembershipController` | `ReconcileLoop` and `Surroundings` plus GRANT and REVOKE of a role |
| `PgDatabase` | databases, owners, privileges; the statements of `pg/database.go` and `pg/grant.go` |
| `DatabaseController` | `ReconcileLoop` and `Surroundings` plus create, chown and the privilege loop |
| `ManagedResource` | abstract: what a reconciler promises about the thing it manages |
| `Operator` | the three controllers on one server, with `PgDatabase` and `PgMembership` |
| `Connection` | `GetConnectionURI`: two reads of the cache, and the URI made of them |
| `MCRole`, `MCFailover`, `MCMembership`, `MCDatabase`, `MCOperator`, `MCConnection` | constants for TLC |
| `ReconcileLoop_proofs` | lemmas about the loop that any reconciler can use |
| `RoleController_proofs`, `MembershipController_proofs`, `DatabaseController_proofs`, `Failover_proofs`, `Operator_proofs`, `Connection_proofs` | theorems about the module of that name |

### How the state and the steps correspond

`api[k]` is the stored object. `rv` is its resourceVersion, counted per key and never
reset, also not when the object is created again. `gen` is `metadata.generation`: it
rises with a change of spec and with the deletion mark, as on a custom resource with a
status subresource. `watch[k]` holds the versions on their way to the informer; they
arrive in order and `cache[k]` is the last one that did. `queue` is the work queue: a set,
because the queue merges duplicates; the delay of a rate-limited retry is left out, so a
retry may come at any time. Each delivery enqueues its key, status updates by the operator
included. `pc`, `cur` and `obj` are the worker. A step of the worker ends with one remote
call, and what `Reconcile` computes after it up to the next call belongs to it.

| Action | Code |
|---|---|
| `Get` | `r.Get`, the two tests at `role_controller.go:73-74`, and the in-memory part of `setProgressing` |
| `AddFinalizer`, `SetProgressing`, `SetReady`, `SetDegraded` | the `Update` / `Status().Update` with its optimistic lock, and the return after it |
| `RemoveFinalizer` | the merge patch of line 109: no lock, the whole list |
| `CheckRole` | `GetPostgresHandle` and `RoleExists` |
| `GetPassword` | `GetPassword` |
| `WriteRole`, `RemoveRole` | `CreateRole` or `AlterRole`; `DropRole` |
| `ResolveNames`, `CheckMembership` | membership: handle and both `GetName` (cache only); `IsMemberOf` and the decision after it |
| `Grant`, `Revoke` | `GrantRole`, `RevokeRole` |
| `CheckDatabase` | `GetPostgresHandle` and `DatabaseExists` |
| `CreateDatabaseNow`, `ChownDatabaseNow`, `DropDatabase` | the statement of that name |
| `ReadEntry`, `GrantNow`, `RevokeNow` | one turn of the privilege loop: `GetName`, GRANT, REVOKE, an empty one skipped |
| `Succeed`, `Fail` | what `Reconcile` does with the result of `ReconcileResource`; part of the step that ends it |

A request to the API server is accepted, answered with an error, lost, or accepted with
its answer lost (`Request`). A statement has the same outcomes (`Exec`). Either way the
error leads where the code leads it. `Restart` is a crash at any point: memory and queue
are gone, the cache is listed afresh.

Around the operator: users create, edit and delete objects (`MaxEdits` in all); other
controllers put finalizers on objects they create and take them off; roles acquire and
lose dependent objects (`pinned`); the Postgres object or its secret comes and goes
(`resolvable`); the password secret changes or vanishes (`secrets`). Lost requests, crashes
and such disturbances together are bounded by `MaxFaults`.

`frame` holds the local variables of `ReconcileResource`: what was found or read before
the next remote call. Memberships and databases add: roles that others drop and make again
(`present`; PostgreSQL refuses to drop one that owns or may use a database, and takes its
memberships along otherwise), secret keys that vanish (`missing`) or change (`secrets`).
`late` holds CREATE DATABASE statements that go on after their connection broke, at most
`MaxLate`; until one ends, the next for that name waits, as it does on the server. Owners
and privileges follow PostgreSQL: a new database gives its owner everything and PUBLIC
CONNECT and TEMPORARY; a change of owner passes the old owner's privileges on.

Error texts matter because a status update compares messages; they are reduced to three
classes (`Errors`): lookup failed, server unreachable, statement refused. An attribute is
in `on` (`CREATEDB`) or `off` (`NOCREATEDB`); an attribute in both stands for every list
the server refuses, one with a repeated entry included.

*Failover.* The variables of `RoleController` are those of the manager that leads. One that stands
by has none: `main.go:121-139` sets nothing but `LeaderElection`, and the reconcilers are built
with `For` alone, so controller-runtime starts a controller and with it its informer only when
the lease is won, and the informer lists afresh. `TakeOver` is therefore a restart, with one
difference. A process that dies takes the statement it was about to send with it, or the server
has executed it. A leader that is suspended past its lease, or cut off from the network with a
statement in its send buffer, delivers it when it wakes or the network heals: after the next
leader has started (the lease is free 15 s after it was last renewed, whatever the holder does).
`InHand` is that statement, `stragglers` the ones on their way, `Arrive` what one does when it
gets there. Requests of a former leader to the API server can be late, too: `Update` and
`Status().Update` are refused for their resourceVersion then, and a late patch does what
`role_patch_recreated` shows; they are left out.

*The operator as a whole.* `Operator` asks what the modules of single controllers cannot: how
controllers get on that wait for one another by failing. An object and what it names are one
thing there, a controller step is one statement, together with the query before it except
where another controller can make its answer stale: between a membership's query and its
GRANT or REVOKE a role may be dropped. The
informer is up to date and statuses are left out; `RoleController` and its siblings look at
those. Each kind has its own worker, so steps of the three interleave freely. The
resync is taken only where it finds something to do; that it changes nothing otherwise is
`DisturbsNothing`.

*Connection.* `postgres` and `secret` are the two objects of each namespace, `pCache` and
`sCache` what the informers hold, `lookup` the local variables of one `GetConnectionURI`.
`described` and `torn` are history: what the cached objects stood for (`Meaning`) since
the lookup began, and whether the Postgres object it had read was replaced and then the secret
which that one names. The key names (`hostKey` and so on)
are taken at their defaults; `defaultDatabase` and `sslMode` only ever come from the spec and
are one value (`options`). An object that refers is asked for from any namespace, with and
without a namespace in the reference.

Operators whose comment starts with "Fault:" are not part of the model. Each is a
plausible bug in the definition it precedes, and the property named for it in
`PROJECT.json` fails when it takes that definition's place.

## Runs

| Run | Instance | Shows |
|---|---|---|
| `role_safety` | 1 object, 3 specs (one the server refuses), a foreign finalizer, 3 edits, 1 fault (0.5 M states) | `NoOrphanRole`, `ReadyIsReal`, `StatusCoherent`, `NeverDropsLive`, the inductive invariant `RoleInv`, and that the controller implements `ManagedResource` |
| `role_liveness` | 1 object, 2 passwords, 3 edits, 2 faults or changes of leader (0.05 M) | `ConvergesWhoeverLeads`, `Deprovisions`, `PasswordFollows`: a rotated password arrives; `OnlyLateCreatesOrphan` |
| `membership` | 1 object, given and withdrawn, name from a secret, a foreign finalizer, 3 edits, 1 fault (0.5 M) | `NoOrphanMembership`, `ReadyMeansRevoked`, `NeverRevokesLive`, `Converges`, `Deprovisions` |
| `database_safety` | 1 object, 2 specs (other owner, other list, PUBLIC), 3 edits, 1 fault (0.4 M) | `ReadyIsReal`, `DisturbsNothing`, `NoOrphanDatabase`, and that the controller implements `ManagedResource` |
| `database_liveness` | the same, 2 edits, 1 fault, 1 late CREATE, secrets rotate (0.1 M) | `Converges`, `Deprovisions` |
| `operator` | 2 roles, a database that one owns and the other may use, a membership, all there at first, 4 events: applied, deleted, restarted (0.1 M) | `TearsDown`: deleted in any order, everything goes. `Serves`: what stays is served. `StepsOfManagedResource`: each kind keeps its promise among the others |
| `connection` | 2 namespaces, 3 specs, 3 secrets, 2 edits (0.3 M) | `LookupSound`, `FollowsObjects` |

`membership` runs under `SteadyFairSpec` and `database_safety` under `SteadySpec`: users change
the pair of a membership, in its spec or in the secrets it names, only while it is not granted
and no reconcile is about it, and in the spec only when no version on its way to the operator
still asks for the old pair (`PairsKept`); for databases they leave the names in secrets alone
altogether. What happens otherwise is in the next section, and `database_liveness` lets secrets
rotate. `database_safety` has `MaxLate = 0` (the theorem `ReadyIsNeverALie` and `database_liveness` do
not): with a late CREATE, `NoOrphanDatabase` fails. The connection breaks, the object is deleted, the database is not
visible yet, so the finalizer goes; then the statement commits.

Why the bounds are enough: the worker handles one key at a time and keys meet only where
they name one role, which the properties exclude (see below), so one key shows the races of
that key with its users. Three edits are create, delete, create: two lives of one
name, the least for a stale copy of the first to meet the second; with three specs they are
all two-step histories of a spec, with a refused one in any place. Two faults (`role_liveness`) are
a failure and another while it is being made good, or two changes of leader with a statement late
from each; the safety properties are proved for any
number. A list of two entries is the least whose
loop can be left in the middle. In `operator`, four events are all deletions in any order, or
a role deleted and applied again between two others', or three deletions and a crash; a crash on
the way to tearing *everything* down would be a fifth, which `NoOrphanRole` and `Deprovisions`
answer for one controller at a time. In `connection`, two edits change both objects
between the two reads, and the second namespace is the least in which a secret can be
looked for in the wrong place; at first only one of them has a Postgres object, which is a
smaller start, not a smaller space: edits make the other. What needs more of either is left
to the proofs, which have no bounds.

*Fairness.* The worker's steps and `ReconcileResource` are weakly fair: a goroutine with
something to do proceeds, and the calls it makes return. Delivery is weakly fair: the
informer reconnects. `Get(k)` is strongly fair: the queue is first-in first-out, retry
delays are finite, and the worker is never held for ever, so a waiting key gets its turn
although another may be served before it. A CREATE DATABASE ends.
Nothing is assumed of users, faults, repairs or late statements. The resync (every ten hours) is a
premise of `Converges` for memberships and databases, of `PasswordFollows` and of `Serves`,
because nothing else tells the operator of a dropped role or a rotated secret; the role
controller converges without it unless a former leader's statement is late
(`ConvergesWhoeverLeads`).
Convergence and `Deprovisions` are conditional on `<>[]Healthy` (`<>[]Calm`): lookups succeed
and nothing foreign depends on a role any more. `Operator` has no such premise: there, what a role
waits for is the work of another controller. In `Connection` every lookup goes on and both
informers deliver.

`CHECK_DEADLOCK FALSE`: users may stop, and then the operator has nothing left to do.

### Where the code differs from what is written

| Run | What TLC finds |
|---|---|
| `role_stuck_degraded` | `SetConditionStatus` compares generation and message but not whether the condition is currently true. An object that was Ready, failed once and recovered, all in one generation, stays Degraded. |
| `role_patch_recreated` | The worker acts twice on a deleted object (a late status event or a lost answer is enough). If the object was created again in between, the second patch empties the new one's list of finalizers. |
| `membership_rotated` | Deletion resolves the two names anew. When the secret has changed since the grant, it revokes the new pair, and the granted one stays. |
| `operator_stuck_role` | An entry deleted from the list of a database is not revoked. PostgreSQL refuses to drop the role it was about, and the role's object stays in deletion although nothing refers to it. |
| `failover_orphan` | A leader is suspended past its lease between `RoleExists` and `CreateRole`. The object is deleted; the next leader finds no role and releases it. The first wakes and sends its CREATE ROLE: "only one active controller manager" (`main.go:67`) holds of who may start work, not of who is still at it. |

The same in other places, without a run of its own: a role's attribute deleted from the spec
stays (`AlterRole`); a role whose `postgresRef` is edited stays on the old server; an edited
`role` or `member` leaves the old pair; a role without a password secret loses its password,
as the comment at `role_controller.go:176` says and the one at line 192 does not; of two
entries for one role the last wins, and each reconcile passes through the first. An entry for
`public`, which the repository's README calls "All other roles", also reaches the roles with
an entry of their own, as PUBLIC does in PostgreSQL.

## Proofs

Every invariant, action property and refinement that a passing run checks is a theorem, for
any number of objects, servers, names, edits and faults; the runs show the same on a small
instance, and the liveness properties, which only they can show.

| Theorem | Assumes | Says |
|---|---|---|
| *`RoleController_proofs`* | | |
| `TypeCorrect` | | `TypeOK` and `LoopInv` |
| `RoleInvHolds` | `OneServer` | the inductive invariant of the next two |
| `NoOrphans` | `OneServer` | `NoOrphanRole` |
| `DropsNothingLive` | `OneServer`, `OneNameEach` | `NeverDropsLive` |
| `ImplementsManagedResource` | `OneServer`, `OneNameEach` | `RefinesManagedResource` |
| `ReadyIsNeverALie` | `OneNameEach` | `ReadyIsReal` |
| `StatusNeverContradicts` | | `StatusCoherent` |
| *`Failover_proofs`* | | |
| `FailoverTypeCorrect` | | `FailoverTypeOK` and `LoopInv` |
| `StatusSurvivesTakeOver` | | `StatusCoherent`, whoever leads |
| `OnlyLateCreates` | `OneServer` | `OnlyLateCreatesOrphan` |
| *`MembershipController_proofs`* | | |
| `TypeCorrect` | | `TypeOK` and `LoopInv` |
| `MembershipInvHolds`, `NoOrphans` | `SteadySpec` | `MembershipInv`, `NoOrphanMembership` |
| `RevokesNothingLive` | `SteadySpec`, `[]PairsApart` | `NeverRevokesLive` |
| `ReadyIsRevoked` | `SteadySpec`, `[]PairsApart` | `ReadyMeansRevoked` |
| *`DatabaseController_proofs`* | | |
| `TypeCorrect` | | `TypeOK`, `LoopInv`, and no read past the end of the list |
| `DatabaseInvHolds`, `NoOrphans` | `OneServer`, `NothingLate` | `DatabaseInv`, `NoOrphanDatabase` |
| `ImplementsManagedResource` | the same, `OneNameEach` | `RefinesManagedResource` |
| `DatabaseReadyInvHolds`, `ReadyIsNeverALie` | `SteadySpec`, `OneNameEach` | `DatabaseReadyInv`, `ReadyIsReal` |
| `ResyncDisturbsNothing` | `SteadySpec`, `OneNameEach` | `DisturbsNothing` |
| *`Operator_proofs`* | | |
| `TypeCorrect`, `OperatorInvHolds` | | `TypeOK`, `OperatorInv` |
| `KeepsToManagedResource` | | `StepsOfManagedResource` |
| *`Connection_proofs`* | | |
| `TypeCorrect` | | `TypeOK` |
| `LookupsAreSound` | | `LookupSound` |

*What is assumed.* The named assumptions on constants say what kind of values they are.
`OneServer` excludes edits of `postgresRef`, without which the results that need it are false.
`OneNameEach` excludes two objects for one role or database: nothing in the code does, and the
deletion of either drops the thing under the other. `PairsApart` says the same of memberships;
it is a condition on behaviours, not on constants, because a pair comes from a mutable spec and
from secrets. In the runs, which have one object, it always holds. `NothingLate` (no CREATE
DATABASE outlives its connection) is needed only where a database must not outlive its object.
`SteadySpec` is explained under Runs.

*Loop.* `ReconcileLoop_proofs` shows that every step of the loop keeps the types and `LoopInv`,
and that only `RemoveFinalizer` takes the operator's finalizer from an object. The lemma that
carries most of it, `CommitKeepsVersions`, treats every write alike: given what the
writer must know of the versions still in sight, all parts of `LoopInv` survive. Each
action then owes only those conditions.

*No orphans.* `NoOrphanRole` is not inductive. That a role is created under a finalizer follows
from what the worker *read*, possibly long ago. So `LoopInv` says that

- what looks live and guarded in any version the operator may still act on is guarded on
  the server (`GuardSeen`);
- while a version that is being deleted can still be acted on, no later one has got the
  finalizer again (`NotResurrected`): the finalizer goes only to the current version, and
  the worker's copy is current only when no older one is left (`VersionsOrdered`);
- the worker is where its object entitles it to be (`WorkerChecked`).

`RoleChecked` adds that the role is gone when the worker is about to remove the finalizer, and
`DatabaseChecked` says so of a database. Memberships need more, because what an object stands
for may change under it. `AllAnswered` gives each pair on the server an object that answers for
it: one that stands for the pair in *every* version in sight, is guarded, and is not just being
let go. `GrantsAgree` makes the grant safe: whoever acts on a version that grants acts for the
current one. `PairsKept` is what users must do for that, and no more; without it
`membership_rotated` shows the orphan.

*Ready.* That Ready is true depends on what happened between the last statement and the status
update, and after it. `ReadyInv`, also proved of the loop, says that versions of the server's
age are the server's (`VersionsAgree`), that no Ready condition is about a generation to come
(`ReadyNotAhead`), that only success writes it (`ReadyOnSuccess`), and, the one that matters,
that once an object says Ready of its generation no version that can still be acted on asks for
anything else (`ReadySettled`): the update carries a resourceVersion, so it came from the newest
version, and the queue of the informer is in order. What is left to each controller is that Ready
is earned: `ReadyEarned` for roles (with `PasswordFits`: a password read is the one that is
written) and for databases, where `EntriesApplied` follows the list entry by entry. An entry that
has been passed keeps being right while later ones are gone through, because without repetitions
in the list no two entries are about one grantee. `RevocationEarned` is the same for a membership
that was withdrawn. `DisturbsNothing` then needs the invariant only for what `frame` remembers:
each single statement on a database that is in order leaves it as it was.

*Status.* `StatusCoherent` is strengthened by the same of what the worker is about to write
(`StatusInv`). Its copy at other times need not be coherent: when there is nothing to write,
conditions have still been cleared in memory.

*Refinement.* The mapping takes an object to its claim, its finalizer to being guarded, and its
role or database to the thing held. Every write to the API server is then a move of one key
(`Moves`), and `MoveRefines` says that such a move is a step of `ManagedResource` or none;
`StatementRefines` does the same for what a statement makes of one role or database. `RoleInv`
and `DatabaseInv` supply what the abstract guards ask for: the operator makes a thing only while
the object is guarded *now*, and lets an object go only when the thing is gone *now*.

*Failover.* To the role controller a change of leader is a restart (`TakeOverRestarts`), and a
late statement changes one role and nothing the worker knows (`ArriveKeeps`), so `LoopInv` and
the statuses survive both. `RoleInv` speaks of roles: it says that a role is gone while its
finalizer is being removed, and a late CREATE breaks that. No other statement makes a role out
of none (`NoneMade`), hence `OnlyLateCreates`. What `NeverDropsLive` and `ReadyIsReal` say is
lost when statements may be late: one may be a DROP for an earlier object, or an ALTER for an earlier
spec, and the object goes on saying Ready until the next reconcile.

*Operator.* `OperatorInv` is what the three workers owe each other: while one is at an object,
nobody takes the object's finalizer or reopens it (`WorkersFit`), and between the DROP and the
release nobody makes the thing again, because only the worker of that kind does and it is there.
`ObjectSteps` and `ServerSteps` say which changes of one object, and of what is on the server,
are steps of `ManagedResource`; each action is one of these. The initial states are not those of
`ManagedResource`: the operator may be installed where objects are waiting already.

*Lookups.* `LookupSound` speaks of a finished lookup. What carries it there (`LookupInv`): until the
Postgres object is read, what both stand for now is in `described`; after that, so is what the
lookup would return if it read the secret now (`OutcomeDescribed`). A new Postgres object
does not change that outcome. A new secret does, and as long as the Postgres object in
hand is still the cached one, the new outcome is what both stand for at that moment: the namespace
looked in is the one the Postgres object means, whoever asks. Only a new secret after
a new Postgres object leads to an answer of no moment. The code does not prevent this mixture,
so `LookupSound` allows it and nothing else; `FollowsObjects` says that it does not last.

*Only model-checked*: the liveness properties (`Converges`, `ConvergesWhoeverLeads`, `Deprovisions`, `PasswordFollows`,
`TearsDown`, `Serves`, `FollowsObjects`), because liveness under fairness and `ENABLED` are out
of the prover's reach. Nothing is proved of the fault operators or of the properties of the
runs that expect a violation: those are false.

## What is left out

- Servers lose nothing and nobody else creates, alters or drops the roles the operator
  manages; servers start without them.
- A statement whose answer is lost has taken effect by the time the worker goes on, or
  never does. `CREATE DATABASE` alone is slow enough to be modelled otherwise.
- A query that finds no row and one that breaks while its only row is read are told apart:
  the driver (`lib/pq`) reads the first message of a result within `Query`, so the missing
  `rows.Err()` does not matter.
- An empty literal name in a `RoleSource` (a nil dereference, recovered by
  controller-runtime and retried).
- Quoting; template and encoding of a database; privileges granted by others.
- A restarted operator and a new leader list the current objects.
- Late statements of a former leader are modelled for roles only. Memberships and databases have
  the same exposure; a CREATE DATABASE whose connection broke (`late`) is one case of it.
- Names are model values: that PostgreSQL truncates identifiers to 63 bytes is left out.
- A password is what one secret key holds; `PasswordSecret` moved to another secret is a
  rotation.
- Users do not write the operator's own finalizer into objects, nor remove it by hand.
- An object's spec and its deletion mark are the users' only writes; labels and other
  metadata would only add versions.
- Logging, metrics, RBAC, Helm and CRD YAML, generated code, `ValidateIdentifier`.

## Plan

Built: the loop, the three controllers, failover for roles, the composition, the connection
lookup, their runs, and proofs of every safety property the runs check. Left, in order:

1. How far `NeverDropsLive` and `ReadyIsReal` survive late statements: until the next reconcile
   after the last of them.
2. Failover for memberships and databases. Theirs is the same loop; `failover_orphan` is one
   of the loop, not of the role.
3. Two objects for one role, pair or database: what still holds.
