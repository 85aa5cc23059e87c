-------------------------- MODULE DatabaseController --------------------------
(***************************************************************************)
(* PostgresDatabaseReconciler: the shared loop with the ReconcileResource  *)
(* of PostgresDatabase objects, which takes one statement to create the    *)
(* database or to set its owner and up to two for each entry of the        *)
(* privilege list, with nothing to hold them together.                     *)
(***************************************************************************)
EXTENDS Surroundings, PgDatabase, Sequences, FiniteSetsExt

CONSTANTS
  Databases,  \* database names
  NameOf,     \* NameOf[k]: spec.name of object k, immutable
  MaxEntries, \* bound on the length of a privilege list
  MaxLate     \* bound on CREATE DATABASE that outlive their connection

Privilege == [role : Names \cup Refs, granted : SUBSET Privileges]

ASSUME DatabaseAssumption ==
  /\ NameOf \in [Keys -> Databases]
  /\ MaxEntries \in Nat /\ MaxLate \in Nat
  /\ \A s \in Specs : /\ s.server \in Servers /\ s.owner \in Names
                      /\ s.privileges \in Seq(Privilege) /\ Len(s.privileges) <= MaxEntries

VARIABLES
  databases,  \* the databases of each server
  pinned,     \* the databases a DROP fails on
  late,       \* CREATE DATABASE still running after its connection broke
  frame       \* local variables of ReconcileResource

external == <<databases, present, pinned, lookups, late>>
vars     == <<loopVars, external, frame>>

Steps == {"begin", "drop", "create", "chown", "entry", "grant", "revoke"}
Frame == [step : Steps, i : 0 .. MaxEntries + 1, role : Names \cup {NoOwner}]
Fresh == [step |-> "begin", i |-> 0, role |-> NoOwner]

Creation == [server : Servers, name : Databases, owner : Names]

TypeOK ==
  /\ LoopTypeOK /\ SurroundingsTypeOK
  /\ databases \in [Servers -> [Databases -> Database]]
  /\ pinned \in SUBSET (Servers \X Databases)
  /\ late \in SUBSET Creation
  /\ frame \in Frame

Init ==
  /\ LoopInit /\ SurroundingsInit
  /\ databases = [s \in Servers |-> [n \in Databases |-> NoDatabase]]
  /\ pinned = {} /\ late = {}
  /\ frame = Fresh

server   == obj.spec.server
name     == NameOf[cur]
database == databases[server][name]
entry    == obj.spec.privileges[frame.i]
-------------------------------------------------------------------------------
Goto(step, i, r) == frame' = [step |-> step, i |-> i, role |-> r] /\ UNCHANGED loopVars

(* GetPostgresHandle and DatabaseExists.                                   *)
CheckDatabase ==
  /\ pc = "resource" /\ frame.step = "begin"
  /\ \/ server \notin resolvable /\ Fail("unresolved") /\ UNCHANGED <<frame, faults>>
     \/ server \in resolvable /\ Fault /\ Fail("unreachable") /\ UNCHANGED frame
     \/ server \in resolvable /\ obj.deleting /\ ~database.exists
        /\ Succeed /\ UNCHANGED <<frame, faults>>
     \/ server \in resolvable /\ obj.deleting /\ database.exists /\ Goto("drop", 0, NoOwner)
     \/ server \in resolvable /\ ~obj.deleting
        /\ Goto(IF database.exists THEN "chown" ELSE "create", 0, NoOwner)
  /\ UNCHANGED external

(* handler.Exec: the server accepts the statement and ReconcileResource    *)
(* goes on with Done, or it refuses it, or the connection breaks, before   *)
(* or after the statement took effect.                                     *)
Store(new) == databases' = [databases EXCEPT ![server][name] = new]
Broken     == Fault /\ Fail("unreachable") /\ frame' = Fresh
Exec(accepted, new, Done) ==
  /\ \/ accepted /\ Store(new) /\ Done
     \/ ~accepted /\ UNCHANGED <<databases, faults>> /\ Fail("refused") /\ frame' = Fresh
     \/ UNCHANGED databases /\ Broken
     \/ accepted /\ Store(new) /\ Broken
  /\ UNCHANGED <<present, pinned, lookups>>

(* Fault: an error of DROP is logged and not returned.                     *)
DropDatabaseUnchecked ==
  LET Done == Succeed /\ frame' = Fresh
  IN  /\ pc = "resource" /\ frame.step = "drop"
      /\ \/ <<server, name>> \notin pinned /\ Store(NoDatabase) /\ Done /\ UNCHANGED faults
         \/ <<server, name>> \in pinned /\ Done /\ UNCHANGED <<databases, faults>>
         \/ Fault /\ Done /\ UNCHANGED databases
      /\ UNCHANGED <<present, pinned, lookups, late>>

DropDatabase ==
  /\ pc = "resource" /\ frame.step = "drop"
  /\ Exec(DropDatabaseAccepted(database, <<server, name>> \in pinned), NoDatabase,
          Succeed /\ frame' = Fresh /\ UNCHANGED faults)
  /\ UNCHANGED late

(* CREATE DATABASE copies the template: it may go on when the connection   *)
(* is gone, and until it ends another one for that name waits.             *)
CreateDatabaseNow ==
  /\ pc = "resource" /\ frame.step = "create"
  /\ \/ /\ \A c \in late : c.server # server \/ c.name # name
        /\ Exec(CreateDatabaseAccepted(database, present[server], obj.spec.owner),
                CreateDatabase(obj.spec.owner), Goto("entry", 1, NoOwner))
        /\ UNCHANGED late
     \/ /\ Broken /\ Cardinality(late) < MaxLate
        /\ late' = late \cup {[server |-> server, name |-> name, owner |-> obj.spec.owner]}
        /\ UNCHANGED <<databases, present, pinned, lookups>>

ChownDatabaseNow ==
  /\ pc = "resource" /\ frame.step = "chown"
  /\ Exec(ChownDatabaseAccepted(database, present[server], obj.spec.owner),
          ChownDatabase(database, obj.spec.owner), Goto("entry", 1, NoOwner))
  /\ UNCHANGED late

(* The next entry of the list, if there is one, and the role it is about.  *)
ReadEntry ==
  /\ pc = "resource" /\ frame.step = "entry"
  /\ \/ frame.i > Len(obj.spec.privileges) /\ Succeed /\ frame' = Fresh /\ UNCHANGED faults
     \/ /\ frame.i <= Len(obj.spec.privileges) /\ entry.role \in missing
        /\ Fail("unresolved") /\ frame' = Fresh /\ UNCHANGED faults
     \/ /\ frame.i <= Len(obj.spec.privileges) /\ entry.role \notin missing
        /\ Goto("grant", frame.i, GetName(entry.role))
  /\ UNCHANGED external

(* Fault: everything is granted first, what is too much revoked after.     *)
GrantAllNow ==
  LET g == Grantee(frame.role)
  IN  /\ pc = "resource" /\ frame.step = "grant"
      /\ Exec(GrantAccepted(database, present[server], g),
              GrantPrivileges(database, g, Privileges), Goto("revoke", frame.i, frame.role))
      /\ UNCHANGED late

(* An empty GRANT or REVOKE is left out.                                   *)
GrantNow ==
  LET g == Grantee(frame.role)
  IN  /\ pc = "resource" /\ frame.step = "grant"
      /\ IF entry.granted = {}
         THEN Goto("revoke", frame.i, frame.role) /\ UNCHANGED external
         ELSE /\ Exec(GrantAccepted(database, present[server], g),
                      GrantPrivileges(database, g, entry.granted),
                      Goto("revoke", frame.i, frame.role))
              /\ UNCHANGED late

(* Fault: what an entry does not grant is left as it is.                   *)
RevokeNothing ==
  /\ pc = "resource" /\ frame.step = "revoke"
  /\ Goto("entry", frame.i + 1, NoOwner) /\ UNCHANGED external

RevokeNow ==
  LET g == Grantee(frame.role)
      revoked == Privileges \ entry.granted
  IN  /\ pc = "resource" /\ frame.step = "revoke"
      /\ IF revoked = {}
         THEN Goto("entry", frame.i + 1, NoOwner) /\ UNCHANGED external
         ELSE /\ Exec(GrantAccepted(database, present[server], g),
                      RevokePrivileges(database, g, revoked),
                      Goto("entry", frame.i + 1, NoOwner))
              /\ UNCHANGED late

ReconcileResource == CheckDatabase \/ DropDatabase \/ CreateDatabaseNow \/ ChownDatabaseNow
                     \/ ReadEntry \/ GrantNow \/ RevokeNow
-------------------------------------------------------------------------------
(* The server ends a CREATE DATABASE that nobody waits for any more.       *)
CompleteCreate ==
  /\ \E c \in late :
       LET d == databases[c.server][c.name]
       IN  /\ late' = late \ {c}
           /\ IF CreateDatabaseAccepted(d, present[c.server], c.owner)
              THEN databases' = [databases EXCEPT ![c.server][c.name] = CreateDatabase(c.owner)]
              ELSE UNCHANGED databases
  /\ UNCHANGED <<loopVars, present, pinned, lookups, frame>>

(* What others do: no role is dropped that a database depends on.          *)
DropRole(s, n) ==
  /\ n \in present[s]
  /\ \A m \in Databases : databases[s][m].owner # n /\ databases[s][m].acl[n] = {}
  /\ present' = [present EXCEPT ![s] = @ \ {n}]
  /\ UNCHANGED <<pinned, lookups>>

Pin(s, n) ==
  /\ databases[s][n].exists /\ <<s, n>> \notin pinned
  /\ pinned' = pinned \cup {<<s, n>>}
  /\ UNCHANGED <<present, lookups>>

Disturb ==
  /\ \/ \E s \in Servers, n \in Names : DropRole(s, n)
     \/ \E s \in Servers, n \in Databases : Pin(s, n)
     \/ LoseLookup /\ UNCHANGED <<present, pinned>>
  /\ Fault
  /\ UNCHANGED <<api, watch, cache, queue, worker, edits, databases, late, frame>>

Repair ==
  /\ \/ MakeRole /\ UNCHANGED pinned
     \/ (\E x \in pinned : pinned' = pinned \ {x}) /\ UNCHANGED <<present, lookups>>
     \/ RestoreLookup /\ UNCHANGED <<present, pinned>>
  /\ UNCHANGED <<loopVars, databases, late, frame>>

Next ==
  \/ (LoopWorker \/ Environment) /\ UNCHANGED <<external, frame>>
  \/ ReconcileResource
  \/ Restart /\ frame' = Fresh /\ UNCHANGED external
  \/ CompleteCreate
  \/ Disturb
  \/ Repair

Spec == Init /\ [][Next]_vars

(* Secrets go and come back but keep the names they hold.                  *)
SteadySpec == Init /\ [][Next /\ UNCHANGED secrets]_vars
-------------------------------------------------------------------------------
(* The entries of a list that are about g, and what they leave it with.    *)
EntriesFor(s, g) == {i \in DOMAIN s.privileges : Grantee(GetName(s.privileges[i].role)) = g}
Listed(s, g)     == EntriesFor(s, g) # {}
Granted(s, g)    == s.privileges[Max(EntriesFor(s, g))].granted
NoRepeats(s)     == \A g \in Grantees : Cardinality(EntriesFor(s, g)) <= 1

AsListed(d, s) ==
  /\ d.exists /\ d.owner = s.owner
  /\ \A g \in Grantees : Listed(s, g) => d.acl[g] = Granted(s, g)

Target(k) == databases[api[k].spec.server][NameOf[k]]

(* An object that says Ready for its current generation is backed by a     *)
(* database with the owner it names and the privileges it lists, although  *)
(* they are set one statement at a time and any of them may be the last.   *)
(* (Where two entries are about one role, each reconcile goes through the  *)
(* first on its way to the second.)                                        *)
ReadyIsReal ==
  \A k \in Keys :
    SaysReady(k) /\ NoRepeats(api[k].spec) => AsListed(Target(k), api[k].spec)

(* What makes ReadyIsReal inductive: on its way through the list the worker*)
(* has put in order all it has passed, and it is about to write Ready only *)
(* when it has come to the end of the list.                                *)
FrameFits ==
  frame.step # "begin" => pc = "resource" /\ (obj.deleting <=> frame.step = "drop")
InList ==
  frame.step \in {"entry", "grant", "revoke"} =>
    /\ frame.i >= 1
    /\ frame.step # "entry" => frame.i \in DOMAIN obj.spec.privileges /\ frame.role \in Names
Holds(d, e) == d.acl[Grantee(GetName(e.role))] = e.granted
EntriesApplied ==
  frame.step \in {"entry", "grant", "revoke"} =>
    /\ database.exists /\ database.owner = obj.spec.owner
    /\ frame.step # "entry" => frame.role = GetName(entry.role)
    /\ NoRepeats(obj.spec) =>
         /\ \A i \in DOMAIN obj.spec.privileges : i < frame.i =>
              Holds(database, obj.spec.privileges[i])
         /\ frame.step = "revoke" => entry.granted \subseteq database.acl[Grantee(frame.role)]
ReadyEarned ==
  pc = "setReady" /\ ~obj.deleting /\ NoRepeats(obj.spec) => AsListed(database, obj.spec)

DatabaseReadyInv == LoopInv /\ ReadyInv /\ FrameFits /\ InList /\ EntriesApplied
                    /\ ReadyEarned /\ ReadyIsReal

(* To reconcile again what is in order changes nothing on the server, not  *)
(* for a moment either: nobody is cut off or let in by a resync.           *)
DisturbsNothing ==
  [][pc = "resource" /\ ~obj.deleting /\ obj.spec = api[cur].spec
       /\ AsListed(database, obj.spec) /\ NoRepeats(obj.spec)
     => databases'[server][name] = database]_vars

(* A database exists only as long as some object that names it carries the *)
(* finalizer that will have it dropped.                                    *)
NoOrphanDatabase ==
  \A s \in Servers, n \in Databases :
    databases[s][n].exists => \E k \in Keys : Guarded(api[k]) /\ NameOf[k] = n
                                              /\ api[k].spec.server = s

(* What makes NoOrphanDatabase inductive, where no spec can leave a server *)
(* and no CREATE DATABASE outlives its connection: a database is gone      *)
(* before its finalizer goes.                                              *)
OneServer   == \A s, t \in Servers : s = t
OneNameEach == \A j, k \in Keys : NameOf[j] = NameOf[k] => j = k
NothingLate == MaxLate = 0

DatabaseChecked ==
  /\ FrameFits /\ late = {}
  /\ pc = "removeFinalizer" => \A s \in Servers : ~databases[s][name].exists

DatabaseInv == LoopInv /\ DatabaseChecked /\ NoOrphanDatabase

(* The abstract state: claims are objects, and a thing held is a database. *)
Lifecycle  == INSTANCE ManagedResource WITH
  claim   <- [k \in Keys |-> ClaimOf(api[k])],
  guarded <- {k \in Keys : Guarded(api[k])},
  held    <- {k \in Keys : \E s \in Servers : databases[s][NameOf[k]].exists}

(* A database is made and dropped with the object that names it, not a     *)
(* step earlier or later.                                                  *)
RefinesManagedResource == Lifecycle!Spec
-------------------------------------------------------------------------------
(* As for roles; and the server ends every statement it has begun.         *)
Fairness ==
  /\ WF_vars(Conclude /\ UNCHANGED <<external, frame>>) /\ WF_vars(ReconcileResource)
  /\ WF_vars(CompleteCreate)
  /\ \A k \in Keys : /\ SF_vars(Get(k) /\ UNCHANGED <<external, frame>>)
                     /\ WF_vars(Deliver(k) /\ UNCHANGED <<external, frame>>)

FairSpec == Spec /\ Fairness

(* The informer resyncs every ten hours: nothing else wakes the operator   *)
(* when a role is made again or a secret rotates.                          *)
Resyncs == \A k \in Keys : WF_vars(Resync(k) /\ UNCHANGED <<external, frame>>)

Healthy == Calm /\ pinned = {}

(* When the surroundings stay healthy, the database of an object that      *)
(* stays ends up as listed: whichever statement failed before, and also    *)
(* when a CREATE that was given up for lost commits in between.            *)
Converges ==
  <>[]Healthy /\ Resyncs => \A k \in Keys : <>[](Live(k) => AsListed(Target(k), api[k].spec))

(* An object marked for deletion loses the operator's finalizer.           *)
Deprovisions ==
  <>[]Healthy => \A k \in Keys : (api[k].deleting ~> ~Guarded(api[k]))
===============================================================================
