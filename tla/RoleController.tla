---------------------------- MODULE RoleController ----------------------------
(***************************************************************************)
(* PostgresRoleReconciler: the shared loop with the ReconcileResource of   *)
(* PostgresRole objects, the roles of the PostgreSQL servers they refer    *)
(* to, and the objects its lookups read (Postgres objects, secrets).       *)
(***************************************************************************)
EXTENDS ReconcileLoop, PgRole

CONSTANT NameOf  \* NameOf[k]: spec.name of object k, immutable

ASSUME RoleAssumption ==
  /\ Specs \subseteq [server : Servers, on : SUBSET Attributes, off : SUBSET Attributes,
                      passwordSecret : BOOLEAN]
  /\ NameOf \in [Keys -> Names]

VARIABLES
  roles,       \* the roles of each server
  pinned,      \* the roles that own or are granted something
  resolvable,  \* servers whose Postgres object and secret the cache holds
  secrets,     \* the password of each object's secret in the cache, if any
  frame        \* local variables of ReconcileResource

external == <<roles, pinned, resolvable, secrets>>
vars     == <<loopVars, external, frame>>

Steps == {"begin", "drop", "password", "write"}
Frame == [step : Steps, found : BOOLEAN, password : Password]
Fresh == [step |-> "begin", found |-> FALSE, password |-> NoPassword]

TypeOK ==
  /\ LoopTypeOK
  /\ roles \in [Servers -> [Names -> Role]]
  /\ pinned \in SUBSET (Servers \X Names)
  /\ resolvable \in SUBSET Servers
  /\ secrets \in [Keys -> Password]
  /\ frame \in Frame

Init ==
  /\ LoopInit
  /\ roles = [s \in Servers |-> [n \in Names |-> NoRole]]
  /\ pinned = {}
  /\ resolvable = Servers
  /\ secrets \in [Keys -> Passwords]
  /\ frame = Fresh

(* The role the worker's object names, on the server it refers to.         *)
server == obj.spec.server
name   == NameOf[cur]
role   == roles[server][name]
-------------------------------------------------------------------------------
Continue(step, found, password) ==
  /\ frame' = [step |-> step, found |-> found, password |-> password]
  /\ UNCHANGED loopVars

(* GetPostgresHandle and RoleExists.                                       *)
CheckRole ==
  /\ pc = "resource" /\ frame.step = "begin"
  /\ \/ server \notin resolvable /\ Fail("unresolved") /\ UNCHANGED <<frame, faults>>
     \/ server \in resolvable /\ Fault /\ Fail("unreachable") /\ UNCHANGED frame
     \/ server \in resolvable /\ obj.deleting /\ ~role.exists
        /\ Succeed /\ UNCHANGED <<frame, faults>>
     \/ server \in resolvable /\ obj.deleting /\ role.exists
        /\ Continue("drop", TRUE, NoPassword)
     \/ server \in resolvable /\ ~obj.deleting
        /\ Continue("password", role.exists, NoPassword)
  /\ UNCHANGED external

(* Without a secret reference the password is nil.                         *)
GetPassword ==
  /\ pc = "resource" /\ frame.step = "password"
  /\ \/ ~obj.spec.passwordSecret /\ Continue("write", frame.found, NoPassword)
     \/ obj.spec.passwordSecret /\ secrets[cur] # NoPassword
        /\ Continue("write", frame.found, secrets[cur])
     \/ obj.spec.passwordSecret /\ secrets[cur] = NoPassword
        /\ Fail("unresolved") /\ frame' = Fresh /\ UNCHANGED faults
  /\ UNCHANGED external

(* Fault: an error of the statement is logged and not returned.            *)
ExecUnchecked(accepted, new) ==
  /\ \/ accepted /\ roles' = [roles EXCEPT ![server][name] = new]
     \/ ~accepted /\ UNCHANGED roles
  /\ Succeed /\ frame' = Fresh /\ UNCHANGED <<pinned, resolvable, secrets, faults>>

(* handler.Exec, the last call of ReconcileResource: the server accepts    *)
(* the statement, refuses it, or the connection breaks, before or after    *)
(* the statement took effect.                                              *)
Exec(accepted, new) ==
  LET Store == roles' = [roles EXCEPT ![server][name] = new]
  IN  /\ \/ accepted /\ Store /\ Succeed /\ UNCHANGED faults
         \/ ~accepted /\ UNCHANGED roles /\ Fail("refused") /\ UNCHANGED faults
         \/ UNCHANGED roles /\ Fault /\ Fail("unreachable")
         \/ accepted /\ Store /\ Fault /\ Fail("unreachable")
      /\ frame' = Fresh
      /\ UNCHANGED <<pinned, resolvable, secrets>>

(* Fault: a role that exists is left alone.                                *)
WriteRoleOnce ==
  LET s == obj.spec
      pw == frame.password
  IN  /\ pc = "resource" /\ frame.step = "write"
      /\ \/ /\ ~frame.found
            /\ Exec(CreateRoleAccepted(role, s.on, s.off), CreateRole(role, pw, s.on, s.off))
         \/ frame.found /\ Exec(TRUE, role)

WriteRole ==
  LET s == obj.spec
      pw == frame.password
  IN  /\ pc = "resource" /\ frame.step = "write"
      /\ \/ /\ ~frame.found
            /\ Exec(CreateRoleAccepted(role, s.on, s.off), CreateRole(role, pw, s.on, s.off))
         \/ /\ frame.found
            /\ Exec(AlterRoleAccepted(role, s.on, s.off), AlterRole(role, pw, s.on, s.off))

RemoveRole ==
  /\ pc = "resource" /\ frame.step = "drop"
  /\ Exec(DropRoleAccepted(role, <<server, name>> \in pinned), DropRole(role))

ReconcileResource == CheckRole \/ GetPassword \/ WriteRole \/ RemoveRole
-------------------------------------------------------------------------------
(* What others do to the servers and to the objects looked up.             *)
Disturb ==
  /\ \/ /\ \E s \in Servers, n \in Names :
             roles[s][n].exists /\ <<s, n>> \notin pinned /\ pinned' = pinned \cup {<<s, n>>}
        /\ UNCHANGED <<roles, resolvable, secrets>>
     \/ /\ \E s \in resolvable : resolvable' = resolvable \ {s}
        /\ UNCHANGED <<roles, pinned, secrets>>
     \/ /\ \E k \in Keys, p \in Password :
             secrets[k] # p /\ secrets' = [secrets EXCEPT ![k] = p]
        /\ UNCHANGED <<roles, pinned, resolvable>>
  /\ Fault
  /\ UNCHANGED <<api, watch, cache, queue, worker, edits, frame>>

Repair ==
  /\ \/ /\ \E x \in pinned : pinned' = pinned \ {x}
        /\ UNCHANGED resolvable
     \/ /\ \E s \in Servers \ resolvable : resolvable' = resolvable \cup {s}
        /\ UNCHANGED pinned
  /\ UNCHANGED <<loopVars, roles, secrets, frame>>

Next ==
  \/ (LoopWorker \/ Environment) /\ UNCHANGED <<external, frame>>
  \/ ReconcileResource
  \/ Restart /\ frame' = Fresh /\ UNCHANGED external
  \/ Disturb
  \/ Repair

Spec == Init /\ [][Next]_vars
-------------------------------------------------------------------------------
(* r is what spec s asks for: attributes it does not name are free, and    *)
(* the password itself may have been rotated since.                        *)
Satisfies(r, s) ==
  /\ r.exists /\ (r.login <=> s.passwordSecret)
  /\ s.on \subseteq r.attributes /\ s.off \cap r.attributes = {}

(* The operator never leaves a role behind: as long as a role exists some  *)
(* object still names it and still carries the finalizer that will have it *)
(* dropped (README "Finalizers to ensure clean deletion").                 *)
NoOrphanRole ==
  \A s \in Servers, n \in Names :
    roles[s][n].exists => \E k \in Keys : Guarded(api[k]) /\ NameOf[k] = n
                                          /\ api[k].spec.server = s

(* What makes NoOrphanRole inductive, where no spec can leave a server: a  *)
(* role is gone before its finalizer goes, and the step of                 *)
(* ReconcileResource fits the object it is about.                          *)
OneServer == \A s, t \in Servers : s = t

OneNameEach == \A j, k \in Keys : NameOf[j] = NameOf[k] => j = k

FrameFits ==
  frame.step # "begin" => pc = "resource" /\ (obj.deleting <=> frame.step = "drop")
RoleChecked ==
  FrameFits /\ (pc = "removeFinalizer" => \A s \in Servers : ~roles[s][name].exists)

RoleInv == LoopInv /\ RoleChecked /\ NoOrphanRole

(* An object that says Ready for its current generation is backed by a     *)
(* role as its spec wants it, whatever was lost or restarted before.       *)
ReadyIsReal ==
  \A k \in Keys :
    SaysReady(k) => Satisfies(roles[api[k].spec.server][NameOf[k]], api[k].spec)

(* What makes ReadyIsReal inductive: the worker is about to write Ready    *)
(* only when it has just made the role what its copy of the spec wants.    *)
PasswordFits == frame.step = "write" => (frame.password # NoPassword <=> obj.spec.passwordSecret)
ReadyEarned  == pc = "setReady" /\ ~obj.deleting => Satisfies(role, obj.spec)

RoleReadyInv == LoopInv /\ ReadyInv /\ FrameFits /\ PasswordFits /\ ReadyEarned /\ ReadyIsReal

(* A role is dropped only when every object that names it is on its way    *)
(* out: no stale read of an earlier deletion hits an object created since. *)
NeverDropsLive ==
  [][\A s \in Servers, n \in Names :
       roles[s][n].exists /\ ~roles'[s][n].exists
         => \A k \in Keys : NameOf[k] = n /\ api[k].exists /\ api[k].spec.server = s
                              => api[k].deleting]_vars

(* The abstract state: claims are objects, and a thing held is a role.     *)
Lifecycle  == INSTANCE ManagedResource WITH
  claim   <- [k \in Keys |-> ClaimOf(api[k])],
  guarded <- {k \in Keys : Guarded(api[k])},
  held    <- {k \in Keys : \E s \in Servers : roles[s][NameOf[k]].exists}

(* Objects and the roles they name live the life ManagedResource allows.   *)
RefinesManagedResource == Lifecycle!Spec
-------------------------------------------------------------------------------
(* What comments and documents say, and the code does not do.              *)

(* An object that nothing is left to do for is Ready: "It sets the         *)
(* specified condition to the given status" (helpers/status.go:9).  After  *)
(* Ready, Degraded, success within one generation it stays Degraded.       *)
SettledIsReady ==
  \A k \in Keys : Live(k) /\ Settled(k) => api[k].phase = "Ready"

(* "Remove finalizer if deletion timestamp is set"                         *)
(* (role_controller.go:105): of no object that is not being deleted.       *)
PatchesOnlyDeleted ==
  [][\A k \in Keys : Live(k) /\ api'[k].exists
       => api[k].finalizers \subseteq api'[k].finalizers]_vars
-------------------------------------------------------------------------------
(* The worker goes on as long as it has something to do, the informer      *)
(* delivers, and every key waiting in the queue is taken up again and      *)
(* again: a failed key comes back after a finite delay, and no other key   *)
(* can hold the only worker for ever.                                      *)
Fairness ==
  /\ WF_vars(Conclude /\ UNCHANGED <<external, frame>>) /\ WF_vars(ReconcileResource)
  /\ \A k \in Keys : /\ SF_vars(Get(k) /\ UNCHANGED <<external, frame>>)
                     /\ WF_vars(Deliver(k) /\ UNCHANGED <<external, frame>>)
FairSpec == Spec /\ Fairness

(* Lookups succeed, no role is held by dependent objects, and the secrets  *)
(* that are referred to exist.                                             *)
Healthy == resolvable = Servers /\ pinned = {} /\ NoPassword \notin {secrets[k] : k \in Keys}

(* When the surroundings stay healthy, the role of an object that stays is *)
(* brought to what the object asks for and kept there, if that is possible.*)
Converges ==
  <>[]Healthy =>
    \A k \in Keys :
      <>[](Live(k) /\ Consistent(api[k].spec.on, api[k].spec.off)
             => Satisfies(roles[api[k].spec.server][NameOf[k]], api[k].spec))

(* Secrets are not watched.  A password that was rotated still reaches the *)
(* role in the end, with the ten hour resync if nothing else happens.      *)
Resyncs == \A k \in Keys : WF_vars(Resync(k) /\ UNCHANGED <<external, frame>>)
PasswordFollows ==
  <>[]Healthy /\ Resyncs =>
    \A k \in Keys :
      LET s == api[k].spec
      IN  <>[](Live(k) /\ s.passwordSecret /\ Consistent(s.on, s.off)
                 => roles[s.server][NameOf[k]].password = secrets[k])

(* An object marked for deletion loses the operator's finalizer.           *)
Deprovisions ==
  <>[]Healthy => \A k \in Keys : (api[k].deleting ~> ~Guarded(api[k]))
===============================================================================
