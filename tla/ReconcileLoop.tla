---------------------------- MODULE ReconcileLoop -----------------------------
(***************************************************************************)
(* The Reconcile method the three reconcilers share, run by the one worker *)
(* of its controller, with what surrounds it: the objects on the           *)
(* Kubernetes API server, the informer cache that lags them, the work      *)
(* queue, the users of the API, crashes of the operator.                   *)
(*                                                                         *)
(* Reconcile is cut at its remote calls; what it computes between two      *)
(* calls belongs to the earlier one.  ReconcileResource, which differs     *)
(* from kind to kind, is the phase pc = "resource": a module that extends  *)
(* this one supplies its steps and ends it with Succeed or Fail.           *)
(***************************************************************************)
EXTENDS Conditions

CONSTANTS
  Keys,       \* namespaced names of the custom resources of this kind
  Specs,      \* desired states a user may write
  NoSpec,     \* the spec of an object that does not exist
  Finalizer,  \* the operator's finalizer
  Foreign,    \* finalizers of other controllers
  MaxEdits,   \* bound on user operations
  MaxFaults   \* bound on lost requests, crashes and disturbances

ASSUME LoopAssumption ==
  /\ Finalizer \notin Foreign
  /\ MaxEdits \in Nat /\ MaxFaults \in Nat

VARIABLES
  api,     \* object of each key on the API server
  watch,   \* versions the informer has not received yet
  cache,   \* object of each key in the informer cache
  queue,   \* keys waiting in the work queue
  pc,      \* where the worker is in Reconcile
  cur,     \* the key it reconciles
  obj,     \* the object in its memory
  edits, faults

objects  == <<api, watch>>
worker   == <<pc, cur, obj>>
loopVars == <<api, watch, cache, queue, pc, cur, obj, edits, faults>>

PCs == {"idle", "addFinalizer", "setProgressing", "resource",
        "removeFinalizer", "setReady", "setDegraded"}

Object ==
  [exists : BOOLEAN, rv : Nat, gen : Nat, deleting : BOOLEAN,
   finalizers : SUBSET (Foreign \cup {Finalizer}), spec : Specs \cup {NoSpec},
   phase : Phases, conds : [CondTypes -> Condition]]

NoObject ==
  [exists |-> FALSE, rv |-> 0, gen |-> 0, deleting |-> FALSE, finalizers |-> {},
   spec |-> NoSpec, phase |-> "", conds |-> NoConditions]

LoopTypeOK ==
  /\ api \in [Keys -> Object] /\ cache \in [Keys -> Object]
  /\ watch \in [Keys -> SUBSET Object]
  /\ queue \in SUBSET Keys
  /\ pc \in PCs /\ cur \in Keys /\ obj \in Object
  /\ edits \in 0 .. MaxEdits /\ faults \in 0 .. MaxFaults

LoopInit ==
  /\ api = [k \in Keys |-> NoObject] /\ cache = api
  /\ watch = [k \in Keys |-> {}]
  /\ queue = {}
  /\ pc = "idle" /\ cur \in Keys /\ obj = NoObject
  /\ edits = 0 /\ faults = 0

(* Something goes wrong, at most MaxFaults times.                          *)
Fault == faults < MaxFaults /\ faults' = faults + 1
-------------------------------------------------------------------------------
(* The API server stores o as the next version of k and tells the watch;   *)
(* a write that changes nothing makes no version, and an object marked for *)
(* deletion disappears with its last finalizer.                            *)
Commit(k, o) ==
  LET new == IF o.deleting /\ o.finalizers = {}
             THEN [NoObject EXCEPT !.rv = o.rv + 1]
             ELSE [o EXCEPT !.rv = @ + 1]
  IN  IF o = api[k] THEN UNCHANGED objects
      ELSE /\ api' = [api EXCEPT ![k] = new]
           /\ watch' = [watch EXCEPT ![k] = @ \cup {new}]

(* Reconcile returns; an error or Requeue puts its key back on the queue.  *)
Return(requeue) ==
  /\ pc' = "idle" /\ obj' = NoObject
  /\ queue' = IF requeue THEN queue \cup {cur} ELSE queue

(* Fault: a failed request is retried only if a successful one would be.   *)
RequestOnce(accepted, new, requeue) ==
  /\ \/ accepted /\ Commit(cur, new) /\ Return(requeue) /\ UNCHANGED faults
     \/ ~accepted /\ Return(requeue) /\ UNCHANGED <<objects, faults>>
     \/ Fault /\ Return(requeue) /\ UNCHANGED objects
  /\ UNCHANGED <<cache, cur, edits>>

(* The worker's last request of a Reconcile: the server accepts it or      *)
(* answers with an error, or the answer is lost and the request with it,   *)
(* or only the answer is.                                                  *)
Request(accepted, new, requeue) ==
  /\ \/ accepted /\ Commit(cur, new) /\ Return(requeue) /\ UNCHANGED faults
     \/ ~accepted /\ Return(TRUE) /\ UNCHANGED <<objects, faults>>
     \/ Fault /\ Return(TRUE) /\ UNCHANGED objects
     \/ Fault /\ Return(TRUE) /\ accepted /\ Commit(cur, new)
  /\ UNCHANGED <<cache, cur, edits>>

(* Update and Status().Update carry the resourceVersion they were read at. *)
Current == api[cur].exists /\ obj.rv = api[cur].rv
-------------------------------------------------------------------------------
(* Fault: reconciles objects that do not carry the finalizer yet.          *)
EntryUnguarded(o) ==
  IF ~o.deleting /\ Changed(o.conds, "Progressing", o.gen, "reconciling")
  THEN "setProgressing" ELSE "resource"

(* The first remote call of a Reconcile that read o from the cache.        *)
Entry(o) ==
  IF o.deleting THEN "resource"
  ELSE IF Finalizer \notin o.finalizers THEN "addFinalizer"
  ELSE IF Changed(o.conds, "Progressing", o.gen, "reconciling") THEN "setProgressing"
  ELSE "resource"

Get(k) ==
  /\ pc = "idle" /\ k \in queue
  /\ queue' = queue \ {k} /\ cur' = k
  /\ IF cache[k].exists
     THEN /\ pc' = Entry(cache[k])
          /\ obj' = IF cache[k].deleting \/ pc' = "addFinalizer" THEN cache[k]
                    ELSE SetStatus(cache[k], "Progressing", "reconciling")
     ELSE UNCHANGED <<pc, obj>>
  /\ UNCHANGED <<objects, cache, edits, faults>>

AddFinalizer ==
  /\ pc = "addFinalizer"
  /\ Request(Current, [api[cur] EXCEPT !.spec = obj.spec,
                                       !.finalizers = obj.finalizers \cup {Finalizer}], TRUE)

UpdateStatus(requeue) ==
  Request(Current, [api[cur] EXCEPT !.phase = obj.phase, !.conds = obj.conds], requeue)

SetProgressing == pc = "setProgressing" /\ UpdateStatus(TRUE)
SetReady       == pc = "setReady" /\ UpdateStatus(FALSE)
SetDegraded    == pc = "setDegraded" /\ UpdateStatus(TRUE)

(* A merge patch of the finalizer list, addressed by name: it carries no   *)
(* resourceVersion, and replaces the whole list.  The server refuses to    *)
(* add a finalizer to an object that is being deleted.                     *)
RemoveFinalizer ==
  LET left == obj.finalizers \ {Finalizer}
  IN  /\ pc = "removeFinalizer"
      /\ Request(api[cur].exists /\ (api[cur].deleting => left \subseteq api[cur].finalizers),
                 [api[cur] EXCEPT !.finalizers = left], FALSE)

(* ReconcileResource returned nil.                                         *)
Succeed ==
  /\ pc = "resource"
  /\ IF obj.deleting /\ Finalizer \in obj.finalizers
     THEN pc' = "removeFinalizer" /\ UNCHANGED <<obj, queue>>
     ELSE IF Changed(obj.conds, "Ready", obj.gen, "reconciled")
     THEN pc' = "setReady" /\ obj' = SetStatus(obj, "Ready", "reconciled") /\ UNCHANGED queue
     ELSE Return(FALSE)
  /\ UNCHANGED <<objects, cache, cur, edits>>

(* Fault: an error already reported is not returned, so not retried.       *)
FailSilently(msg) ==
  /\ pc = "resource"
  /\ IF Changed(obj.conds, "Degraded", obj.gen, msg)
     THEN pc' = "setDegraded" /\ obj' = SetStatus(obj, "Degraded", msg) /\ UNCHANGED queue
     ELSE Return(FALSE)
  /\ UNCHANGED <<objects, cache, cur, edits>>

(* ReconcileResource returned the error msg.                               *)
Fail(msg) ==
  /\ pc = "resource"
  /\ IF Changed(obj.conds, "Degraded", obj.gen, msg)
     THEN pc' = "setDegraded" /\ obj' = SetStatus(obj, "Degraded", msg) /\ UNCHANGED queue
     ELSE Return(TRUE)
  /\ UNCHANGED <<objects, cache, cur, edits>>
-------------------------------------------------------------------------------
(* The users of the API, one operation at a time.                          *)
Edit(k, new) ==
  /\ edits < MaxEdits /\ edits' = edits + 1
  /\ Commit(k, new)
  /\ UNCHANGED <<cache, queue, worker, faults>>

Create(k, s, f) ==
  /\ ~api[k].exists
  /\ Edit(k, [NoObject EXCEPT !.exists = TRUE, !.rv = api[k].rv, !.gen = 1,
                              !.spec = s, !.finalizers = f])

ChangeSpec(k, s) ==
  /\ api[k].exists /\ api[k].spec # s
  /\ Edit(k, [api[k] EXCEPT !.spec = s, !.gen = @ + 1])

Delete(k) ==
  /\ api[k].exists /\ ~api[k].deleting
  /\ Edit(k, [api[k] EXCEPT !.deleting = TRUE, !.gen = @ + 1])

(* Another controller has done its cleanup and drops its finalizer.        *)
ReleaseForeign(k, f) ==
  /\ api[k].deleting /\ f \in api[k].finalizers \cap Foreign
  /\ Commit(k, [api[k] EXCEPT !.finalizers = @ \ {f}])
  /\ UNCHANGED <<cache, queue, worker, edits, faults>>

(* The informer receives the oldest version it has not seen.               *)
Deliver(k) ==
  /\ \E o \in watch[k] :
       /\ \A p \in watch[k] : o.rv <= p.rv
       /\ cache' = [cache EXCEPT ![k] = o]
       /\ watch' = [watch EXCEPT ![k] = @ \ {o}]
  /\ queue' = queue \cup {k}
  /\ UNCHANGED <<api, worker, edits, faults>>

(* The periodic resync of the informer re-enqueues what it holds.          *)
Resync(k) ==
  /\ cache[k].exists /\ k \notin queue
  /\ queue' = queue \cup {k}
  /\ UNCHANGED <<objects, cache, worker, edits, faults>>

(* The operator crashes and starts again: it lists every object.           *)
Restart ==
  /\ Fault
  /\ pc' = "idle" /\ obj' = NoObject
  /\ cache' = api /\ watch' = [k \in Keys |-> {}]
  /\ queue' = {k \in Keys : api[k].exists}
  /\ UNCHANGED <<api, cur, edits>>

(* The requests that end a Reconcile.                                      *)
Conclude == AddFinalizer \/ SetProgressing \/ RemoveFinalizer \/ SetReady \/ SetDegraded

(* Everything but Restart and the steps of ReconcileResource.              *)
LoopWorker == (\E k \in Keys : Get(k)) \/ Conclude

Environment ==
  \/ \E k \in Keys, s \in Specs : ChangeSpec(k, s)
  \/ \E k \in Keys, s \in Specs, f \in SUBSET Foreign : Create(k, s, f)
  \/ \E k \in Keys : Delete(k) \/ Deliver(k) \/ Resync(k)
  \/ \E k \in Keys, f \in Foreign : ReleaseForeign(k, f)
-------------------------------------------------------------------------------
Live(k)        == api[k].exists /\ ~api[k].deleting
Settled(k)     == pc = "idle" /\ k \notin queue /\ watch[k] = {}
Reports(o)     == o.exists /\ ~o.deleting /\ o.phase = "Ready" /\ o.conds["Ready"].gen = o.gen
SaysReady(k)   == Reports(api[k])
Guarded(o)     == o.exists /\ Finalizer \in o.finalizers
LiveGuarded(o) == Guarded(o) /\ ~o.deleting

(* The versions of k the operator may still act on.                        *)
Seen(k) == watch[k] \cup {cache[k]} \cup {o \in {obj} : pc # "idle" /\ cur = k}

(* The worker lags the cache, the cache the watch, the watch the server,   *)
(* and a version of the server's age agrees with it on being deleted.      *)
VersionsOrdered ==
  /\ \A k \in Keys : \A o \in watch[k] : cache[k].rv <= o.rv
  /\ \A k \in Keys : \A o \in Seen(k) : /\ o.rv <= api[k].rv
                                        /\ o.rv = api[k].rv => o.deleting = api[k].deleting
  /\ pc # "idle" => obj.rv <= cache[cur].rv

(* While a version that is being deleted can still be acted on, no later   *)
(* one has got as far as carrying the finalizer again.                     *)
NotResurrected ==
  \A k \in Keys : \A o \in Seen(k), p \in Seen(k) \cup {api[k]} :
    o.deleting /\ o.rv <= p.rv => ~LiveGuarded(p)

(* What looks guarded to the operator is guarded on the server.            *)
GuardSeen == \A k \in Keys : \A o \in Seen(k) : LiveGuarded(o) => Guarded(api[k])

(* What Reconcile has checked on its way to pc still holds of its object.  *)
WorkerChecked ==
  /\ pc # "idle" => obj.exists
  /\ pc \in {"addFinalizer", "setProgressing"} => ~obj.deleting
  /\ pc = "removeFinalizer" => obj.deleting
  /\ pc = "resource" => obj.deleting \/ Finalizer \in obj.finalizers

ObjectsSpecified ==
  \A k \in Keys : \A o \in Seen(k) \cup {api[k]} : o.exists => o.spec \in Specs

LoopInv == /\ VersionsOrdered /\ NotResurrected /\ GuardSeen
           /\ WorkerChecked /\ ObjectsSpecified

(* A version of the server's age is the server's, and no Ready condition   *)
(* is about a generation that is still to come.                            *)
VersionsAgree ==
  \A k \in Keys : \A o \in Seen(k) :
    o.rv = api[k].rv => o.spec = api[k].spec /\ o.gen = api[k].gen
ReadyNotAhead == \A k \in Keys : \A o \in Seen(k) \cup {api[k]} : o.conds["Ready"].gen <= o.gen

(* Only success writes Ready.                                              *)
ReadyOnSuccess == pc \in {"setProgressing", "setDegraded"} => obj.phase # "Ready"

(* Once an object says Ready of its generation, nothing the operator may   *)
(* still act on asks for anything else.                                    *)
ReadySettled ==
  \A k \in Keys : SaysReady(k) => \A o \in Seen(k) : ~o.deleting /\ o.spec = api[k].spec

ReadyInv == VersionsAgree /\ ReadyNotAhead /\ ReadyOnSuccess /\ ReadySettled

(* How an object looks to ManagedResource.                                 *)
ClaimOf(o) == IF ~o.exists THEN "none" ELSE IF o.deleting THEN "closing" ELSE "open"

(* The stored phase and conditions never contradict each other, although   *)
(* the phase and each condition are rewritten under different tests.       *)
StatusCoherent == \A k \in Keys : Coherent(api[k])
===============================================================================
