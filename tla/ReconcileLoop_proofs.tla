------------------------- MODULE ReconcileLoop_proofs --------------------------
(***************************************************************************)
(* What every reconciler inherits from the shared loop: its types and the  *)
(* invariant LoopInv about the versions of an object the operator may be   *)
(* acting on.  A reconciler adds its own steps to these lemmas.            *)
(***************************************************************************)
EXTENDS ReconcileLoop, TLAPS

(* setProgressing, setReady and setDegraded touch the status alone.        *)
LEMMA SetStatusKeeps ==
  ASSUME NEW o \in Object, NEW t \in CondTypes, NEW msg \in Messages
  PROVE  /\ SetStatus(o, t, msg) \in Object
         /\ SetStatus(o, t, msg).exists = o.exists
         /\ SetStatus(o, t, msg).rv = o.rv
         /\ SetStatus(o, t, msg).deleting = o.deleting
         /\ SetStatus(o, t, msg).finalizers = o.finalizers
         /\ SetStatus(o, t, msg).spec = o.spec
<1>1. SetConditionStatus(o.conds, t, o.gen, msg) \in [CondTypes -> Condition]
  BY DEF SetConditionStatus, Condition, Object
<1>2. QED
  BY <1>1 DEF SetStatus, Object, Phases

LEMMA StatusWords ==
  /\ "Ready" \in CondTypes /\ "Progressing" \in CondTypes /\ "Degraded" \in CondTypes
  /\ "reconciling" \in Messages /\ "reconciled" \in Messages /\ Errors \subseteq Messages
  BY DEF CondTypes, Messages

LEMMA NoObjectType == NoObject \in Object
<1>1. NoConditions \in [CondTypes -> Condition]
  BY DEF NoConditions, NoCondition, Condition, Messages
<1>2. QED
  BY <1>1 DEF NoObject, Object, Phases

(* A version the server stores is an object of the next resourceVersion.   *)
LEMMA CommitKeepsTypes ==
  ASSUME LoopTypeOK, NEW k \in Keys, NEW o \in Object, Commit(k, o)
  PROVE  api' \in [Keys -> Object] /\ watch' \in [Keys -> SUBSET Object]
<1> DEFINE new == IF o.deleting /\ o.finalizers = {}
                  THEN [NoObject EXCEPT !.rv = o.rv + 1]
                  ELSE [o EXCEPT !.rv = @ + 1]
<1>1. new \in Object
  BY NoObjectType DEF Object
<1>2. CASE o = api[k]
  BY <1>2 DEF Commit, LoopTypeOK, objects
<1>3. CASE o # api[k]
  <2>1. api' = [api EXCEPT ![k] = new] /\ watch' = [watch EXCEPT ![k] = @ \cup {new}]
    BY <1>3 DEF Commit
  <2>2. QED
    BY <1>1, <2>1 DEF LoopTypeOK
<1>4. QED
  BY <1>2, <1>3
-------------------------------------------------------------------------------
(* The first versions are all absent and nothing is under way.             *)
LEMMA LoopStarts == LoopInit => LoopTypeOK /\ LoopInv
<1> SUFFICES ASSUME LoopInit PROVE LoopTypeOK /\ LoopInv
  OBVIOUS
<1>1. LoopTypeOK
  BY NoObjectType, LoopAssumption DEF LoopInit, LoopTypeOK, PCs
<1>2. \A k \in Keys : Seen(k) = {NoObject} /\ api[k] = NoObject /\ watch[k] = {}
  BY DEF LoopInit, Seen
<1>3. NoObject.rv = 0 /\ ~NoObject.exists /\ ~NoObject.deleting
  BY DEF NoObject
<1>4. VersionsOrdered
  BY <1>2, <1>3 DEF VersionsOrdered, LoopInit
<1>5. NotResurrected /\ GuardSeen /\ ObjectsSpecified
  BY <1>2, <1>3 DEF NotResurrected, GuardSeen, ObjectsSpecified, LiveGuarded, Guarded
<1>6. WorkerChecked
  BY DEF WorkerChecked, LoopInit
<1>7. QED
  BY <1>1, <1>4, <1>5, <1>6 DEF LoopInv

VersionInv == VersionsOrdered /\ NotResurrected /\ GuardSeen /\ ObjectsSpecified

(* A write of the server keeps what the operator sees consistent, if it    *)
(* guards no live object while a deleted version is about, and unguards    *)
(* none that still looks live and guarded.                                 *)
LEMMA CommitKeepsVersions ==
  ASSUME LoopTypeOK, LoopInv, NEW k \in Keys, NEW o \in Object,
         Commit(k, o), o.rv = api[k].rv, o.exists => o.spec \in Specs,
         cache' = cache, UNCHANGED worker \/ pc' = "idle",
         LiveGuarded(o) => LiveGuarded(api[k]) \/ \A p \in Seen(k) : ~p.deleting,
         Guarded(api[k]) => Guarded(o) \/ \A p \in Seen(k) : ~LiveGuarded(p)
  PROVE  VersionInv'
<1> DEFINE new == IF o.deleting /\ o.finalizers = {}
                  THEN [NoObject EXCEPT !.rv = o.rv + 1]
                  ELSE [o EXCEPT !.rv = @ + 1]
<1>1. CASE o = api[k]
  <2>1. api' = api /\ watch' = watch
    BY <1>1 DEF Commit, objects
  <2>2. \A j \in Keys : Seen(j)' \subseteq Seen(j)
    BY <2>1 DEF Seen, worker
  <2>3. QED
    BY <2>1, <2>2 DEF VersionInv, LoopInv, VersionsOrdered, NotResurrected, GuardSeen,
       ObjectsSpecified, LiveGuarded, Guarded, worker
<1>2. CASE o # api[k]
  <2>1. /\ new.rv = api[k].rv + 1
        /\ LiveGuarded(new) => LiveGuarded(o)
        /\ Guarded(o) => Guarded(new)
        /\ new.exists => new.spec \in Specs
    BY DEF NoObject, Object, LiveGuarded, Guarded
  <2>2. api' = [api EXCEPT ![k] = new] /\ watch' = [watch EXCEPT ![k] = @ \cup {new}]
    BY <1>2 DEF Commit
  <2>3. /\ api'[k] = new
        /\ \A j \in Keys \ {k} : api'[j] = api[j] /\ watch'[j] = watch[j]
        /\ watch'[k] = watch[k] \cup {new}
    BY <2>2 DEF LoopTypeOK
  <2> HIDE DEF new
  <2>4. /\ \A j \in Keys \ {k} : Seen(j)' \subseteq Seen(j)
        /\ Seen(k)' \subseteq Seen(k) \cup {new}
    BY <2>3 DEF Seen, worker
  <2>5. api[k].rv \in Nat /\ \A j \in Keys : \A p \in Seen(j) : p.rv \in Nat /\ p.rv <= api[j].rv
    BY DEF LoopTypeOK, Object, Seen, LoopInv, VersionsOrdered
  <2>6. VersionsOrdered'
    <3>1. \A j \in Keys : \A p \in watch'[j] : cache'[j].rv <= p.rv
      BY <2>1, <2>3, <2>5 DEF LoopInv, VersionsOrdered, Seen
    <3>2. \A j \in Keys : \A p \in Seen(j)' :
            /\ p.rv <= api'[j].rv
            /\ p.rv = api'[j].rv => p.deleting = api'[j].deleting
      BY <2>1, <2>3, <2>4, <2>5 DEF LoopInv, VersionsOrdered
    <3>3. (pc # "idle" => obj.rv <= cache[cur].rv)'
      BY DEF LoopInv, VersionsOrdered, worker
    <3>4. QED
      BY <3>1, <3>2, <3>3 DEF VersionsOrdered
  <2>7. NotResurrected'
    <3> SUFFICES ASSUME NEW j \in Keys, NEW q \in Seen(j)', NEW p \in Seen(j)' \cup {api'[j]},
                        q.deleting, q.rv <= p.rv, LiveGuarded(p)
                 PROVE  FALSE
      BY DEF NotResurrected, LiveGuarded, Guarded
    <3>1. CASE q = new /\ p = new
      BY <3>1 DEF LiveGuarded
    <3>2. CASE j = k /\ p = new /\ q \in Seen(k)
      <4>1. LiveGuarded(api[k])
        BY <2>1, <3>2
      <4>2. QED
        BY <2>5, <3>2, <4>1 DEF LoopInv, NotResurrected
    <3>3. CASE p \in Seen(j) \cup {api[j]} /\ q \in Seen(j)
      BY <3>3 DEF LoopInv, NotResurrected
    <3>4. CASE j = k /\ q = new /\ p \in Seen(k)
      BY <2>1, <2>5, <3>4
    <3>5. QED
      BY <2>3, <2>4, <3>1, <3>2, <3>3, <3>4
  <2>8. GuardSeen'
    <3> SUFFICES ASSUME NEW j \in Keys, NEW p \in Seen(j)', LiveGuarded(p)
                 PROVE  Guarded(api'[j])
      BY DEF GuardSeen, LiveGuarded, Guarded
    <3>1. CASE p \in Seen(j)
      BY <2>1, <2>3, <3>1 DEF LoopInv, GuardSeen
    <3>2. CASE j = k /\ p = new
      BY <2>3, <3>2 DEF LiveGuarded
    <3>3. QED
      BY <2>4, <3>1, <3>2
  <2>9. ObjectsSpecified'
    BY <2>1, <2>3, <2>4 DEF LoopInv, ObjectsSpecified
  <2>10. QED
    BY <2>6, <2>7, <2>8, <2>9 DEF VersionInv
<1>3. QED
  BY <1>1, <1>2

(* Two versions that differ in their status at most.                       *)
Alike(o, p) == /\ o.exists = p.exists /\ o.rv = p.rv /\ o.deleting = p.deleting
               /\ o.finalizers = p.finalizers /\ o.spec = p.spec

(* Reading, copying and forgetting versions keeps them consistent.         *)
LEMMA ReadKeepsVersions ==
  ASSUME LoopInv, api' = api,
         \A k \in Keys : \A q \in Seen(k)' : \E p \in Seen(k) : Alike(q, p),
         \A k \in Keys : \A o \in watch'[k] : cache'[k].rv <= o.rv,
         pc' # "idle" => obj'.rv <= cache'[cur'].rv
  PROVE  VersionInv'
<1>1. VersionsOrdered'
  BY DEF LoopInv, VersionsOrdered, Alike
<1>2. NotResurrected'
  <2> SUFFICES ASSUME NEW k \in Keys, NEW o \in Seen(k)', NEW p \in Seen(k)' \cup {api[k]},
                      o.deleting, o.rv <= p.rv, LiveGuarded(p)
               PROVE  FALSE
    BY DEF NotResurrected, LiveGuarded, Guarded
  <2>1. PICK o0 \in Seen(k) : Alike(o, o0)
    OBVIOUS
  <2>2. PICK p0 \in Seen(k) \cup {api[k]} : Alike(p, p0)
    BY DEF Alike
  <2>3. QED
    BY <2>1, <2>2 DEF LoopInv, NotResurrected, Alike, LiveGuarded, Guarded
<1>3. GuardSeen'
  BY DEF LoopInv, GuardSeen, Alike, LiveGuarded, Guarded
<1>4. ObjectsSpecified'
  BY DEF LoopInv, ObjectsSpecified, Alike
<1>5. QED
  BY <1>1, <1>2, <1>3, <1>4 DEF VersionInv
-------------------------------------------------------------------------------
(* The worker's requests, and its return, keep the types.                  *)
LEMMA RequestKeepsTypes ==
  ASSUME LoopTypeOK, NEW accepted \in BOOLEAN, NEW new, accepted => new \in Object,
         NEW requeue \in BOOLEAN, Request(accepted, new, requeue)
  PROVE  LoopTypeOK'
<1>1. /\ pc' = "idle" /\ obj' = NoObject /\ cur' = cur /\ cache' = cache /\ edits' = edits
      /\ queue' \in SUBSET Keys /\ faults' \in 0 .. MaxFaults
  BY LoopAssumption DEF Request, Return, Fault, LoopTypeOK
<1>2. api' \in [Keys -> Object] /\ watch' \in [Keys -> SUBSET Object]
  BY CommitKeepsTypes DEF Request, LoopTypeOK, objects
<1>3. QED
  BY <1>1, <1>2, NoObjectType DEF LoopTypeOK, PCs

(* A request leaves the versions alone unless the server accepts it.       *)
LEMMA RequestKeepsInv ==
  ASSUME LoopTypeOK, LoopInv, NEW accepted \in BOOLEAN, NEW new,
         NEW requeue \in BOOLEAN, Request(accepted, new, requeue),
         accepted => /\ new \in Object /\ new.rv = api[cur].rv
                     /\ new.exists => new.spec \in Specs
                     /\ LiveGuarded(new)
                          => LiveGuarded(api[cur]) \/ \A p \in Seen(cur) : ~p.deleting
                     /\ Guarded(api[cur])
                          => Guarded(new) \/ \A p \in Seen(cur) : ~LiveGuarded(p)
  PROVE  LoopInv'
<1>1. pc' = "idle" /\ cache' = cache /\ cur \in Keys
  BY DEF Request, Return, LoopTypeOK
<1>2. CASE accepted /\ Commit(cur, new)
  BY <1>1, <1>2, CommitKeepsVersions DEF VersionInv, LoopInv, WorkerChecked
<1>3. CASE UNCHANGED objects
  <2>1. \A k \in Keys : Seen(k)' \subseteq Seen(k)
    BY <1>1, <1>3 DEF Seen, objects
  <2>2. VersionInv'
    BY <1>1, <1>3, <2>1, ReadKeepsVersions DEF objects, LoopInv, VersionsOrdered, Alike
  <2>3. QED
    BY <1>1, <2>2 DEF VersionInv, LoopInv, WorkerChecked
<1>4. QED
  BY <1>2, <1>3 DEF Request
-------------------------------------------------------------------------------
LEMMA LoopWorkerKeepsTypes ==
  ASSUME LoopTypeOK, LoopWorker
  PROVE  LoopTypeOK'
<1> USE DEF LoopTypeOK
<1>1. ASSUME NEW k \in Keys, Get(k)
      PROVE  LoopTypeOK'
  <2>1. cache[k] \in Object /\ Entry(cache[k]) \in PCs
    BY DEF Entry, PCs
  <2>2. SetStatus(cache[k], "Progressing", "reconciling") \in Object
    BY <2>1, SetStatusKeeps DEF CondTypes, Messages
  <2>3. pc' \in PCs /\ obj' \in Object
    BY <1>1, <2>1, <2>2 DEF Get
  <2>4. QED
    BY <1>1, <2>3 DEF Get, objects
<1>2. CASE AddFinalizer
  <2>1. [api[cur] EXCEPT !.spec = obj.spec,
                         !.finalizers = obj.finalizers \cup {Finalizer}] \in Object
    BY DEF Object
  <2>2. QED
    BY <1>2, <2>1, RequestKeepsTypes DEF AddFinalizer, Current, Object
<1>3. ASSUME NEW requeue \in BOOLEAN, UpdateStatus(requeue)
      PROVE  LoopTypeOK'
  <2>1. [api[cur] EXCEPT !.phase = obj.phase, !.conds = obj.conds] \in Object
    BY DEF Object
  <2>2. QED
    BY <1>3, <2>1, RequestKeepsTypes DEF UpdateStatus, Current, Object
<1>4. CASE RemoveFinalizer
  <2>1. [api[cur] EXCEPT !.finalizers = obj.finalizers \ {Finalizer}] \in Object
    BY DEF Object
  <2>2. QED
    BY <1>4, <2>1, RequestKeepsTypes DEF RemoveFinalizer, Object
<1>5. QED
  BY <1>1, <1>2, <1>3, <1>4 DEF LoopWorker, Conclude, SetProgressing, SetReady, SetDegraded

LEMMA EnvironmentKeepsTypes ==
  ASSUME LoopTypeOK, Environment \/ Restart
  PROVE  LoopTypeOK'
<1> USE DEF LoopTypeOK
<1>1. ASSUME NEW k \in Keys, NEW o \in Object, Commit(k, o),
             edits' \in 0 .. MaxEdits, UNCHANGED <<cache, queue, worker, faults>>
      PROVE  LoopTypeOK'
  BY <1>1, CommitKeepsTypes DEF worker
<1>2. ASSUME NEW k \in Keys, NEW o \in Object, Edit(k, o)
      PROVE  LoopTypeOK'
  BY <1>1, <1>2, LoopAssumption DEF Edit
<1>3. ASSUME NEW k \in Keys, NEW s \in Specs, ChangeSpec(k, s)
      PROVE  LoopTypeOK'
  <2>1. api[k] \in Object /\ api[k].gen + 1 \in Nat
    BY DEF Object
  <2>2. [api[k] EXCEPT !.spec = s, !.gen = @ + 1] \in Object
    BY <2>1 DEF Object
  <2>3. QED
    BY <1>2, <1>3, <2>2 DEF ChangeSpec
<1>4. ASSUME NEW k \in Keys, NEW s \in Specs, NEW f \in SUBSET Foreign, Create(k, s, f)
      PROVE  LoopTypeOK'
  <2>1. [NoObject EXCEPT !.exists = TRUE, !.rv = api[k].rv, !.gen = 1,
                         !.spec = s, !.finalizers = f] \in Object
    BY NoObjectType DEF Object
  <2>2. QED
    BY <1>2, <1>4, <2>1 DEF Create
<1>5. ASSUME NEW k \in Keys, Delete(k)
      PROVE  LoopTypeOK'
  <2>1. api[k] \in Object /\ api[k].gen + 1 \in Nat
    BY DEF Object
  <2>2. [api[k] EXCEPT !.deleting = TRUE, !.gen = @ + 1] \in Object
    BY <2>1 DEF Object
  <2>3. QED
    BY <1>2, <1>5, <2>2 DEF Delete
<1>6. ASSUME NEW k \in Keys, Deliver(k) \/ Resync(k)
      PROVE  LoopTypeOK'
  BY <1>6 DEF Deliver, Resync, worker, objects
<1>7. ASSUME NEW k \in Keys, NEW f \in Foreign, ReleaseForeign(k, f)
      PROVE  LoopTypeOK'
  <2>1. [api[k] EXCEPT !.finalizers = @ \ {f}] \in Object
    BY DEF Object
  <2>2. QED
    BY <1>1, <1>7, <2>1 DEF ReleaseForeign
<1>8. CASE Restart
  BY <1>8, NoObjectType, LoopAssumption DEF Restart, Fault, PCs
<1>9. QED
  BY <1>3, <1>4, <1>5, <1>6, <1>7, <1>8 DEF Environment

LEMMA ResultKeepsTypes ==
  ASSUME LoopTypeOK, Succeed \/ \E msg \in Errors : Fail(msg), faults' \in 0 .. MaxFaults
  PROVE  LoopTypeOK'
<1>1. obj' \in Object /\ pc' \in PCs /\ queue' \in SUBSET Keys
  <2>1. obj \in Object /\ queue \in SUBSET Keys /\ cur \in Keys
    BY DEF LoopTypeOK
  <2>2. /\ SetStatus(obj, "Ready", "reconciled") \in Object
        /\ \A msg \in Errors : SetStatus(obj, "Degraded", msg) \in Object
    BY <2>1, StatusWords, SetStatusKeeps
  <2>3. CASE Succeed
    BY <2>1, <2>2, <2>3, NoObjectType DEF Succeed, Return, PCs
  <2>4. ASSUME NEW msg \in Errors, Fail(msg)
        PROVE  obj' \in Object /\ pc' \in PCs /\ queue' \in SUBSET Keys
    BY <2>1, <2>2, <2>4, NoObjectType DEF Fail, Return, PCs
  <2>5. QED
    BY <2>3, <2>4
<1>2. QED
  BY <1>1 DEF LoopTypeOK, Succeed, Fail, objects
-------------------------------------------------------------------------------
(* Get turns to a version of the cache, whatever it makes of its status.   *)
LEMMA GetKeepsInv ==
  ASSUME LoopTypeOK, LoopInv, NEW k \in Keys, Get(k)
  PROVE  LoopInv'
<1>1. api' = api /\ watch' = watch /\ cache' = cache /\ cur' = k /\ pc = "idle"
  BY DEF Get, objects
<1>2. CASE cache[k].exists
  <2>1. cache[k] \in Object
    BY DEF LoopTypeOK
  <2>0. Alike(SetStatus(cache[k], "Progressing", "reconciling"), cache[k])
    BY <2>1, SetStatusKeeps, StatusWords, SMTT(30) DEF Alike
  <2>2. pc' = Entry(cache[k]) /\ Alike(obj', cache[k])
    BY <1>2, <2>0 DEF Get, Alike
  <2>3. \A j \in Keys : \A q \in Seen(j)' : \E p \in Seen(j) : Alike(q, p)
    BY <1>1, <2>2 DEF Seen, Alike
  <2>4. VersionInv'
    BY <1>1, <2>1, <2>2, <2>3, ReadKeepsVersions DEF LoopInv, VersionsOrdered, Alike, Object
  <2>5. WorkerChecked'
    BY <1>2, <2>2 DEF WorkerChecked, Entry, Alike
  <2>6. QED
    BY <2>4, <2>5 DEF VersionInv, LoopInv
<1>3. CASE ~cache[k].exists
  <2>1. pc' = "idle"
    BY <1>1, <1>3 DEF Get
  <2>2. \A j \in Keys : Seen(j)' \subseteq Seen(j)
    BY <1>1, <2>1 DEF Seen
  <2>3. VersionInv'
    BY <1>1, <2>1, <2>2, ReadKeepsVersions DEF LoopInv, VersionsOrdered, Alike
  <2>4. QED
    BY <2>1, <2>3 DEF VersionInv, LoopInv, WorkerChecked
<1>4. QED
  BY <1>2, <1>3

(* The finalizer goes to the current version only, and no older one that   *)
(* is being deleted is still about; it is taken where none looks guarded.  *)
LEMMA LoopWorkerKeepsInv ==
  ASSUME LoopTypeOK, LoopInv, LoopWorker
  PROVE  LoopInv'
<1> cur \in Keys /\ obj \in Object /\ api[cur] \in Object
  BY DEF LoopTypeOK
<1>0. pc # "idle" => /\ obj \in Seen(cur) /\ obj.rv \in Nat /\ obj.rv <= api[cur].rv
                     /\ \A p \in Seen(cur) : p.rv \in Nat /\ obj.rv <= p.rv
                                             /\ p.rv <= api[cur].rv
  BY DEF Seen, LoopInv, VersionsOrdered, LoopTypeOK, Object
<1>1. CASE AddFinalizer
  <2> DEFINE new == [api[cur] EXCEPT !.spec = obj.spec,
                                     !.finalizers = obj.finalizers \cup {Finalizer}]
  <2>1. new \in Object /\ new.rv = api[cur].rv /\ Finalizer \in new.finalizers
        /\ new.exists = api[cur].exists /\ new.deleting = api[cur].deleting
        /\ new.spec = obj.spec
    BY DEF Object
  <2>2. pc = "addFinalizer" /\ Request(Current, new, TRUE)
    BY <1>1 DEF AddFinalizer
  <2> HIDE DEF new
  <2>3. ASSUME Current
        PROVE  obj.exists /\ obj.spec \in Specs /\ \A p \in Seen(cur) : ~p.deleting
    <3>1. \A p \in Seen(cur) : p.rv = api[cur].rv
      BY <1>0, <2>2, <2>3 DEF Current, Object
    <3>2. obj.deleting = FALSE /\ obj.exists
      BY <2>2 DEF LoopInv, WorkerChecked, Object
    <3>3. api[cur].deleting = FALSE
      BY <1>0, <2>2, <3>1, <3>2 DEF LoopInv, VersionsOrdered
    <3>4. QED
      BY <1>0, <2>2, <3>1, <3>2, <3>3 DEF LoopInv, VersionsOrdered, ObjectsSpecified
  <2>4. Current \in BOOLEAN
    BY DEF Current, Object
  <2>5. Current => Guarded(new)
    BY <2>1 DEF Current, Guarded
  <2>6. QED
    BY <2>1, <2>2, <2>3, <2>4, <2>5, RequestKeepsInv
<1>2. ASSUME NEW requeue \in BOOLEAN, UpdateStatus(requeue)
      PROVE  LoopInv'
  <2> DEFINE new == [api[cur] EXCEPT !.phase = obj.phase, !.conds = obj.conds]
  <2>1. new \in Object /\ Alike(new, api[cur])
    BY DEF Object, Alike
  <2>2. Request(Current, new, requeue) /\ Current \in BOOLEAN
    BY <1>2 DEF UpdateStatus, Current, Object
  <2> HIDE DEF new
  <2>3. QED
    BY <2>1, <2>2, RequestKeepsInv DEF Alike, LiveGuarded, Guarded, LoopInv, ObjectsSpecified
<1>3. CASE RemoveFinalizer
  <2> DEFINE new == [api[cur] EXCEPT !.finalizers = obj.finalizers \ {Finalizer}]
             accepted == api[cur].exists
               /\ (api[cur].deleting => obj.finalizers \ {Finalizer} \subseteq api[cur].finalizers)
  <2>1. new \in Object /\ new.rv = api[cur].rv /\ new.spec = api[cur].spec
        /\ new.exists = api[cur].exists /\ Finalizer \notin new.finalizers
    BY DEF Object
  <2>2. pc = "removeFinalizer" /\ Request(accepted, new, FALSE) /\ accepted \in BOOLEAN
    BY <1>3 DEF RemoveFinalizer, Object
  <2> HIDE DEF new, accepted
  <2>3. \A p \in Seen(cur) : ~LiveGuarded(p)
    BY <1>0, <2>2 DEF LoopInv, WorkerChecked, NotResurrected
  <2>4. ~LiveGuarded(new)
    BY <2>1 DEF LiveGuarded, Guarded
  <2>5. new.exists => new.spec \in Specs
    BY <2>1 DEF LoopInv, ObjectsSpecified
  <2>6. QED
    BY <2>1, <2>2, <2>3, <2>4, <2>5, RequestKeepsInv
<1>4. QED
  BY <1>1, <1>2, <1>3, GetKeepsInv
     DEF LoopWorker, Conclude, SetProgressing, SetReady, SetDegraded

(* Users neither add nor take the operator's finalizer, and an object that *)
(* carries it does not disappear.                                          *)
LEMMA EditKeepsInv ==
  ASSUME LoopTypeOK, LoopInv, NEW k \in Keys, NEW o \in Object, Commit(k, o),
         UNCHANGED <<cache, worker>>, o.rv = api[k].rv, o.exists => o.spec \in Specs,
         LiveGuarded(o) => LiveGuarded(api[k]), Guarded(api[k]) => Guarded(o)
  PROVE  LoopInv'
<1>1. VersionInv'
  BY CommitKeepsVersions
<1>2. QED
  BY <1>1 DEF VersionInv, LoopInv, WorkerChecked, worker

LEMMA EnvironmentKeepsInv ==
  ASSUME LoopTypeOK, LoopInv, Environment \/ Restart
  PROVE  LoopInv'
<1>1. ASSUME NEW k \in Keys, NEW s \in Specs, ChangeSpec(k, s)
      PROVE  LoopInv'
  <2> DEFINE new == [api[k] EXCEPT !.spec = s, !.gen = @ + 1]
  <2>1. api[k] \in Object /\ api[k].gen + 1 \in Nat
    BY DEF LoopTypeOK, Object
  <2>2. new \in Object /\ new.rv = api[k].rv /\ new.spec = s /\ new.exists = api[k].exists
        /\ new.deleting = api[k].deleting /\ new.finalizers = api[k].finalizers
    BY <2>1 DEF Object
  <2>3. Commit(k, new) /\ UNCHANGED <<cache, worker>>
    BY <1>1 DEF ChangeSpec, Edit
  <2> HIDE DEF new
  <2>4. QED
    BY <2>2, <2>3, EditKeepsInv DEF LiveGuarded, Guarded
<1>2. ASSUME NEW k \in Keys, NEW s \in Specs, NEW f \in SUBSET Foreign, Create(k, s, f)
      PROVE  LoopInv'
  <2> DEFINE new == [NoObject EXCEPT !.exists = TRUE, !.rv = api[k].rv, !.gen = 1,
                                     !.spec = s, !.finalizers = f]
  <2>1. api[k] \in Object
    BY DEF LoopTypeOK
  <2>2. new \in Object /\ new.rv = api[k].rv /\ new.spec = s /\ new.finalizers = f
    BY <2>1, NoObjectType DEF Object, NoObject
  <2>3. Commit(k, new) /\ UNCHANGED <<cache, worker>> /\ ~api[k].exists
    BY <1>2 DEF Create, Edit
  <2> HIDE DEF new
  <2>4. QED
    BY <2>2, <2>3, EditKeepsInv, LoopAssumption DEF LiveGuarded, Guarded
<1>3. ASSUME NEW k \in Keys, Delete(k)
      PROVE  LoopInv'
  <2> DEFINE new == [api[k] EXCEPT !.deleting = TRUE, !.gen = @ + 1]
  <2>1. api[k] \in Object /\ api[k].gen + 1 \in Nat
    BY DEF LoopTypeOK, Object
  <2>2. new \in Object /\ new.rv = api[k].rv /\ new.spec = api[k].spec
        /\ new.exists = api[k].exists /\ new.deleting
        /\ new.finalizers = api[k].finalizers
    BY <2>1 DEF Object
  <2>3. Commit(k, new) /\ UNCHANGED <<cache, worker>>
    BY <1>3 DEF Delete, Edit
  <2> HIDE DEF new
  <2>4. QED
    BY <2>2, <2>3, EditKeepsInv DEF LiveGuarded, Guarded, LoopInv, ObjectsSpecified
<1>4. ASSUME NEW k \in Keys, NEW f \in Foreign, ReleaseForeign(k, f)
      PROVE  LoopInv'
  <2> DEFINE new == [api[k] EXCEPT !.finalizers = @ \ {f}]
  <2>1. api[k] \in Object
    BY DEF LoopTypeOK
  <2>2. new \in Object /\ new.rv = api[k].rv /\ new.spec = api[k].spec
        /\ new.exists = api[k].exists /\ new.deleting = api[k].deleting
        /\ new.finalizers = api[k].finalizers \ {f}
    BY <2>1 DEF Object
  <2>3. Commit(k, new) /\ UNCHANGED <<cache, worker>>
    BY <1>4 DEF ReleaseForeign
  <2> HIDE DEF new
  <2>4. QED
    BY <2>2, <2>3, EditKeepsInv, LoopAssumption
       DEF LiveGuarded, Guarded, LoopInv, ObjectsSpecified
<1>5. ASSUME NEW k \in Keys, Deliver(k)
      PROVE  LoopInv'
  <2>1. PICK o \in watch[k] : /\ \A p \in watch[k] : o.rv <= p.rv
                              /\ cache' = [cache EXCEPT ![k] = o]
                              /\ watch' = [watch EXCEPT ![k] = @ \ {o}]
    BY <1>5 DEF Deliver
  <2>2. api' = api /\ pc' = pc /\ cur' = cur /\ obj' = obj
    BY <1>5 DEF Deliver, worker
  <2>3. /\ cache'[k] = o /\ watch'[k] = watch[k] \ {o}
        /\ \A j \in Keys \ {k} : cache'[j] = cache[j] /\ watch'[j] = watch[j]
    BY <2>1, SMTT(30) DEF LoopTypeOK
  <2>4. \A j \in Keys : Seen(j)' \subseteq Seen(j)
    BY <2>2, <2>3 DEF Seen
  <2>5. \A j \in Keys : cache[j].rv \in Nat /\ cache[j].rv <= cache'[j].rv /\ cache'[j].rv \in Nat
    BY <2>3 DEF LoopInv, VersionsOrdered, LoopTypeOK, Object
  <2>6. pc' # "idle" => obj'.rv <= cache'[cur'].rv
    BY <2>2, <2>5 DEF LoopInv, VersionsOrdered, LoopTypeOK, Object
  <2>7. VersionInv'
    BY <2>1, <2>2, <2>3, <2>4, <2>6, ReadKeepsVersions DEF Alike, LoopInv, VersionsOrdered
  <2>8. QED
    BY <2>2, <2>7 DEF VersionInv, LoopInv, WorkerChecked
<1>6. ASSUME NEW k \in Keys, Resync(k)
      PROVE  LoopInv'
  BY <1>6 DEF Resync, objects, worker, LoopInv, VersionsOrdered, NotResurrected, GuardSeen,
     WorkerChecked, ObjectsSpecified, Seen, LiveGuarded, Guarded
<1>7. CASE Restart
  <2>1. api' = api /\ pc' = "idle" /\ \A k \in Keys : Seen(k)' = {api[k]} /\ watch'[k] = {}
    BY <1>7 DEF Restart, Seen
  <2>2. \A k \in Keys : api[k].rv \in Nat
    BY DEF LoopTypeOK, Object
  <2>3. QED
    BY <2>1, <2>2 DEF LoopInv, VersionsOrdered, NotResurrected, GuardSeen, WorkerChecked,
       ObjectsSpecified, LiveGuarded, Guarded
<1>8. QED
  BY <1>1, <1>2, <1>3, <1>4, <1>5, <1>6, <1>7 DEF Environment

(* The outcome of ReconcileResource changes the object's status alone.     *)
LEMMA ResultKeepsInv ==
  ASSUME LoopTypeOK, LoopInv, Succeed \/ \E msg \in Errors : Fail(msg)
  PROVE  LoopInv'
<1>1. api' = api /\ watch' = watch /\ cache' = cache /\ cur' = cur /\ pc = "resource"
  BY DEF Succeed, Fail, objects
<1>2. pc' # "idle" => Alike(obj', obj) /\ pc' \in {"removeFinalizer", "setReady", "setDegraded"}
  <2>1. obj \in Object /\ Alike(obj, obj)
    BY DEF LoopTypeOK, Alike
  <2>2. \A t \in CondTypes, msg \in Messages : Alike(SetStatus(obj, t, msg), obj)
    BY <2>1, SetStatusKeeps DEF Alike
  <2>3. "reconciled" \in Messages /\ Errors \subseteq Messages
        /\ "Ready" \in CondTypes /\ "Degraded" \in CondTypes
    BY DEF Messages, CondTypes
  <2>4. CASE Succeed
    BY <2>1, <2>2, <2>3, <2>4 DEF Succeed, Return
  <2>5. ASSUME NEW msg \in Errors, Fail(msg)
        PROVE  pc' # "idle" => Alike(obj', obj) /\ pc' = "setDegraded"
    BY <2>2, <2>3, <2>5 DEF Fail, Return
  <2>6. QED
    BY <2>4, <2>5
<1>3. pc' = "removeFinalizer" => obj.deleting
  BY DEF Succeed, Fail, Return
<1>4. \A k \in Keys : \A q \in Seen(k)' : \E p \in Seen(k) : Alike(q, p)
  BY <1>1, <1>2 DEF Seen, Alike
<1>5. VersionInv'
  BY <1>1, <1>2, <1>4, ReadKeepsVersions DEF LoopInv, VersionsOrdered, Alike
<1>6. QED
  BY <1>1, <1>2, <1>3, <1>5 DEF VersionInv, LoopInv, WorkerChecked, Alike

(* A step that leaves the loop alone keeps all of it.                      *)
LEMMA LoopStutters ==
  ASSUME LoopTypeOK, LoopInv, faults' \in 0 .. MaxFaults,
         UNCHANGED <<objects, worker, cache, queue, edits>>
  PROVE  LoopTypeOK' /\ LoopInv'
<1>1. LoopTypeOK'
  BY DEF LoopTypeOK, objects, worker
<1>2. LoopInv'
  BY DEF objects, worker, LoopInv, VersionsOrdered, NotResurrected, GuardSeen,
     WorkerChecked, ObjectsSpecified, Seen, LiveGuarded, Guarded
<1>3. QED
  BY <1>1, <1>2
-------------------------------------------------------------------------------
LEMMA CommitGuards ==
  ASSUME LoopTypeOK, NEW k \in Keys, NEW o \in Object, Commit(k, o)
  PROVE  /\ \A j \in Keys \ {k} : api'[j] = api[j]
         /\ Guarded(o) => Guarded(api'[k])
<1> DEFINE new == IF o.deleting /\ o.finalizers = {}
                  THEN [NoObject EXCEPT !.rv = o.rv + 1]
                  ELSE [o EXCEPT !.rv = @ + 1]
<1>1. Guarded(o) => Guarded(new)
  BY DEF Object, Guarded
<1>2. CASE o = api[k]
  BY <1>2 DEF Commit, objects
<1>3. CASE o # api[k]
  <2>1. api' = [api EXCEPT ![k] = new]
    BY <1>3 DEF Commit
  <2>2. QED
    BY <1>1, <2>1 DEF LoopTypeOK
<1>4. QED
  BY <1>2, <1>3

(* Only the operator's own patch takes its finalizer from an object.       *)
LEMMA OnlyRemovalUnguards ==
  ASSUME LoopTypeOK, LoopInv, LoopWorker \/ Environment \/ Restart,
         NEW j \in Keys, Guarded(api[j]), ~Guarded(api'[j])
  PROVE  RemoveFinalizer /\ j = cur
<1>1. ASSUME NEW k \in Keys, NEW o \in Object, Commit(k, o),
             Guarded(api[k]) => Guarded(o)
      PROVE  FALSE
  BY <1>1, CommitGuards
<1>2. \A k \in Keys : api[k] \in Object /\ api[k].gen + 1 \in Nat
  BY DEF LoopTypeOK, Object
<1>3. cur \in Keys /\ obj \in Object
  BY DEF LoopTypeOK
<1>4. api' # api
  OBVIOUS
<1>5. CASE AddFinalizer
  <2> DEFINE new == [api[cur] EXCEPT !.spec = obj.spec,
                                     !.finalizers = obj.finalizers \cup {Finalizer}]
  <2>1. new \in Object /\ (Guarded(api[cur]) => Guarded(new))
    BY <1>2, <1>3 DEF Object, Guarded
  <2>2. Commit(cur, new)
    BY <1>4, <1>5 DEF AddFinalizer, Request, objects
  <2>3. QED
    BY <1>1, <1>3, <2>1, <2>2
<1>6. ASSUME NEW requeue, UpdateStatus(requeue)
      PROVE  FALSE
  <2> DEFINE new == [api[cur] EXCEPT !.phase = obj.phase, !.conds = obj.conds]
  <2>1. new \in Object /\ (Guarded(api[cur]) => Guarded(new))
    BY <1>2, <1>3 DEF Object, Guarded
  <2>2. Commit(cur, new)
    BY <1>4, <1>6 DEF UpdateStatus, Request, objects
  <2>3. QED
    BY <1>1, <1>3, <2>1, <2>2
<1>7. CASE RemoveFinalizer
  <2> DEFINE new == [api[cur] EXCEPT !.finalizers = obj.finalizers \ {Finalizer}]
  <2>1. new \in Object
    BY <1>2, <1>3 DEF Object
  <2>2. Commit(cur, new)
    BY <1>4, <1>7 DEF RemoveFinalizer, Request, objects
  <2>3. QED
    BY <1>3, <1>7, <2>1, <2>2, CommitGuards
<1>8. ASSUME NEW k \in Keys, NEW s \in Specs, ChangeSpec(k, s)
      PROVE  FALSE
  <2> DEFINE new == [api[k] EXCEPT !.spec = s, !.gen = @ + 1]
  <2>1. new \in Object /\ (Guarded(api[k]) => Guarded(new))
    BY <1>2 DEF Object, Guarded
  <2>2. QED
    BY <1>1, <1>8, <2>1 DEF ChangeSpec, Edit
<1>9. ASSUME NEW k \in Keys, NEW s \in Specs, NEW f \in SUBSET Foreign, Create(k, s, f)
      PROVE  FALSE
  <2> DEFINE new == [NoObject EXCEPT !.exists = TRUE, !.rv = api[k].rv, !.gen = 1,
                                     !.spec = s, !.finalizers = f]
  <2>1. new \in Object
    BY <1>2, NoObjectType DEF Object
  <2>2. QED
    BY <1>1, <1>9, <2>1 DEF Create, Edit, Guarded
<1>10. ASSUME NEW k \in Keys, Delete(k)
       PROVE  FALSE
  <2> DEFINE new == [api[k] EXCEPT !.deleting = TRUE, !.gen = @ + 1]
  <2>1. new \in Object /\ (Guarded(api[k]) => Guarded(new))
    BY <1>2 DEF Object, Guarded
  <2>2. QED
    BY <1>1, <1>10, <2>1 DEF Delete, Edit
<1>11. ASSUME NEW k \in Keys, NEW f \in Foreign, ReleaseForeign(k, f)
       PROVE  FALSE
  <2> DEFINE new == [api[k] EXCEPT !.finalizers = @ \ {f}]
  <2>1. new \in Object /\ (Guarded(api[k]) => Guarded(new))
    BY <1>2, LoopAssumption DEF Object, Guarded
  <2>2. QED
    BY <1>1, <1>11, <2>1 DEF ReleaseForeign
<1>12. ASSUME NEW k \in Keys, Get(k) \/ Deliver(k) \/ Resync(k) \/ Restart
       PROVE  FALSE
  BY <1>4, <1>12 DEF Get, Deliver, Resync, Restart, objects
<1>13. QED
  BY <1>3, <1>5, <1>6, <1>7, <1>8, <1>9, <1>10, <1>11, <1>12
     DEF LoopWorker, Conclude, Environment, SetProgressing, SetReady, SetDegraded
-------------------------------------------------------------------------------
(* What is about to be written is coherent, however incoherent the copy in *)
(* memory becomes when nothing is to be written.                           *)
StatusInv ==
  /\ StatusCoherent
  /\ pc \in {"setProgressing", "setReady", "setDegraded"} => Coherent(obj)

LEMMA NewStatusCoherent ==
  ASSUME NEW o \in Object, NEW t \in CondTypes, NEW msg \in Messages,
         Changed(o.conds, t, o.gen, msg)
  PROVE  Coherent(SetStatus(o, t, msg))
<1> DEFINE new == SetStatus(o, t, msg)
<1>1. new.phase = t /\ new.conds = SetConditionStatus(o.conds, t, o.gen, msg)
  BY DEF SetStatus, Object
<1> HIDE DEF new
<1>2. ASSUME NEW u \in CondTypes
      PROVE  new.conds[u].status = "True" <=> u = t
  <2>1. o.conds[u] \in Condition
    BY DEF Object
  <2>2. CASE u = t
    BY <1>1, <2>2 DEF SetConditionStatus
  <2>3. CASE u # t
    <3>1. new.conds[u] = IF o.conds[u].status = "Absent" THEN o.conds[u]
                         ELSE [o.conds[u] EXCEPT !.status = "False"]
      BY <1>1, <2>3 DEF SetConditionStatus
    <3>2. QED
      BY <2>1, <2>3, <3>1 DEF Condition
  <2>4. QED
    BY <2>2, <2>3
<1> USE DEF new
<1>3. QED
  BY <1>1, <1>2 DEF Coherent

LEMMA NoObjectCoherent == Coherent(NoObject)
  BY DEF Coherent, NoObject, NoConditions, NoCondition, CondTypes

LEMMA CommitCoherent ==
  ASSUME LoopTypeOK, StatusCoherent, NEW k \in Keys, NEW o \in Object, Commit(k, o), Coherent(o)
  PROVE  StatusCoherent'
<1> DEFINE new == IF o.deleting /\ o.finalizers = {}
                  THEN [NoObject EXCEPT !.rv = o.rv + 1]
                  ELSE [o EXCEPT !.rv = @ + 1]
<1>1. Coherent(new)
  BY NoObjectCoherent DEF Object, Coherent, NoObject
<1>2. CASE o = api[k]
  BY <1>2 DEF Commit, objects, StatusCoherent
<1>3. CASE o # api[k]
  <2>1. api' = [api EXCEPT ![k] = new]
    BY <1>3 DEF Commit
  <2> HIDE DEF new
  <2>2. QED
    BY <1>1, <2>1 DEF LoopTypeOK, StatusCoherent
<1>4. QED
  BY <1>2, <1>3

LEMMA LoopKeepsStatus ==
  ASSUME LoopTypeOK, StatusInv, LoopWorker \/ Environment \/ Restart
  PROVE  StatusInv'
<1>1. cur \in Keys /\ obj \in Object /\ \A k \in Keys : api[k] \in Object /\ api[k].gen + 1 \in Nat
  BY DEF LoopTypeOK, Object
<1>2. \A k \in Keys : Coherent(api[k])
  BY DEF StatusInv, StatusCoherent
<1>3. ASSUME NEW accepted, NEW new \in Object, NEW requeue, Request(accepted, new, requeue),
             Coherent(new)
      PROVE  StatusInv'
  <2>1. pc' = "idle" /\ (UNCHANGED objects \/ Commit(cur, new))
    BY <1>3 DEF Request, Return
  <2>2. QED
    BY <1>1, <1>3, <2>1, CommitCoherent DEF StatusInv, StatusCoherent, objects
<1>4. ASSUME NEW k \in Keys, NEW new \in Object, Commit(k, new), UNCHANGED worker, Coherent(new)
      PROVE  StatusInv'
  BY <1>4, CommitCoherent DEF StatusInv, worker, Coherent
<1>5. CASE AddFinalizer
  <2> DEFINE new == [api[cur] EXCEPT !.spec = obj.spec,
                                     !.finalizers = obj.finalizers \cup {Finalizer}]
  <2>1. new \in Object /\ new.phase = api[cur].phase /\ new.conds = api[cur].conds
    BY <1>1 DEF Object
  <2>2. Coherent(new)
    BY <1>1, <1>2, <2>1 DEF Coherent
  <2>3. QED
    BY <1>3, <1>5, <2>1, <2>2 DEF AddFinalizer
<1>6. ASSUME NEW requeue, UpdateStatus(requeue), Coherent(obj)
      PROVE  StatusInv'
  <2> DEFINE new == [api[cur] EXCEPT !.phase = obj.phase, !.conds = obj.conds]
  <2>1. new \in Object /\ new.phase = obj.phase /\ new.conds = obj.conds
    BY <1>1 DEF Object
  <2>2. Coherent(new)
    BY <1>6, <2>1 DEF Coherent
  <2>3. QED
    BY <1>3, <1>6, <2>1, <2>2 DEF UpdateStatus
<1>7. CASE RemoveFinalizer
  <2> DEFINE new == [api[cur] EXCEPT !.finalizers = obj.finalizers \ {Finalizer}]
  <2>1. new \in Object /\ new.phase = api[cur].phase /\ new.conds = api[cur].conds
    BY <1>1 DEF Object
  <2>2. Coherent(new)
    BY <1>1, <1>2, <2>1 DEF Coherent
  <2>3. QED
    BY <1>3, <1>7, <2>1, <2>2 DEF RemoveFinalizer
<1>8. ASSUME NEW k \in Keys, NEW s \in Specs, ChangeSpec(k, s)
      PROVE  StatusInv'
  <2> DEFINE new == [api[k] EXCEPT !.spec = s, !.gen = @ + 1]
  <2>1. new \in Object /\ new.phase = api[k].phase /\ new.conds = api[k].conds
    BY <1>1 DEF Object
  <2>2. Coherent(new)
    BY <1>2, <2>1 DEF Coherent
  <2>3. QED
    BY <1>4, <1>8, <2>1, <2>2 DEF ChangeSpec, Edit
<1>9. ASSUME NEW k \in Keys, NEW s \in Specs, NEW f \in SUBSET Foreign, Create(k, s, f)
      PROVE  StatusInv'
  <2> DEFINE new == [NoObject EXCEPT !.exists = TRUE, !.rv = api[k].rv, !.gen = 1,
                                     !.spec = s, !.finalizers = f]
  <2>1. new \in Object /\ new.phase = NoObject.phase /\ new.conds = NoObject.conds
    BY <1>1, NoObjectType DEF Object, NoObject
  <2>2. Coherent(new)
    BY <2>1, NoObjectCoherent DEF Coherent
  <2>3. QED
    BY <1>4, <1>9, <2>1, <2>2 DEF Create, Edit
<1>10. ASSUME NEW k \in Keys, Delete(k)
       PROVE  StatusInv'
  <2> DEFINE new == [api[k] EXCEPT !.deleting = TRUE, !.gen = @ + 1]
  <2>1. new \in Object /\ new.phase = api[k].phase /\ new.conds = api[k].conds
    BY <1>1 DEF Object
  <2>2. Coherent(new)
    BY <1>2, <2>1 DEF Coherent
  <2>3. QED
    BY <1>4, <1>10, <2>1, <2>2 DEF Delete, Edit
<1>11. ASSUME NEW k \in Keys, NEW f \in Foreign, ReleaseForeign(k, f)
       PROVE  StatusInv'
  <2> DEFINE new == [api[k] EXCEPT !.finalizers = @ \ {f}]
  <2>1. new \in Object /\ new.phase = api[k].phase /\ new.conds = api[k].conds
    BY <1>1 DEF Object
  <2>2. Coherent(new)
    BY <1>2, <2>1 DEF Coherent
  <2>3. QED
    BY <1>4, <1>11, <2>1, <2>2 DEF ReleaseForeign
<1>12. ASSUME NEW k \in Keys, Deliver(k) \/ Resync(k)
       PROVE  StatusInv'
  BY <1>12 DEF Deliver, Resync, objects, worker, StatusInv, StatusCoherent, Coherent
<1>13. ASSUME NEW k \in Keys, Get(k)
       PROVE  StatusInv'
  <2>1. api' = api /\ cache[k] \in Object /\ pc = "idle"
    BY <1>13 DEF Get, objects, LoopTypeOK
  <2>2. pc' \in {"setProgressing", "setReady", "setDegraded"} => Coherent(obj')
    <3> SUFFICES ASSUME pc' \in {"setProgressing", "setReady", "setDegraded"}
                 PROVE  Coherent(obj')
      OBVIOUS
    <3>1. cache[k].exists /\ pc' = Entry(cache[k]) /\ pc' = "setProgressing"
      BY <1>13, <2>1 DEF Get, Entry
    <3>2. /\ Changed(cache[k].conds, "Progressing", cache[k].gen, "reconciling")
          /\ ~cache[k].deleting
      BY <3>1 DEF Entry
    <3>3. obj' = SetStatus(cache[k], "Progressing", "reconciling")
      BY <1>13, <3>1, <3>2 DEF Get
    <3>4. QED
      BY <2>1, <3>2, <3>3, NewStatusCoherent DEF CondTypes, Messages
  <2>3. QED
    BY <2>1, <2>2 DEF StatusInv, StatusCoherent
<1>14. CASE Restart
  BY <1>14 DEF Restart, StatusInv, StatusCoherent
<1>15. QED
  BY <1>5, <1>6, <1>7, <1>8, <1>9, <1>10, <1>11, <1>12, <1>13, <1>14
     DEF LoopWorker, Conclude, Environment, SetProgressing, SetReady, SetDegraded, StatusInv

LEMMA ResultKeepsStatus ==
  ASSUME LoopTypeOK, StatusInv, Succeed \/ \E msg \in Errors : Fail(msg)
  PROVE  StatusInv'
<1>1. api' = api /\ obj \in Object
  BY DEF Succeed, Fail, objects, LoopTypeOK
<1>2. CASE Succeed
  BY <1>1, <1>2, NewStatusCoherent
     DEF Succeed, Return, StatusInv, StatusCoherent, CondTypes, Messages
<1>3. ASSUME NEW msg \in Errors, Fail(msg)
      PROVE  StatusInv'
  BY <1>1, <1>3, NewStatusCoherent
     DEF Fail, Return, StatusInv, StatusCoherent, CondTypes, Messages
<1>4. QED
  BY <1>2, <1>3
-------------------------------------------------------------------------------
(* Setting a status moves no condition ahead of the object's generation,   *)
(* and the phase goes with the condition that is written.                  *)
LEMMA SetStatusNotAhead ==
  ASSUME NEW o \in Object, NEW t \in CondTypes, NEW msg \in Messages,
         o.conds["Ready"].gen <= o.gen
  PROVE  /\ SetStatus(o, t, msg).gen = o.gen
         /\ SetStatus(o, t, msg).conds["Ready"].gen <= o.gen
         /\ Changed(o.conds, t, o.gen, msg) => SetStatus(o, t, msg).phase = t
<1>1. "Ready" \in CondTypes /\ o.conds \in [CondTypes -> Condition] /\ o.gen \in Nat
  BY DEF CondTypes, Object
<1>2. SetConditionStatus(o.conds, t, o.gen, msg)["Ready"].gen \in {o.gen, o.conds["Ready"].gen}
  BY <1>1 DEF SetConditionStatus, Condition
<1>3. /\ SetStatus(o, t, msg).gen = o.gen
      /\ SetStatus(o, t, msg).conds = SetConditionStatus(o.conds, t, o.gen, msg)
      /\ Changed(o.conds, t, o.gen, msg) => SetStatus(o, t, msg).phase = t
  BY DEF SetStatus, Object
<1>4. QED
  BY <1>1, <1>2, <1>3

LEMMA LoopStartsReady == LoopInit => ReadyInv
<1> SUFFICES ASSUME LoopInit PROVE ReadyInv
  OBVIOUS
<1>1. pc = "idle" /\ \A k \in Keys : Seen(k) = {NoObject} /\ api[k] = NoObject
  BY DEF LoopInit, Seen
<1>2. NoObject.conds["Ready"].gen = 0 /\ NoObject.gen = 0 /\ ~NoObject.exists
  BY DEF NoObject, NoConditions, NoCondition, CondTypes
<1>3. QED
  BY <1>1, <1>2 DEF ReadyInv, VersionsAgree, ReadyNotAhead, ReadyOnSuccess, ReadySettled,
     SaysReady, Reports

(* Reading, copying and forgetting versions.                               *)
LEMMA ReadKeepsReady ==
  ASSUME ReadyInv, api' = api, ReadyOnSuccess',
         \A k \in Keys : \A q \in Seen(k)' :
           /\ q.conds["Ready"].gen <= q.gen
           /\ \E p \in Seen(k) : Alike(q, p) /\ q.gen = p.gen
  PROVE  ReadyInv'
<1>1. VersionsAgree'
  BY DEF ReadyInv, VersionsAgree, Alike
<1>2. ReadyNotAhead'
  BY DEF ReadyInv, ReadyNotAhead
<1>3. ReadySettled'
  BY DEF ReadyInv, ReadySettled, Alike, SaysReady, Reports
<1>4. QED
  BY <1>1, <1>2, <1>3 DEF ReadyInv

(* A write of the server: an object may come to say Ready only when all    *)
(* that is seen of it agrees with it.                                      *)
LEMMA CommitKeepsReady ==
  ASSUME LoopTypeOK, LoopInv, ReadyInv, NEW k \in Keys, NEW o \in Object,
         Commit(k, o), o.rv = api[k].rv, cache' = cache, UNCHANGED worker \/ pc' = "idle",
         o.conds["Ready"].gen <= o.gen,
         Reports(o) => \A p \in Seen(k) : ~p.deleting /\ p.spec = o.spec
  PROVE  ReadyInv'
<1> DEFINE new == IF o.deleting /\ o.finalizers = {}
                  THEN [NoObject EXCEPT !.rv = o.rv + 1]
                  ELSE [o EXCEPT !.rv = @ + 1]
<1>0. ReadyOnSuccess'
  BY DEF ReadyInv, ReadyOnSuccess, worker
<1>1. CASE o = api[k]
  <2>1. api' = api /\ watch' = watch
    BY <1>1 DEF Commit, objects
  <2>2. \A j \in Keys : Seen(j)' \subseteq Seen(j)
    BY <2>1 DEF Seen, worker
  <2>3. QED
    BY <1>0, <2>1, <2>2, ReadKeepsReady DEF ReadyInv, ReadyNotAhead, Alike
<1>2. CASE o # api[k]
  <2>1. /\ new.rv = api[k].rv + 1 /\ new.conds["Ready"].gen <= new.gen
        /\ Reports(new) => Reports(o) /\ new.spec = o.spec /\ ~new.deleting
    BY DEF NoObject, NoConditions, NoCondition, CondTypes, Object, Reports
  <2>2. api' = [api EXCEPT ![k] = new] /\ watch' = [watch EXCEPT ![k] = @ \cup {new}]
    BY <1>2 DEF Commit
  <2>3. /\ api'[k] = new
        /\ \A j \in Keys \ {k} : api'[j] = api[j] /\ watch'[j] = watch[j]
        /\ watch'[k] = watch[k] \cup {new}
    BY <2>2 DEF LoopTypeOK
  <2> HIDE DEF new
  <2>4. /\ \A j \in Keys \ {k} : Seen(j)' \subseteq Seen(j)
        /\ Seen(k)' \subseteq Seen(k) \cup {new}
    BY <2>3 DEF Seen, worker
  <2>5. api[k].rv \in Nat /\ \A p \in Seen(k) : p.rv \in Nat /\ p.rv <= api[k].rv
    BY DEF LoopTypeOK, Object, Seen, LoopInv, VersionsOrdered
  <2>6. VersionsAgree'
    BY <2>1, <2>3, <2>4, <2>5 DEF ReadyInv, VersionsAgree
  <2>7. ReadyNotAhead'
    BY <2>1, <2>3, <2>4 DEF ReadyInv, ReadyNotAhead
  <2>8. ReadySettled'
    BY <2>1, <2>3, <2>4 DEF ReadyInv, ReadySettled, SaysReady, Reports
  <2>9. QED
    BY <1>0, <2>6, <2>7, <2>8 DEF ReadyInv
<1>3. QED
  BY <1>1, <1>2

(* What Current compares.                                                  *)
LEMMA CurrentAgrees ==
  ASSUME LoopTypeOK, LoopInv, ReadyInv, pc # "idle", Current
  PROVE  /\ obj.spec = api[cur].spec /\ obj.gen = api[cur].gen
         /\ obj.deleting = api[cur].deleting
         /\ \A p \in Seen(cur) : p.spec = api[cur].spec /\ p.deleting = api[cur].deleting
<1>1. cur \in Keys /\ obj \in Seen(cur) /\ obj.rv = api[cur].rv
  BY DEF LoopTypeOK, Seen, Current
<1>2. \A p \in Seen(cur) : p.rv \in Nat /\ obj.rv <= p.rv /\ p.rv <= api[cur].rv
  BY <1>1 DEF LoopTypeOK, Object, Seen, LoopInv, VersionsOrdered
<1>3. \A p \in Seen(cur) : p.rv = api[cur].rv
  BY <1>1, <1>2
<1>4. QED
  BY <1>1, <1>3 DEF LoopInv, VersionsOrdered, ReadyInv, VersionsAgree

LEMMA RequestKeepsReady ==
  ASSUME LoopTypeOK, LoopInv, ReadyInv, NEW accepted, NEW new \in Object, NEW requeue,
         Request(accepted, new, requeue),
         accepted => /\ new.rv = api[cur].rv /\ new.conds["Ready"].gen <= new.gen
                     /\ Reports(new) => \A p \in Seen(cur) : ~p.deleting /\ p.spec = new.spec
  PROVE  ReadyInv'
<1>1. pc' = "idle" /\ cache' = cache /\ cur \in Keys
  BY DEF Request, Return, LoopTypeOK
<1>2. CASE accepted /\ Commit(cur, new)
  BY <1>1, <1>2, CommitKeepsReady
<1>3. CASE UNCHANGED objects
  <2>1. \A k \in Keys : Seen(k)' \subseteq Seen(k)
    BY <1>1, <1>3 DEF Seen, objects
  <2>2. QED
    BY <1>1, <1>3, <2>1, ReadKeepsReady
       DEF objects, ReadyInv, ReadyNotAhead, ReadyOnSuccess, Alike
<1>4. QED
  BY <1>2, <1>3 DEF Request

(* Every step of the loop keeps ReadyInv.                                  *)
LEMMA LoopKeepsReady ==
  ASSUME LoopTypeOK, LoopInv, ReadyInv, LoopWorker \/ Environment \/ Restart
  PROVE  ReadyInv'
<1>1. cur \in Keys /\ obj \in Object /\ \A k \in Keys : api[k] \in Object /\ api[k].gen + 1 \in Nat
  BY DEF LoopTypeOK, Object
<1>2. /\ pc # "idle" => obj \in Seen(cur)
      /\ \A k \in Keys : \A o \in Seen(k) \cup {api[k]} : o.conds["Ready"].gen <= o.gen
  BY <1>1 DEF Seen, ReadyInv, ReadyNotAhead
<1>3. \A k \in Keys : Reports(api[k]) => \A p \in Seen(k) : ~p.deleting /\ p.spec = api[k].spec
  BY DEF ReadyInv, ReadySettled, SaysReady
<1>4. CASE AddFinalizer
  <2> DEFINE new == [api[cur] EXCEPT !.spec = obj.spec,
                                     !.finalizers = obj.finalizers \cup {Finalizer}]
  <2>1. /\ new \in Object /\ new.rv = api[cur].rv /\ new.conds = api[cur].conds
        /\ new.gen = api[cur].gen /\ new.spec = obj.spec
        /\ Reports(new) => Reports(api[cur])
    BY <1>1 DEF Object, Reports
  <2>2. pc = "addFinalizer" /\ Request(Current, new, TRUE)
    BY <1>4 DEF AddFinalizer
  <2> HIDE DEF new
  <2>3. QED
    BY <1>1, <1>2, <1>3, <2>1, <2>2, CurrentAgrees, RequestKeepsReady
<1>5. ASSUME NEW requeue, UpdateStatus(requeue),
             pc \in {"setProgressing", "setReady", "setDegraded"}
      PROVE  ReadyInv'
  <2> DEFINE new == [api[cur] EXCEPT !.phase = obj.phase, !.conds = obj.conds]
  <2>1. /\ new \in Object /\ new.rv = api[cur].rv /\ new.conds = obj.conds
        /\ new.gen = api[cur].gen /\ new.spec = api[cur].spec
        /\ Reports(new) => ~api[cur].deleting
    BY <1>1 DEF Object, Reports
  <2>2. Request(Current, new, requeue)
    BY <1>5 DEF UpdateStatus
  <2> HIDE DEF new
  <2>3. QED
    BY <1>1, <1>2, <1>5, <2>1, <2>2, CurrentAgrees, RequestKeepsReady
<1>6. CASE RemoveFinalizer
  <2> DEFINE new == [api[cur] EXCEPT !.finalizers = obj.finalizers \ {Finalizer}]
             accepted == api[cur].exists
               /\ (api[cur].deleting => obj.finalizers \ {Finalizer} \subseteq api[cur].finalizers)
  <2>1. /\ new \in Object /\ new.rv = api[cur].rv /\ new.conds = api[cur].conds
        /\ new.gen = api[cur].gen /\ new.spec = api[cur].spec
        /\ Reports(new) => Reports(api[cur])
    BY <1>1 DEF Object, Reports
  <2>2. Request(accepted, new, FALSE)
    BY <1>6 DEF RemoveFinalizer
  <2> HIDE DEF new, accepted
  <2>3. QED
    BY <1>1, <1>2, <1>3, <2>1, <2>2, RequestKeepsReady
<1>7. ASSUME NEW k \in Keys, NEW s \in Specs, ChangeSpec(k, s)
      PROVE  ReadyInv'
  <2> DEFINE new == [api[k] EXCEPT !.spec = s, !.gen = @ + 1]
  <2>1. new \in Object /\ new.rv = api[k].rv /\ new.conds = api[k].conds
        /\ new.gen = api[k].gen + 1
    BY <1>1 DEF Object
  <2>2. new.conds["Ready"].gen # new.gen /\ new.conds["Ready"].gen <= new.gen
    BY <1>1, <1>2, <2>1 DEF Object, Condition, CondTypes
  <2>3. Commit(k, new) /\ UNCHANGED <<cache, worker>>
    BY <1>7 DEF ChangeSpec, Edit
  <2> HIDE DEF new
  <2>4. ~Reports(new) /\ new.conds["Ready"].gen <= new.gen
    BY <2>2 DEF Reports
  <2>5. QED
    BY <2>1, <2>3, <2>4, CommitKeepsReady
<1>8. ASSUME NEW k \in Keys, NEW s \in Specs, NEW f \in SUBSET Foreign, Create(k, s, f)
      PROVE  ReadyInv'
  <2> DEFINE new == [NoObject EXCEPT !.exists = TRUE, !.rv = api[k].rv, !.gen = 1,
                                     !.spec = s, !.finalizers = f]
  <2>0. "" # "Ready"
    OBVIOUS
  <2>1. new \in Object /\ new.rv = api[k].rv /\ new.phase # "Ready" /\ new.gen = 1
        /\ new.conds = NoConditions
    BY <1>1, <2>0, NoObjectType DEF Object, NoObject
  <2>2. Commit(k, new) /\ UNCHANGED <<cache, worker>>
    BY <1>8 DEF Create, Edit
  <2> HIDE DEF new
  <2>3. NoConditions["Ready"].gen = 0
    BY DEF NoConditions, NoCondition, CondTypes
  <2>4. ~Reports(new) /\ new.conds["Ready"].gen <= new.gen
    BY <2>1, <2>3 DEF Reports
  <2>5. QED
    BY <2>1, <2>2, <2>4, CommitKeepsReady
<1>9. ASSUME NEW k \in Keys, Delete(k)
      PROVE  ReadyInv'
  <2> DEFINE new == [api[k] EXCEPT !.deleting = TRUE, !.gen = @ + 1]
  <2>1. new \in Object /\ new.rv = api[k].rv /\ new.conds = api[k].conds
        /\ new.gen = api[k].gen + 1 /\ new.deleting
    BY <1>1 DEF Object
  <2>2. Commit(k, new) /\ UNCHANGED <<cache, worker>>
    BY <1>9 DEF Delete, Edit
  <2>3. new.conds["Ready"].gen <= new.gen
    BY <1>1, <1>2, <2>1 DEF Object, Condition, CondTypes
  <2> HIDE DEF new
  <2>4. ~Reports(new)
    BY <2>1 DEF Reports
  <2>5. QED
    BY <2>1, <2>2, <2>3, <2>4, CommitKeepsReady
<1>10. ASSUME NEW k \in Keys, NEW f \in Foreign, ReleaseForeign(k, f)
       PROVE  ReadyInv'
  <2> DEFINE new == [api[k] EXCEPT !.finalizers = @ \ {f}]
  <2>1. new \in Object /\ new.rv = api[k].rv /\ new.conds = api[k].conds
        /\ new.gen = api[k].gen /\ new.deleting = api[k].deleting
    BY <1>1 DEF Object
  <2>2. Commit(k, new) /\ UNCHANGED <<cache, worker>> /\ api[k].deleting
    BY <1>10 DEF ReleaseForeign
  <2> HIDE DEF new
  <2>3. ~Reports(new)
    BY <2>1, <2>2 DEF Reports
  <2>4. QED
    BY <1>2, <2>1, <2>2, <2>3, CommitKeepsReady
<1>11. ASSUME NEW k \in Keys, Deliver(k)
       PROVE  ReadyInv'
  <2>1. PICK o \in watch[k] : /\ cache' = [cache EXCEPT ![k] = o]
                              /\ watch' = [watch EXCEPT ![k] = @ \ {o}]
    BY <1>11 DEF Deliver
  <2>2. api' = api /\ UNCHANGED worker
    BY <1>11 DEF Deliver
  <2>3. \A j \in Keys : Seen(j)' \subseteq Seen(j)
    BY <2>1, <2>2 DEF Seen, worker, LoopTypeOK
  <2>4. QED
    BY <1>2, <2>2, <2>3, ReadKeepsReady DEF ReadyInv, ReadyOnSuccess, worker, Alike
<1>12. ASSUME NEW k \in Keys, Resync(k)
       PROVE  ReadyInv'
  <2>1. UNCHANGED <<api, watch, cache, worker>>
    BY <1>12 DEF Resync, objects
  <2>2. \A j \in Keys : Seen(j)' = Seen(j)
    BY <2>1 DEF Seen, worker
  <2>3. QED
    BY <1>2, <2>1, <2>2, ReadKeepsReady DEF ReadyInv, ReadyOnSuccess, worker, Alike
<1>13. CASE Restart
  <2>1. api' = api /\ pc' = "idle" /\ \A k \in Keys : Seen(k)' = {api[k]}
    BY <1>13 DEF Restart, Seen
  <2>2. QED
    BY <1>2, <1>3, <2>1 DEF ReadyInv, VersionsAgree, ReadyNotAhead, ReadyOnSuccess,
       ReadySettled, SaysReady, Reports
<1>14. ASSUME NEW k \in Keys, Get(k)
       PROVE  ReadyInv'
  <2>1. /\ api' = api /\ watch' = watch /\ cache' = cache /\ cur' = k /\ pc = "idle"
        /\ cache[k] \in Object /\ cache[k] \in Seen(k)
    BY <1>14 DEF Get, objects, LoopTypeOK, Seen
  <2>2. ~cache[k].exists => pc' = "idle"
    BY <1>14, <2>1 DEF Get
  <2> DEFINE new == SetStatus(cache[k], "Progressing", "reconciling")
  <2>3. /\ new.gen = cache[k].gen /\ new.conds["Ready"].gen <= new.gen /\ Alike(new, cache[k])
        /\ Changed(cache[k].conds, "Progressing", cache[k].gen, "reconciling")
             => new.phase = "Progressing"
    <3>1. cache[k].conds["Ready"].gen <= cache[k].gen
      BY <1>2, <2>1
    <3>2. Alike(new, cache[k])
      BY <2>1, SetStatusKeeps, StatusWords, SMTT(30) DEF Alike
    <3>3. QED
      BY <2>1, <3>1, <3>2, SetStatusNotAhead, StatusWords
  <2> HIDE DEF new
  <2>4. cache[k].exists =>
          /\ obj' \in {new, cache[k]}
          /\ pc' \notin {"setDegraded"}
          /\ pc' = "setProgressing" =>
               obj' = new /\ Changed(cache[k].conds, "Progressing", cache[k].gen, "reconciling")
    BY <1>14 DEF Get, Entry, new
  <2>5. ReadyOnSuccess'
    BY <2>2, <2>3, <2>4 DEF ReadyOnSuccess
  <2>6. \A j \in Keys : Seen(j)' \subseteq Seen(j) \cup IF j = k THEN {new} ELSE {}
    BY <2>1, <2>2, <2>4 DEF Seen
  <2>7. QED
    BY <1>2, <2>1, <2>3, <2>5, <2>6, ReadKeepsReady DEF Alike
<1>15. QED
  BY <1>4, <1>5, <1>6, <1>7, <1>8, <1>9, <1>10, <1>11, <1>12, <1>13, <1>14
     DEF LoopWorker, Conclude, Environment, SetProgressing, SetReady, SetDegraded

LEMMA ResultKeepsReady ==
  ASSUME LoopTypeOK, ReadyInv, Succeed \/ \E msg \in Errors : Fail(msg)
  PROVE  ReadyInv'
<1>1. /\ api' = api /\ watch' = watch /\ cache' = cache /\ cur' = cur /\ pc = "resource"
      /\ cur \in Keys /\ obj \in Object /\ obj \in Seen(cur)
  BY DEF Succeed, Fail, objects, LoopTypeOK, Seen
<1>2. \A k \in Keys : \A o \in Seen(k) : o.conds["Ready"].gen <= o.gen
  BY DEF ReadyInv, ReadyNotAhead
<1>3. ASSUME NEW t \in CondTypes, NEW msg \in Messages,
             obj' = SetStatus(obj, t, msg), t = "Ready" => pc' = "setReady",
             pc' # "setProgressing", Changed(obj.conds, t, obj.gen, msg)
      PROVE  ReadyInv'
  <2>1. /\ obj'.gen = obj.gen /\ obj'.conds["Ready"].gen <= obj'.gen /\ Alike(obj', obj)
        /\ obj'.phase = t
    BY <1>1, <1>2, <1>3, SetStatusNotAhead, SetStatusKeeps DEF Alike
  <2>2. ReadyOnSuccess'
    BY <1>3, <2>1 DEF ReadyOnSuccess
  <2>3. \A j \in Keys : Seen(j)' \subseteq Seen(j) \cup IF j = cur THEN {obj'} ELSE {}
    BY <1>1 DEF Seen
  <2>4. QED
    BY <1>1, <1>2, <2>1, <2>2, <2>3, ReadKeepsReady DEF Alike
<1>4. ASSUME pc' \in {"idle", "removeFinalizer"}, pc' = "idle" \/ obj' = obj
      PROVE  ReadyInv'
  <2>1. \A j \in Keys : Seen(j)' \subseteq Seen(j)
    BY <1>1, <1>4 DEF Seen
  <2>2. QED
    BY <1>1, <1>2, <1>4, <2>1, ReadKeepsReady DEF Alike, ReadyOnSuccess
<1>5. CASE Succeed
  BY <1>3, <1>4, <1>5 DEF Succeed, Return, CondTypes, Messages
<1>6. ASSUME NEW msg \in Errors, Fail(msg)
      PROVE  ReadyInv'
  BY <1>3, <1>4, <1>6 DEF Fail, Return, CondTypes, Messages
<1>7. QED
  BY <1>5, <1>6

(* An object comes to say Ready only by the worker's last request, and     *)
(* then of the spec the worker has in its memory.                          *)
LEMMA ReadyArises ==
  ASSUME LoopTypeOK, LoopInv, ReadyInv, LoopWorker \/ Environment \/ Restart,
         NEW k \in Keys, SaysReady(k)'
  PROVE  /\ api'[k].spec = api[k].spec
         /\ SaysReady(k) \/ (/\ pc = "setReady" /\ k = cur /\ Current
                             /\ obj.spec = api[k].spec /\ ~obj.deleting)
<1> DEFINE Goal == /\ api'[k].spec = api[k].spec
                   /\ SaysReady(k) \/ (/\ pc = "setReady" /\ k = cur /\ Current
                                       /\ obj.spec = api[k].spec /\ ~obj.deleting)
<1>1. cur \in Keys /\ obj \in Object /\ \A j \in Keys : api[j] \in Object /\ api[j].gen + 1 \in Nat
  BY DEF LoopTypeOK, Object
<1>2. /\ api[k].conds["Ready"].gen <= api[k].gen
      /\ api[k].conds["Ready"].gen \in Nat /\ api[k].gen \in Nat
  BY <1>1 DEF ReadyInv, ReadyNotAhead, Object, Condition, CondTypes
<1>3. CASE api'[k] = api[k]
  BY <1>3 DEF SaysReady, Reports
<1>4. ASSUME NEW j \in Keys, NEW o \in Object, Commit(j, o), api'[k] # api[k]
      PROVE  j = k /\ Reports(o) /\ o.spec = api'[k].spec
  <2> DEFINE new == IF o.deleting /\ o.finalizers = {}
                    THEN [NoObject EXCEPT !.rv = o.rv + 1]
                    ELSE [o EXCEPT !.rv = @ + 1]
  <2>1. Reports(new) => Reports(o) /\ new.spec = o.spec
    BY DEF NoObject, Object, Reports
  <2>2. api' = [api EXCEPT ![j] = new]
    BY <1>4 DEF Commit, objects
  <2> HIDE DEF new
  <2>3. QED
    BY <1>4, <2>1, <2>2 DEF LoopTypeOK, SaysReady, Reports
<1> HIDE DEF Goal
<1>5. CASE AddFinalizer /\ api'[k] # api[k]
  <2> DEFINE new == [api[cur] EXCEPT !.spec = obj.spec,
                                     !.finalizers = obj.finalizers \cup {Finalizer}]
  <2>1. /\ new \in Object /\ new.spec = obj.spec
        /\ Reports(new) => Reports(api[cur])
    BY <1>1 DEF Object, Reports
  <2>2. pc = "addFinalizer" /\ Commit(cur, new) /\ Current
    BY <1>5 DEF AddFinalizer, Request, objects
  <2> HIDE DEF new
  <2>3. QED
    BY <1>1, <1>4, <1>5, <2>1, <2>2, CurrentAgrees DEF Goal, SaysReady
<1>6. ASSUME NEW requeue, UpdateStatus(requeue), api'[k] # api[k],
             pc \in {"setProgressing", "setReady", "setDegraded"}
      PROVE  Goal
  <2> DEFINE new == [api[cur] EXCEPT !.phase = obj.phase, !.conds = obj.conds]
  <2>1. /\ new \in Object /\ new.spec = api[cur].spec
        /\ Reports(new) => ~api[cur].deleting /\ obj.phase = "Ready"
    BY <1>1 DEF Object, Reports
  <2>2. Commit(cur, new) /\ Current
    BY <1>6 DEF UpdateStatus, Request, objects
  <2> HIDE DEF new
  <2>3. QED
    BY <1>1, <1>4, <1>6, <2>1, <2>2, CurrentAgrees DEF Goal, ReadyInv, ReadyOnSuccess
<1>7. CASE RemoveFinalizer /\ api'[k] # api[k]
  <2> DEFINE new == [api[cur] EXCEPT !.finalizers = obj.finalizers \ {Finalizer}]
  <2>1. /\ new \in Object /\ new.spec = api[cur].spec
        /\ Reports(new) => Reports(api[cur])
    BY <1>1 DEF Object, Reports
  <2>2. Commit(cur, new)
    BY <1>7 DEF RemoveFinalizer, Request, objects
  <2> HIDE DEF new
  <2>3. QED
    BY <1>1, <1>4, <1>7, <2>1, <2>2 DEF Goal, SaysReady
<1>8. ASSUME NEW j \in Keys, NEW s \in Specs, ChangeSpec(j, s)
      PROVE  api'[k] = api[k]
  <2> DEFINE new == [api[j] EXCEPT !.spec = s, !.gen = @ + 1]
  <2>1. new \in Object /\ new.conds = api[j].conds /\ new.gen = api[j].gen + 1
    BY <1>1 DEF Object
  <2>2. Commit(j, new)
    BY <1>8 DEF ChangeSpec, Edit
  <2> HIDE DEF new
  <2>3. QED
    BY <1>1, <1>2, <1>4, <2>1, <2>2 DEF Reports
<1>9. ASSUME NEW j \in Keys, NEW s \in Specs, NEW f \in SUBSET Foreign, Create(j, s, f)
      PROVE  api'[k] = api[k]
  <2> DEFINE new == [NoObject EXCEPT !.exists = TRUE, !.rv = api[j].rv, !.gen = 1,
                                     !.spec = s, !.finalizers = f]
  <2>1. new \in Object /\ new.phase = ""
    BY <1>1, NoObjectType DEF Object, NoObject
  <2>2. Commit(j, new)
    BY <1>9 DEF Create, Edit
  <2> HIDE DEF new
  <2>3. QED
    BY <1>4, <2>1, <2>2 DEF Reports
<1>10. ASSUME NEW j \in Keys, Delete(j)
       PROVE  api'[k] = api[k]
  <2> DEFINE new == [api[j] EXCEPT !.deleting = TRUE, !.gen = @ + 1]
  <2>1. new \in Object /\ new.deleting
    BY <1>1 DEF Object
  <2>2. Commit(j, new)
    BY <1>10 DEF Delete, Edit
  <2> HIDE DEF new
  <2>3. QED
    BY <1>4, <2>1, <2>2 DEF Reports
<1>11. ASSUME NEW j \in Keys, NEW f \in Foreign, ReleaseForeign(j, f)
       PROVE  api'[k] = api[k]
  <2> DEFINE new == [api[j] EXCEPT !.finalizers = @ \ {f}]
  <2>1. new \in Object /\ new.deleting
    BY <1>1, <1>11 DEF Object, ReleaseForeign
  <2>2. Commit(j, new)
    BY <1>11 DEF ReleaseForeign
  <2> HIDE DEF new
  <2>3. QED
    BY <1>4, <2>1, <2>2 DEF Reports
<1>12. ASSUME NEW j \in Keys, Get(j) \/ Deliver(j) \/ Resync(j) \/ Restart
       PROVE  api'[k] = api[k]
  BY <1>12 DEF Get, Deliver, Resync, Restart, objects
<1>13. Goal
  BY <1>1, <1>3, <1>5, <1>6, <1>7, <1>8, <1>9, <1>10, <1>11, <1>12
     DEF Goal, LoopWorker, Conclude, Environment, SetProgressing, SetReady, SetDegraded
<1>14. QED
  BY <1>13 DEF Goal
-------------------------------------------------------------------------------
LEMMA CommitSeen ==
  ASSUME LoopTypeOK, NEW k \in Keys, NEW o, Commit(k, o), cache' = cache,
         UNCHANGED worker \/ pc' = "idle"
  PROVE  \A j \in Keys : Seen(j)' \subseteq Seen(j) \cup {api'[j]}
<1> DEFINE new == IF o.deleting /\ o.finalizers = {}
                  THEN [NoObject EXCEPT !.rv = o.rv + 1]
                  ELSE [o EXCEPT !.rv = @ + 1]
<1>1. CASE o = api[k]
  BY <1>1 DEF Commit, objects, Seen, worker
<1>2. CASE o # api[k]
  <2>1. api' = [api EXCEPT ![k] = new] /\ watch' = [watch EXCEPT ![k] = @ \cup {new}]
    BY <1>2 DEF Commit
  <2> HIDE DEF new
  <2>2. \A j \in Keys : watch'[j] \subseteq watch[j] \cup {api'[j]}
    BY <2>1 DEF LoopTypeOK
  <2>3. QED
    BY <2>2 DEF Seen, worker
<1>3. QED
  BY <1>1, <1>2

(* What the operator may act on after a step of the loop it might have     *)
(* acted on before, but for a version the server has just stored.          *)
LEMMA SeenSteps ==
  ASSUME LoopTypeOK, LoopInv, LoopWorker \/ Environment \/ Restart,
         NEW k \in Keys, NEW q \in Seen(k)'
  PROVE  q = api'[k] \/ \E p \in Seen(k) : Alike(q, p)
<1>1. cur \in Keys /\ \A p : Alike(p, p)
  BY DEF LoopTypeOK, Alike
<1>2. ASSUME Seen(k)' \subseteq Seen(k) \cup {api'[k]}
      PROVE  q = api'[k] \/ \E p \in Seen(k) : Alike(q, p)
  BY <1>1, <1>2
<1>3. ASSUME NEW accepted, NEW new, NEW requeue, Request(accepted, new, requeue)
      PROVE  Seen(k)' \subseteq Seen(k) \cup {api'[k]}
  <2>1. pc' = "idle" /\ cache' = cache
    BY <1>3 DEF Request, Return
  <2>2. CASE UNCHANGED objects
    BY <2>1, <2>2 DEF objects, Seen
  <2>3. QED
    BY <1>1, <1>3, <2>1, <2>2, CommitSeen DEF Request
<1>4. CASE Conclude
  BY <1>2, <1>3, <1>4 DEF Conclude, AddFinalizer, SetProgressing, RemoveFinalizer, SetReady,
     SetDegraded, UpdateStatus
<1>5. ASSUME NEW j \in Keys, NEW o, Commit(j, o), UNCHANGED <<cache, worker>>
      PROVE  q = api'[k] \/ \E p \in Seen(k) : Alike(q, p)
  BY <1>2, <1>5, CommitSeen
<1>6. ASSUME NEW j \in Keys, Get(j)
      PROVE  q = api'[k] \/ \E p \in Seen(k) : Alike(q, p)
  <2>1. /\ watch' = watch /\ cache' = cache /\ cur' = j /\ pc = "idle"
        /\ cache[j] \in Object /\ (~cache[j].exists => pc' = "idle")
    BY <1>6 DEF Get, objects, LoopTypeOK
  <2>2. Alike(SetStatus(cache[j], "Progressing", "reconciling"), cache[j])
    BY <2>1, SetStatusKeeps, StatusWords, SMTT(30) DEF Alike
  <2>3. pc' # "idle" => Alike(obj', cache[j])
    BY <1>1, <1>6, <2>1, <2>2 DEF Get
  <2>4. QED
    BY <1>1, <2>1, <2>3 DEF Seen
<1>7. ASSUME NEW j \in Keys, Deliver(j)
      PROVE  q = api'[k] \/ \E p \in Seen(k) : Alike(q, p)
  <2>1. Seen(k)' \subseteq Seen(k)
    BY <1>7 DEF Deliver, Seen, worker, LoopTypeOK
  <2>2. QED
    BY <1>2, <2>1
<1>8. ASSUME NEW j \in Keys, Resync(j)
      PROVE  q = api'[k] \/ \E p \in Seen(k) : Alike(q, p)
  BY <1>2, <1>8 DEF Resync, objects, worker, Seen
<1>9. CASE Restart
  BY <1>9 DEF Restart, Seen
<1>10. CASE Environment
  BY <1>5, <1>7, <1>8, <1>10 DEF Environment, ChangeSpec, Create, Delete, ReleaseForeign, Edit
<1>11. QED
  BY <1>4, <1>6, <1>9, <1>10 DEF LoopWorker

(* Nor does the outcome of ReconcileResource show it anything new.         *)
LEMMA ResultSeen ==
  ASSUME LoopTypeOK, Succeed \/ \E msg \in Errors : Fail(msg)
  PROVE  /\ UNCHANGED <<api, watch, cache, cur>>
         /\ pc' # "idle" => Alike(obj', obj)
         /\ \A k \in Keys : \A q \in Seen(k)' : \E p \in Seen(k) : Alike(q, p)
<1>1. UNCHANGED <<api, watch, cache, cur>> /\ pc = "resource"
  BY DEF Succeed, Fail, objects
<1>2. obj \in Object /\ Alike(obj, obj)
  BY DEF LoopTypeOK, Alike
<1>3. \A t \in CondTypes, msg \in Messages : Alike(SetStatus(obj, t, msg), obj)
  BY <1>2, SetStatusKeeps DEF Alike
<1>4. pc' # "idle" => Alike(obj', obj)
  <2>1. CASE Succeed
    BY <1>2, <1>3, <2>1, StatusWords DEF Succeed, Return
  <2>2. ASSUME NEW msg \in Errors, Fail(msg)
        PROVE  pc' # "idle" => Alike(obj', obj)
    BY <1>2, <1>3, <2>2, StatusWords DEF Fail, Return
  <2>3. QED
    BY <2>1, <2>2
<1>5. QED
  BY <1>1, <1>4 DEF Seen, Alike

(* Users do not guard an object.                                           *)
LEMMA EnvironmentNeverGuards ==
  ASSUME LoopTypeOK, Environment \/ Restart, NEW j \in Keys, Guarded(api'[j])
  PROVE  Guarded(api[j])
<1>1. \A k \in Keys : api[k] \in Object /\ api[k].gen + 1 \in Nat
  BY DEF LoopTypeOK, Object
<1>2. ASSUME NEW k \in Keys, NEW o \in Object, Commit(k, o), Guarded(o) => Guarded(api[k])
      PROVE  Guarded(api[j])
  <2> DEFINE new == IF o.deleting /\ o.finalizers = {}
                    THEN [NoObject EXCEPT !.rv = o.rv + 1]
                    ELSE [o EXCEPT !.rv = @ + 1]
  <2>1. Guarded(new) => Guarded(o)
    BY DEF Object, Guarded, NoObject
  <2>2. api' = api \/ api' = [api EXCEPT ![k] = new]
    BY <1>2 DEF Commit, objects
  <2> HIDE DEF new
  <2>3. QED
    BY <1>2, <2>1, <2>2 DEF LoopTypeOK
<1>3. ASSUME NEW k \in Keys, NEW s \in Specs, ChangeSpec(k, s)
      PROVE  Guarded(api[j])
  <2> DEFINE new == [api[k] EXCEPT !.spec = s, !.gen = @ + 1]
  <2>1. new \in Object /\ (Guarded(new) => Guarded(api[k]))
    BY <1>1 DEF Object, Guarded
  <2>2. QED
    BY <1>2, <1>3, <2>1 DEF ChangeSpec, Edit
<1>4. ASSUME NEW k \in Keys, NEW s \in Specs, NEW f \in SUBSET Foreign, Create(k, s, f)
      PROVE  Guarded(api[j])
  <2> DEFINE new == [NoObject EXCEPT !.exists = TRUE, !.rv = api[k].rv, !.gen = 1,
                                     !.spec = s, !.finalizers = f]
  <2>1. new \in Object /\ ~Guarded(new)
    BY <1>1, NoObjectType, LoopAssumption DEF Object, NoObject, Guarded
  <2>2. QED
    BY <1>2, <1>4, <2>1 DEF Create, Edit
<1>5. ASSUME NEW k \in Keys, Delete(k)
      PROVE  Guarded(api[j])
  <2> DEFINE new == [api[k] EXCEPT !.deleting = TRUE, !.gen = @ + 1]
  <2>1. new \in Object /\ (Guarded(new) => Guarded(api[k]))
    BY <1>1 DEF Object, Guarded
  <2>2. QED
    BY <1>2, <1>5, <2>1 DEF Delete, Edit
<1>6. ASSUME NEW k \in Keys, NEW f \in Foreign, ReleaseForeign(k, f)
      PROVE  Guarded(api[j])
  <2> DEFINE new == [api[k] EXCEPT !.finalizers = @ \ {f}]
  <2>1. new \in Object /\ (Guarded(new) => Guarded(api[k]))
    BY <1>1 DEF Object, Guarded
  <2>2. QED
    BY <1>2, <1>6, <2>1 DEF ReleaseForeign
<1>7. ASSUME NEW k \in Keys, Deliver(k) \/ Resync(k) \/ Restart
      PROVE  Guarded(api[j])
  BY <1>7 DEF Deliver, Resync, Restart, objects
<1>8. QED
  BY <1>3, <1>4, <1>5, <1>6, <1>7 DEF Environment
-------------------------------------------------------------------------------
(* What may become of one object in one step, seen from outside, when the  *)
(* thing it names is held on a server or is not.                           *)
Moves(k, held) ==
  LET c  == ClaimOf(api[k])
      c1 == ClaimOf(api'[k])
      g  == Guarded(api[k])
      g1 == Guarded(api'[k])
  IN  \/ c1 = c /\ g1 = g
      \/ c = "none" /\ c1 = "open" /\ g1 = g
      \/ c = "open" /\ c1 = "closing" /\ g1 = g
      \/ c = "open" /\ c1 = "none" /\ ~g /\ ~g1
      \/ c = "open" /\ c1 = "open" /\ g1
      \/ c = "closing" /\ c1 \in {"closing", "none"} /\ ~held /\ ~g1

LEMMA CommitMoves ==
  ASSUME LoopTypeOK, NEW k \in Keys, NEW o \in Object, Commit(k, o)
  PROVE  /\ \A j \in Keys \ {k} : api'[j] = api[j]
         /\ \/ ClaimOf(api'[k]) = ClaimOf(o)
            \/ o.deleting /\ ~Guarded(o) /\ ClaimOf(api'[k]) = "none"
         /\ Guarded(api'[k]) = Guarded(o)
<1> DEFINE new == IF o.deleting /\ o.finalizers = {}
                  THEN [NoObject EXCEPT !.rv = o.rv + 1]
                  ELSE [o EXCEPT !.rv = @ + 1]
<1>1. Guarded(new) = Guarded(o)
  BY DEF Object, Guarded, NoObject
<1>2. ClaimOf(new) = ClaimOf(o)
      \/ (o.deleting /\ ~Guarded(o) /\ ClaimOf(new) = "none")
  BY DEF Object, Guarded, NoObject, ClaimOf
<1>3. CASE o = api[k]
  BY <1>3 DEF Commit, objects
<1>4. CASE o # api[k]
  <2>1. api' = [api EXCEPT ![k] = new]
    BY <1>4 DEF Commit
  <2> HIDE DEF new
  <2>2. QED
    BY <1>1, <1>2, <2>1 DEF LoopTypeOK
<1>5. QED
  BY <1>3, <1>4

(* What the loop may make of one object while things are held for some     *)
(* objects, all of them guarded.                                           *)
LEMMA LoopMoves ==
  ASSUME LoopTypeOK, LoopInv, NEW held, \A k \in held : Guarded(api[k]),
         pc = "removeFinalizer" => cur \notin held, LoopWorker \/ Environment \/ Restart
  PROVE  \E k \in Keys : (\A j \in Keys \ {k} : api'[j] = api[j]) /\ Moves(k, k \in held)
<1> DEFINE Goal == \E k \in Keys : (\A j \in Keys \ {k} : api'[j] = api[j]) /\ Moves(k, k \in held)
<1>1. cur \in Keys /\ obj \in Object
      /\ \A k \in Keys : api[k] \in Object /\ api[k].gen + 1 \in Nat
  BY DEF LoopTypeOK, Object
<1>2. CASE api' = api
  BY <1>1, <1>2 DEF Moves
<1>3. ASSUME NEW k \in Keys, NEW o \in Object, Commit(k, o),
             ClaimOf(o) = ClaimOf(api[k]), Guarded(o) = Guarded(api[k]),
             o.deleting => ClaimOf(api[k]) # "open"
      PROVE  Goal
  <2>1. ~Guarded(o) => k \notin held
    BY <1>3
  <2>2. Moves(k, k \in held)
    BY <1>3, <2>1, CommitMoves DEF Moves, ClaimOf
  <2>3. QED
    BY <1>3, <2>2, CommitMoves
<1>4. ASSUME Current
      PROVE  obj.deleting = api[cur].deleting \/ pc = "idle"
  BY <1>1, <1>4 DEF Current, LoopInv, VersionsOrdered, Seen
<1>5. CASE AddFinalizer /\ api' # api
  <2> DEFINE new == [api[cur] EXCEPT !.spec = obj.spec,
                                     !.finalizers = obj.finalizers \cup {Finalizer}]
  <2>1. new \in Object /\ new.exists = api[cur].exists /\ new.deleting = api[cur].deleting
        /\ Finalizer \in new.finalizers
    BY <1>1 DEF Object
  <2>2. Commit(cur, new) /\ Current /\ pc = "addFinalizer"
    BY <1>5 DEF AddFinalizer, Request, objects
  <2>3. ~api[cur].deleting /\ api[cur].exists
    BY <1>1, <1>4, <2>2 DEF Current, LoopInv, WorkerChecked
  <2> HIDE DEF new
  <2>4. Moves(cur, cur \in held)
    BY <1>1, <2>1, <2>2, <2>3, CommitMoves DEF Moves, ClaimOf, Guarded
  <2>5. QED
    BY <1>1, <2>1, <2>2, <2>4, CommitMoves
<1>6. ASSUME NEW requeue, UpdateStatus(requeue), api' # api
      PROVE  Goal
  <2> DEFINE new == [api[cur] EXCEPT !.phase = obj.phase, !.conds = obj.conds]
  <2>1. new \in Object /\ new.exists = api[cur].exists /\ new.deleting = api[cur].deleting
        /\ new.finalizers = api[cur].finalizers
    BY <1>1 DEF Object
  <2>2. Commit(cur, new)
    BY <1>6 DEF UpdateStatus, Request, objects
  <2> HIDE DEF new
  <2>3. QED
    BY <1>1, <1>3, <2>1, <2>2 DEF ClaimOf, Guarded
<1>7. CASE RemoveFinalizer /\ api' # api
  <2> DEFINE new == [api[cur] EXCEPT !.finalizers = obj.finalizers \ {Finalizer}]
  <2>1. new \in Object /\ new.exists = api[cur].exists /\ new.deleting = api[cur].deleting
        /\ Finalizer \notin new.finalizers
    BY <1>1 DEF Object
  <2>2. Commit(cur, new) /\ pc = "removeFinalizer"
    BY <1>7 DEF RemoveFinalizer, Request, objects
  <2> HIDE DEF new
  <2>3. ~LiveGuarded(api[cur])
    BY <1>1, <2>2 DEF LoopInv, WorkerChecked, NotResurrected, VersionsOrdered, Seen
  <2>4. cur \notin held
    BY <2>2
  <2>5. Moves(cur, cur \in held)
    BY <1>1, <2>1, <2>2, <2>3, <2>4, CommitMoves DEF Moves, ClaimOf, Guarded, LiveGuarded
  <2>6. QED
    BY <1>1, <2>1, <2>2, <2>5, CommitMoves
<1>8. ASSUME NEW k \in Keys, NEW s \in Specs, ChangeSpec(k, s)
      PROVE  Goal
  <2> DEFINE new == [api[k] EXCEPT !.spec = s, !.gen = @ + 1]
  <2>1. new \in Object /\ new.exists = api[k].exists /\ new.deleting = api[k].deleting
        /\ new.finalizers = api[k].finalizers
    BY <1>1 DEF Object
  <2>2. Commit(k, new)
    BY <1>8 DEF ChangeSpec, Edit
  <2> HIDE DEF new
  <2>3. QED
    BY <1>3, <2>1, <2>2 DEF ClaimOf, Guarded
<1>9. ASSUME NEW k \in Keys, NEW s \in Specs, NEW f \in SUBSET Foreign, Create(k, s, f)
      PROVE  Goal
  <2> DEFINE new == [NoObject EXCEPT !.exists = TRUE, !.rv = api[k].rv, !.gen = 1,
                                     !.spec = s, !.finalizers = f]
  <2>1. new \in Object /\ new.exists /\ ~new.deleting /\ Finalizer \notin new.finalizers
    BY <1>1, NoObjectType, LoopAssumption DEF Object, NoObject
  <2>2. Commit(k, new) /\ ~api[k].exists
    BY <1>9 DEF Create, Edit
  <2> HIDE DEF new
  <2>3. Moves(k, k \in held)
    BY <2>1, <2>2, CommitMoves DEF Moves, ClaimOf, Guarded
  <2>4. QED
    BY <2>1, <2>2, <2>3, CommitMoves
<1>10. ASSUME NEW k \in Keys, Delete(k)
       PROVE  Goal
  <2> DEFINE new == [api[k] EXCEPT !.deleting = TRUE, !.gen = @ + 1]
  <2>1. new \in Object /\ new.exists = api[k].exists /\ new.deleting
        /\ new.finalizers = api[k].finalizers
    BY <1>1 DEF Object
  <2>2. Commit(k, new) /\ api[k].exists /\ ~api[k].deleting
    BY <1>10 DEF Delete, Edit
  <2> HIDE DEF new
  <2>3. Moves(k, k \in held)
    BY <2>1, <2>2, CommitMoves DEF Moves, ClaimOf, Guarded
  <2>4. QED
    BY <2>1, <2>2, <2>3, CommitMoves
<1>11. ASSUME NEW k \in Keys, NEW f \in Foreign, ReleaseForeign(k, f)
       PROVE  Goal
  <2> DEFINE new == [api[k] EXCEPT !.finalizers = @ \ {f}]
  <2>1. new \in Object /\ new.exists = api[k].exists /\ new.deleting = api[k].deleting
        /\ new.finalizers = api[k].finalizers \ {f}
    BY <1>1 DEF Object
  <2>2. Commit(k, new)
    BY <1>11 DEF ReleaseForeign
  <2> HIDE DEF new
  <2>3. QED
    BY <1>3, <2>1, <2>2, LoopAssumption DEF ClaimOf, Guarded
<1>12. ASSUME NEW k \in Keys, Get(k) \/ Deliver(k) \/ Resync(k) \/ Restart
       PROVE  api' = api
  BY <1>12 DEF Get, Deliver, Resync, Restart, objects
<1>13. QED
  BY <1>1, <1>2, <1>5, <1>6, <1>7, <1>8, <1>9, <1>10, <1>11, <1>12
     DEF LoopWorker, Conclude, Environment, SetProgressing, SetReady, SetDegraded
===============================================================================
