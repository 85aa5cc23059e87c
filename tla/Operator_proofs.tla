---------------------------- MODULE Operator_proofs ----------------------------
(***************************************************************************)
(* The three controllers side by side, for any number of roles, databases  *)
(* and memberships, whatever users may write into them and however often   *)
(* the process dies: the types, and that roles and databases keep to       *)
(* ManagedResource in every step of every controller.                      *)
(***************************************************************************)
EXTENDS Operator, TLAPS

LEMMA WishTypes ==
  /\ \A d \in DatabaseObjects : \A w \in Wish[d] : w.owner \in Names /\ w.entries \subseteq ListEntries
  /\ \A e \in ListEntries : e.role \in Names /\ e.granted \in SUBSET PD!Privileges
<1>1. \A d \in DatabaseObjects : \A w \in Wish[d] : w.owner \in Names /\ w.entries \subseteq ListEntries
  BY OperatorAssumption DEF ListEntries
<1>2. ASSUME NEW e \in ListEntries
      PROVE  e.role \in Names /\ e.granted \in SUBSET PD!Privileges
  <2>1. PICK d \in DatabaseObjects : \E w \in Wish[d] : e \in w.entries
    BY DEF ListEntries
  <2>2. QED
    BY <2>1, OperatorAssumption
<1>3. QED
  BY <1>1, <1>2

LEMMA ExistingTypes ==
  ASSUME NEW d \in PD!Database, d.exists
  PROVE  d \in [exists : {TRUE}, owner : Names, acl : [PD!Grantees -> SUBSET PD!Privileges]]
<1>1. ~(PD!NoDatabase).exists
  BY DEF PD!NoDatabase
<1>2. QED
  BY <1>1 DEF PD!Database

(* The statements leave databases, and only DROP leaves none.              *)
LEMMA StatementTypes ==
  ASSUME NEW d \in PD!Database, NEW owner \in Names
  PROVE  /\ PD!NoDatabase \in PD!Database /\ ~(PD!NoDatabase).exists
         /\ PD!CreateDatabase(owner) \in PD!Database /\ (PD!CreateDatabase(owner)).exists
         /\ d.exists => /\ PD!ChownDatabase(d, owner) \in PD!Database
                        /\ (PD!ChownDatabase(d, owner)).exists
                        /\ \A g \in PD!Grantees, ps \in SUBSET PD!Privileges :
                             /\ [d EXCEPT !.acl[g] = ps] \in PD!Database
                             /\ [d EXCEPT !.acl[g] = ps].exists
<1>1. PD!NoDatabase \in PD!Database /\ ~(PD!NoDatabase).exists
  BY DEF PD!Database, PD!NoDatabase
<1>2. PD!CreateDatabase(owner) \in PD!Database /\ (PD!CreateDatabase(owner)).exists
  BY DEF PD!CreateDatabase, PD!Database, PD!Privileges
<1>3. ASSUME d.exists
      PROVE  /\ PD!ChownDatabase(d, owner) \in PD!Database
             /\ (PD!ChownDatabase(d, owner)).exists
             /\ \A g \in PD!Grantees, ps \in SUBSET PD!Privileges :
                  /\ [d EXCEPT !.acl[g] = ps] \in PD!Database
                  /\ [d EXCEPT !.acl[g] = ps].exists
  <2>1. d \in [exists : {TRUE}, owner : Names, acl : [PD!Grantees -> SUBSET PD!Privileges]]
    BY <1>3, ExistingTypes
  <2>2. QED
    BY <1>3, <2>1 DEF PD!ChownDatabase, PD!Database, PD!Grantees
<1>4. QED
  BY <1>1, <1>2, <1>3

(* What the worker of a kind is at.                                        *)
LEMMA AtWork ==
  ASSUME TypeOK, OperatorInv, NEW K \in Kinds, worker[K].step # "idle"
  PROVE  /\ worker[K] \in Worker /\ worker[K].of \in K /\ worker[K].of \in Things
         /\ worker[K].saw \in Object /\ worker[K].saw.wish \in Wish[worker[K].of]
         /\ object[worker[K].of].guarded /\ object[worker[K].of] # Absent
         /\ worker[K].saw.claim = "closing" => object[worker[K].of].claim = "closing"
         /\ worker[K].left \in SUBSET ListEntries
<1>1. worker[K] \in Worker /\ worker[K].of \in K /\ K \subseteq Things
  BY DEF TypeOK, Kinds, Things
<1>2. QED
  BY <1>1 DEF OperatorInv, WorkersFit, Worker, Absent

LEMMA KindsKnown ==
  /\ RoleObjects \in Kinds /\ DatabaseObjects \in Kinds /\ MembershipObjects \in Kinds
  /\ \A K \in Kinds : K \subseteq Things
  /\ \A K, L \in Kinds : \A x \in K : x \in L => K = L
  BY OperatorAssumption DEF Kinds, Things

(* A worker goes on, starts over or is done, and has changed nothing but   *)
(* what it is at.                                                          *)
LEMMA WorkerMoves ==
  ASSUME TypeOK, OperatorInv, NEW K \in Kinds, NEW w \in Worker, worker[K].step # "idle",
         worker' = [worker EXCEPT ![K] = w], object' = object,
         \/ w.step = "idle"
         \/ w.step # "idle" /\ w.of = worker[K].of /\ w.saw = worker[K].saw,
         w.step = "release" => /\ w.saw.claim = "closing"
                               /\ w.of \in RoleObjects => w.of \notin present'
                               /\ w.of \in DatabaseObjects => ~databases'[w.of].exists,
         \A r \in RoleObjects : r \in present' => r \in present \/ r = worker[K].of,
         \A d \in DatabaseObjects :
           databases'[d].exists => databases[d].exists \/ d = worker[K].of
  PROVE  /\ OperatorInv' /\ worker' \in [Kinds -> Worker]
         /\ \A L \in Kinds : worker'[L].step # "idle"
                               => worker'[L].of \in L /\ worker'[L].saw.guarded
<1>1. worker \in [Kinds -> Worker] /\ worker' \in [Kinds -> Worker] /\ worker'[K] = w
      /\ \A L \in Kinds \ {K} : worker'[L] = worker[L]
  BY DEF TypeOK
<1>2. /\ worker[K].of \in K /\ worker[K].saw.guarded
      /\ \A L \in Kinds \ {K} : worker[L].step # "idle"
           => worker[L].of \in L /\ worker[L].saw.guarded /\ worker[L].of # worker[K].of
  BY KindsKnown DEF TypeOK
<1>3. ObjectsFit'
  BY DEF OperatorInv, ObjectsFit
<1>4. WorkersFit'
  <2> SUFFICES ASSUME NEW L \in Kinds, worker'[L].step # "idle"
               PROVE  /\ object[worker'[L].of].guarded /\ worker'[L].saw.wish \in Wish[worker'[L].of]
                      /\ worker'[L].saw.claim = "closing" => object[worker'[L].of].claim = "closing"
                      /\ worker'[L].step = "release" =>
                           /\ worker'[L].saw.claim = "closing"
                           /\ worker'[L].of \in RoleObjects => worker'[L].of \notin present'
                           /\ worker'[L].of \in DatabaseObjects => ~databases'[worker'[L].of].exists
    BY DEF WorkersFit
  <2>1. CASE L = K
    BY <1>1, <2>1 DEF OperatorInv, WorkersFit
  <2>2. CASE L # K
    BY <1>1, <1>2, <2>2 DEF OperatorInv, WorkersFit
  <2>3. QED
    BY <2>1, <2>2
<1>5. QED
  BY <1>1, <1>2, <1>3, <1>4 DEF OperatorInv
-------------------------------------------------------------------------------
(* The steps of ManagedResource, told from the object of one thing ...     *)
LEMMA ObjectSteps ==
  ASSUME TypeOK, NEW x \in Things, NEW o \in Object,
         object' = [object EXCEPT ![x] = o], UNCHANGED server,
         \/ o.claim = object[x].claim /\ o.guarded = object[x].guarded
         \/ object[x] = Absent /\ o.claim = "open" /\ ~o.guarded
         \/ object[x].claim = "open" /\ o.claim = "open" /\ o.guarded
         \/ object[x].claim = "open" /\ o.claim = "closing" /\ o.guarded = object[x].guarded
         \/ object[x].claim = "open" /\ ~object[x].guarded /\ o = Absent
         \/ /\ object[x].claim = "closing" /\ o = Absent
            /\ x \in RoleObjects => x \notin present
            /\ x \in DatabaseObjects => ~databases[x].exists
  PROVE  [Lifecycle!Next]_(Lifecycle!vars)
<1> DEFINE keys    == RoleObjects \cup DatabaseObjects
           claim   == [k \in keys |-> object[k].claim]
           guarded == {k \in keys : object[k].guarded}
           held    == (present \cap RoleObjects) \cup {d \in DatabaseObjects : databases[d].exists}
<1>1. held' = held
  BY DEF server
<1>2. object \in [Things -> Object] /\ keys \subseteq Things
  BY DEF TypeOK, Things
<1>3. claim' = IF x \in keys THEN [claim EXCEPT ![x] = o.claim] ELSE claim
  BY <1>2
<1>4. guarded' = IF x \in keys /\ o.guarded THEN guarded \cup {x}
                 ELSE IF x \in keys THEN guarded \ {x} ELSE guarded
  BY <1>2
<1>5. object[x] \in Object /\ (x \in keys => claim[x] = object[x].claim)
      /\ (x \in keys => (x \in guarded <=> object[x].guarded))
  BY <1>2
<1>6. claim \in [keys -> {"none", "open", "closing"}] /\ guarded \subseteq keys
  BY <1>2 DEF Object
<1>7. x \in held => \/ x \in RoleObjects /\ x \in present
                    \/ x \in DatabaseObjects /\ databases[x].exists
  OBVIOUS
<1> HIDE DEF keys, claim, guarded, held
<1>8. CASE x \notin keys
  BY <1>1, <1>3, <1>4, <1>8 DEF Lifecycle!vars, keys, claim, guarded, held
<1>9. CASE x \in keys /\ o.claim = object[x].claim /\ o.guarded = object[x].guarded
  <2>1. claim' = claim /\ guarded' = guarded
    BY <1>3, <1>4, <1>5, <1>6, <1>9 DEF Object
  <2>2. QED
    BY <1>1, <2>1 DEF Lifecycle!vars, keys, claim, guarded, held
<1>10. CASE x \in keys /\ object[x] = Absent /\ o.claim = "open" /\ ~o.guarded
  <2>1. claim[x] = "none" /\ claim' = [claim EXCEPT ![x] = "open"] /\ guarded' = guarded
    BY <1>3, <1>4, <1>5, <1>10 DEF Absent
  <2>2. Lifecycle!Claim(x)
    BY <1>1, <2>1 DEF Lifecycle!Claim, Lifecycle!Move, keys, claim, guarded, held
  <2>3. QED
    BY <1>10, <2>2 DEF Lifecycle!Next, keys
<1>11. CASE x \in keys /\ object[x].claim = "open" /\ o.claim = "open" /\ o.guarded
  <2>1. claim[x] = "open" /\ claim' = claim /\ guarded' = guarded \cup {x}
    BY <1>3, <1>4, <1>5, <1>6, <1>11
  <2>2. Lifecycle!Guard(x)
    BY <1>1, <2>1 DEF Lifecycle!Guard, keys, claim, guarded, held
  <2>3. QED
    BY <1>11, <2>2 DEF Lifecycle!Next, keys
<1>12. CASE x \in keys /\ object[x].claim = "open" /\ o.claim = "closing"
            /\ o.guarded = object[x].guarded
  <2>1. claim[x] = "open" /\ claim' = [claim EXCEPT ![x] = "closing"] /\ guarded' = guarded
    BY <1>3, <1>4, <1>5, <1>6, <1>12 DEF Object
  <2>2. Lifecycle!Withdraw(x)
    BY <1>1, <2>1 DEF Lifecycle!Withdraw, Lifecycle!Move, keys, claim, guarded, held
  <2>3. QED
    BY <1>12, <2>2 DEF Lifecycle!Next, keys
<1>13. CASE x \in keys /\ object[x].claim = "open" /\ ~object[x].guarded /\ o = Absent
  <2>1. /\ claim[x] = "open" /\ claim' = [claim EXCEPT ![x] = "none"]
        /\ x \notin guarded /\ guarded' = guarded
    BY <1>3, <1>4, <1>5, <1>6, <1>13 DEF Absent
  <2>2. Lifecycle!Withdraw(x)
    BY <1>1, <2>1 DEF Lifecycle!Withdraw, Lifecycle!Move, keys, claim, guarded, held
  <2>3. QED
    BY <1>13, <2>2 DEF Lifecycle!Next, keys
<1>14. CASE /\ x \in keys /\ object[x].claim = "closing" /\ o = Absent
            /\ x \in RoleObjects => x \notin present
            /\ x \in DatabaseObjects => ~databases[x].exists
  <2>1. /\ claim[x] = "closing" /\ claim' = [claim EXCEPT ![x] = "none"]
        /\ guarded' = guarded \ {x} /\ x \notin held
    BY <1>3, <1>4, <1>5, <1>7, <1>14 DEF Absent
  <2>2. Lifecycle!Release(x)
    BY <1>1, <2>1 DEF Lifecycle!Release, Lifecycle!Move, keys, claim, guarded, held
  <2>3. QED
    BY <1>14, <2>2 DEF Lifecycle!Next, keys
<1>15. QED
  BY <1>8, <1>9, <1>10, <1>11, <1>12, <1>13, <1>14

(* ... and from what is on the server.                                     *)
LEMMA ServerSteps ==
  ASSUME object' = object,
         \/ /\ present' \cap RoleObjects = present \cap RoleObjects
            /\ \A d \in DatabaseObjects : databases'[d].exists = databases[d].exists
         \/ \E r \in RoleObjects :
              /\ databases' = databases
              /\ \/ object[r].guarded /\ present' = present \cup {r}
                 \/ object[r].claim = "closing" /\ present' = present \ {r}
         \/ \E d \in DatabaseObjects :
              /\ present' = present
              /\ \A e \in DatabaseObjects \ {d} : databases'[e].exists = databases[e].exists
              /\ \/ object[d].guarded /\ databases'[d].exists = TRUE
                 \/ object[d].claim = "closing" /\ databases'[d].exists = FALSE
  PROVE  [Lifecycle!Next]_(Lifecycle!vars)
<1> DEFINE keys    == RoleObjects \cup DatabaseObjects
           claim   == [k \in keys |-> object[k].claim]
           guarded == {k \in keys : object[k].guarded}
           held    == (present \cap RoleObjects) \cup {d \in DatabaseObjects : databases[d].exists}
<1>1. claim' = claim /\ guarded' = guarded
  OBVIOUS
<1>2. \A k \in keys : /\ k \in guarded <=> object[k].guarded
                      /\ claim[k] = object[k].claim
  OBVIOUS
<1>3. CASE /\ present' \cap RoleObjects = present \cap RoleObjects
           /\ \A d \in DatabaseObjects : databases'[d].exists = databases[d].exists
  <2>1. held' = held
    BY <1>3
  <2>2. QED
    BY <1>1, <2>1 DEF Lifecycle!vars
<1>4. ASSUME NEW k \in keys,
             \/ object[k].guarded /\ held' = held \cup {k}
             \/ object[k].claim = "closing" /\ held' = held \ {k}
      PROVE  [Lifecycle!Next]_(Lifecycle!vars)
  <2> HIDE DEF keys, claim, guarded, held
  <2>1. CASE object[k].guarded /\ held' = held \cup {k}
    <3>1. Lifecycle!Provision(k)
      BY <1>1, <1>2, <2>1 DEF Lifecycle!Provision, keys, claim, guarded, held
    <3>2. QED
      BY <3>1 DEF Lifecycle!Next, keys
  <2>2. CASE object[k].claim = "closing" /\ held' = held \ {k}
    <3>1. claim[k] = "closing"
      BY <1>2, <2>2
    <3>2. Lifecycle!Deprovision(k)
      BY <1>1, <3>1, <2>2 DEF Lifecycle!Deprovision, keys, claim, guarded, held
    <3>3. QED
      BY <3>2 DEF Lifecycle!Next, keys
  <2>3. QED
    BY <1>4, <2>1, <2>2
<1>5. ASSUME NEW r \in RoleObjects, databases' = databases,
             \/ object[r].guarded /\ present' = present \cup {r}
             \/ object[r].claim = "closing" /\ present' = present \ {r}
      PROVE  [Lifecycle!Next]_(Lifecycle!vars)
  <2>1. r \in keys /\ r \notin DatabaseObjects
    BY OperatorAssumption
  <2>2. \/ object[r].guarded /\ held' = held \cup {r}
        \/ object[r].claim = "closing" /\ held' = held \ {r}
    BY <1>5, <2>1
  <2>3. QED
    BY <1>4, <2>1, <2>2
<1>6. ASSUME NEW d \in DatabaseObjects, present' = present,
             \A e \in DatabaseObjects \ {d} : databases'[e].exists = databases[e].exists,
             \/ object[d].guarded /\ databases'[d].exists = TRUE
             \/ object[d].claim = "closing" /\ databases'[d].exists = FALSE
      PROVE  [Lifecycle!Next]_(Lifecycle!vars)
  <2>1. d \in keys /\ d \notin RoleObjects
    BY OperatorAssumption
  <2>2. \/ object[d].guarded /\ held' = held \cup {d}
        \/ object[d].claim = "closing" /\ held' = held \ {d}
    BY <1>6, <2>1
  <2>3. QED
    BY <1>4, <2>1, <2>2
<1>7. QED
  BY <1>3, <1>5, <1>6
-------------------------------------------------------------------------------
LEMMA NobodyAtWork ==
  /\ Idle \in Worker /\ Idle.step = "idle"
  /\ Absent \in Object /\ \A w \in Wishes : Applied(w) \in Object
  /\ \A x \in Things : Wish[x] \subseteq Wishes
<1>1. NoWish \in Wishes /\ \A x \in Things : Wish[x] \subseteq Wishes
  BY DEF Wishes
<1>2. Absent \in Object /\ \A w \in Wishes : Applied(w) \in Object
  BY <1>1 DEF Absent, Object, Applied
<1>3. QED
  BY <1>1, <1>2 DEF Idle, Worker

(* How a step of a worker ends: it fails, goes on or is done.              *)
LEMMA WorkEnds ==
  ASSUME TypeOK, OperatorInv, NEW K \in Kinds, worker[K].step \in {"begin", "entries", "write"},
         NEW step \in {"entries", "write"}, NEW left \in SUBSET ListEntries,
         Fail(K) \/ Goto(K, step, left) \/ Succeed(K),
         Succeed(K) /\ worker[K].saw.claim = "closing" =>
           /\ worker[K].of \in RoleObjects => worker[K].of \notin present'
           /\ worker[K].of \in DatabaseObjects => ~databases'[worker[K].of].exists,
         present' \subseteq Names, databases' \in [DatabaseObjects -> PD!Database],
         members' \subseteq PM!Pair,
         \A r \in RoleObjects : r \in present' => r \in present \/ r = worker[K].of,
         \A d \in DatabaseObjects :
           databases'[d].exists => databases[d].exists \/ d = worker[K].of
  PROVE  TypeOK' /\ OperatorInv' /\ object' = object
<1>1. worker[K] \in Worker /\ worker[K].of \in Things /\ worker[K].step # "idle"
  BY AtWork
<1>2. object' = object /\ queue' \subseteq Things
  BY <1>1 DEF Fail, Goto, Succeed, TypeOK
<1>3. Idle \in Worker /\ Idle.step = "idle"
  BY NobodyAtWork
<1>4. PICK w \in Worker :
        /\ worker' = [worker EXCEPT ![K] = w]
        /\ w.step = "idle" \/ (w.step # "idle" /\ w.of = worker[K].of /\ w.saw = worker[K].saw)
        /\ w.step = "release" => /\ w.saw.claim = "closing"
                                 /\ w.of \in RoleObjects => w.of \notin present'
                                 /\ w.of \in DatabaseObjects => ~databases'[w.of].exists
  <2>1. CASE Fail(K)
    BY <1>3, <2>1 DEF Fail
  <2>2. CASE Goto(K, step, left)
    <3> DEFINE w == [worker[K] EXCEPT !.step = step, !.left = left]
    <3>1. w \in Worker /\ w.step = step /\ w.of = worker[K].of /\ w.saw = worker[K].saw
      BY <1>1 DEF Worker
    <3>2. worker' = [worker EXCEPT ![K] = w]
      BY <2>2, <1>1 DEF Goto, TypeOK
    <3> HIDE DEF w
    <3>3. QED
      BY <3>1, <3>2
  <2>3. CASE Succeed(K) /\ worker[K].saw.claim = "closing"
    <3> DEFINE w == [worker[K] EXCEPT !.step = "release"]
    <3>1. w \in Worker /\ w.step = "release" /\ w.of = worker[K].of /\ w.saw = worker[K].saw
      BY <1>1 DEF Worker
    <3>2. worker' = [worker EXCEPT ![K] = w]
      BY <2>3, <1>1 DEF Succeed, TypeOK
    <3> HIDE DEF w
    <3>3. QED
      BY <2>3, <3>1, <3>2
  <2>4. CASE Succeed(K) /\ worker[K].saw.claim # "closing"
    BY <1>3, <2>4 DEF Succeed
  <2>5. QED
    BY <2>1, <2>2, <2>3, <2>4
<1>5. /\ OperatorInv' /\ worker' \in [Kinds -> Worker]
      /\ \A L \in Kinds : worker'[L].step # "idle"
                            => worker'[L].of \in L /\ worker'[L].saw.guarded
  BY <1>1, <1>2, <1>4, WorkerMoves
<1>6. TypeOK'
  BY <1>2, <1>5 DEF TypeOK
<1>7. QED
  BY <1>2, <1>5, <1>6

Keeps == TypeOK' /\ OperatorInv' /\ [Lifecycle!Next]_(Lifecycle!vars)

LEMMA RoleWork ==
  ASSUME TypeOK, OperatorInv, NEW r \in Things, WriteRole(r) \/ RemoveRole(r)
  PROVE  Keeps
<1>1. /\ RoleObjects \in Kinds /\ worker[RoleObjects].of = r
      /\ worker[RoleObjects].step \in {"begin", "entries", "write"}
  BY KindsKnown DEF WriteRole, RemoveRole, At
<1>2. r \in RoleObjects /\ r \in Names /\ r \notin DatabaseObjects /\ object[r].guarded
      /\ (worker[RoleObjects].saw.claim = "closing" => object[r].claim = "closing")
  BY <1>1, AtWork, OperatorAssumption
<1>3. databases' = databases /\ present \subseteq Names /\ members \subseteq PM!Pair
      /\ databases' \in [DatabaseObjects -> PD!Database]
  BY DEF WriteRole, RemoveRole, TypeOK
<1>4. CASE WriteRole(r)
  <2>1. present' = present \cup {r} /\ members' = members /\ Succeed(RoleObjects)
        /\ worker[RoleObjects].saw.claim = "open"
    BY <1>4 DEF WriteRole, At
  <2>2. TypeOK' /\ OperatorInv' /\ object' = object
    BY <1>1, <1>2, <1>3, <2>1, WorkEnds
  <2>3. [Lifecycle!Next]_(Lifecycle!vars)
    BY <1>2, <1>3, <2>1, <2>2, ServerSteps
  <2>4. QED
    BY <2>2, <2>3 DEF Keeps
<1>5. CASE RemoveRole(r) /\ Needed(r)
  <2>1. present' = present /\ members' = members /\ Fail(RoleObjects)
    BY <1>5 DEF RemoveRole
  <2>2. ~Succeed(RoleObjects) \/ worker[RoleObjects].saw.claim = "closing"
    BY <1>5 DEF RemoveRole, At
  <2>3. ~Succeed(RoleObjects)
    BY <1>1, <2>1, <2>2, AtWork DEF Fail, Succeed, TypeOK, Idle, Worker
  <2>4. TypeOK' /\ OperatorInv' /\ object' = object
    BY <1>1, <1>2, <1>3, <2>1, <2>3, WorkEnds
  <2>5. [Lifecycle!Next]_(Lifecycle!vars)
    BY <1>3, <2>1, <2>4, ServerSteps
  <2>6. QED
    BY <2>4, <2>5 DEF Keeps
<1>6. CASE RemoveRole(r) /\ ~Needed(r)
  <2>1. present' = present \ {r} /\ members' = PM!Without(members, r) /\ Succeed(RoleObjects)
        /\ worker[RoleObjects].saw.claim = "closing"
    BY <1>6 DEF RemoveRole, At
  <2>2. members' \subseteq PM!Pair
    BY <1>3, <2>1 DEF PM!Without
  <2>3. TypeOK' /\ OperatorInv' /\ object' = object
    BY <1>1, <1>2, <1>3, <2>1, <2>2, WorkEnds
  <2>4. [Lifecycle!Next]_(Lifecycle!vars)
    BY <1>2, <1>3, <2>1, <2>3, ServerSteps
  <2>5. QED
    BY <2>3, <2>4 DEF Keeps
<1>7. QED
  BY <1>4, <1>5, <1>6

(* A statement on a database ends like that as well, and is about one      *)
(* database only.                                                          *)
LEMMA DatabaseSteps ==
  ASSUME TypeOK, OperatorInv, NEW d \in Things,
         worker[DatabaseObjects].of = d,
         worker[DatabaseObjects].step \in {"begin", "entries", "write"},
         NEW new \in PD!Database, NEW step \in {"entries", "write"}, NEW left \in SUBSET ListEntries,
         present' = present, members' = members,
         \/ databases' = databases /\ Fail(DatabaseObjects)
         \/ databases' = [databases EXCEPT ![d] = new] /\ Goto(DatabaseObjects, step, left)
         \/ databases' = [databases EXCEPT ![d] = new] /\ Succeed(DatabaseObjects),
         worker[DatabaseObjects].saw.claim = "closing" => ~new.exists,
         ~new.exists => worker[DatabaseObjects].saw.claim = "closing"
  PROVE  Keeps
<1>1. /\ DatabaseObjects \in Kinds /\ d \in DatabaseObjects /\ d \notin RoleObjects
      /\ object[d].guarded
      /\ (worker[DatabaseObjects].saw.claim = "closing" => object[d].claim = "closing")
  BY AtWork, KindsKnown, OperatorAssumption
<1>2. databases \in [DatabaseObjects -> PD!Database] /\ present \subseteq Names
      /\ members \subseteq PM!Pair
  BY DEF TypeOK
<1>3. new.exists \in BOOLEAN
  <2>1. CASE new = PD!NoDatabase
    BY <2>1 DEF PD!NoDatabase
  <2>2. CASE new # PD!NoDatabase
    BY <2>2 DEF PD!Database
  <2>3. QED
    BY <2>1, <2>2
<1>4. CASE databases' = databases /\ Fail(DatabaseObjects)
  <2>1. ~Succeed(DatabaseObjects) \/ worker[DatabaseObjects].saw.claim # "closing"
    BY <1>1, <1>4, AtWork DEF Fail, Succeed, TypeOK, Idle, Worker
  <2>2. TypeOK' /\ OperatorInv' /\ object' = object
    BY <1>1, <1>2, <1>4, <2>1, WorkEnds
  <2>3. [Lifecycle!Next]_(Lifecycle!vars)
    BY <1>4, <2>2, ServerSteps
  <2>4. QED
    BY <2>2, <2>3 DEF Keeps
<1>5. CASE /\ databases' = [databases EXCEPT ![d] = new]
           /\ Goto(DatabaseObjects, step, left) \/ Succeed(DatabaseObjects)
  <2>1. /\ databases' \in [DatabaseObjects -> PD!Database] /\ databases'[d] = new
        /\ \A e \in DatabaseObjects \ {d} : databases'[e] = databases[e]
    BY <1>1, <1>2, <1>5
  <2>2. TypeOK' /\ OperatorInv' /\ object' = object
    BY <1>1, <1>2, <1>5, <2>1, WorkEnds
  <2>3. [Lifecycle!Next]_(Lifecycle!vars)
    BY <1>1, <1>3, <2>1, <2>2, ServerSteps
  <2>4. QED
    BY <2>2, <2>3 DEF Keeps
<1>6. QED
  BY <1>4, <1>5

LEMMA DatabaseWork ==
  ASSUME TypeOK, OperatorInv, NEW d \in Things,
         WriteDatabase(d) \/ WriteEntry(d) \/ FinishDatabase(d) \/ DropDatabase(d)
  PROVE  Keeps
<1> DEFINE W    == worker[DatabaseObjects]
           here == databases[d]
<1>1. /\ DatabaseObjects \in Kinds /\ W.of = d
      /\ W.step \in {"begin", "entries", "write"} /\ W.saw.claim \in {"open", "closing"}
  BY KindsKnown DEF WriteDatabase, WriteEntry, FinishDatabase, DropDatabase, At
<1>2. d \in DatabaseObjects /\ W.saw.wish \in Wish[d] /\ W.left \subseteq ListEntries
      /\ object[d].guarded
  BY <1>1, AtWork
<1>3. W.saw.wish.owner \in Names /\ W.saw.wish.entries \subseteq ListEntries
  BY <1>2, WishTypes
<1>4. here \in PD!Database /\ databases \in [DatabaseObjects -> PD!Database]
  BY <1>2 DEF TypeOK
<1>5. CASE WriteDatabase(d)
  <2> DEFINE owner == W.saw.wish.owner
             new   == IF here.exists THEN PD!ChownDatabase(here, owner) ELSE PD!CreateDatabase(owner)
  <2>1. new \in PD!Database /\ new.exists
    BY <1>3, <1>4, StatementTypes
  <2>2. /\ W.saw.claim = "open" /\ present' = present /\ members' = members
        /\ \/ databases' = databases /\ Fail(DatabaseObjects)
           \/ /\ databases' = [databases EXCEPT ![d] = new]
              /\ Goto(DatabaseObjects, "entries", W.saw.wish.entries)
    BY <1>5 DEF WriteDatabase, Exec, At
  <2> HIDE DEF new, owner
  <2>3. QED
    BY <1>1, <1>2, <1>3, <2>1, <2>2, DatabaseSteps
<1>6. CASE WriteEntry(d)
  <2>1. PICK e \in W.left :
          /\ W.saw.claim = "open" /\ present' = present /\ members' = members
          /\ \/ databases' = databases /\ Fail(DatabaseObjects)
             \/ /\ here.exists
                /\ databases' = [databases EXCEPT ![d] =
                                   [here EXCEPT !.acl[PD!Grantee(e.role)] = e.granted]]
                /\ Goto(DatabaseObjects, "entries", W.left \ {e})
    BY <1>6 DEF WriteEntry, Exec, At, PD!GrantAccepted
  <2>2. e.granted \in SUBSET PD!Privileges /\ PD!Grantee(e.role) \in PD!Grantees
        /\ W.left \ {e} \in SUBSET ListEntries
    BY <1>2, WishTypes DEF PD!Grantee, PD!Grantees
  <2>3. CASE databases' = databases /\ Fail(DatabaseObjects)
    <3>1. PICK owner \in Names : TRUE
      BY <1>3
    <3>2. PD!CreateDatabase(owner) \in PD!Database /\ (PD!CreateDatabase(owner)).exists
      BY <1>4, StatementTypes
    <3>3. QED
      BY <1>1, <1>2, <2>1, <2>3, <3>2, DatabaseSteps
  <2>4. CASE here.exists /\ ~(databases' = databases /\ Fail(DatabaseObjects))
    <3> DEFINE new == [here EXCEPT !.acl[PD!Grantee(e.role)] = e.granted]
    <3>1. new \in PD!Database /\ new.exists
      BY <1>3, <1>4, <2>2, <2>4, StatementTypes
    <3> DEFINE rest == W.left \ {e}
    <3>2. databases' = [databases EXCEPT ![d] = new] /\ Goto(DatabaseObjects, "entries", rest)
      BY <2>1, <2>4
    <3>3. W.saw.claim # "closing" /\ present' = present /\ members' = members
          /\ rest \in SUBSET ListEntries
      BY <2>1, <2>2
    <3> HIDE DEF new, rest
    <3>4. QED
      BY <1>1, <3>1, <3>2, <3>3, DatabaseSteps
  <2>5. QED
    BY <2>1, <2>3, <2>4
<1>7. CASE FinishDatabase(d)
  <2>1. W.saw.claim = "open" /\ UNCHANGED server /\ Succeed(DatabaseObjects)
    BY <1>7 DEF FinishDatabase, At
  <2>2. present' = present /\ members' = members /\ databases' = databases
    BY <2>1 DEF server
  <2>3. TypeOK' /\ OperatorInv' /\ object' = object
    BY <1>1, <2>1, <2>2, WorkEnds DEF TypeOK
  <2>4. QED
    BY <2>2, <2>3, ServerSteps DEF Keeps
<1>8. CASE DropDatabase(d)
  <2>1. /\ W.saw.claim = "closing" /\ present' = present /\ members' = members
        /\ databases' = [databases EXCEPT ![d] = PD!NoDatabase] /\ Succeed(DatabaseObjects)
    BY <1>8 DEF DropDatabase, Exec, At
  <2>2. PD!NoDatabase \in PD!Database /\ ~(PD!NoDatabase).exists
    BY <1>3, <1>4, StatementTypes
  <2>3. QED
    BY <1>1, <1>2, <2>1, <2>2, DatabaseSteps
<1>9. QED
  BY <1>5, <1>6, <1>7, <1>8

LEMMA MembershipWork ==
  ASSUME TypeOK, OperatorInv, NEW p \in Things, CheckMembership(p) \/ WriteMembership(p)
  PROVE  Keeps
<1>1. /\ MembershipObjects \in Kinds /\ worker[MembershipObjects].of = p
      /\ worker[MembershipObjects].step \in {"begin", "entries", "write"}
  BY KindsKnown DEF CheckMembership, WriteMembership
<1>2. p \in MembershipObjects /\ p \in PM!Pair /\ p \notin RoleObjects /\ p \notin DatabaseObjects
  BY <1>1, AtWork, OperatorAssumption
<1>3. members' = members \/ members' = PM!GrantRole(members, p[1], p[2])
      \/ members' = PM!RevokeRole(members, p[1], p[2])
  BY DEF CheckMembership, WriteMembership, server
<1>4. members' \subseteq PM!Pair
  BY <1>2, <1>3 DEF TypeOK, PM!GrantRole, PM!RevokeRole, PM!Pair
<1>5. present' = present /\ databases' = databases
      /\ \/ Fail(MembershipObjects) \/ Goto(MembershipObjects, "write", {})
         \/ Succeed(MembershipObjects)
  BY DEF CheckMembership, WriteMembership, server
<1>6. /\ present' \subseteq Names /\ databases' \in [DatabaseObjects -> PD!Database]
      /\ \A r \in RoleObjects : r \in present' => r \in present
      /\ \A d \in DatabaseObjects : databases'[d].exists => databases[d].exists
  BY <1>5 DEF TypeOK
<1>7. "write" \in {"entries", "write"} /\ {} \in SUBSET ListEntries
  OBVIOUS
<1>8. TypeOK' /\ OperatorInv' /\ object' = object
  BY <1>1, <1>2, <1>4, <1>5, <1>6, <1>7, WorkEnds
<1>9. QED
  BY <1>5, <1>8, ServerSteps DEF Keeps

(* An object that was reconciled and is being deleted is let go.           *)
LEMMA Releases ==
  ASSUME TypeOK, OperatorInv, NEW x \in Things, Release(x)
  PROVE  Keeps
<1>1. PICK K \in Kinds : /\ worker[K].of = x /\ worker[K].step = "release"
                         /\ worker' = [worker EXCEPT ![K] = Idle]
  BY DEF Release
<1>2. /\ x \in K /\ object[x].claim = "closing" /\ object' = [object EXCEPT ![x] = Absent]
      /\ x \in RoleObjects => x \notin present
      /\ x \in DatabaseObjects => ~databases[x].exists
      /\ queue' = queue /\ UNCHANGED server
  BY <1>1, AtWork DEF Release, OperatorInv, WorkersFit
<1>3. [Lifecycle!Next]_(Lifecycle!vars)
  BY <1>2, NobodyAtWork, ObjectSteps
<1>4. /\ object' \in [Things -> Object] /\ worker' \in [Kinds -> Worker]
      /\ \A L \in Kinds : worker'[L].step # "idle" => L # K /\ worker'[L] = worker[L]
  BY <1>1, <1>2, NobodyAtWork DEF TypeOK
<1>5. TypeOK'
  BY <1>2, <1>4 DEF TypeOK, server
<1>6. ObjectsFit'
  BY <1>2, NobodyAtWork DEF OperatorInv, ObjectsFit, TypeOK, Absent
<1>7. WorkersFit'
  <2> SUFFICES ASSUME NEW L \in Kinds, worker[L].step # "idle", L # K
               PROVE  object'[worker[L].of] = object[worker[L].of]
    BY <1>2, <1>4 DEF OperatorInv, WorkersFit, server
  <2>1. worker[L].of # x
    BY <1>2, AtWork, KindsKnown
  <2>2. QED
    BY <1>2, <2>1, AtWork DEF TypeOK
<1>8. QED
  BY <1>3, <1>5, <1>6, <1>7 DEF Keeps, OperatorInv

(* A worker that is handed an object either guards it or takes it up.      *)
LEMMA Gets ==
  ASSUME TypeOK, OperatorInv, NEW x \in Things, Get(x)
  PROVE  Keeps
<1>1. PICK K \in Kinds :
        /\ x \in K \cap queue /\ worker[K] = Idle /\ UNCHANGED server
        /\ IF object[x].claim = "open" /\ ~object[x].guarded
           THEN object' = [object EXCEPT ![x].guarded = TRUE] /\ UNCHANGED <<queue, worker>>
           ELSE /\ queue' = queue \ {x}
                /\ worker' = IF object[x] = Absent THEN worker
                             ELSE [worker EXCEPT ![K] = [step |-> "begin", of |-> x,
                                                         saw |-> object[x], left |-> {}]]
                /\ UNCHANGED object
  BY DEF Get
<1>2. object[x] \in Object
  BY DEF TypeOK
<1>3. CASE object[x].claim = "open" /\ ~object[x].guarded
  <2> DEFINE o == [object[x] EXCEPT !.guarded = TRUE]
  <2>1. o \in Object /\ o.claim = "open" /\ o.guarded /\ o.wish = object[x].wish
    BY <1>2, <1>3 DEF Object
  <2>2. object' = [object EXCEPT ![x] = o] /\ queue' = queue /\ worker' = worker
    BY <1>1, <1>3 DEF TypeOK
  <2> HIDE DEF o
  <2>3. [Lifecycle!Next]_(Lifecycle!vars)
    BY <1>1, <1>3, <2>1, <2>2, ObjectSteps
  <2>4. TypeOK'
    BY <1>1, <2>1, <2>2 DEF TypeOK, server
  <2>5. ObjectsFit'
    BY <1>3, <2>1, <2>2 DEF OperatorInv, ObjectsFit, TypeOK
  <2>6. WorkersFit'
    <3> SUFFICES ASSUME NEW L \in Kinds, worker[L].step # "idle"
                 PROVE  /\ object'[worker[L].of].guarded
                        /\ object'[worker[L].of].claim = object[worker[L].of].claim
      BY <1>1, <2>2 DEF OperatorInv, WorkersFit, server
    <3>1. QED
      BY <1>3, <2>1, <2>2, AtWork DEF TypeOK
  <2>7. QED
    BY <2>3, <2>4, <2>5, <2>6 DEF Keeps, OperatorInv
<1>4. CASE ~(object[x].claim = "open" /\ ~object[x].guarded)
  <2>1. object' = object /\ queue' = queue \ {x} /\ UNCHANGED server
    BY <1>1, <1>4
  <2>2. [Lifecycle!Next]_(Lifecycle!vars)
    BY <2>1, ServerSteps DEF server
  <2>3. CASE object[x] = Absent
    <3>1. worker' = worker
      BY <1>1, <1>4, <2>3
    <3>2. QED
      BY <2>1, <2>2, <3>1 DEF Keeps, TypeOK, OperatorInv, ObjectsFit, WorkersFit, server
  <2>4. CASE object[x] # Absent
    <3> DEFINE w == [step |-> "begin", of |-> x, saw |-> object[x], left |-> {}]
    <3>1. worker' = [worker EXCEPT ![K] = w]
      BY <1>1, <1>4, <2>4
    <3>2. object[x].claim # "none" /\ object[x].guarded /\ object[x].wish \in Wish[x]
      BY <1>2, <1>4, <2>4 DEF OperatorInv, ObjectsFit, Object
    <3>3. w \in Worker /\ w.step = "begin" /\ w.of = x /\ w.saw = object[x]
      BY <1>2 DEF Worker
    <3> HIDE DEF w
    <3>4. /\ worker' \in [Kinds -> Worker] /\ worker'[K] = w
          /\ \A L \in Kinds \ {K} : worker'[L] = worker[L]
      BY <3>1, <3>3 DEF TypeOK
    <3>5. TypeOK'
      BY <1>1, <2>1, <3>2, <3>3, <3>4 DEF TypeOK, server
    <3>6. ObjectsFit'
      BY <2>1 DEF OperatorInv, ObjectsFit
    <3>7. WorkersFit'
      <4> SUFFICES ASSUME NEW L \in Kinds, worker'[L].step # "idle"
                   PROVE  LET v == worker'[L]
                          IN  /\ object[v.of].guarded /\ v.saw.wish \in Wish[v.of]
                              /\ v.saw.claim = "closing" => object[v.of].claim = "closing"
                              /\ v.step = "release" =>
                                   /\ v.saw.claim = "closing"
                                   /\ v.of \in RoleObjects => v.of \notin present
                                   /\ v.of \in DatabaseObjects => ~databases[v.of].exists
        BY <2>1 DEF WorkersFit, server
      <4>1. CASE L = K
        BY <3>2, <3>3, <3>4, <4>1
      <4>2. CASE L # K
        BY <3>4, <4>2 DEF OperatorInv, WorkersFit
      <4>3. QED
        BY <4>1, <4>2
    <3>8. QED
      BY <2>2, <3>5, <3>6, <3>7 DEF Keeps, OperatorInv
  <2>5. QED
    BY <2>3, <2>4
<1>5. QED
  BY <1>3, <1>4

(* A user does not touch the finalizer, and takes no object away that has  *)
(* it: what a worker is at stays an object, and one that closes is not     *)
(* opened again.                                                           *)
LEMMA Users ==
  ASSUME TypeOK, OperatorInv, NEW x \in Things,
         Delete(x) \/ \E w \in Wish[x] : Apply(x, w)
  PROVE  Keeps
<1>1. object[x] \in Object
  BY DEF TypeOK
<1>2. PICK o \in Object :
        /\ object' = [object EXCEPT ![x] = o]
        /\ o.claim = "none" => o = Absent
        /\ o.claim # "none" => o.wish \in Wish[x] /\ (o.claim = "closing" => o.guarded)
        /\ object[x].guarded =>
             o.guarded /\ (object[x].claim = "closing" => o.claim = "closing")
        /\ \/ o.claim = object[x].claim /\ o.guarded = object[x].guarded
           \/ object[x] = Absent /\ o.claim = "open" /\ ~o.guarded
           \/ object[x].claim = "open" /\ o.claim = "closing" /\ o.guarded = object[x].guarded
           \/ object[x].claim = "open" /\ ~object[x].guarded /\ o = Absent
  <2>1. ASSUME NEW w \in Wish[x], Apply(x, w), object[x] = Absent
        PROVE  Applied(w) \in Object /\ object' = [object EXCEPT ![x] = Applied(w)]
    BY <2>1, NobodyAtWork DEF Apply, Edit
  <2>2. ASSUME NEW w \in Wish[x], Apply(x, w), object[x] # Absent
        PROVE  /\ [object[x] EXCEPT !.wish = w] \in Object
               /\ object' = [object EXCEPT ![x] = [object[x] EXCEPT !.wish = w]]
    BY <1>1, <2>2, NobodyAtWork DEF Apply, Edit, Object
  <2>3. ASSUME Delete(x), object[x].guarded
        PROVE  /\ [object[x] EXCEPT !.claim = "closing"] \in Object
               /\ object' = [object EXCEPT ![x] = [object[x] EXCEPT !.claim = "closing"]]
    BY <1>1, <2>3 DEF Delete, Edit, Object
  <2>4. ASSUME Delete(x), ~object[x].guarded
        PROVE  object' = [object EXCEPT ![x] = Absent]
    BY <2>4 DEF Delete, Edit
  <2>5. CASE \E w \in Wish[x] : Apply(x, w)
    <3>1. PICK w \in Wish[x] : Apply(x, w)
      BY <2>5
    <3>2. CASE object[x] = Absent
      <4>1. Applied(w) \in Object /\ object' = [object EXCEPT ![x] = Applied(w)]
        BY <2>1, <3>1, <3>2
      <4>2. /\ Applied(w).claim = "open" /\ ~Applied(w).guarded /\ Applied(w).wish = w
            /\ ~object[x].guarded
        BY <3>2 DEF Applied, Absent
      <4>3. QED
        BY <3>2, <4>1, <4>2
    <3>3. CASE object[x] # Absent
      <4> DEFINE o == [object[x] EXCEPT !.wish = w]
      <4>1. /\ o.claim = object[x].claim /\ o.guarded = object[x].guarded /\ o.wish = w
            /\ object[x].claim # "none" /\ (object[x].claim = "closing" => object[x].guarded)
        BY <1>1, <3>3 DEF Object, OperatorInv, ObjectsFit
      <4>2. o \in Object /\ object' = [object EXCEPT ![x] = o]
        BY <2>2, <3>1, <3>3
      <4> HIDE DEF o
      <4>3. QED
        BY <4>1, <4>2
    <3>4. QED
      BY <3>2, <3>3
  <2>6. CASE Delete(x) /\ object[x].guarded
    <3> DEFINE o == [object[x] EXCEPT !.claim = "closing"]
    <3>1. /\ o.claim = "closing" /\ o.guarded = object[x].guarded /\ o.wish = object[x].wish
          /\ object[x].claim = "open" /\ object[x].wish \in Wish[x]
      BY <1>1, <2>6 DEF Object, OperatorInv, ObjectsFit, Delete
    <3>2. o \in Object /\ object' = [object EXCEPT ![x] = o]
      BY <2>3, <2>6
    <3> HIDE DEF o
    <3>3. QED
      BY <2>6, <3>1, <3>2
  <2>7. CASE Delete(x) /\ ~object[x].guarded
    BY <2>4, <2>7, NobodyAtWork DEF Absent, Delete
  <2>8. QED
    BY <2>5, <2>6, <2>7
<1>3. queue' \subseteq Things /\ worker' = worker /\ UNCHANGED server
  BY DEF Delete, Apply, Edit, TypeOK
<1>4. [Lifecycle!Next]_(Lifecycle!vars)
  BY <1>2, <1>3, ObjectSteps
<1>5. TypeOK'
  BY <1>2, <1>3 DEF TypeOK, server
<1>6. ObjectsFit'
  BY <1>2 DEF OperatorInv, ObjectsFit, TypeOK
<1>7. WorkersFit'
  <2> SUFFICES ASSUME NEW L \in Kinds, worker[L].step # "idle"
               PROVE  /\ object'[worker[L].of].guarded
                      /\ worker[L].saw.claim = "closing" => object'[worker[L].of].claim = "closing"
    BY <1>3 DEF OperatorInv, WorkersFit, server
  <2>1. QED
    BY <1>2, AtWork DEF TypeOK
<1>8. QED
  BY <1>4, <1>5, <1>6, <1>7 DEF Keeps, OperatorInv

(* Nothing happens to what is wished for, or to what is there.             *)
LEMMA Rests ==
  ASSUME TypeOK, OperatorInv, Restart \/ (\E x \in Things : Resync(x)) \/ UNCHANGED vars
  PROVE  Keeps
<1>1. object' = object /\ UNCHANGED server /\ queue' \subseteq Things
      /\ (worker' = worker \/ worker' = [K \in Kinds |-> Idle])
  BY DEF Restart, Resync, vars, TypeOK
<1>2. [Lifecycle!Next]_(Lifecycle!vars)
  BY <1>1, ServerSteps DEF server
<1>3. CASE worker' = worker
  BY <1>1, <1>2, <1>3 DEF Keeps, TypeOK, OperatorInv, ObjectsFit, WorkersFit, server
<1>4. CASE worker' = [K \in Kinds |-> Idle]
  <2>1. worker' \in [Kinds -> Worker] /\ \A K \in Kinds : worker'[K].step = "idle"
    BY <1>4, NobodyAtWork
  <2>2. QED
    BY <1>1, <1>2, <2>1 DEF Keeps, TypeOK, OperatorInv, ObjectsFit, WorkersFit, server
<1>5. QED
  BY <1>1, <1>3, <1>4
-------------------------------------------------------------------------------
LEMMA InitFits == Init => TypeOK /\ OperatorInv
<1> SUFFICES ASSUME Init PROVE TypeOK /\ OperatorInv
  OBVIOUS
<1>1. PICK wish \in [Things -> Wishes] :
        /\ \A x \in Things : wish[x] \in Wish[x] \cup {NoWish}
        /\ object = [x \in Things |-> IF wish[x] = NoWish THEN Absent ELSE Applied(wish[x])]
  BY DEF Init
<1>2. object \in [Things -> Object]
  BY <1>1, NobodyAtWork
<1>3. ObjectsFit
  BY <1>1 DEF ObjectsFit, Applied, Absent
<1>4. queue \subseteq Things /\ present = {} /\ members = {}
  BY DEF Init
<1>5. worker \in [Kinds -> Worker] /\ \A K \in Kinds : worker[K].step = "idle"
  BY NobodyAtWork DEF Init
<1>6. databases \in [DatabaseObjects -> PD!Database]
  BY DEF Init, PD!Database
<1>7. QED
  BY <1>2, <1>3, <1>4, <1>5, <1>6 DEF TypeOK, OperatorInv, WorkersFit

LEMMA NextFits ==
  ASSUME TypeOK, OperatorInv, [Next]_vars
  PROVE  Keeps
<1>1. \A K \in Kinds : \A x \in K : x \in Things
  BY KindsKnown
<1>2. QED
  BY <1>1, RoleWork, DatabaseWork, MembershipWork, Releases, Gets, Users, Rests DEF Next, Work

(* The objects, the workers and the server stay well-formed, and a worker  *)
(* is only ever at an object of its kind that it saw with the finalizer on *)
(* it (the AddFinalizer at the head of every Reconcile).                   *)
THEOREM TypeCorrect == Spec => []TypeOK
<1>1. TypeOK /\ OperatorInv /\ [Next]_vars => TypeOK' /\ OperatorInv'
  BY NextFits DEF Keeps
<1>2. QED
  BY <1>1, InitFits, PTL DEF Spec

(* While a worker is at an object nobody else takes the object's finalizer *)
(* or what it names away, or gives it back.                                *)
THEOREM OperatorInvHolds == Spec => []OperatorInv
<1>1. TypeOK /\ OperatorInv /\ [Next]_vars => TypeOK' /\ OperatorInv'
  BY NextFits DEF Keeps
<1>2. QED
  BY <1>1, InitFits, PTL DEF Spec

(* Every step of the three controllers together, of the users and of a     *)
(* crash is one of ManagedResource for roles and databases: a role or a    *)
(* database is made only for an object that is guarded, is taken away only *)
(* while its object is being deleted, and outlives no object.              *)
THEOREM KeepsToManagedResource == Spec => StepsOfManagedResource
<1>1. TypeOK /\ OperatorInv /\ [Next]_vars
        => TypeOK' /\ OperatorInv' /\ [Lifecycle!Next]_(Lifecycle!vars)
  BY NextFits DEF Keeps
<1>2. QED
  BY <1>1, InitFits, PTL DEF Spec, StepsOfManagedResource
================================================================================
