--------------------------- MODULE Connection_proofs ---------------------------
(***************************************************************************)
(* A lookup returns what the Postgres object and its secret stood for at   *)
(* one moment, for every choice of namespaces, specs, secrets and edits.   *)
(***************************************************************************)
EXTENDS Connection, TLAPS

(* The Postgres object in use, and what it and its secret stand for now.   *)
Referred == PostgresNamespace(lookup.own, lookup.ref)
Now      == Meaning(Referred, pCache, sCache)

(* What the lookup would return if it read the secret now.                 *)
Outcome ==
  LET data == sCache[SecretNamespace(lookup.own, lookup.ref, lookup.spec)]
  IN  IF data = Absent THEN Error ELSE URI(lookup.spec, data)

(* While it waits for the Postgres object, nothing is lost: what counts is *)
(* what the objects stand for now.                                         *)
NowDescribed == lookup.step \in {"postgres", "secret"} => Now \in described

(* Once the Postgres object is read, the answer is one of a moment that    *)
(* has been: while that object is the cached one, a change of the secret   *)
(* is seen at once, and after it was replaced only a change of the secret  *)
(* it names makes an answer of no moment.                                  *)
OutcomeDescribed == lookup.step = "secret" /\ ~torn => Outcome \in described

LookupInv ==
  /\ lookup.step = "postgres" => lookup.uri = Error
  /\ NowDescribed /\ OutcomeDescribed /\ LookupSound
-------------------------------------------------------------------------------
(* Every field of the URI comes from the spec or the secret.               *)
LEMMA URIType ==
  ASSUME NEW spec \in Specs, NEW data \in Contents
  PROVE  URI(spec, data) \in URIs
<1> DEFINE Given(f) == f \in DOMAIN data \/ (f \in Fields /\ spec[f] # Unset)
           Field(f) == IF f \in Fields /\ spec[f] # Unset THEN spec[f] ELSE data[f]
<1>1. spec \in [secretNamespace : Namespaces \cup {Unset}, host : Values \cup {Unset},
                port : Values \cup {Unset}, username : Values \cup {Unset}, options : Values]
  BY ConnectionAssumption
<1>2. \A f \in DOMAIN data : data[f] \in Values
  BY ConnectionAssumption
<1>3. ASSUME NEW f \in Fields \cup {"password"}, Given(f)
      PROVE  Field(f) \in Values
  BY <1>1, <1>2, <1>3 DEF Fields
<1>4. CASE "uri" \in DOMAIN data
  BY <1>2, <1>4 DEF URI, URIs
<1>5. CASE "uri" \notin DOMAIN data /\ \A f \in Fields \cup {"password"} : Given(f)
  <2>1. Field("host") \in Values /\ Field("port") \in Values
        /\ Field("username") \in Values /\ Field("password") \in Values
    BY <1>3, <1>5 DEF Fields
  <2>2. URI(spec, data) = [host |-> Field("host"), port |-> Field("port"),
                           username |-> Field("username"), password |-> Field("password"),
                           options |-> spec.options]
    BY <1>5 DEF URI
  <2> HIDE DEF Field
  <2>3. QED BY <1>1, <2>1, <2>2 DEF URIs
<1>6. CASE "uri" \notin DOMAIN data /\ ~\A f \in Fields \cup {"password"} : Given(f)
  BY <1>6 DEF URI, URIs
<1>7. QED BY <1>4, <1>5, <1>6

(* The URI of a lookup has its type, whatever secret was read.             *)
LEMMA ReadType ==
  ASSUME TypeOK, ReadSecret
  PROVE  lookup'.uri \in URIs
<1> DEFINE n == SecretNamespace(lookup.own, lookup.ref, lookup.spec)
<1>1. lookup.spec \in Specs
  BY DEF TypeOK, ReadSecret, Lookup
<1>2. n \in Namespaces
  BY <1>1, ConnectionAssumption DEF TypeOK, Lookup, SecretNamespace
<1>3. sCache[n] \in Contents \cup {Absent}
  BY <1>2 DEF TypeOK
<1>4. lookup'.uri = IF sCache[n] = Absent THEN Error ELSE URI(lookup.spec, sCache[n])
  BY DEF ReadSecret, TypeOK, Lookup
<1> HIDE DEF n
<1>5. QED BY <1>1, <1>3, <1>4, URIType DEF URIs

LEMMA TypeStep == TypeOK /\ [Next]_vars => TypeOK'
<1> SUFFICES ASSUME TypeOK, [Next]_vars PROVE TypeOK'
  OBVIOUS
<1>1. CASE Begin
  BY <1>1 DEF TypeOK, Begin, Idle, Lookup, URIs, api, caches
<1>2. CASE ReadPostgres
  <2>1. PostgresNamespace(lookup.own, lookup.ref) \in Namespaces
    BY DEF TypeOK, Lookup, PostgresNamespace
  <2>2. pCache[PostgresNamespace(lookup.own, lookup.ref)] \in Specs \cup {Absent}
    BY <2>1 DEF TypeOK
  <2>3. QED BY <1>2, <2>2 DEF TypeOK, ReadPostgres, Lookup, api, caches
<1>3. CASE ReadSecret
  <2>1. lookup' \in Lookup /\ lookup'.step = "done"
    BY <1>3, ReadType DEF TypeOK, ReadSecret, Lookup
  <2>2. QED BY <1>3, <2>1 DEF TypeOK, ReadSecret, api, caches
<1>4. ASSUME NEW n \in Namespaces, Edit(n)
      PROVE  TypeOK'
  BY <1>4, ConnectionAssumption DEF TypeOK, Edit, caches
<1>5. ASSUME NEW n \in Namespaces, Deliver(n)
      PROVE  TypeOK'
  BY <1>5 DEF TypeOK, Deliver, api
<1>6. CASE UNCHANGED vars
  BY <1>6 DEF TypeOK, vars, api, caches
<1>7. QED BY <1>1, <1>2, <1>3, <1>4, <1>5, <1>6 DEF Next, LookUp

(* Every variable keeps its type, and the worker goes on to the secret     *)
(* only with a Postgres object in hand.                                    *)
THEOREM TypeCorrect == Spec => []TypeOK
<1>1. Init => TypeOK
  BY ConnectionAssumption DEF Init, TypeOK, Idle, Lookup, URIs
<1>2. QED BY <1>1, TypeStep, PTL DEF Spec
-------------------------------------------------------------------------------
(* With the Postgres object just read, the secret is looked for where that *)
(* object means it: the outcome is what the two stand for now.             *)
LEMMA ReadPostgresKeeps ==
  ASSUME TypeOK, LookupInv, ReadPostgres
  PROVE  LookupInv'
<1>1. lookup \in Lookup /\ lookup.step = "postgres" /\ Now \in described /\ lookup.uri = Error
  BY DEF TypeOK, LookupInv, ReadPostgres, NowDescribed
<1>2. /\ lookup'.own = lookup.own /\ lookup'.ref = lookup.ref /\ lookup'.uri = Error
      /\ lookup'.spec = pCache[Referred]
      /\ lookup'.step = IF pCache[Referred] = Absent THEN "done" ELSE "secret"
      /\ UNCHANGED <<pCache, sCache, described, torn>>
  BY <1>1 DEF ReadPostgres, Referred, Lookup, api, caches, history
<1>3. Referred' = Referred /\ Now' = Now
  BY <1>2 DEF Referred, Now, Meaning
<1>4. CASE pCache[Referred] = Absent
  <2>1. Now = Error
    BY <1>4 DEF Now, Meaning
  <2>2. QED BY <1>1, <1>2, <1>4, <2>1
           DEF LookupInv, NowDescribed, OutcomeDescribed, LookupSound
<1>5. CASE pCache[Referred] # Absent
  <2>1. Outcome' = Now'
    BY <1>2, <1>3, <1>5
       DEF Outcome, Now, Meaning, Referred, PostgresNamespace, SecretNamespace
  <2>2. QED BY <1>1, <1>2, <1>3, <1>5, <2>1
           DEF LookupInv, NowDescribed, OutcomeDescribed, LookupSound
<1>6. QED BY <1>4, <1>5

LEMMA ReadSecretKeeps ==
  ASSUME TypeOK, LookupInv, ReadSecret
  PROVE  LookupInv'
<1>1. /\ lookup'.step = "done" /\ lookup'.uri = Outcome
      /\ UNCHANGED <<described, torn>>
  BY DEF TypeOK, ReadSecret, Lookup, Outcome, history
<1>2. lookup.step = "secret"
  BY DEF ReadSecret
<1>3. QED BY <1>1, <1>2
         DEF LookupInv, NowDescribed, OutcomeDescribed, LookupSound

(* A delivery while a lookup is under way: one cached object changes, and  *)
(* the history takes it down.                                              *)
LEMMA DeliverKeeps ==
  ASSUME TypeOK, LookupInv, NEW n \in Namespaces, Deliver(n)
  PROVE  LookupInv'
<1> DEFINE m == SecretNamespace(lookup.own, lookup.ref, lookup.spec)
<1>1. /\ UNCHANGED lookup /\ Referred' = Referred
      /\ Now' \in described' /\ described \subseteq described'
  BY DEF Deliver, Referred, Now
<1>2. torn => torn'
  BY DEF Deliver
<1>3. OutcomeDescribed'
  <2> SUFFICES ASSUME lookup'.step = "secret", ~torn'
               PROVE  Outcome' \in described'
    BY DEF OutcomeDescribed
  <2>1. Outcome \in described
    BY <1>1, <1>2 DEF LookupInv, OutcomeDescribed
  <2>2. CASE UNCHANGED sCache
    BY <1>1, <2>1, <2>2 DEF Outcome
  <2>3. CASE UNCHANGED pCache /\ sCache' = [sCache EXCEPT ![n] = secret[n]] /\ m # n
    <3>1. sCache'[m] = sCache[m]
      BY <2>3 DEF TypeOK
    <3> HIDE DEF m
    <3>2. Outcome' = Outcome
      BY <1>1, <3>1 DEF Outcome, m
    <3>3. QED BY <1>1, <2>1, <3>2
  <2>4. CASE UNCHANGED pCache /\ lookup.spec = pCache[Referred]
    <3>1. lookup'.spec = pCache'[Referred'] /\ lookup'.spec # Absent
      BY <1>1, <2>4 DEF TypeOK
    <3>2. Outcome' = Now'
      BY <3>1 DEF Outcome, Now, Meaning, Referred, PostgresNamespace, SecretNamespace
    <3>3. QED BY <1>1, <3>2
  <2>5. QED BY <1>1, <2>2, <2>3, <2>4 DEF Deliver, Overtaken, Referred
<1>4. QED BY <1>1, <1>2, <1>3 DEF LookupInv, NowDescribed, LookupSound

(* A lookup mixes no versions unless the Postgres object and then its      *)
(* secret are replaced between the two reads, and finds the secret of the  *)
(* Postgres object from every namespace.                                   *)
THEOREM LookupsAreSound == Spec => []LookupSound
<1>1. Init => LookupInv
  BY DEF Init, Idle, LookupInv, NowDescribed, OutcomeDescribed, LookupSound
<1>2. TypeOK /\ LookupInv /\ [Next]_vars => LookupInv'
  <2> SUFFICES ASSUME TypeOK, LookupInv, [Next]_vars PROVE LookupInv'
    OBVIOUS
  <2>1. CASE Begin
    <3>1. PICK own \in Namespaces, ref \in Namespaces \cup {Unset} :
            /\ lookup' = [Idle(own, ref) EXCEPT !.step = "postgres"]
            /\ described' = {Meaning(PostgresNamespace(own, ref), pCache, sCache)}
      BY <2>1 DEF Begin
    <3>2. /\ lookup'.step = "postgres" /\ lookup'.uri = Error
          /\ lookup'.own = own /\ lookup'.ref = ref
      BY <3>1 DEF Idle
    <3>3. Now' \in described' /\ torn' = FALSE
      BY <2>1, <3>1, <3>2 DEF Begin, caches, Now, Referred
    <3>4. QED BY <3>2, <3>3
             DEF LookupInv, NowDescribed, OutcomeDescribed, LookupSound
  <2>2. CASE ReadPostgres
    BY <2>2, ReadPostgresKeeps
  <2>3. CASE ReadSecret
    BY <2>3, ReadSecretKeeps
  <2>4. ASSUME NEW n \in Namespaces, Edit(n) PROVE LookupInv'
    BY <2>4 DEF Edit, caches, history, LookupInv, NowDescribed, OutcomeDescribed,
                LookupSound, Now, Referred, Outcome
  <2>5. ASSUME NEW n \in Namespaces, Deliver(n) PROVE LookupInv'
    BY <2>5, DeliverKeeps
  <2>6. CASE UNCHANGED vars
    BY <2>6 DEF vars, caches, history, LookupInv, NowDescribed, OutcomeDescribed,
                LookupSound, Now, Referred, Outcome
  <2>7. QED BY <2>1, <2>2, <2>3, <2>4, <2>5, <2>6 DEF Next, LookUp
<1>3. LookupInv => LookupSound
  BY DEF LookupInv
<1>4. QED BY <1>1, <1>2, <1>3, TypeCorrect, PTL DEF Spec
===============================================================================
