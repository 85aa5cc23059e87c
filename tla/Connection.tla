------------------------------ MODULE Connection ------------------------------
(***************************************************************************)
(* How an object that refers to a Postgres object finds the server: two    *)
(* reads of the cache, which users fill with new versions of both objects  *)
(* meanwhile, and the URI put together from what they hold.                *)
(***************************************************************************)
EXTENDS Naturals

CONSTANTS
  Namespaces,
  Values,     \* what a field may hold
  Unset,      \* an empty field
  Specs,      \* what users may write into a Postgres object
  Contents,   \* what users may write into a secret
  Absent,     \* an object that does not exist
  Error,      \* the outcome of a lookup that fails
  MaxEdits

(* The fields that may be in the spec or, failing that, in the secret.     *)
Fields == {"host", "port", "username"}
Keys   == Fields \cup {"password", "uri"}

ASSUME ConnectionAssumption ==
  /\ Specs \subseteq [secretNamespace : Namespaces \cup {Unset}, host : Values \cup {Unset},
                      port : Values \cup {Unset}, username : Values \cup {Unset},
                      options : Values]  \* defaultDatabase and sslMode
  /\ \A c \in Contents : DOMAIN c \subseteq Keys /\ \A f \in DOMAIN c : c[f] \in Values
  /\ Unset \notin Namespaces \cup Values
  /\ MaxEdits \in Nat

VARIABLES
  postgres, secret,    \* the objects on the API server, one of each name per namespace
  pCache, sCache,      \* what the informers hold of them
  lookup,              \* the local variables of a GetConnectionURI
  edits,
  described, torn      \* history: see Begin

api     == <<postgres, secret, edits>>
caches  == <<pCache, sCache>>
history == <<described, torn>>
vars    == <<api, caches, lookup, history>>

(* The object that refers is in namespace own, the reference names ref.    *)
Idle(own, ref) ==
  [step |-> "idle", own |-> own, ref |-> ref, spec |-> Absent, uri |-> Error]

URIs == Values \cup {Error}
          \cup [host : Values, port : Values, username : Values, password : Values, options : Values]

Lookup == [step : {"idle", "postgres", "secret", "done"},
           own : Namespaces, ref : Namespaces \cup {Unset},
           spec : Specs \cup {Absent}, uri : URIs]

TypeOK ==
  /\ postgres \in [Namespaces -> Specs \cup {Absent}]
  /\ secret \in [Namespaces -> Contents \cup {Absent}]
  /\ pCache \in [Namespaces -> Specs \cup {Absent}]
  /\ sCache \in [Namespaces -> Contents \cup {Absent}]
  /\ lookup \in Lookup /\ (lookup.step = "secret" => lookup.spec # Absent)
  /\ edits \in 0 .. MaxEdits

Init ==
  /\ postgres \in [Namespaces -> Specs \cup {Absent}]
  /\ secret \in [Namespaces -> Contents \cup {Absent}]
  /\ pCache = postgres /\ sCache = secret
  /\ lookup \in {Idle(own, Unset) : own \in Namespaces}
  /\ edits = 0
  /\ described = {} /\ torn = FALSE
-------------------------------------------------------------------------------
PostgresNamespace(own, ref) == IF ref # Unset THEN ref ELSE own

(* Fault: a secret is looked for next to the object that refers.           *)
SecretNearOwner(own, ref, spec) ==
  IF spec.secretNamespace # Unset THEN spec.secretNamespace ELSE own

SecretNamespace(own, ref, spec) ==
  CASE spec.secretNamespace # Unset -> spec.secretNamespace
    [] spec.secretNamespace = Unset /\ ref # Unset -> ref
    [] OTHER -> own

(* The password is always in the secret; a URI there is taken as it is.    *)
URI(spec, data) ==
  LET Given(f) == f \in DOMAIN data \/ (f \in Fields /\ spec[f] # Unset)
      Field(f) == IF f \in Fields /\ spec[f] # Unset THEN spec[f] ELSE data[f]
  IN  CASE "uri" \in DOMAIN data -> data["uri"]
        [] "uri" \notin DOMAIN data /\ \A f \in Fields \cup {"password"} : Given(f)
             -> [host |-> Field("host"), port |-> Field("port"), username |-> Field("username"),
                 password |-> Field("password"), options |-> spec.options]
        [] OTHER -> Error

(* What a Postgres object stands for, whoever refers to it: its secret is  *)
(* in its own namespace unless it says otherwise.                          *)
Meaning(n, P, S) ==
  IF P[n] = Absent THEN Error
  ELSE LET m == IF P[n].secretNamespace # Unset THEN P[n].secretNamespace ELSE n
       IN  IF S[m] = Absent THEN Error ELSE URI(P[n], S[m])

(* Fault: the Postgres object of the last lookup is used again.            *)
BeginAgain ==
  /\ lookup.step \in {"idle", "done"}
  /\ lookup' = [lookup EXCEPT !.step = IF lookup.spec = Absent THEN "postgres" ELSE "secret"]
  /\ described' = {Meaning(PostgresNamespace(lookup.own, lookup.ref), pCache, sCache)}
  /\ torn' = FALSE
  /\ UNCHANGED <<api, caches>>

(* GetConnectionURI, for any object: two reads of the cache.  The history  *)
(* keeps what the cached objects stood for since it began (described), and *)
(* whether the two in use were replaced between the reads, the Postgres    *)
(* object first and then the secret the old one named (torn).              *)
Begin ==
  /\ lookup.step \in {"idle", "done"}
  /\ \E own \in Namespaces, ref \in Namespaces \cup {Unset} :
       /\ lookup' = [Idle(own, ref) EXCEPT !.step = "postgres"]
       /\ described' = {Meaning(PostgresNamespace(own, ref), pCache, sCache)}
  /\ torn' = FALSE
  /\ UNCHANGED <<api, caches>>

(* Fault: goes on to the secret of an object that was not found.           *)
ReadPostgresUnchecked ==
  LET spec == pCache[PostgresNamespace(lookup.own, lookup.ref)]
  IN  /\ lookup.step = "postgres"
      /\ lookup' = [lookup EXCEPT !.step = "secret", !.spec = spec]
      /\ UNCHANGED <<api, caches, history>>

ReadPostgres ==
  LET spec == pCache[PostgresNamespace(lookup.own, lookup.ref)]
  IN  /\ lookup.step = "postgres"
      /\ lookup' = [lookup EXCEPT !.step = IF spec = Absent THEN "done" ELSE "secret",
                                  !.spec = spec]
      /\ UNCHANGED <<api, caches, history>>

ReadSecret ==
  LET data == sCache[SecretNamespace(lookup.own, lookup.ref, lookup.spec)]
  IN  /\ lookup.step = "secret"
      /\ lookup' = [lookup EXCEPT !.step = "done", !.uri =
                      IF data = Absent THEN Error ELSE URI(lookup.spec, data)]
      /\ UNCHANGED <<api, caches, history>>
-------------------------------------------------------------------------------
(* Users write, replace and delete both objects; either informer lags.     *)
Edit(n) ==
  /\ edits < MaxEdits /\ edits' = edits + 1
  /\ \/ /\ \E p \in (Specs \cup {Absent}) \ {postgres[n]} : postgres' = [postgres EXCEPT ![n] = p]
        /\ UNCHANGED secret
     \/ /\ \E c \in (Contents \cup {Absent}) \ {secret[n]} : secret' = [secret EXCEPT ![n] = c]
        /\ UNCHANGED postgres
  /\ UNCHANGED <<caches, lookup, history>>

(* The Postgres object that was read is no longer the cached one.          *)
Overtaken ==
  lookup.step = "secret" /\ lookup.spec # pCache[PostgresNamespace(lookup.own, lookup.ref)]

Deliver(n) ==
  /\ \/ /\ pCache[n] # postgres[n] /\ pCache' = [pCache EXCEPT ![n] = postgres[n]]
        /\ UNCHANGED <<sCache, torn>>
     \/ /\ sCache[n] # secret[n] /\ sCache' = [sCache EXCEPT ![n] = secret[n]]
        /\ torn' = (torn \/ (Overtaken /\ n = SecretNamespace(lookup.own, lookup.ref, lookup.spec)))
        /\ UNCHANGED pCache
  /\ described' = described \cup {Meaning(PostgresNamespace(lookup.own, lookup.ref),
                                          pCache', sCache')}
  /\ UNCHANGED <<api, lookup>>

LookUp == Begin \/ ReadPostgres \/ ReadSecret

Next == LookUp \/ \E n \in Namespaces : Edit(n) \/ Deliver(n)

(* Every object is reconciled again and again, and both informers deliver. *)
Fairness == WF_vars(LookUp) /\ \A n \in Namespaces : WF_vars(Deliver(n))
Spec == Init /\ [][Next]_vars /\ Fairness
-------------------------------------------------------------------------------
(* A lookup returns what the two objects together stood for at some moment *)
(* since it began, whichever namespace it was asked from.  Changes of one  *)
(* of the two, of both in the other order, or of any other object mix      *)
(* nothing: an answer that never was true takes a Postgres object replaced *)
(* after it was read and its old secret replaced after that, all between   *)
(* the two reads (postgres_reference.go:39 and :54).                       *)
LookupSound == lookup.step = "done" => lookup.uri \in described \/ torn

(* When users leave the two objects alone, everybody who refers to the     *)
(* same Postgres object ends up on the server it stands for, and stays     *)
(* there: no handle or credential outlives the objects it was made from.   *)
FollowsObjects ==
  <>[](lookup.step = "done" =>
         lookup.uri = Meaning(PostgresNamespace(lookup.own, lookup.ref), postgres, secret))
===============================================================================
