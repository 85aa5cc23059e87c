----------------------------- MODULE Surroundings -----------------------------
(***************************************************************************)
(* What the reconcilers of memberships and of databases find around them   *)
(* and do not control: the roles of a server, and in the cache the         *)
(* Postgres objects and the secrets that role names are looked up in.      *)
(***************************************************************************)
EXTENDS ReconcileLoop, PgServer

CONSTANT Refs  \* secret keys that hold role names

ASSUME RefAssumption == Names \cap Refs = {}

VARIABLES
  present,     \* the roles on each server
  resolvable,  \* servers whose Postgres object and secret the cache holds
  secrets,     \* the role name each secret key holds
  missing      \* secret keys that are gone or empty

lookups == <<resolvable, secrets, missing>>

SurroundingsTypeOK ==
  /\ present \in [Servers -> SUBSET Names]
  /\ resolvable \in SUBSET Servers
  /\ secrets \in [Refs -> Names] /\ missing \in SUBSET Refs

SurroundingsInit ==
  /\ present = [s \in Servers |-> Names]
  /\ resolvable = Servers
  /\ secrets \in [Refs -> Names] /\ missing = {}

(* RoleSource.GetName, as far as it succeeds: a literal or a secret key.   *)
GetName(source) == IF source \in Refs THEN secrets[source] ELSE source
-------------------------------------------------------------------------------
(* What others do to the objects looked up, and undo again.                *)
Rotate(ref, n) ==
  /\ secrets[ref] # n /\ secrets' = [secrets EXCEPT ![ref] = n]
  /\ UNCHANGED <<resolvable, missing>>

LoseLookup ==
  \/ \E ref \in Refs, n \in Names : Rotate(ref, n)
  \/ /\ \E s \in resolvable : resolvable' = resolvable \ {s}
     /\ UNCHANGED <<secrets, missing>>
  \/ /\ \E ref \in Refs \ missing : missing' = missing \cup {ref}
     /\ UNCHANGED <<resolvable, secrets>>

RestoreLookup ==
  /\ \/ /\ \E s \in Servers \ resolvable : resolvable' = resolvable \cup {s}
        /\ UNCHANGED missing
     \/ /\ \E ref \in missing : missing' = missing \ {ref}
        /\ UNCHANGED resolvable
  /\ UNCHANGED secrets

(* Somebody else makes a role (again); dropping one is up to the kinds,    *)
(* which differ in what depends on it.                                     *)
MakeRole ==
  /\ \E s \in Servers : \E n \in Names \ present[s] :
       present' = [present EXCEPT ![s] = @ \cup {n}]
  /\ UNCHANGED lookups

Calm == resolvable = Servers /\ missing = {} /\ \A s \in Servers : present[s] = Names
===============================================================================
