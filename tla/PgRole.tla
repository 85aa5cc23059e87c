-------------------------------- MODULE PgRole --------------------------------
(***************************************************************************)
(* The roles of a PostgreSQL server and the statements of                  *)
(* internal/pg/role.go: for each one, whether the server accepts it and    *)
(* what it leaves of the role it names.                                    *)
(***************************************************************************)
EXTENDS PgServer

CONSTANTS
  Attributes,  \* role attributes: a in on is written "A", a in off "NOA"
  Defaults,    \* the attributes a role has unless told otherwise (INHERIT)
  Passwords,   \* passwords a secret may hold
  NoPassword   \* the nil password; a role without one

ASSUME PgRoleAssumption ==
  /\ NoPassword \notin Passwords
  /\ Defaults \subseteq Attributes

Password == Passwords \cup {NoPassword}
Role     == [exists : BOOLEAN, login : BOOLEAN, password : Password,
             attributes : SUBSET Attributes]
NoRole   == [exists |-> FALSE, login |-> FALSE, password |-> NoPassword, attributes |-> {}]

(* The server refuses an attribute named together with its negation, as it *)
(* refuses one named twice, which these specs do not tell apart from that. *)
Consistent(on, off) == on \cap off = {}

CreateRoleAccepted(r, on, off) == ~r.exists /\ Consistent(on, off)
CreateRole(r, pw, on, off) ==
  [exists |-> TRUE, login |-> pw # NoPassword, password |-> pw,
   attributes |-> (Defaults \cup on) \ off]

(* Without a password the role loses LOGIN and its password; attributes    *)
(* that are not named keep their value.                                    *)
AlterRoleAccepted(r, on, off) == r.exists /\ Consistent(on, off)
AlterRole(r, pw, on, off) ==
  [r EXCEPT !.login = (pw # NoPassword), !.password = pw,
            !.attributes = (@ \cup on) \ off]

(* DROP ROLE IF EXISTS fails only while objects depend on the role.        *)
DropRoleAccepted(r, pinned) == r.exists => ~pinned
DropRole(r) == NoRole
===============================================================================
