------------------------------ MODULE PgDatabase ------------------------------
(***************************************************************************)
(* The databases of a PostgreSQL server and the statements of              *)
(* internal/pg/database.go and internal/pg/grant.go: when the server       *)
(* accepts one, and what it leaves of the database.                        *)
(***************************************************************************)
EXTENDS PgServer

CONSTANTS
  Publics,  \* the names that spell PUBLIC, in any case
  NoOwner   \* the owner of a database that does not exist

ASSUME PgDatabaseAssumption == NoOwner \notin Names /\ "PUBLIC" \notin Names

Privileges == {"CONNECT", "CREATE", "TEMPORARY"}
Grantees   == Names \cup {"PUBLIC"}

(* Who GRANT and REVOKE are about when they are given this name.           *)
Grantee(n) == IF n \in Publics THEN "PUBLIC" ELSE n

NoDatabase ==
  [exists |-> FALSE, owner |-> NoOwner, acl |-> [g \in Grantees |-> {}]]
Database ==
  [exists : {TRUE}, owner : Names, acl : [Grantees -> SUBSET Privileges]] \cup {NoDatabase}

(* A new database is its owner's, and others may connect.                  *)
CreateDatabaseAccepted(d, present, owner) == ~d.exists /\ owner \in present
CreateDatabase(owner) ==
  [exists |-> TRUE, owner |-> owner,
   acl |-> [g \in Grantees |-> IF g = owner THEN Privileges
                               ELSE IF g = "PUBLIC" THEN {"CONNECT", "TEMPORARY"} ELSE {}]]

(* The privileges of the old owner pass to the new one.                    *)
ChownDatabaseAccepted(d, present, owner) == d.exists /\ owner \in present
ChownDatabase(d, owner) ==
  IF d.owner = owner THEN d
  ELSE [d EXCEPT !.owner = owner,
                 !.acl = [g \in Grantees |-> IF g = owner THEN @[g] \cup @[d.owner]
                                             ELSE IF g = d.owner THEN {} ELSE @[g]]]

(* DROP DATABASE IF EXISTS ... WITH (FORCE) disconnects everybody, but     *)
(* fails while a prepared transaction or a replication slot needs it.      *)
DropDatabaseAccepted(d, pinned) == d.exists => ~pinned

GrantAccepted(d, present, g) == d.exists /\ (g = "PUBLIC" \/ g \in present)
GrantPrivileges(d, g, privileges)  == [d EXCEPT !.acl[g] = @ \cup privileges]
RevokePrivileges(d, g, privileges) == [d EXCEPT !.acl[g] = @ \ privileges]
===============================================================================
