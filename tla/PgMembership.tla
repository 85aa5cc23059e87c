----------------------------- MODULE PgMembership -----------------------------
(***************************************************************************)
(* Role memberships on a PostgreSQL server and the statements of           *)
(* internal/pg/rolemembership.go.  A pair <<role, member>> in ms says that *)
(* member was made a member of role directly.                              *)
(***************************************************************************)
EXTENDS Relation, PgServer

Pair == Names \X Names

(* The query looks at direct memberships only.                             *)
IsMemberOf(ms, r, m) == <<r, m>> \in ms

(* Roles that are members of one another, directly or through others.      *)
Cyclic(ms, r, m) ==
  r = m \/ TransitiveClosure([p \in Pair |-> p \in ms], Names)[m, r]

GrantAccepted(ms, present, r, m) == {r, m} \subseteq present /\ ~Cyclic(ms, r, m)
GrantRole(ms, r, m)  == ms \cup {<<r, m>>}

RevokeAccepted(present, r, m) == {r, m} \subseteq present
RevokeRole(ms, r, m) == ms \ {<<r, m>>}

(* DROP ROLE takes the memberships of the role with it.                    *)
Without(ms, n) == {p \in ms : n \notin {p[1], p[2]}}
===============================================================================
