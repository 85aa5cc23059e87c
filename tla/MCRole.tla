-------------------------------- MODULE MCRole --------------------------------
EXTENDS RoleController

CONSTANTS s1, k1, a1, pw1, fin, foreign1, name1

RoleSpec(on, off, pw) == [server |-> s1, on |-> on, off |-> off, passwordSecret |-> pw]

(* The specs a user moves between: with a password, without one but with   *)
(* an attribute, and one the server refuses.                               *)
WithPassword  == RoleSpec({}, {}, TRUE)
WithAttribute == RoleSpec({a1}, {}, FALSE)
Contradictory == RoleSpec({a1}, {a1}, FALSE)
OneSpec      == {WithAttribute}
ThreeSpecs   == {WithPassword, WithAttribute, Contradictory}
OnlyPassword == {WithPassword}
NameOfMC == [k \in Keys |-> name1]
===============================================================================
