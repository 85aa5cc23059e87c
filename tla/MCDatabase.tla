------------------------------ MODULE MCDatabase ------------------------------
EXTENDS DatabaseController

CONSTANTS s1, k1, db1, a, b, pub, ref1, fin, foreign1

DatabaseSpec(owner, privileges) == [server |-> s1, owner |-> owner, privileges |-> privileges]
Entry1(r, granted) == [role |-> r, granted |-> granted]

(* A list that grants through a secret, and one that moves the privilege   *)
(* and the owner and speaks of everybody.                                  *)
Secret == DatabaseSpec(a, <<Entry1(ref1, {"CONNECT"})>>)
Moved  == DatabaseSpec(b, <<Entry1(a, {"CREATE"}), Entry1(pub, {})>>)
SecretAndMoved == {Secret, Moved}
NameOfMC == [k \in Keys |-> db1]
===============================================================================
