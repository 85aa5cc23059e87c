------------------------------ MODULE MCOperator ------------------------------
EXTENDS Operator

CONSTANTS a, b, d, plain

OneMembership == {<<a, b>>}

Wishes1(lists) == [x \in {a, b, d, <<a, b>>} |->
  IF x = d THEN lists ELSE IF x = <<a, b>> THEN {[granted |-> TRUE]} ELSE {plain}]

Longer  == [owner |-> a, entries |-> {[role |-> b, granted |-> {"CONNECT"}]}]
Shorter == [owner |-> a, entries |-> {}]

OneList  == Wishes1({Longer})
TwoLists == Wishes1({Longer, Shorter})

(* Every object is there when the operator is installed.                   *)
LateInit      == Init /\ \A x \in Things : Stays(x)
InstalledLate == LateInit /\ [][Next]_vars /\ Fairness
===============================================================================
