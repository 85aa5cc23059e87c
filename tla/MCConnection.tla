----------------------------- MODULE MCConnection -----------------------------
EXTENDS Connection

CONSTANTS n1, n2, v1, v2

AllInSecret == [secretNamespace |-> Unset, host |-> Unset, port |-> Unset,
                username |-> Unset, options |-> v1]
Specs1 == {AllInSecret, [AllInSecret EXCEPT !.host = v2, !.port = v2],
           [AllInSecret EXCEPT !.secretNamespace = n2, !.username = v2]}

Full(v)   == [f \in {"host", "port", "username", "password"} |-> v]
Contents1 == {Full(v1), [f \in {"port", "password"} |-> v2], [f \in {"uri"} |-> v1]}

(* At first only one of the namespaces has a Postgres object.              *)
OneInit    == Init /\ postgres[n2] = Absent
OneAtFirst == OneInit /\ [][Next]_vars /\ Fairness
===============================================================================
