------------------------------ MODULE MCFailover ------------------------------
EXTENDS Failover, MCRole

(* Which of the passwords comes first makes no difference.                 *)
FirstInit     == FailoverInit /\ \A k \in Keys : secrets[k] = pw1
FirstPassword == FirstInit /\ [][FailoverNext]_<<vars, stragglers>> /\ Fairness
===============================================================================
