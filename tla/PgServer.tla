-------------------------------- MODULE PgServer --------------------------------
(***************************************************************************)
(* The PostgreSQL servers the operator works on and the role names that    *)
(* may be used on them.                                                    *)
(***************************************************************************)
CONSTANTS Servers, Names
===============================================================================
