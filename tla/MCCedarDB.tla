----------------------------- MODULE MCCedarDB ------------------------------
(* CedarDB on a small instance. The key of "Test" names a type nobody      *)
(* installs a builder for; "Catalog" and "Reporter" are complete.          *)
EXTENDS CedarDB, TLC

MCTypeKey == [n \in Name |-> IF n = "Test" THEN "postgres" ELSE "mysql"]

MCSymmetry == Permutations(Session)

=============================================================================
