---------------------------- MODULE MCCedarTables ----------------------------
(* CedarTables with one parameter and its error.                           *)
EXTENDS CedarTables

MCCode == {-1, 1}

=============================================================================
