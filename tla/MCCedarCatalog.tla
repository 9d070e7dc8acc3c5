--------------------------- MODULE MCCedarCatalog ---------------------------
(* CedarCatalog on a small instance.                                       *)
EXTENDS CedarCatalog, TLC

MCTypeKey == [n \in Name |-> "mysql"]

MCSymmetry == Permutations(Session) \cup Permutations(Row)

=============================================================================
