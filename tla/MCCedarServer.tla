--------------------------- MODULE MCCedarServer ----------------------------
(* CedarServer on a small instance.                                        *)
EXTENDS CedarServer, TLC

MCTypeKey == [n \in Name |-> "mysql"]

MCSymmetry == Permutations(Session) \cup Permutations(Plain)

=============================================================================
