------------------------- MODULE MCCedarAttributes --------------------------
(* CedarAttributes on a small instance.                                    *)
EXTENDS CedarAttributes, TLC

MCSymmetry == Permutations(Kindat) \cup Permutations(Kinst)

=============================================================================
