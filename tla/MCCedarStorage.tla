--------------------------- MODULE MCCedarStorage ---------------------------
(* CedarStorage with one name: the names of a directory do not interact.   *)
EXTENDS CedarStorage

=============================================================================
