--------------------------- MODULE MCCedarStream ----------------------------
(* CedarStream with a block of three bytes.                                *)
EXTENDS CedarStream

=============================================================================
