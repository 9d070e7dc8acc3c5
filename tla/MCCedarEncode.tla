---------------------------- MODULE MCCedarEncode ----------------------------
(* CedarEncode with blocks of two characters of two bits, and a cipher in  *)
(* which each bit of a block depends on the key and on another bit.        *)
EXTENDS CedarEncode

MCCipher ==
  [k \in BitBlock |-> [b \in BitBlock |->
     [i \in 0..(N - 1) |-> (b[(i + 1) % N] + k[i]) % 2]]]

=============================================================================
