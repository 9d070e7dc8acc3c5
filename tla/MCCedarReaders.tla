--------------------------- MODULE MCCedarReaders ---------------------------
(* CedarReaders on a small instance.                                       *)
EXTENDS CedarReaders

CONSTANTS k1, c1, row1, x1, x2

MCTypeKey == [n \in Name |-> "mysql"]

\* A kind whose records need a parameter, and one whose records do not.
MCDataRecord ==
  {[kindat |-> x1, kinst |-> k1, codes |-> <<c1>>],
   [kindat |-> x2, kinst |-> k1, codes |-> <<>>]}

\* The parameter may lose its row; the instrument has one and never a site.
MCMainRows == [k \in Key |-> IF k \in Kinst THEN {row1} ELSE {row1, NoRow}]
MCSiteRows == [k \in Kinst |-> {NoRow}]

=============================================================================
