--------------------------- MODULE MCErasureCode ---------------------------
(* Every symbol comes first in a message, for the tables; a few longer      *)
(* messages, for the elimination.                                           *)
EXTENDS FFTCode

MCMessages ==
  {<<y, 1>> : y \in Symbol} \cup
  {<<1, 1, 1>>, <<34, 45, 67>>, <<0, 0, 255>>, <<23, 89, 53, 12>>, <<0, 1, 128, 0>>}
=============================================================================
