--------------------------- MODULE MCPayloadQuery ---------------------------
(* PayloadQuery for TLC: payloads are only ever compared with one another.  *)
EXTENDS PayloadQuery, TLC

PayloadSymmetry == Permutations(Payloads)
=============================================================================
