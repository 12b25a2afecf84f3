---------------------------- MODULE MCCommStore ----------------------------
(* Instances of CommStore: actors and payloads are model values.            *)
EXTENDS CommStore, TLC
CONSTANTS p, q, x, y

PayloadSymmetry == Permutations(Payloads)
=============================================================================
