----------------------------- MODULE MCSynchro -----------------------------
(* Instances of Synchro: actors are model values, addresses are numbers.    *)
EXTENDS Synchro
CONSTANTS a1, a2, a3
=============================================================================
