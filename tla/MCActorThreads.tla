--------------------------- MODULE MCActorThreads ---------------------------
(* Instances of ActorThreads: the constants are numbers, given in the cfg. *)
EXTENDS ActorThreads
=============================================================================
