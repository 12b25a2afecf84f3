---------------------------- MODULE ServeSession ----------------------------
(***************************************************************************)
(* The server implements the life cycle of a session: two threads, their   *)
(* queues and the TCP connections are hidden behind it.                    *)
(***************************************************************************)
EXTENDS Serve

Process == IF ServerUp THEN "up" ELSE pc

Simulation ==
    CASE sim = "off" -> "off"
      [] sim = "done" -> "over"
      [] OTHER -> "on"

\* An actor has failed, or maestro() has not found the host of an initial one.
Failed ==
    \/ \E i \in DOMAIN actor : actor[i] = "failed"
    \/ sim = "done" /\ initial # {} /\ DOMAIN actor = {}

Life == INSTANCE Session WITH
    phase <- state, process <- Process, code <- return_code,
    actors <- DOMAIN actor_connections,
    connected <- {i \in DOMAIN actor_connections : Connected(i)},
    simulation <- Simulation, failed <- Failed

\* Whatever the two threads and the clients do, a session goes through the steps
\* of its life cycle: in particular the return code is the one of the simulation.
ImplementsSession == Life!Spec
=============================================================================
