------------------------------- MODULE Session -------------------------------
(***************************************************************************)
(* What `rsg serve` promises to those who drive it: actors are registered  *)
(* and numbered from 2, a client connects to each of them at most once,    *)
(* the simulation is launched once, when it has been asked for and every   *)
(* registered actor is connected, and the return code of the process tells *)
(* how it ended.                                                           *)
(***************************************************************************)
EXTENDS Naturals, FiniteSets

VARIABLES
    phase,       \* ServerState
    process,     \* whether the process runs, has returned or was aborted
    code,        \* return code
    actors,      \* ids of the registered actors
    connected,   \* those a client is connected to
    simulation,  \* off, on or over
    failed       \* the simulation could not start or an actor failed in it

vars == <<phase, process, code, actors, connected, simulation, failed>>

Init ==
    /\ phase = "ACCEPTING_NEW_ACTORS" /\ process = "up" /\ code = 0
    /\ actors = {} /\ connected = {}
    /\ simulation = "off" /\ failed = FALSE

Register ==
    /\ actors' = actors \cup {Cardinality(actors) + 2}
    /\ UNCHANGED <<process, phase, code, connected, simulation, failed>>

\* ADD_ACTOR before the simulation is asked for, Actor::create during it.
AddActor == phase = "ACCEPTING_NEW_ACTORS" /\ Register
CreateActor == simulation = "on" /\ Register

Launch == phase' = "SIMULATION_RUNNING" /\ simulation' = "on"
DoNotLaunch == UNCHANGED <<phase, simulation>>

Start ==
    /\ phase = "ACCEPTING_NEW_ACTORS"
    /\ IF connected = actors THEN Launch
       ELSE phase' = "WAITING_FOR_ALL_ACTORS_CONNECTION" /\ UNCHANGED simulation
    /\ UNCHANGED <<process, code, actors, connected, failed>>

Connect(i) ==
    /\ phase \notin {"SIMULATION_FINISHED", "KILLED"}
    /\ i \in actors \ connected
    /\ connected' = connected \cup {i}
    /\ IF phase = "WAITING_FOR_ALL_ACTORS_CONNECTION" /\ connected' = actors
       THEN Launch ELSE DoNotLaunch
    /\ UNCHANGED <<process, code, actors, failed>>

Kill ==
    /\ phase' = "KILLED"
    /\ UNCHANGED <<process, code, actors, connected, simulation, failed>>

ActorFails ==
    /\ simulation = "on" /\ failed' = TRUE
    /\ UNCHANGED <<phase, process, code, actors, connected, simulation>>

\* A simulation that cannot start fails and ends at once.
SimulationEnds ==
    /\ simulation = "on" /\ simulation' = "over"
    /\ \/ UNCHANGED failed
       \/ connected = actors /\ failed' = TRUE
    /\ UNCHANGED <<phase, process, code, actors, connected>>

\* The server learns of the failure, or of the end of a simulation without one.
Finish ==
    /\ failed \/ simulation = "over"
    /\ phase' = "SIMULATION_FINISHED"
    /\ code' = IF failed THEN 1 ELSE 0
    /\ UNCHANGED <<process, actors, connected, simulation, failed>>

Return ==
    /\ phase \in {"SIMULATION_FINISHED", "KILLED"}
    /\ process' = "returned"
    /\ UNCHANGED <<phase, code, actors, connected, simulation, failed>>

Interrupt ==
    /\ process' = "returned" /\ code' = 1
    /\ UNCHANGED <<phase, actors, connected, simulation, failed>>

Abort ==
    /\ process' = "aborted"
    /\ UNCHANGED <<phase, code, actors, connected, simulation, failed>>

Next ==
    /\ process = "up"
    /\ \/ AddActor \/ CreateActor \/ Start \/ Kill
       \/ \E i \in actors : Connect(i)
       \/ ActorFails \/ SimulationEnds \/ Finish
       \/ Return \/ Interrupt \/ Abort

Spec == Init /\ [][Next]_vars
=============================================================================
