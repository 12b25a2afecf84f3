------------------------------- MODULE Serve -------------------------------
(***************************************************************************)
(* The server process of Remote SimGrid (`rsg serve`):                     *)
(*                                                                         *)
(*   - the command thread, the loop of serve() in src/rsg/serve.cpp, which *)
(*     accepts TCP clients, answers their commands, registers the actors   *)
(*     and starts the simulation;                                          *)
(*   - the SimGrid thread, src/rsg/simulation.cpp, seen from the command   *)
(*     thread: launch, actors that quit, fail or create other actors, end; *)
(*   - the clients: one TCP connection each, either a command line tool    *)
(*     (one command, one answer, close) or an actor (CONNECT, then the     *)
(*     connection belongs to the actor's request loop).                    *)
(*                                                                         *)
(* A loop iteration of serve() is cut where another thread or a client can *)
(* see a difference: select(), each command handled, its acknowledgement   *)
(* written, the socket filed, each dropped socket read, the one            *)
(* inter-thread message popped.  Message contents are abstracted to what   *)
(* the loop looks at; the decisions of an actor other than "quit" and      *)
(* "create an actor" do not reach this thread and are left out here.       *)
(***************************************************************************)
EXTENDS Integers, FiniteSets, Sequences

CONSTANTS
    Sockets,        \* the TCP connections clients may open
    NoSocket,       \* nullptr
    CommandsOf,     \* which command types the client behind a socket sends
    Unreliable,     \* sockets whose client process may die at any point
    Misconfigured,  \* sockets whose client may send wrong ids, hosts or bytes
    SignalAllowed,  \* whether SIGINT, SIGTERM or SIGSEGV may be raised
    MaxPid          \* bound on the pids of dynamically created actors

CommandType == {"ADD_ACTOR", "START", "KILL", "STATUS", "CONNECT", "UNSET"}

ASSUME SocketsAssumption ==
    /\ IsFiniteSet(Sockets)
    /\ NoSocket \notin Sockets
    /\ CommandsOf \in [Sockets -> SUBSET CommandType]
    /\ Unreliable \subseteq Sockets
    /\ Misconfigured \subseteq Sockets
    /\ SignalAllowed \in BOOLEAN
    /\ MaxPid \in Nat

VARIABLES
    \* The command thread: control point, locals of serve(), why it threw.
    pc, state, return_code, error,
    \* Registered actors and how many of them have connected so far.
    actor_connections, nb_connected_actors,
    \* The socket sets, the selector and the traversal in progress.
    barely_connected_sockets, dropped_sockets, registered, readable,
    client_dropped, issuer,
    \* Inter-thread queues: to_command, and per actor id the two ack queues.
    to_command, create_ack, connect_ack,
    \* Each TCP connection: the server's descriptor, the client's progress,
    \* the bytes it sent that are not read yet, the answer it has not read.
    fd, client, command, inbox, ack,
    \* Actor ids clients have been told of and nobody has connected with yet.
    handed,
    \* The SimGrid thread: its progress, the actors it was launched with, what
    \* each actor does, the next pid, the actor inside an uninterrupted section.
    sim, initial, actor, next_pid, section,
    \* A signal is pending on signal_fd.
    signalled

threadVars == <<pc, state, return_code, error>>
registryVars == <<actor_connections, nb_connected_actors>>
filingVars == <<barely_connected_sockets, dropped_sockets, registered>>
traversalVars == <<readable, client_dropped, issuer>>
queueVars == <<to_command, create_ack, connect_ack>>
tcpVars == <<fd, client, command, inbox, ack>>
simVars == <<sim, initial, actor, next_pid, section>>
vars == <<threadVars, registryVars, filingVars, traversalVars, queueVars,
          tcpVars, handed, simVars, signalled>>

----------------------------------------------------------------------------
(* Types *)

ServerState == {"ACCEPTING_NEW_ACTORS", "WAITING_FOR_ALL_ACTORS_CONNECTION",
                "SIMULATION_RUNNING", "SIMULATION_FINISHED", "KILLED"}

ControlPoint == {"select", "traverse", "ack", "settle", "dropped", "pop",
                 "closing", "returned", "aborted"}

\* Exceptions nobody catches: the process terminates.
Misuse == {"add_actor_refused", "start_refused", "unknown_actor",
           "already_connected", "unset_command"}
LostClient == {"connection_lost", "bad_fd", "shutdown_failed", "ack_failed"}
BadBookkeeping == {"connect_refused", "no_connect_ack", "duplicate_actor_id",
                   "initial_ids"}
Error == {"none"} \cup Misuse \cup LostClient \cup BadBookkeeping

\* Pids are positive: 0 stands for "no actor".
NoPid == 0
Command == [type : CommandType, id : Nat, host : BOOLEAN]
NoCommand == [type |-> "UNSET", id |-> NoPid, host |-> FALSE]

\* CommandAck; value is the actor id of ADD_ACTOR or the count of STATUS.
Answer == [success : BOOLEAN, value : Nat]
Failure == [success |-> FALSE, value |-> 0]
\* Mutant: the value counts from 0.
SuccessOffByOne(v) == [success |-> TRUE, value |-> v - 1]
Success(v) == [success |-> TRUE, value |-> v]

ActorConnection == [socket : Sockets \cup {NoSocket}, connect_ack : BOOLEAN,
                    host : BOOLEAN]

\* An answer between its computation and the end of the socket's turn.
Issuer == [socket : Sockets \cup {NoSocket}, answer : Answer, drop : BOOLEAN]
NoIssuer == [socket |-> NoSocket, answer |-> Failure, drop |-> TRUE]

\* SIMULATION_FINISHED, SIMULATION_ABORTED, ACTOR_QUIT (socket) and
\* ACTOR_CREATE (id) messages.
InterthreadMessage ==
    {m \in [type : {"SIMULATION_FINISHED", "SIMULATION_ABORTED", "ACTOR_QUIT",
                    "ACTOR_CREATE"},
            socket : Sockets \cup {NoSocket}, id : Nat] :
       m.type = "ACTOR_QUIT" => m.socket \in Sockets}
Message(t, s, i) == [type |-> t, socket |-> s, id |-> i]

ClientState == {"idle", "connected", "awaiting", "served", "refused",
                "closed", "reset", "lost"}
Inbox == {"empty", "command", "quit", "junk"}
ActorState == {"connecting", "running", "failing", "quit", "failed"}
SimState == {"off", "launched", "maestro", "running", "done"}

----------------------------------------------------------------------------
(* Helpers *)

\* A finite map f with key i bound to v.
Put(f, i, v) == [j \in DOMAIN f \cup {i} |-> IF j = i THEN v ELSE f[j]]

Connected(i) == actor_connections[i].socket # NoSocket

NbActors == Cardinality(DOMAIN actor_connections)

ServerUp == pc \notin {"returned", "aborted"}

\* Connections the kernel established and accept() has not returned yet.
Backlog == {s \in Sockets : fd[s] = "none" /\ client[s] \notin {"idle", "lost"}}

\* recv() on the socket would not block: bytes, end of stream or error.
Pending(s) == inbox[s] # "empty" \/ client[s] \in {"closed", "reset"}

\* Mutant: one actor too early.
AllButOneConnected(nb, connections) == nb + 1 >= Cardinality(DOMAIN connections)

\* START and CONNECT compare the counter with the number of registered actors.
AllConnected(nb, connections) == nb = Cardinality(DOMAIN connections)

\* connections_unorderedmap_to_vector() accepts these initial actor ids.
ConsecutiveIds(D) == D = 2 .. Cardinality(D) + 1

Throw(e) == pc' = "aborted" /\ error' = e

Init ==
    /\ pc = "select" /\ state = "ACCEPTING_NEW_ACTORS"
    /\ return_code = 0 /\ error = "none"
    /\ actor_connections = [i \in {} |-> {}] /\ nb_connected_actors = 0
    /\ barely_connected_sockets = {} /\ dropped_sockets = {}
    /\ registered = {} /\ readable = {} /\ client_dropped = FALSE
    /\ issuer = NoIssuer
    /\ to_command = <<>> /\ create_ack = {} /\ connect_ack = {}
    /\ fd = [s \in Sockets |-> "none"]
    /\ client = [s \in Sockets |-> "idle"]
    /\ command = [s \in Sockets |-> NoCommand]
    /\ inbox = [s \in Sockets |-> "empty"]
    /\ ack = [s \in Sockets |-> <<>>]
    /\ handed = {}
    /\ sim = "off" /\ initial = {} /\ actor = [i \in {} |-> {}]
    /\ next_pid = 1 /\ section = NoPid
    /\ signalled = FALSE

----------------------------------------------------------------------------
(* The command thread: one iteration of the loop of serve().               *)

\* select() fails on a descriptor that was closed without being removed.
WaitAnyReadableFails ==
    /\ pc = "select"
    /\ \E s \in registered : fd[s] = "closed"
    /\ Throw("bad_fd")
    /\ UNCHANGED <<state, return_code, registryVars, filingVars, traversalVars,
                   queueVars, tcpVars, handed, simVars, signalled>>

Selected == pc = "select" /\ \A s \in registered : fd[s] # "closed"

\* close_open_sockets() closes the two sets of sockets the thread keeps (the
\* map of actor sockets is never filled).  shutdown() throws on a connection
\* the peer has reset.
CloseOpenSockets(rc) ==
    LET open == barely_connected_sockets \cup dropped_sockets
    IN  IF \E s \in open : client[s] = "reset"
        THEN Throw("shutdown_failed")
             /\ UNCHANGED <<return_code, filingVars, fd>>
        ELSE /\ pc' = "returned" /\ return_code' = rc
             /\ fd' = [s \in Sockets |-> IF s \in open THEN "closed" ELSE fd[s]]
             /\ barely_connected_sockets' = {} /\ dropped_sockets' = {}
             /\ UNCHANGED <<error, registered>>

SignalCaught ==
    /\ Selected /\ signalled
    /\ CloseOpenSockets(1)
    /\ UNCHANGED <<state, registryVars, traversalVars, queueVars, client, command,
                   inbox, ack, handed, simVars, signalled>>

\* Mutant: the accepted socket is not added to the selector.
AcceptClientUnwatched ==
    /\ Selected /\ ~signalled
    /\ \E s \in Backlog :
         /\ fd' = [fd EXCEPT ![s] = "open"]
         /\ barely_connected_sockets' = barely_connected_sockets \cup {s}
    /\ pc' = "pop"
    /\ UNCHANGED <<state, return_code, error, registryVars, dropped_sockets, registered,
                   traversalVars, queueVars, client, command, inbox, ack, handed,
                   simVars, signalled>>

\* The listener goes before the sockets already accepted: one accept() per
\* iteration, and no traversal in that iteration.
AcceptClient ==
    /\ Selected /\ ~signalled
    /\ \E s \in Backlog :
         /\ fd' = [fd EXCEPT ![s] = "open"]
         /\ barely_connected_sockets' = barely_connected_sockets \cup {s}
         /\ registered' = registered \cup {s}
    /\ pc' = "pop"
    /\ UNCHANGED <<state, return_code, error, registryVars, dropped_sockets,
                   traversalVars, queueVars, client, command, inbox, ack, handed,
                   simVars, signalled>>

\* The set of readable sockets is a snapshot: what arrives during the
\* traversal waits for the next iteration.
WaitAnyReadable ==
    /\ Selected /\ ~signalled /\ Backlog = {}
    /\ readable' = {s \in registered : Pending(s)}
    /\ client_dropped' = FALSE
    /\ pc' = IF readable' = {} THEN "pop" ELSE "traverse"
    /\ UNCHANGED <<state, return_code, error, registryVars, filingVars, issuer,
                   queueVars, tcpVars, handed, simVars, signalled>>

\* A barely connected socket whose turn it is in the traversal.
Readable(s) ==
    /\ pc = "traverse"
    /\ s \in barely_connected_sockets \cap readable

\* The client is gone before it sent a command: recv() throws.
ReadEof(s) ==
    /\ Readable(s) /\ inbox[s] = "empty"
    /\ Throw("connection_lost")
    /\ UNCHANGED <<state, return_code, registryVars, filingVars, traversalVars,
                   queueVars, tcpVars, handed, simVars, signalled>>

\* handle_barely_connected_socket_read() returned a whole command.
Received(s, type) ==
    /\ Readable(s) /\ inbox[s] = "command" /\ command[s].type = type
    /\ inbox' = [inbox EXCEPT ![s] = "empty"]

\* What every command leaves alone.
CommandUnchanged ==
    UNCHANGED <<return_code, filingVars, readable, client_dropped, to_command,
                create_ack, fd, client, command, ack, handed, actor, next_pid,
                section, signalled>>

\* Mutant: drop_client stays true for CONNECT.
ReplyAndDrop(s, answer, drop) ==
    /\ issuer' = [socket |-> s, answer |-> answer, drop |-> TRUE]
    /\ pc' = "ack" /\ error' = error

Reply(s, answer, drop) ==
    /\ issuer' = [socket |-> s, answer |-> answer, drop |-> drop]
    /\ pc' = "ack" /\ error' = error

\* start_simulation_in_another_thread(): the new thread gets a copy of the map.
StartSimulationInAnotherThread(connections) ==
    /\ state' = "SIMULATION_RUNNING"
    /\ sim' = "launched" /\ initial' = DOMAIN connections

HandleAddActor(s) ==
    /\ Received(s, "ADD_ACTOR")
    /\ IF state \notin {"ACCEPTING_NEW_ACTORS", "KILLED"}
       THEN Throw("add_actor_refused") /\ UNCHANGED <<actor_connections, issuer>>
       ELSE IF state = "KILLED"
       THEN Reply(s, Failure, TRUE) /\ UNCHANGED actor_connections
       ELSE LET id == NbActors + 2
            IN  /\ actor_connections' = Put(actor_connections, id,
                        [socket |-> NoSocket, connect_ack |-> FALSE,
                         host |-> command[s].host])
                /\ Reply(s, Success(id), TRUE)
    /\ UNCHANGED <<state, nb_connected_actors, connect_ack, sim, initial>>
    /\ CommandUnchanged

\* Mutant: START is only refused once the simulation runs.
StartAllowedUntilRunning == state # "SIMULATION_RUNNING"

StartAllowed == state = "ACCEPTING_NEW_ACTORS"

HandleStart(s) ==
    /\ Received(s, "START")
    /\ IF ~StartAllowed
       THEN Throw("start_refused") /\ UNCHANGED <<state, issuer, sim, initial>>
       ELSE /\ IF AllConnected(nb_connected_actors, actor_connections)
               THEN StartSimulationInAnotherThread(actor_connections)
               ELSE /\ state' = "WAITING_FOR_ALL_ACTORS_CONNECTION"
                    /\ UNCHANGED <<sim, initial>>
            /\ Reply(s, Success(0), TRUE)
    /\ UNCHANGED <<registryVars, connect_ack>>
    /\ CommandUnchanged

HandleKill(s) ==
    /\ Received(s, "KILL")
    /\ state' = "KILLED"
    /\ Reply(s, Success(0), TRUE)
    /\ UNCHANGED <<registryVars, connect_ack, sim, initial>>
    /\ CommandUnchanged

HandleStatus(s) ==
    /\ Received(s, "STATUS")
    /\ Reply(s, Success(nb_connected_actors), TRUE)
    /\ UNCHANGED <<state, registryVars, connect_ack, sim, initial>>
    /\ CommandUnchanged

\* Mutant: the socket of the actor is not recorded.
SetSocketForgotten(f, i, s) == f

SetSocket(f, i, s) == [f EXCEPT ![i].socket = s]

\* The part of CONNECT after its checks: mark the actor as connected, then
\* wake the actor up (dynamic) or start the simulation (last initial actor).
\* The acknowledgement to the client is only written afterwards.
ConnectActor(s, id) ==
    LET connections == SetSocket(actor_connections, id, s)
        nb == nb_connected_actors + 1
    IN  /\ actor_connections' = connections
        /\ nb_connected_actors' = nb
        /\ IF state = "SIMULATION_RUNNING"
           THEN /\ connect_ack' = connect_ack \cup {id}
                /\ UNCHANGED <<state, sim, initial>>
           ELSE /\ connect_ack' = connect_ack
                /\ IF state = "WAITING_FOR_ALL_ACTORS_CONNECTION"
                      /\ AllConnected(nb, connections)
                   THEN StartSimulationInAnotherThread(connections)
                   ELSE UNCHANGED <<state, sim, initial>>
        /\ Reply(s, Success(0), FALSE)

\* Why a CONNECT command for this id makes handle_command() throw.
ConnectError(id) ==
    IF state = "SIMULATION_FINISHED" THEN "connect_refused"
    ELSE IF id \notin DOMAIN actor_connections THEN "unknown_actor"
    ELSE IF Connected(id) THEN "already_connected"
    ELSE IF state = "SIMULATION_RUNNING" /\ ~actor_connections[id].connect_ack
    THEN "no_connect_ack"
    ELSE "none"

HandleConnect(s) ==
    /\ Received(s, "CONNECT")
    /\ LET id == command[s].id
       IN  IF state = "KILLED"
           THEN /\ Reply(s, Failure, TRUE)
                /\ UNCHANGED <<state, registryVars, connect_ack, sim, initial>>
           ELSE IF ConnectError(id) # "none"
           THEN /\ Throw(ConnectError(id))
                /\ UNCHANGED <<state, registryVars, connect_ack, sim, initial, issuer>>
           ELSE ConnectActor(s, id)
    /\ CommandUnchanged

HandleUnset(s) ==
    /\ Received(s, "UNSET")
    /\ Throw("unset_command")
    /\ UNCHANGED <<state, registryVars, connect_ack, sim, initial, issuer>>
    /\ CommandUnchanged

\* The acknowledgement.  To a client that is gone the first write succeeds and
\* its kernel answers with a reset.  The actor's thread may have read the end of
\* the stream and closed the socket already: send_all() throws.
WriteAck ==
    LET s == issuer.socket
    IN  /\ pc = "ack"
        /\ IF fd[s] # "open"
           THEN Throw("ack_failed") /\ UNCHANGED <<client, ack>>
           ELSE /\ pc' = "settle" /\ error' = error
                /\ IF client[s] = "closed"
                   THEN client' = [client EXCEPT ![s] = "reset"] /\ UNCHANGED ack
                   ELSE ack' = [ack EXCEPT ![s] = <<issuer.answer>>] /\ UNCHANGED client
        /\ UNCHANGED <<state, return_code, registryVars, filingVars, traversalVars,
                       queueVars, fd, command, inbox, handed, simVars, signalled>>

\* Mutant: the actor's socket stays in the selector.
WatchedAfterHandoverForgotten(s) == registered

\* selector.remove(fd()), where fd() is -1 if the actor's thread, which has
\* the socket already, has closed it meanwhile: a closed descriptor stays there,
\* and the next select() fails.
WatchedAfterHandover(s) == IF fd[s] = "open" THEN registered \ {s} ELSE registered

\* Back in the traversal: a command client is dropped, an actor's socket leaves
\* the selector.
Settle ==
    LET s == issuer.socket
    IN  /\ pc = "settle"
        /\ pc' = "traverse"
        /\ barely_connected_sockets' = barely_connected_sockets \ {s}
        /\ IF issuer.drop
           THEN /\ dropped_sockets' = dropped_sockets \cup {s}
                /\ client_dropped' = TRUE
                /\ UNCHANGED registered
           ELSE /\ registered' = WatchedAfterHandover(s)
                /\ UNCHANGED <<dropped_sockets, client_dropped>>
        /\ issuer' = NoIssuer
        /\ UNCHANGED <<state, return_code, error, registryVars, readable, queueVars,
                       tcpVars, handed, simVars, signalled>>

\* The locals of the iteration are cleared once nothing reads them any more.
EndTraverse ==
    /\ pc = "traverse"
    /\ barely_connected_sockets \cap readable = {}
    /\ pc' = IF client_dropped THEN "pop" ELSE "dropped"
    /\ client_dropped' = FALSE
    /\ readable' = IF client_dropped THEN {} ELSE readable
    /\ UNCHANGED <<state, return_code, error, registryVars, filingVars, issuer,
                   queueVars, tcpVars, handed, simVars, signalled>>

\* Mutant: selector.remove(fd()), which is -1 once recv() has closed it.
WatchedAfterEndByFd(s) == registered

\* selector.remove(fd_before_close()): at the end of the stream recv() closes the
\* descriptor before it throws; after a reset it throws first, so that
\* fd_before_close() is -1 and nothing is removed.
WatchedAfterEnd(s) == IF client[s] = "reset" THEN registered ELSE registered \ {s}

\* A dropped socket is readable: bytes are skipped; at its end it is deleted.
ReadDropped(s) ==
    /\ pc = "dropped" /\ s \in dropped_sockets \cap readable
    /\ readable' = readable \ {s}
    /\ IF client[s] # "reset" /\ inbox[s] # "empty"
       THEN /\ inbox' = [inbox EXCEPT ![s] = "empty"]
            /\ UNCHANGED <<dropped_sockets, registered, fd>>
       ELSE /\ fd' = [fd EXCEPT ![s] = "closed"]
            /\ dropped_sockets' = dropped_sockets \ {s}
            /\ registered' = WatchedAfterEnd(s)
            /\ UNCHANGED inbox
    /\ UNCHANGED <<threadVars, registryVars, barely_connected_sockets, client_dropped,
                   issuer, queueVars, client, command, ack, handed, simVars,
                   signalled>>

EndDropped ==
    /\ pc = "dropped"
    /\ dropped_sockets \cap readable = {}
    /\ pc' = "pop" /\ readable' = {}
    /\ UNCHANGED <<state, return_code, error, registryVars, filingVars,
                   client_dropped, issuer, queueVars, tcpVars, handed, simVars, signalled>>

----------------------------------------------------------------------------
(* The command thread: at most one inter-thread message per iteration.     *)

\* Mutant: the end of the simulation does not end the loop.
LoopAgainUnlessKilled(s) == IF s = "KILLED" THEN "closing" ELSE "select"

\* The loop condition, evaluated after the message has been handled.
LoopAgain(s) == IF s \in {"SIMULATION_FINISHED", "KILLED"} THEN "closing" ELSE "select"

PopNothing ==
    /\ pc = "pop" /\ to_command = <<>>
    /\ pc' = LoopAgain(state)
    /\ UNCHANGED <<state, return_code, error, registryVars, filingVars,
                   traversalVars, queueVars, tcpVars, handed, simVars, signalled>>

\* Mutant: last in, first out.
PoppedLast(type) ==
    /\ pc = "pop" /\ to_command # <<>>
    /\ to_command[Len(to_command)].type = type
    /\ to_command' = SubSeq(to_command, 1, Len(to_command) - 1)

Popped(type) ==
    /\ pc = "pop" /\ to_command # <<>>
    /\ Head(to_command).type = type
    /\ to_command' = Tail(to_command)

PopFinished ==
    /\ Popped("SIMULATION_FINISHED")
    /\ state' = "SIMULATION_FINISHED" /\ pc' = LoopAgain(state')
    /\ UNCHANGED <<return_code, error, registryVars, filingVars, traversalVars,
                   create_ack, connect_ack, tcpVars, handed, simVars, signalled>>

PopAborted ==
    /\ Popped("SIMULATION_ABORTED")
    /\ state' = "SIMULATION_FINISHED" /\ pc' = LoopAgain(state')
    /\ return_code' = 1
    /\ UNCHANGED <<error, registryVars, filingVars, traversalVars,
                   create_ack, connect_ack, tcpVars, handed, simVars, signalled>>

PopActorQuit ==
    /\ Popped("ACTOR_QUIT")
    /\ LET s == Head(to_command).socket
       IN  /\ dropped_sockets' = dropped_sockets \cup {s}
           /\ registered' = registered \cup {s}
    /\ pc' = LoopAgain(state)
    /\ UNCHANGED <<state, return_code, error, registryVars, barely_connected_sockets,
                   traversalVars, create_ack, connect_ack, tcpVars, handed, simVars,
                   signalled>>

\* Expect a connection for the new actor, then tell its creator.
PopActorCreate ==
    /\ Popped("ACTOR_CREATE")
    /\ LET id == Head(to_command).id
       IN  IF id \in DOMAIN actor_connections
           THEN Throw("duplicate_actor_id") /\ UNCHANGED <<actor_connections, create_ack>>
           ELSE /\ actor_connections' = Put(actor_connections, id,
                        [socket |-> NoSocket, connect_ack |-> TRUE, host |-> TRUE])
                /\ create_ack' = create_ack \cup {id}
                /\ pc' = LoopAgain(state) /\ error' = error
    /\ UNCHANGED <<state, return_code, nb_connected_actors, filingVars, traversalVars,
                   connect_ack, tcpVars, handed, simVars, signalled>>

CloseAndReturn ==
    /\ pc = "closing"
    /\ CloseOpenSockets(return_code)
    /\ UNCHANGED <<state, registryVars, traversalVars, queueVars, client, command,
                   inbox, ack, handed, simVars, signalled>>

CommandThread ==
    \/ WaitAnyReadableFails \/ SignalCaught \/ AcceptClient \/ WaitAnyReadable
    \/ \E s \in Sockets :
         \/ ReadEof(s)
         \/ HandleAddActor(s) \/ HandleStart(s) \/ HandleKill(s)
         \/ HandleStatus(s) \/ HandleConnect(s) \/ HandleUnset(s)
         \/ ReadDropped(s)
    \/ WriteAck \/ Settle \/ EndTraverse \/ EndDropped
    \/ PopNothing \/ PopFinished \/ PopAborted \/ PopActorQuit \/ PopActorCreate
    \/ CloseAndReturn

----------------------------------------------------------------------------
(* The SimGrid thread.  One actor runs at a time; `section` is the actor   *)
(* that holds the thread between two steps.                                *)

SimStep == ServerUp /\ sim = "running" /\ section = NoPid

SocketOf(i) == actor_connections[i].socket

\* start_simulation() checks the ids it was given; an exception in this thread
\* terminates the process.
StartSimulation ==
    /\ ServerUp /\ sim = "launched"
    /\ IF ConsecutiveIds(initial)
       THEN sim' = "maestro" /\ UNCHANGED <<pc, error>>
       ELSE Throw("initial_ids") /\ UNCHANGED sim
    /\ UNCHANGED <<state, return_code, registryVars, filingVars, traversalVars,
                   queueVars, tcpVars, handed, initial, actor, next_pid, section,
                   signalled>>

\* maestro(): an initial actor asks for a host the platform does not have.
MaestroAbort ==
    /\ ServerUp /\ sim = "maestro"
    /\ \E i \in initial : ~actor_connections[i].host
    /\ sim' = "done"
    /\ to_command' = Append(to_command, Message("SIMULATION_ABORTED", NoSocket, NoPid))
    /\ UNCHANGED <<threadVars, registryVars, filingVars, traversalVars, create_ack,
                   connect_ack, tcpVars, handed, initial, actor, next_pid, section,
                   signalled>>

\* Pid 1 is the attached "temporary" actor: the initial actors get 2, 3, ...
MaestroRun ==
    /\ ServerUp /\ sim = "maestro"
    /\ \A i \in initial : actor_connections[i].host
    /\ sim' = "running"
    /\ actor' = [i \in initial |-> "running"]
    /\ next_pid' = Cardinality(initial) + 2
    /\ UNCHANGED <<threadVars, registryVars, filingVars, traversalVars, queueVars,
                   tcpVars, handed, initial, section, signalled>>

\* e->run() returns once every actor is over.
SimulationEnds ==
    /\ SimStep
    /\ \A i \in DOMAIN actor : actor[i] \in {"quit", "failed"}
    /\ sim' = "done"
    /\ to_command' = Append(to_command, Message("SIMULATION_FINISHED", NoSocket, NoPid))
    /\ UNCHANGED <<threadVars, registryVars, filingVars, traversalVars, create_ack,
                   connect_ack, tcpVars, handed, initial, actor, next_pid, section,
                   signalled>>

\* Actor::operator(): the quit decision ends the request loop.
ActorQuit(i) ==
    /\ SimStep /\ actor[i] = "running" /\ inbox[SocketOf(i)] = "quit"
    /\ inbox' = [inbox EXCEPT ![SocketOf(i)] = "empty"]
    /\ actor' = [actor EXCEPT ![i] = "quit"]
    /\ to_command' = Append(to_command, Message("ACTOR_QUIT", SocketOf(i), NoPid))
    /\ UNCHANGED <<threadVars, registryVars, filingVars, traversalVars, create_ack,
                   connect_ack, fd, client, command, ack, handed, sim, initial,
                   next_pid, section, signalled>>

\* The actor's client is gone: recv_all() closes the descriptor at the end of
\* the stream (not after a reset) and throws.
ActorReadFails(i) ==
    /\ SimStep /\ actor[i] = "running" /\ inbox[SocketOf(i)] = "empty"
    /\ client[SocketOf(i)] \in {"closed", "reset"}
    /\ fd' = IF client[SocketOf(i)] = "closed"
             THEN [fd EXCEPT ![SocketOf(i)] = "closed"] ELSE fd
    /\ actor' = [actor EXCEPT ![i] = "failing"]
    /\ section' = i
    /\ UNCHANGED <<threadVars, registryVars, filingVars, traversalVars, queueVars,
                   client, command, inbox, ack, handed, sim, initial, next_pid,
                   signalled>>

\* ... and the handler of the exception reports it.
ActorFails(i) ==
    /\ ServerUp /\ section = i /\ actor[i] = "failing"
    /\ actor' = [actor EXCEPT ![i] = "failed"]
    /\ section' = NoPid
    /\ to_command' = Append(to_command, Message("SIMULATION_ABORTED", NoSocket, NoPid))
    /\ UNCHANGED <<threadVars, registryVars, filingVars, traversalVars, create_ack,
                   connect_ack, tcpVars, handed, sim, initial, next_pid, signalled>>

\* Actor::create decision: the simulated actor exists, the command thread is
\* told, and the whole SimGrid thread waits for its answer.
ActorCreate(i) ==
    /\ SimStep /\ actor[i] = "running" /\ client[SocketOf(i)] = "served"
    /\ next_pid <= MaxPid
    /\ actor' = Put(actor, next_pid, "connecting")
    /\ next_pid' = next_pid + 1
    /\ section' = i
    /\ to_command' = Append(to_command, Message("ACTOR_CREATE", NoSocket, next_pid))
    /\ UNCHANGED <<threadVars, registryVars, filingVars, traversalVars, create_ack,
                   connect_ack, tcpVars, handed, sim, initial, signalled>>

\* Mutant: the creator does not wait for the command thread.
ActorCreateNoAck(i) ==
    /\ ServerUp /\ section = i /\ actor[i] = "running"
    /\ handed' = handed \cup {next_pid - 1}
    /\ section' = NoPid
    /\ UNCHANGED <<threadVars, registryVars, filingVars, traversalVars, queueVars,
                   tcpVars, sim, initial, actor, next_pid, signalled>>

\* The answer is there: the client of the creator learns the new id.
ActorCreateAck(i) ==
    /\ ServerUp /\ section = i /\ actor[i] = "running"
    /\ \E c \in create_ack :
         /\ create_ack' = create_ack \ {c}
         /\ handed' = IF client[SocketOf(i)] = "served" THEN handed \cup {c} ELSE handed
    /\ section' = NoPid
    /\ UNCHANGED <<threadVars, registryVars, filingVars, traversalVars, to_command,
                   connect_ack, tcpVars, sim, initial, actor, next_pid, signalled>>

\* A dynamic actor gets its socket and enters the request loop.
ActorConnected(i) ==
    /\ SimStep /\ actor[i] = "connecting" /\ i \in connect_ack
    /\ connect_ack' = connect_ack \ {i}
    /\ actor' = [actor EXCEPT ![i] = "running"]
    /\ UNCHANGED <<threadVars, registryVars, filingVars, traversalVars, to_command,
                   create_ack, tcpVars, handed, sim, initial, next_pid, section,
                   signalled>>

SimGridThread ==
    \/ StartSimulation \/ MaestroAbort \/ MaestroRun \/ SimulationEnds
    \/ \E i \in DOMAIN actor :
         \/ ActorQuit(i) \/ ActorReadFails(i) \/ ActorFails(i)
         \/ ActorCreate(i) \/ ActorCreateAck(i) \/ ActorConnected(i)

----------------------------------------------------------------------------
(* The clients.                                                            *)

\* The command a client is started for.  An actor gets its id from an
\* ADD_ACTOR or Actor::create answer, through RSG_INITIAL_ACTOR_ID.
Commands(s) ==
    {c \in [type : CommandsOf[s], id : {NoPid} \cup handed \cup 2 .. MaxPid,
            host : BOOLEAN] :
       /\ c.type = "CONNECT" => c.id # NoPid
       /\ c.type = "CONNECT" => c.id \in handed \/ s \in Misconfigured
       /\ c.type # "CONNECT" => c.id = NoPid
       /\ ~c.host => c.type = "ADD_ACTOR" /\ s \in Misconfigured
       /\ c.type = "UNSET" => s \in Misconfigured}

ClientUnchanged ==
    UNCHANGED <<threadVars, registryVars, filingVars, traversalVars, queueVars,
                fd, simVars, signalled>>

ClientConnect(s) ==
    /\ ServerUp /\ client[s] = "idle"
    /\ \E c \in Commands(s) :
         /\ command' = [command EXCEPT ![s] = c]
         /\ handed' = handed \ {c.id}
    /\ client' = [client EXCEPT ![s] = "connected"]
    /\ ClientUnchanged /\ UNCHANGED <<inbox, ack>>

\* A command is sent whole.  Between its first byte and its last the command thread
\* would only wait (see Framing), and of that nothing shows but the time: a client
\* that has begun a command is assumed to finish it, or to die.
SendCommand(s) ==
    /\ ServerUp /\ client[s] = "connected"
    /\ client' = [client EXCEPT ![s] = "awaiting"]
    /\ inbox' = [inbox EXCEPT ![s] = "command"]
    /\ ClientUnchanged /\ UNCHANGED <<command, ack, handed>>

\* A client of ADD_ACTOR hands the id over to the actor process.
ReadAck(s) ==
    /\ client[s] = "awaiting" /\ ack[s] # <<>>
    /\ ack' = [ack EXCEPT ![s] = <<>>]
    /\ client' = [client EXCEPT ![s] = IF Head(ack[s]).success THEN "served"
                                                               ELSE "refused"]
    /\ handed' = IF command[s].type = "ADD_ACTOR" /\ Head(ack[s]).success
                 THEN handed \cup {Head(ack[s]).value} ELSE handed
    /\ ClientUnchanged /\ UNCHANGED <<command, inbox>>

\* A command line tool, or a refused one, ends.
CloseConnection(s) ==
    /\ \/ client[s] = "served" /\ command[s].type # "CONNECT"
       \/ client[s] = "refused"
    /\ client' = [client EXCEPT ![s] = "closed"]
    /\ ClientUnchanged /\ UNCHANGED <<command, inbox, ack, handed>>

\* ~Connection(): a quit decision that gets no answer, then close().
SendQuit(s) ==
    /\ client[s] = "served" /\ command[s].type = "CONNECT" /\ inbox[s] = "empty"
    /\ inbox' = [inbox EXCEPT ![s] = "quit"]
    /\ client' = [client EXCEPT ![s] = "closed"]
    /\ ClientUnchanged /\ UNCHANGED <<command, ack, handed>>

\* A client keeps writing on a connection the server has dropped: a foreign one, or
\* an actor whose CONNECT was refused and who does not mind.
SendJunk(s) ==
    /\ \/ s \in Misconfigured /\ client[s] = "served" /\ command[s].type # "CONNECT"
       \/ client[s] = "refused" /\ command[s].type = "CONNECT"
    /\ inbox[s] = "empty"
    /\ inbox' = [inbox EXCEPT ![s] = "junk"]
    /\ ClientUnchanged /\ UNCHANGED <<client, command, ack, handed>>

\* The client process dies.  Its kernel closes the connection in order, or
\* resets it when an answer of the server has not been read.
Die(s) ==
    /\ s \in Unreliable
    /\ \/ client[s] = "connected" /\ client' = [client EXCEPT ![s] = "closed"]
       \/ client[s] = "awaiting"
          /\ client' = [client EXCEPT ![s] = IF ack[s] = <<>> THEN "closed" ELSE "reset"]
       \/ client[s] = "served" /\ command[s].type = "CONNECT"
          /\ \E end \in {"closed", "reset"} : client' = [client EXCEPT ![s] = end]
    /\ ClientUnchanged /\ UNCHANGED <<command, inbox, ack, handed>>

\* The server process is gone and no answer is left to read.
ConnectionLost(s) ==
    /\ ~ServerUp /\ client[s] \in {"connected", "awaiting"} /\ ack[s] = <<>>
    /\ client' = [client EXCEPT ![s] = "lost"]
    /\ ClientUnchanged /\ UNCHANGED <<command, inbox, ack, handed>>

RaiseSignal ==
    /\ SignalAllowed /\ ServerUp /\ ~signalled
    /\ signalled' = TRUE
    /\ UNCHANGED <<threadVars, registryVars, filingVars, traversalVars, queueVars,
                   tcpVars, handed, simVars>>

Client(s) ==
    \/ ClientConnect(s) \/ SendCommand(s) \/ ReadAck(s) \/ CloseConnection(s)
    \/ SendQuit(s) \/ SendJunk(s) \/ Die(s) \/ ConnectionLost(s)

Next ==
    \/ CommandThread
    \/ SimGridThread
    \/ \E s \in Sockets : Client(s)
    \/ RaiseSignal

Spec == Init /\ [][Next]_vars

\* The two threads of the server run on; a client that connected sends its
\* command, whole, reads the answer, or notices that the server is gone.
Fairness ==
    /\ WF_vars(CommandThread)
    /\ WF_vars(SimGridThread)
    /\ \A s \in Sockets : WF_vars(SendCommand(s) \/ ReadAck(s) \/ ConnectionLost(s))

FairSpec == Spec /\ Fairness

----------------------------------------------------------------------------
(* Properties                                                              *)

ThreadTypeOK ==
    /\ pc \in ControlPoint /\ state \in ServerState
    /\ return_code \in {0, 1} /\ error \in Error

RegistryTypeOK ==
    /\ DOMAIN actor_connections \subseteq Nat
    /\ \A i \in DOMAIN actor_connections : actor_connections[i] \in ActorConnection
    /\ nb_connected_actors \in Nat

FilingTypeOK ==
    /\ barely_connected_sockets \subseteq Sockets
    /\ dropped_sockets \subseteq Sockets
    /\ registered \subseteq Sockets /\ readable \subseteq Sockets
    /\ client_dropped \in BOOLEAN
    /\ issuer \in Issuer
    /\ pc \in {"ack", "settle"} => issuer.socket \in Sockets

QueueTypeOK ==
    /\ to_command \in Seq(InterthreadMessage)
    /\ create_ack \subseteq Nat /\ connect_ack \subseteq Nat

TcpTypeOK ==
    /\ fd \in [Sockets -> {"none", "open", "closed"}]
    /\ client \in [Sockets -> ClientState]
    /\ command \in [Sockets -> Command]
    /\ inbox \in [Sockets -> Inbox]
    /\ ack \in [Sockets -> Seq(Answer)]
    /\ handed \subseteq Nat

SimTypeOK ==
    /\ sim \in SimState /\ initial \subseteq Nat
    /\ DOMAIN actor \subseteq Nat
    /\ \A i \in DOMAIN actor : actor[i] \in ActorState
    /\ next_pid \in Nat /\ section \in Nat
    /\ signalled \in BOOLEAN

\* Type invariant of the server's and the clients' state; in particular an answer
\* is only written, and a socket only filed, while one is being handled.
TypeOK ==
    /\ ThreadTypeOK /\ RegistryTypeOK /\ FilingTypeOK
    /\ QueueTypeOK /\ TcpTypeOK /\ SimTypeOK

\* The number STATUS reports, and START compares with the number of registered
\* actors, is the number of actors a client is connected to.
ConnectedCount ==
    nb_connected_actors = Cardinality({i \in DOMAIN actor_connections : Connected(i)})

\* The simulation is only ever launched with actors 2 .. n+1, each connected to
\* a socket of its own, whichever of START and the last CONNECT came last.
StartsComplete ==
    sim # "off" =>
        /\ ConsecutiveIds(initial)
        /\ \A i \in initial : i \in DOMAIN actor_connections /\ Connected(i)
        /\ \A i, j \in initial : SocketOf(i) = SocketOf(j) => i = j

\* The assertions on the registry and on the ids hold: no CONNECT is handled in
\* the FINISHED state, no dynamic actor is without a queue, no pid is registered
\* already, and the initial ids have no gap.  (Those of the sockets do not: the one
\* of send_all() fails when an actor's client dies before its CONNECT is answered.)
BookkeepingHolds == error \notin BadBookkeeping

\* If no client dies, the server only aborts when a command is given in a state
\* that refuses it or by a misconfigured client: never because of when
\* well-configured clients connect, quit and close, nor because of a signal.
AbortsOnlyOnMisuse ==
    /\ Unreliable = {} => error \notin LostClient
    /\ Unreliable = {} /\ Misconfigured = {}
         => error \in {"none", "add_actor_refused", "start_refused"}

\* The actor that reads decisions on socket s, or whose ACTOR_QUIT has not been
\* popped yet.
OwnedByActor(s) ==
    \/ \E i \in DOMAIN actor : /\ actor[i] \in {"running", "failing", "failed"}
                               /\ SocketOf(i) = s
    \/ \E k \in DOMAIN to_command : to_command[k].type = "ACTOR_QUIT"
                                    /\ to_command[k].socket = s

\* Outside of the handover of an actor's socket, a socket belongs either to the
\* command thread, in one of its two sets, or to an actor.
OneOwner ==
    \A s \in Sockets \ {issuer.socket} :
        /\ ~(s \in barely_connected_sockets /\ s \in dropped_sockets)
        /\ ~(s \in barely_connected_sockets \cup dropped_sockets /\ OwnedByActor(s))

\* The selector watches exactly the sockets the command thread keeps, when
\* every client closes its connection in order.
WatchedAreKept ==
    Unreliable = {} /\ pc \in {"select", "traverse", "dropped", "pop"}
        => registered = barely_connected_sockets \cup dropped_sockets

\* Return code 0 after a simulation means that no actor failed: the failure is
\* popped before the end of the simulation it was reported in.
ReturnCodeTellsFailures ==
    pc = "returned" /\ return_code = 0 /\ state = "SIMULATION_FINISHED"
        => \A i \in DOMAIN actor : actor[i] \in {"quit"}

\* An id a client has been told of is the id of a registered actor, so that the
\* CONNECT it will be used in cannot be refused as unknown.
HandedAreRegistered ==
    handed \subseteq DOMAIN actor_connections

\* The simulation is launched at most once, never after a KILL, and its set of
\* initial actors is fixed from then on.
LaunchedOnce ==
    [][/\ sim' = "launched" /\ sim # "launched" => sim = "off" /\ state # "KILLED"
       /\ sim # "off" => initial' = initial]_vars

\* After a KILL the server answers the commands of the traversal in progress and
\* pops one message; it never accepts a client or waits for one again.
KilledIsFinal ==
    [][state = "KILLED" => /\ state' \in {"KILLED", "SIMULATION_FINISHED"}
                           /\ \A s \in Sockets : fd[s] = "none" => fd'[s] = "none"
                           /\ nb_connected_actors' = nb_connected_actors]_vars

\* Every command gets an answer, or its client learns that the server is gone.
CommandsAnswered ==
    \A s \in Sockets : client[s] = "awaiting" ~> client[s] # "awaiting"

\* The server process ends after the end of the simulation.
ServerEnds == sim = "done" ~> ~ServerUp

(* What the repository says of the server and the code does not do.        *)

\* serve.cpp: "Sockets that have been dropped. Server waits for them to end from
\* the client-side": once the client has ended, the descriptor is closed and no
\* longer selected on.
EndedAreUnwatched == \A s \in registered : fd[s] # "closed"

\* serve-add-actor-start-segfault.tesh: the server of an actor whose process dies
\* reports "Simulation aborted" and returns 1.
FaultyActorReturnsOne ==
    ~ServerUp /\ (\E i \in DOMAIN actor : actor[i] \in {"failing", "failed"})
        => pc = "returned" /\ return_code = 1

============================================================================
