---------------------------- MODULE ServeProofs ----------------------------
(***************************************************************************)
(* Proofs about the server, for every set of clients, whatever commands    *)
(* they send and whichever of them die: TypeOK, ConnectedCount,            *)
(* StartsComplete, BookkeepingHolds and LaunchedOnce.                       *)
(*                                                                         *)
(* None of them is inductive.  IndInv adds how the state machine of        *)
(* serve() and the progress of the SimGrid thread constrain each other,    *)
(* who may own a socket, and which pids may be in the queue.               *)
(***************************************************************************)
EXTENDS Serve, FiniteSetTheorems, SequenceTheorems, TLAPS

\* The state of serve() and the progress of the SimGrid thread.
LifecycleInv ==
    /\ state \in {"ACCEPTING_NEW_ACTORS", "WAITING_FOR_ALL_ACTORS_CONNECTION"}
         => sim = "off"
    /\ state = "SIMULATION_FINISHED" => pc \in {"closing", "returned", "aborted"}
    /\ sim \in {"off", "launched", "maestro"} => to_command = <<>>

\* The map of registered actors: its ids, and who is connected.
RegistryInv ==
    /\ IsFiniteSet(DOMAIN actor_connections)
    /\ ConnectedCount
    /\ sim = "off" => ConsecutiveIds(DOMAIN actor_connections)
    /\ state = "SIMULATION_RUNNING" =>
         \A i \in DOMAIN actor_connections :
            ~Connected(i) => actor_connections[i].connect_ack

\* A socket an actor is connected to is not the socket of another actor, and
\* no longer a barely connected one once its turn in the traversal is over.
SocketInv ==
    /\ \A i, j \in DOMAIN actor_connections :
         Connected(i) /\ SocketOf(i) = SocketOf(j) => i = j
    /\ \A i \in DOMAIN actor_connections : Connected(i) =>
         /\ fd[SocketOf(i)] # "none"
         /\ SocketOf(i) \in barely_connected_sockets =>
              issuer.socket = SocketOf(i) /\ pc \in {"ack", "settle", "aborted"}
    /\ \A s \in barely_connected_sockets : fd[s] # "none"

\* The actors the simulation was launched with and those it has created.
LaunchInv ==
    /\ sim # "off" =>
         /\ ConsecutiveIds(initial)
         /\ \A i \in initial : i \in DOMAIN actor_connections /\ Connected(i)
    /\ sim \in {"launched", "maestro"} => initial = DOMAIN actor_connections

\* Pids are registered at most once: a queued ACTOR_CREATE carries a new one.
PidInv ==
    /\ sim = "running" => \A i \in DOMAIN actor_connections : i < next_pid
    /\ \A k \in DOMAIN to_command : to_command[k].type = "ACTOR_CREATE" =>
         /\ to_command[k].id \notin DOMAIN actor_connections
         /\ to_command[k].id < next_pid
    /\ \A k, l \in DOMAIN to_command :
         /\ to_command[k].type = "ACTOR_CREATE" /\ to_command[l].type = "ACTOR_CREATE"
         /\ to_command[k].id = to_command[l].id
         => k = l

\* Actors that use their socket are registered and connected.
ActorInv ==
    /\ sim \in {"off", "launched", "maestro"} => DOMAIN actor = {}
    /\ \A i \in connect_ack : i \in DOMAIN actor_connections /\ Connected(i)
    /\ \A i \in DOMAIN actor : actor[i] \in {"running", "failing"} =>
         i \in DOMAIN actor_connections /\ Connected(i)

IndInv ==
    /\ TypeOK /\ LifecycleInv /\ RegistryInv /\ SocketInv /\ LaunchInv
    /\ PidInv /\ ActorInv /\ BookkeepingHolds

USE SocketsAssumption DEF threadVars, registryVars, filingVars, traversalVars,
    queueVars, tcpVars, simVars, vars

----------------------------------------------------------------------------
(* Types *)

\* The id handed out by ADD_ACTOR is a number.
LEMMA NbActorsType ==
    ASSUME IndInv PROVE NbActors \in Nat
  BY FS_CardinalityType DEF IndInv, RegistryInv, NbActors

\* Elements of a message sequence.
LEMMA HeadOfQueue ==
    ASSUME NEW S, NEW q \in Seq(S), q # <<>>
    PROVE  Head(q) \in S /\ Tail(q) \in Seq(S)
  BY HeadTailProperties

\* What handle_command() leaves behind for the acknowledgement.
LEMMA ReplyType ==
    ASSUME NEW s \in Sockets, NEW a \in Answer, NEW d \in BOOLEAN, Reply(s, a, d)
    PROVE  issuer' \in Issuer /\ issuer'.socket \in Sockets
  BY DEF Reply, Issuer

\* An actor in its request loop reads a socket of a client.
LEMMA SocketOfType ==
    ASSUME IndInv, NEW i \in DOMAIN actor, actor[i] \in {"running", "failing"}
    PROVE  SocketOf(i) \in Sockets
  BY DEF IndInv, TypeOK, RegistryTypeOK, ActorInv, Connected, SocketOf, ActorConnection

\* Every step of a thread or client keeps the types of the locals of serve().
LEMMA ThreadTypeStep ==
    ASSUME IndInv, Next PROVE ThreadTypeOK'
<1> USE DEF IndInv, TypeOK, ThreadTypeOK
<1>1. CASE WaitAnyReadableFails
  BY <1>1 DEF WaitAnyReadableFails, Throw, ControlPoint, Error, LostClient
<1>2. CASE SignalCaught
  BY <1>2 DEF SignalCaught, CloseOpenSockets, Throw, ControlPoint, Error,
  LostClient
<1>3. CASE AcceptClient
  BY <1>3 DEF AcceptClient, ControlPoint
<1>4. CASE WaitAnyReadable
  BY <1>4 DEF WaitAnyReadable, ControlPoint
<1>5. ASSUME NEW s \in Sockets, ReadEof(s) PROVE ThreadTypeOK'
  BY <1>5 DEF ReadEof, Throw, ControlPoint, Error, LostClient
<1>6. ASSUME NEW s \in Sockets, HandleAddActor(s) PROVE ThreadTypeOK'
  BY <1>6 DEF HandleAddActor, CommandUnchanged, Throw, Reply, ControlPoint,
  Error, Misuse
<1>7. ASSUME NEW s \in Sockets, HandleStart(s) PROVE ThreadTypeOK'
  BY <1>7 DEF HandleStart, CommandUnchanged, Throw, Reply, ControlPoint, Error,
  Misuse, ServerState, StartSimulationInAnotherThread
<1>8. ASSUME NEW s \in Sockets, HandleKill(s) PROVE ThreadTypeOK'
  BY <1>8 DEF HandleKill, CommandUnchanged, Reply, ControlPoint, ServerState
<1>9. ASSUME NEW s \in Sockets, HandleStatus(s) PROVE ThreadTypeOK'
  BY <1>9 DEF HandleStatus, CommandUnchanged, Reply, ControlPoint
<1>10. ASSUME NEW s \in Sockets, HandleConnect(s) PROVE ThreadTypeOK'
  BY <1>10 DEF HandleConnect, CommandUnchanged, Throw, Reply, ControlPoint,
  Error, Misuse, BadBookkeeping, ServerState, StartSimulationInAnotherThread,
  ConnectActor, ConnectError
<1>11. ASSUME NEW s \in Sockets, HandleUnset(s) PROVE ThreadTypeOK'
  BY <1>11 DEF HandleUnset, CommandUnchanged, Throw, ControlPoint, Error, Misuse
<1>12. CASE WriteAck
  BY <1>12 DEF WriteAck, Throw, ControlPoint, Error, LostClient
<1>13. CASE Settle
  BY <1>13 DEF Settle, ControlPoint
<1>14. CASE EndTraverse
  BY <1>14 DEF EndTraverse, ControlPoint
<1>15. CASE EndDropped
  BY <1>15 DEF EndDropped, ControlPoint
<1>16. CASE PopNothing
  BY <1>16 DEF PopNothing, ControlPoint, LoopAgain
<1>17. CASE PopFinished
  BY <1>17 DEF PopFinished, ControlPoint, LoopAgain, ServerState
<1>18. CASE PopAborted
  BY <1>18 DEF PopAborted, ControlPoint, LoopAgain, ServerState
<1>19. CASE PopActorQuit
  BY <1>19 DEF PopActorQuit, ControlPoint, LoopAgain
<1>20. CASE PopActorCreate
  BY <1>20 DEF PopActorCreate, ControlPoint, LoopAgain, Throw, Error, BadBookkeeping
<1>21. CASE CloseAndReturn
  BY <1>21 DEF CloseAndReturn, CloseOpenSockets, Throw, ControlPoint, Error,
  LostClient
<1>22. CASE StartSimulation
  BY <1>22 DEF StartSimulation, Throw, ControlPoint, Error, BadBookkeeping
<1>23. CASE
         MaestroAbort \/ MaestroRun \/ SimulationEnds \/ RaiseSignal
  BY <1>23 DEF MaestroAbort, MaestroRun, SimulationEnds, RaiseSignal
<1>24. ASSUME NEW s \in Sockets,
         ReadDropped(s) \/ ClientConnect(s) \/ SendCommand(s) \/ ReadAck(s) \/
         CloseConnection(s) \/ SendQuit(s) \/ SendJunk(s) \/ Die(s) \/ ConnectionLost(s)
      PROVE ThreadTypeOK'
  BY <1>24 DEF ReadDropped, ClientConnect, SendCommand, ReadAck,
  CloseConnection, SendQuit, SendJunk, Die, ConnectionLost, ClientUnchanged
<1>25. ASSUME NEW i \in DOMAIN actor,
         ActorQuit(i) \/ ActorReadFails(i) \/ ActorFails(i) \/ ActorCreate(i) \/
         ActorCreateAck(i) \/ ActorConnected(i)
      PROVE ThreadTypeOK'
  BY <1>25 DEF ActorQuit, ActorReadFails, ActorFails, ActorCreate,
  ActorCreateAck, ActorConnected
<1> QED
  BY <1>1, <1>2, <1>3, <1>4, <1>5, <1>6, <1>7, <1>8, <1>9, <1>10, <1>11, <1>12,
  <1>13, <1>14, <1>15, <1>16, <1>17, <1>18, <1>19, <1>20, <1>21, <1>22, <1>23,
  <1>24, <1>25 DEF Next, CommandThread, SimGridThread, Client

\* ADD_ACTOR, CONNECT and ACTOR_CREATE keep the type of actor_connections.
LEMMA RegistryTypeStep ==
    ASSUME IndInv, Next PROVE RegistryTypeOK'
<1> USE DEF IndInv, TypeOK, RegistryTypeOK
<1>1. ASSUME NEW s \in Sockets, HandleAddActor(s) PROVE RegistryTypeOK'
  <2>1. NbActors + 2 \in Nat
    BY NbActorsType
  <2>2. command[s].host \in BOOLEAN
    BY DEF TcpTypeOK, Command
  <2> DEFINE new == [socket |-> NoSocket, connect_ack |-> FALSE,
                     host |-> command[s].host]
  <2>3. new \in ActorConnection
    BY <2>2 DEF ActorConnection
  <2>4. CASE actor_connections' = Put(actor_connections, NbActors + 2, new)
    <3> HIDE DEF new
    <3> QED
      BY <1>1, <2>1, <2>3, <2>4 DEF HandleAddActor, Put
  <2> QED
    BY <1>1, <2>4 DEF HandleAddActor
<1>2. ASSUME NEW s \in Sockets, HandleConnect(s) PROVE RegistryTypeOK'
  <2> DEFINE id == command[s].id
  <2>1. CASE UNCHANGED registryVars
    BY <2>1
  <2>2. CASE ConnectError(id) = "none" /\ ConnectActor(s, id)
    <3>1. id \in DOMAIN actor_connections
      BY <2>2 DEF ConnectError
    <3>2. actor_connections' = [actor_connections EXCEPT ![id].socket = s]
      BY <2>2 DEF ConnectActor, SetSocket
    <3>3. \A i \in DOMAIN actor_connections : actor_connections'[i] \in ActorConnection
      <4> HIDE DEF id
      <4> QED
        BY <3>1, <3>2 DEF ActorConnection
    <3> QED
      BY <2>2, <3>2, <3>3 DEF ConnectActor
  <2> QED
    BY <1>2, <2>1, <2>2 DEF HandleConnect
<1>3. CASE PopActorCreate
  <2> DEFINE id == Head(to_command).id
             new == [socket |-> NoSocket, connect_ack |-> TRUE, host |-> TRUE]
  <2>1. id \in Nat
    BY <1>3, HeadOfQueue DEF PopActorCreate, Popped, QueueTypeOK, InterthreadMessage
  <2>2. new \in ActorConnection
    BY DEF ActorConnection
  <2>3. CASE actor_connections' = Put(actor_connections, id, new)
    <3> HIDE DEF new, id
    <3> QED
      BY <1>3, <2>1, <2>2, <2>3 DEF PopActorCreate, Put
  <2> QED
    BY <1>3, <2>3 DEF PopActorCreate
<1>4. CASE
         WaitAnyReadableFails \/ SignalCaught \/ AcceptClient \/ WaitAnyReadable \/
         WriteAck \/ Settle \/ EndTraverse \/ EndDropped \/ PopNothing \/ PopFinished \/
         PopAborted \/ PopActorQuit \/ CloseAndReturn \/ StartSimulation \/
         MaestroAbort \/ MaestroRun \/ SimulationEnds \/ RaiseSignal
  BY <1>4 DEF WaitAnyReadableFails, SignalCaught, AcceptClient, WaitAnyReadable,
  WriteAck, Settle, EndTraverse, EndDropped, PopNothing, PopFinished,
  PopAborted, PopActorQuit, CloseAndReturn, StartSimulation, MaestroAbort,
  MaestroRun, SimulationEnds, RaiseSignal
<1>5. ASSUME NEW s \in Sockets,
         ReadEof(s) \/ HandleStart(s) \/ HandleKill(s) \/ HandleStatus(s) \/
         HandleUnset(s) \/ ReadDropped(s) \/ ClientConnect(s) \/ SendCommand(s) \/
         ReadAck(s) \/ CloseConnection(s) \/ SendQuit(s) \/ SendJunk(s) \/ Die(s) \/
         ConnectionLost(s)
      PROVE RegistryTypeOK'
  BY <1>5 DEF ReadEof, HandleStart, HandleKill, HandleStatus, HandleUnset,
  ReadDropped, ClientConnect, SendCommand, ReadAck, CloseConnection, SendQuit,
  SendJunk, Die, ConnectionLost, ClientUnchanged, CommandUnchanged
<1>6. ASSUME NEW i \in DOMAIN actor,
         ActorQuit(i) \/ ActorReadFails(i) \/ ActorFails(i) \/ ActorCreate(i) \/
         ActorCreateAck(i) \/ ActorConnected(i)
      PROVE RegistryTypeOK'
  BY <1>6 DEF ActorQuit, ActorReadFails, ActorFails, ActorCreate,
  ActorCreateAck, ActorConnected
<1> QED
  BY <1>1, <1>2, <1>3, <1>4, <1>5, <1>6 DEF Next, CommandThread, SimGridThread,
  Client

\* Only sockets of clients are filed, and only the issuer of a command is answered.
LEMMA FilingTypeStep ==
    ASSUME IndInv, Next PROVE FilingTypeOK'
<1> USE DEF IndInv, TypeOK, FilingTypeOK
<1>1. CASE WaitAnyReadableFails
  BY <1>1 DEF WaitAnyReadableFails, Throw
<1>2. CASE SignalCaught
  BY <1>2 DEF SignalCaught, CloseOpenSockets, Throw
<1>3. CASE AcceptClient
  BY <1>3 DEF AcceptClient, Backlog
<1>4. CASE WaitAnyReadable
  BY <1>4 DEF WaitAnyReadable
<1>5. ASSUME NEW s \in Sockets, ReadEof(s) PROVE FilingTypeOK'
  BY <1>5 DEF ReadEof, Throw
<1>6. ASSUME NEW s \in Sockets, HandleAddActor(s) PROVE FilingTypeOK'
  <2>1. Success(NbActors + 2) \in Answer /\ Failure \in Answer
    BY NbActorsType DEF Answer, Success, Failure
  <2>2. CASE Reply(s, Success(NbActors + 2), TRUE) \/ Reply(s, Failure, TRUE)
    <3>1. issuer' \in Issuer /\ issuer'.socket \in Sockets
      BY <2>1, <2>2, ReplyType
    <3> QED
      BY <1>6, <3>1 DEF HandleAddActor, CommandUnchanged
  <2>3. CASE pc' = "aborted" /\ UNCHANGED issuer
    BY <1>6, <2>3 DEF HandleAddActor, CommandUnchanged
  <2> QED
    BY <1>6, <2>2, <2>3 DEF HandleAddActor, Throw
<1>7. ASSUME NEW s \in Sockets, HandleStart(s) PROVE FilingTypeOK'
  <2>1. Success(0) \in Answer /\ Failure \in Answer
    BY DEF Answer, Success, Failure
  <2>2. CASE Reply(s, Success(0), TRUE)
    <3>1. issuer' \in Issuer /\ issuer'.socket \in Sockets
      BY <2>1, <2>2, ReplyType
    <3> QED
      BY <1>7, <3>1 DEF HandleStart, CommandUnchanged
  <2>3. CASE pc' = "aborted" /\ UNCHANGED issuer
    BY <1>7, <2>3 DEF HandleStart, CommandUnchanged
  <2> QED
    BY <1>7, <2>2, <2>3 DEF HandleStart, Throw
<1>8. ASSUME NEW s \in Sockets, HandleKill(s) PROVE FilingTypeOK'
  BY <1>8 DEF HandleKill, CommandUnchanged, Reply, Received, Readable, Issuer,
  Answer, Failure, Success
<1>9. ASSUME NEW s \in Sockets, HandleStatus(s) PROVE FilingTypeOK'
  BY <1>9 DEF HandleStatus, CommandUnchanged, Reply, Received, Readable, Issuer,
  Answer, Success, RegistryTypeOK
<1>10. ASSUME NEW s \in Sockets, HandleConnect(s) PROVE FilingTypeOK'
  <2>1. Success(0) \in Answer /\ Failure \in Answer
    BY DEF Answer, Success, Failure
  <2>2. CASE Reply(s, Success(0), FALSE) \/ Reply(s, Failure, TRUE)
    <3>1. issuer' \in Issuer /\ issuer'.socket \in Sockets
      BY <2>1, <2>2, ReplyType
    <3> QED
      BY <1>10, <3>1 DEF HandleConnect, CommandUnchanged
  <2>3. CASE pc' = "aborted" /\ UNCHANGED issuer
    BY <1>10, <2>3 DEF HandleConnect, CommandUnchanged
  <2> QED
    BY <1>10, <2>2, <2>3 DEF HandleConnect, Throw, ConnectActor
<1>11. ASSUME NEW s \in Sockets, HandleUnset(s) PROVE FilingTypeOK'
  BY <1>11 DEF HandleUnset, CommandUnchanged, Throw
<1>12. ASSUME NEW s \in Sockets, ReadDropped(s) PROVE FilingTypeOK'
  BY <1>12 DEF ReadDropped, WatchedAfterEnd
<1>13. CASE WriteAck
  BY <1>13 DEF WriteAck, Throw
<1>14. CASE Settle
  BY <1>14 DEF Settle, WatchedAfterHandover, NoIssuer, Issuer, Answer, Failure
<1>15. CASE EndTraverse
  BY <1>15 DEF EndTraverse
<1>16. CASE EndDropped
  BY <1>16 DEF EndDropped
<1>17. CASE PopNothing
  BY <1>17 DEF PopNothing, LoopAgain
<1>18. CASE PopFinished
  BY <1>18 DEF PopFinished, LoopAgain
<1>19. CASE PopAborted
  BY <1>19 DEF PopAborted, LoopAgain
<1>20. CASE PopActorQuit
  <2>1. Head(to_command) \in InterthreadMessage
    BY <1>20, HeadOfQueue DEF PopActorQuit, Popped, QueueTypeOK
  <2> QED
    BY <1>20, <2>1 DEF PopActorQuit, Popped, LoopAgain, InterthreadMessage
<1>21. CASE PopActorCreate
  BY <1>21 DEF PopActorCreate, LoopAgain, Throw
<1>22. CASE CloseAndReturn
  BY <1>22 DEF CloseAndReturn, CloseOpenSockets, Throw
<1>23. CASE StartSimulation
  BY <1>23 DEF StartSimulation, Throw
<1>24. CASE
         MaestroAbort \/ MaestroRun \/ SimulationEnds \/ RaiseSignal
  BY <1>24 DEF MaestroAbort, MaestroRun, SimulationEnds, RaiseSignal
<1>25. ASSUME NEW s \in Sockets,
         ClientConnect(s) \/ SendCommand(s) \/ ReadAck(s) \/ CloseConnection(s) \/
         SendQuit(s) \/ SendJunk(s) \/ Die(s) \/ ConnectionLost(s)
      PROVE FilingTypeOK'
  BY <1>25 DEF ClientConnect, SendCommand, ReadAck, CloseConnection, SendQuit,
  SendJunk, Die, ConnectionLost, ClientUnchanged
<1>26. ASSUME NEW i \in DOMAIN actor,
         ActorQuit(i) \/ ActorReadFails(i) \/ ActorFails(i) \/ ActorCreate(i) \/
         ActorCreateAck(i) \/ ActorConnected(i)
      PROVE FilingTypeOK'
  BY <1>26 DEF ActorQuit, ActorReadFails, ActorFails, ActorCreate,
  ActorCreateAck, ActorConnected
<1> QED
  BY <1>1, <1>2, <1>3, <1>4, <1>5, <1>6, <1>7, <1>8, <1>9, <1>10, <1>11, <1>12,
  <1>13, <1>14, <1>15, <1>16, <1>17, <1>18, <1>19, <1>20, <1>21, <1>22, <1>23,
  <1>24, <1>25, <1>26 DEF Next, CommandThread, SimGridThread, Client

\* Pushes and pops keep the types of the inter-thread queues.
LEMMA QueueTypeStep ==
    ASSUME IndInv, Next PROVE QueueTypeOK'
<1> USE DEF IndInv, TypeOK, QueueTypeOK
<1>1. ASSUME NEW s \in Sockets, HandleConnect(s) PROVE QueueTypeOK'
  <2>1. command[s].id \in Nat
    BY DEF TcpTypeOK, Command
  <2>2. connect_ack' \subseteq Nat
    BY <1>1, <2>1 DEF HandleConnect, ConnectActor
  <2> QED
    BY <1>1, <2>2 DEF HandleConnect, CommandUnchanged
<1>2. CASE PopFinished
  BY <1>2 DEF PopFinished, Popped
<1>3. CASE PopAborted
  BY <1>3 DEF PopAborted, Popped
<1>4. CASE PopActorQuit
  BY <1>4 DEF PopActorQuit, Popped
<1>5. CASE PopActorCreate
  <2>1. Head(to_command).id \in Nat /\ Tail(to_command) \in Seq(InterthreadMessage)
    BY <1>5, HeadOfQueue DEF PopActorCreate, Popped, InterthreadMessage
  <2> QED
    BY <1>5, <2>1 DEF PopActorCreate, Popped
<1>6. CASE MaestroAbort
  BY <1>6 DEF MaestroAbort, Message, InterthreadMessage, NoPid
<1>7. CASE SimulationEnds
  BY <1>7 DEF SimulationEnds, Message, InterthreadMessage, NoPid
<1>8. ASSUME NEW i \in DOMAIN actor, ActorQuit(i) PROVE QueueTypeOK'
  <2>1. Message("ACTOR_QUIT", SocketOf(i), NoPid) \in InterthreadMessage
    BY <1>8, SocketOfType DEF ActorQuit, Message, InterthreadMessage, NoPid
  <2> QED
    BY <1>8, <2>1 DEF ActorQuit
<1>9. ASSUME NEW i \in DOMAIN actor, ActorFails(i) PROVE QueueTypeOK'
  BY <1>9 DEF ActorFails, Message, InterthreadMessage, NoPid
<1>10. ASSUME NEW i \in DOMAIN actor, ActorCreate(i) PROVE QueueTypeOK'
  BY <1>10 DEF ActorCreate, Message, InterthreadMessage, NoPid, SimTypeOK
<1>11. ASSUME NEW i \in DOMAIN actor, ActorCreateAck(i) PROVE QueueTypeOK'
  BY <1>11 DEF ActorCreateAck
<1>12. ASSUME NEW i \in DOMAIN actor, ActorConnected(i) PROVE QueueTypeOK'
  BY <1>12 DEF ActorConnected
<1>13. CASE
         WaitAnyReadableFails \/ SignalCaught \/ AcceptClient \/ WaitAnyReadable \/
         WriteAck \/ Settle \/ EndTraverse \/ EndDropped \/ PopNothing \/ CloseAndReturn \/
         StartSimulation \/ MaestroRun \/ RaiseSignal
  BY <1>13 DEF WaitAnyReadableFails, SignalCaught, AcceptClient,
  WaitAnyReadable, WriteAck, Settle, EndTraverse, EndDropped, PopNothing,
  CloseAndReturn, StartSimulation, MaestroRun, RaiseSignal
<1>14. ASSUME NEW s \in Sockets,
         ReadEof(s) \/ HandleAddActor(s) \/ HandleStart(s) \/ HandleKill(s) \/
         HandleStatus(s) \/ HandleUnset(s) \/ ReadDropped(s) \/ ClientConnect(s) \/
         SendCommand(s) \/ ReadAck(s) \/ CloseConnection(s) \/ SendQuit(s) \/
         SendJunk(s) \/ Die(s) \/ ConnectionLost(s)
      PROVE QueueTypeOK'
  BY <1>14 DEF ReadEof, HandleAddActor, HandleStart, HandleKill, HandleStatus,
  HandleUnset, ReadDropped, ClientConnect, SendCommand, ReadAck,
  CloseConnection, SendQuit, SendJunk, Die, ConnectionLost, ClientUnchanged,
  CommandUnchanged
<1>15. ASSUME NEW i \in DOMAIN actor,
         ActorReadFails(i)
      PROVE QueueTypeOK'
  BY <1>15 DEF ActorReadFails
<1> QED
  BY <1>1, <1>2, <1>3, <1>4, <1>5, <1>6, <1>7, <1>8, <1>9, <1>10, <1>11, <1>12,
  <1>13, <1>14, <1>15 DEF Next, CommandThread, SimGridThread, Client

\* Server and clients keep the types of the state of the TCP connections.
LEMMA TcpTypeStep ==
    ASSUME IndInv, Next PROVE TcpTypeOK'
<1> USE DEF IndInv, TypeOK, TcpTypeOK
<1>1. CASE SignalCaught
  BY <1>1 DEF SignalCaught, CloseOpenSockets
<1>2. CASE AcceptClient
  BY <1>2 DEF AcceptClient
<1>3. ASSUME NEW s \in Sockets, HandleAddActor(s) PROVE TcpTypeOK'
  BY <1>3 DEF HandleAddActor, CommandUnchanged, Received, Inbox
<1>4. ASSUME NEW s \in Sockets, HandleStart(s) PROVE TcpTypeOK'
  BY <1>4 DEF HandleStart, CommandUnchanged, Received, Inbox
<1>5. ASSUME NEW s \in Sockets, HandleKill(s) PROVE TcpTypeOK'
  BY <1>5 DEF HandleKill, CommandUnchanged, Received, Inbox
<1>6. ASSUME NEW s \in Sockets, HandleStatus(s) PROVE TcpTypeOK'
  BY <1>6 DEF HandleStatus, CommandUnchanged, Received, Inbox
<1>7. ASSUME NEW s \in Sockets, HandleConnect(s) PROVE TcpTypeOK'
  BY <1>7 DEF HandleConnect, CommandUnchanged, Received, Inbox
<1>8. ASSUME NEW s \in Sockets, HandleUnset(s) PROVE TcpTypeOK'
  BY <1>8 DEF HandleUnset, CommandUnchanged, Received, Inbox
<1>9. ASSUME NEW s \in Sockets, ReadDropped(s) PROVE TcpTypeOK'
  BY <1>9 DEF ReadDropped, Inbox
<1>10. CASE WriteAck
  <2> DEFINE s == issuer.socket
  <2>1. s \in Sockets /\ issuer.answer \in Answer
    BY <1>10 DEF WriteAck, FilingTypeOK, Issuer
  <2>2. <<issuer.answer>> \in Seq(Answer)
    BY <2>1
  <2>3. ack' \in [Sockets -> Seq(Answer)]
    <3>1. ack' = ack \/ ack' = [ack EXCEPT ![s] = <<issuer.answer>>]
      BY <1>10 DEF WriteAck
    <3> HIDE DEF s
    <3> QED
      BY <2>1, <2>2, <3>1
  <2>4. client' \in [Sockets -> ClientState]
    <3>1. client' = client \/ client' = [client EXCEPT ![s] = "reset"]
      BY <1>10 DEF WriteAck
    <3> HIDE DEF s
    <3> QED
      BY <2>1, <3>1 DEF ClientState
  <2> QED
    BY <1>10, <2>3, <2>4 DEF WriteAck
<1>11. CASE CloseAndReturn
  BY <1>11 DEF CloseAndReturn, CloseOpenSockets
<1>12. ASSUME NEW i \in DOMAIN actor, ActorQuit(i) PROVE TcpTypeOK'
  BY <1>12 DEF ActorQuit, Inbox
<1>13. ASSUME NEW i \in DOMAIN actor, ActorReadFails(i) PROVE TcpTypeOK'
  BY <1>13 DEF ActorReadFails
<1>14. ASSUME NEW i \in DOMAIN actor, ActorCreateAck(i) PROVE TcpTypeOK'
  BY <1>14 DEF ActorCreateAck, QueueTypeOK
<1>15. ASSUME NEW s \in Sockets, ClientConnect(s) PROVE TcpTypeOK'
  <2>1. PICK c \in Commands(s) : /\ command' = [command EXCEPT ![s] = c]
                                /\ handed' = handed \ {c.id}
    BY <1>15 DEF ClientConnect
  <2>2. CommandsOf[s] \subseteq CommandType /\ {NoPid} \cup handed \cup 2 .. MaxPid \subseteq Nat
    BY DEF NoPid
  <2>3. c \in [type : CommandsOf[s], id : {NoPid} \cup handed \cup 2 .. MaxPid,
              host : BOOLEAN]
    BY <2>1 DEF Commands
  <2>4. c \in Command
    BY <2>2, <2>3 DEF Command
  <2> QED
    BY <1>15, <2>1, <2>4 DEF ClientConnect, ClientUnchanged, ClientState
<1>16. ASSUME NEW s \in Sockets, SendCommand(s) PROVE TcpTypeOK'
  BY <1>16 DEF SendCommand, ClientUnchanged, ClientState, Inbox
<1>17. ASSUME NEW s \in Sockets, ReadAck(s) PROVE TcpTypeOK'
  <2>1. Head(ack[s]) \in Answer
    BY <1>17, HeadOfQueue DEF ReadAck
  <2>2. handed' \subseteq Nat
    BY <1>17, <2>1 DEF ReadAck, Answer
  <2>3. ack' \in [Sockets -> Seq(Answer)] /\ client' \in [Sockets -> ClientState]
    BY <1>17 DEF ReadAck, ClientState
  <2> QED
    BY <1>17, <2>2, <2>3 DEF ReadAck, ClientUnchanged
<1>18. ASSUME NEW s \in Sockets, CloseConnection(s) PROVE TcpTypeOK'
  BY <1>18 DEF CloseConnection, ClientUnchanged, ClientState
<1>19. ASSUME NEW s \in Sockets, SendQuit(s) PROVE TcpTypeOK'
  BY <1>19 DEF SendQuit, ClientUnchanged, ClientState, Inbox
<1>20. ASSUME NEW s \in Sockets, SendJunk(s) PROVE TcpTypeOK'
  BY <1>20 DEF SendJunk, ClientUnchanged, Inbox
<1>21. ASSUME NEW s \in Sockets, Die(s) PROVE TcpTypeOK'
  BY <1>21 DEF Die, ClientUnchanged, ClientState
<1>22. ASSUME NEW s \in Sockets, ConnectionLost(s) PROVE TcpTypeOK'
  BY <1>22 DEF ConnectionLost, ClientUnchanged, ClientState
<1>23. CASE
         WaitAnyReadableFails \/ WaitAnyReadable \/ Settle \/ EndTraverse \/ EndDropped \/
         PopNothing \/ PopFinished \/ PopAborted \/ PopActorQuit \/ PopActorCreate \/
         StartSimulation \/ MaestroAbort \/ MaestroRun \/ SimulationEnds \/ RaiseSignal
  BY <1>23 DEF WaitAnyReadableFails, WaitAnyReadable, Settle, EndTraverse,
  EndDropped, PopNothing, PopFinished, PopAborted, PopActorQuit, PopActorCreate,
  StartSimulation, MaestroAbort, MaestroRun, SimulationEnds, RaiseSignal
<1>24. ASSUME NEW s \in Sockets,
         ReadEof(s)
      PROVE TcpTypeOK'
  BY <1>24 DEF ReadEof
<1>25. ASSUME NEW i \in DOMAIN actor,
         ActorFails(i) \/ ActorCreate(i) \/ ActorConnected(i)
      PROVE TcpTypeOK'
  BY <1>25 DEF ActorFails, ActorCreate, ActorConnected
<1> QED
  BY <1>1, <1>2, <1>3, <1>4, <1>5, <1>6, <1>7, <1>8, <1>9, <1>10, <1>11, <1>12,
  <1>13, <1>14, <1>15, <1>16, <1>17, <1>18, <1>19, <1>20, <1>21, <1>22, <1>23,
  <1>24, <1>25 DEF Next, CommandThread, SimGridThread, Client

\* The SimGrid thread keeps the types of its state.
LEMMA SimTypeStep ==
    ASSUME IndInv, Next PROVE SimTypeOK'
<1> USE DEF IndInv, TypeOK, SimTypeOK
<1>1. ASSUME NEW s \in Sockets, HandleStart(s) PROVE SimTypeOK'
  BY <1>1 DEF HandleStart, CommandUnchanged, StartSimulationInAnotherThread,
  SimState, RegistryTypeOK
<1>2. ASSUME NEW s \in Sockets, HandleConnect(s) PROVE SimTypeOK'
  BY <1>2 DEF HandleConnect, CommandUnchanged, StartSimulationInAnotherThread,
  SimState, ConnectActor, SetSocket, RegistryTypeOK
<1>3. CASE StartSimulation
  BY <1>3 DEF StartSimulation, SimState
<1>4. CASE MaestroAbort
  BY <1>4 DEF MaestroAbort, SimState
<1>5. CASE MaestroRun
  <2>1. Cardinality(initial) \in Nat
    BY <1>5, FS_CardinalityType DEF MaestroRun, LaunchInv, RegistryInv
  <2> QED
    BY <1>5, <2>1 DEF MaestroRun, SimState, ActorState
<1>6. CASE SimulationEnds
  BY <1>6 DEF SimulationEnds, SimState
<1>7. ASSUME NEW i \in DOMAIN actor, ActorQuit(i) PROVE SimTypeOK'
  BY <1>7 DEF ActorQuit, ActorState
<1>8. ASSUME NEW i \in DOMAIN actor, ActorReadFails(i) PROVE SimTypeOK'
  BY <1>8 DEF ActorReadFails, ActorState
<1>9. ASSUME NEW i \in DOMAIN actor, ActorFails(i) PROVE SimTypeOK'
  BY <1>9 DEF ActorFails, ActorState, NoPid
<1>10. ASSUME NEW i \in DOMAIN actor, ActorCreate(i) PROVE SimTypeOK'
  BY <1>10 DEF ActorCreate, ActorState, Put
<1>11. ASSUME NEW i \in DOMAIN actor, ActorCreateAck(i) PROVE SimTypeOK'
  BY <1>11 DEF ActorCreateAck, NoPid
<1>12. ASSUME NEW i \in DOMAIN actor, ActorConnected(i) PROVE SimTypeOK'
  BY <1>12 DEF ActorConnected, ActorState
<1>13. CASE RaiseSignal
  BY <1>13 DEF RaiseSignal
<1>14. CASE
         WaitAnyReadableFails \/ SignalCaught \/ AcceptClient \/ WaitAnyReadable \/
         WriteAck \/ Settle \/ EndTraverse \/ EndDropped \/ PopNothing \/ PopFinished \/
         PopAborted \/ PopActorQuit \/ PopActorCreate \/ CloseAndReturn
  BY <1>14 DEF WaitAnyReadableFails, SignalCaught, AcceptClient,
  WaitAnyReadable, WriteAck, Settle, EndTraverse, EndDropped, PopNothing,
  PopFinished, PopAborted, PopActorQuit, PopActorCreate, CloseAndReturn
<1>15. ASSUME NEW s \in Sockets,
         ReadEof(s) \/ HandleAddActor(s) \/ HandleKill(s) \/ HandleStatus(s) \/
         HandleUnset(s) \/ ReadDropped(s) \/ ClientConnect(s) \/ SendCommand(s) \/
         ReadAck(s) \/ CloseConnection(s) \/ SendQuit(s) \/ SendJunk(s) \/ Die(s) \/
         ConnectionLost(s)
      PROVE SimTypeOK'
  BY <1>15 DEF ReadEof, HandleAddActor, HandleKill, HandleStatus, HandleUnset,
  ReadDropped, ClientConnect, SendCommand, ReadAck, CloseConnection, SendQuit,
  SendJunk, Die, ConnectionLost, ClientUnchanged, CommandUnchanged
<1> QED
  BY <1>1, <1>2, <1>3, <1>4, <1>5, <1>6, <1>7, <1>8, <1>9, <1>10, <1>11, <1>12,
  <1>13, <1>14, <1>15 DEF Next, CommandThread, SimGridThread, Client

----------------------------------------------------------------------------
(* The registry of actors *)

\* A subset of a finite set with as many elements is the set.
LEMMA SameCardinality ==
    ASSUME NEW D, IsFiniteSet(D), NEW P \in SUBSET D, Cardinality(P) = Cardinality(D)
    PROVE  P = D
  BY FS_Subset

\* While actors are accepted, ADD_ACTOR's id, size() + 2, is a new one, and the
\* ids stay consecutive.
LEMMA FreshId ==
    ASSUME IndInv, state = "ACCEPTING_NEW_ACTORS"
    PROVE  /\ NbActors \in Nat
           /\ NbActors + 2 \notin DOMAIN actor_connections
           /\ DOMAIN actor_connections \cup {NbActors + 2} = 2 .. NbActors + 2
  BY NbActorsType DEF IndInv, LifecycleInv, RegistryInv, ConsecutiveIds, NbActors

\* When the counter equals the size of the map, everybody is connected.
LEMMA EverybodyConnected ==
    ASSUME IndInv, AllConnected(nb_connected_actors, actor_connections)
    PROVE  \A i \in DOMAIN actor_connections : Connected(i)
<1> DEFINE P == {i \in DOMAIN actor_connections : Connected(i)}
<1>1. IsFiniteSet(DOMAIN actor_connections) /\ P \in SUBSET DOMAIN actor_connections
  BY DEF IndInv, RegistryInv
<1>2. Cardinality(P) = Cardinality(DOMAIN actor_connections)
  BY DEF IndInv, RegistryInv, ConnectedCount, AllConnected
<1>3. P = DOMAIN actor_connections
  <2> HIDE DEF P
  <2> QED
    BY <1>1, <1>2, SameCardinality
<1> QED
  BY <1>3

\* What a successful CONNECT does to the map.
LEMMA ConnectEffect ==
    ASSUME IndInv, NEW s \in Sockets, NEW id, ConnectError(id) = "none",
           ConnectActor(s, id)
    PROVE  /\ id \in DOMAIN actor_connections /\ ~Connected(id)
           /\ DOMAIN actor_connections' = DOMAIN actor_connections
           /\ \A i \in DOMAIN actor_connections :
                /\ actor_connections'[i].connect_ack = actor_connections[i].connect_ack
                /\ actor_connections'[i].socket =
                     IF i = id THEN s ELSE actor_connections[i].socket
           /\ nb_connected_actors' = nb_connected_actors + 1
           /\ {i \in DOMAIN actor_connections' : Connected(i)'}
                = {i \in DOMAIN actor_connections : Connected(i)} \cup {id}
<1>1. id \in DOMAIN actor_connections /\ ~Connected(id)
  BY DEF ConnectError
<1>2. actor_connections' = [actor_connections EXCEPT ![id].socket = s]
  BY DEF ConnectActor, SetSocket
<1>3. \A i \in DOMAIN actor_connections : actor_connections[i] \in ActorConnection
  BY DEF IndInv, TypeOK, RegistryTypeOK
<1>4. \A i \in DOMAIN actor_connections :
        /\ actor_connections'[i].connect_ack = actor_connections[i].connect_ack
        /\ actor_connections'[i].socket =
             IF i = id THEN s ELSE actor_connections[i].socket
  BY <1>1, <1>2, <1>3 DEF ActorConnection
<1>5. DOMAIN actor_connections' = DOMAIN actor_connections
  BY <1>2
<1>6. nb_connected_actors' = nb_connected_actors + 1
  BY DEF ConnectActor
<1>7. {i \in DOMAIN actor_connections' : Connected(i)'}
        = {i \in DOMAIN actor_connections : Connected(i)} \cup {id}
  BY <1>1, <1>4, <1>5 DEF Connected
<1> QED
  BY <1>1, <1>4, <1>5, <1>6, <1>7

\* A successful CONNECT keeps the counter right.
LEMMA ConnectCount ==
    ASSUME IndInv, NEW s \in Sockets, NEW id, ConnectError(id) = "none",
           ConnectActor(s, id)
    PROVE  ConnectedCount' /\ IsFiniteSet(DOMAIN actor_connections')
<1> DEFINE P == {i \in DOMAIN actor_connections : Connected(i)}
<1>1. IsFiniteSet(DOMAIN actor_connections) /\ P \subseteq DOMAIN actor_connections
  BY DEF IndInv, RegistryInv
<1>2. IsFiniteSet(P) /\ nb_connected_actors = Cardinality(P)
  BY <1>1, FS_Subset DEF IndInv, RegistryInv, ConnectedCount
<1>3. id \notin P /\ {i \in DOMAIN actor_connections' : Connected(i)'} = P \cup {id}
  BY ConnectEffect
<1>4. Cardinality(P \cup {id}) = Cardinality(P) + 1
  <2> HIDE DEF P
  <2> QED
    BY <1>2, <1>3, FS_AddElement
<1>5. nb_connected_actors' = nb_connected_actors + 1 /\ DOMAIN actor_connections' = DOMAIN actor_connections
  BY ConnectEffect
<1> HIDE DEF P
<1> QED
  BY <1>1, <1>2, <1>3, <1>4, <1>5 DEF ConnectedCount

\* The last CONNECT connects everybody.
LEMMA LastConnect ==
    ASSUME IndInv, NEW s \in Sockets, NEW id, ConnectError(id) = "none",
           ConnectActor(s, id), AllConnected(nb_connected_actors', actor_connections')
    PROVE  \A i \in DOMAIN actor_connections' : Connected(i)'
<1> DEFINE P == {i \in DOMAIN actor_connections' : Connected(i)'}
<1>1. IsFiniteSet(DOMAIN actor_connections') /\ P \in SUBSET DOMAIN actor_connections'
  BY ConnectCount
<1>2. Cardinality(P) = Cardinality(DOMAIN actor_connections')
  BY ConnectCount DEF ConnectedCount, AllConnected
<1>3. P = DOMAIN actor_connections'
  <2> HIDE DEF P
  <2> QED
    BY <1>1, <1>2, SameCardinality
<1> QED
  BY <1>3

\* Registering an actor that nobody is connected to keeps the counter right.
LEMMA RegisterCount ==
    ASSUME IndInv, NEW id, id \notin DOMAIN actor_connections,
           NEW new, new.socket = NoSocket,
           actor_connections' = Put(actor_connections, id, new),
           UNCHANGED nb_connected_actors
    PROVE  /\ ConnectedCount'
           /\ DOMAIN actor_connections' = DOMAIN actor_connections \cup {id}
           /\ IsFiniteSet(DOMAIN actor_connections')
           /\ Cardinality(DOMAIN actor_connections') = NbActors + 1
           /\ \A i \in DOMAIN actor_connections : actor_connections'[i] = actor_connections[i]
           /\ actor_connections'[id] = new
<1>1. /\ DOMAIN actor_connections' = DOMAIN actor_connections \cup {id}
      /\ \A i \in DOMAIN actor_connections : actor_connections'[i] = actor_connections[i]
      /\ actor_connections'[id] = new
  BY DEF Put
<1>2. {i \in DOMAIN actor_connections' : Connected(i)'}
        = {i \in DOMAIN actor_connections : Connected(i)}
  BY <1>1 DEF Connected
<1>3. ConnectedCount'
  BY <1>2 DEF ConnectedCount, IndInv, RegistryInv
<1>4. IsFiniteSet(DOMAIN actor_connections) 
  BY DEF IndInv, RegistryInv
<1>5. /\ IsFiniteSet(DOMAIN actor_connections \cup {id})
      /\ Cardinality(DOMAIN actor_connections \cup {id}) = Cardinality(DOMAIN actor_connections) + 1
  BY <1>4, FS_AddElement
<1> QED
  BY <1>1, <1>3, <1>5 DEF NbActors

\* ADD_ACTOR, START, CONNECT and ACTOR_CREATE keep RegistryInv.
LEMMA RegistryStep ==
    ASSUME IndInv, Next PROVE RegistryInv'
<1> USE DEF IndInv, RegistryInv, ConsecutiveIds
<1>1. ASSUME NEW s \in Sockets, HandleAddActor(s) PROVE RegistryInv'
  <2>1. CASE UNCHANGED actor_connections
    BY <1>1, <2>1 DEF HandleAddActor, ConnectedCount, Connected
  <2> DEFINE new == [socket |-> NoSocket, connect_ack |-> FALSE, host |-> command[s].host]
  <2>2. CASE /\ state = "ACCEPTING_NEW_ACTORS"
             /\ actor_connections' = Put(actor_connections, NbActors + 2, new)
    <3>1. new.socket = NoSocket /\ UNCHANGED <<state, sim, nb_connected_actors>>
      BY <1>1 DEF HandleAddActor
    <3> HIDE DEF new
    <3>2. /\ ConnectedCount' /\ IsFiniteSet(DOMAIN actor_connections')
          /\ Cardinality(DOMAIN actor_connections') = NbActors + 1
          /\ DOMAIN actor_connections' = 2 .. NbActors + 2
      BY <2>2, <3>1, FreshId, RegisterCount
    <3> QED
      BY <2>2, <3>1, <3>2, FreshId
  <2> QED
    BY <1>1, <2>1, <2>2 DEF HandleAddActor, TypeOK, ThreadTypeOK, ServerState
<1>2. ASSUME NEW s \in Sockets, HandleStart(s) PROVE RegistryInv'
  <2>1. UNCHANGED registryVars
    BY <1>2 DEF HandleStart
  <2>2. CASE state' # "SIMULATION_RUNNING"
    BY <1>2, <2>1, <2>2 DEF HandleStart, StartSimulationInAnotherThread, ConnectedCount, Connected
  <2>3. CASE state = "SIMULATION_RUNNING"
    BY <1>2, <2>1, <2>3 DEF HandleStart, StartAllowed, Throw, ConnectedCount, Connected
  <2>4. CASE state # "SIMULATION_RUNNING" /\ state' = "SIMULATION_RUNNING"
    <3>1. AllConnected(nb_connected_actors, actor_connections) /\ sim' # "off"
      BY <1>2, <2>4 DEF HandleStart, StartSimulationInAnotherThread
    <3> QED
      BY <2>1, <3>1, EverybodyConnected DEF ConnectedCount, Connected
  <2> QED
    BY <2>2, <2>3, <2>4
<1>3. ASSUME NEW s \in Sockets, HandleKill(s) PROVE RegistryInv'
  BY <1>3 DEF HandleKill, CommandUnchanged, Received, Readable, Reply, ConnectedCount, Connected
<1>4. ASSUME NEW s \in Sockets, HandleConnect(s) PROVE RegistryInv'
  <2>1. CASE UNCHANGED <<state, sim, registryVars>>
    BY <2>1 DEF ConnectedCount, Connected
  <2>2. ASSUME NEW id, ConnectError(id) = "none", ConnectActor(s, id)
        PROVE  RegistryInv'
    <3>1. ConnectedCount' /\ IsFiniteSet(DOMAIN actor_connections')
      BY <2>2, ConnectCount
    <3>2. DOMAIN actor_connections' = DOMAIN actor_connections
      BY <2>2, ConnectEffect
    <3>3. sim' = "off" => sim = "off"
      BY <2>2 DEF ConnectActor, StartSimulationInAnotherThread
    <3>4. CASE state = "SIMULATION_RUNNING"
      <4>1. state' = state
        BY <2>2, <3>4 DEF ConnectActor
      <4>2. \A i \in DOMAIN actor_connections :
              ~Connected(i)' => ~Connected(i) \/ i = id
        BY <2>2, ConnectEffect DEF Connected
      <4>3. Connected(id)'
        <5>1. actor_connections'[id].socket = s
          BY <2>2, ConnectEffect
        <5> QED
          BY <5>1 DEF Connected
      <4> QED
        BY <2>2, <3>1, <3>2, <3>3, <3>4, <4>1, <4>2, <4>3, ConnectEffect
    <3>5. CASE state # "SIMULATION_RUNNING" /\ state' = "SIMULATION_RUNNING"
      <4>1. AllConnected(nb_connected_actors', actor_connections')
        BY <2>2, <3>5 DEF ConnectActor
      <4>2. \A i \in DOMAIN actor_connections' : Connected(i)'
        BY <2>2, <4>1, LastConnect
      <4> QED
        BY <3>1, <3>2, <3>3, <4>2
    <3> QED
      BY <3>1, <3>2, <3>3, <3>4, <3>5
  <2> QED
    BY <1>4, <2>1, <2>2 DEF HandleConnect
<1>5. CASE PopFinished
  BY <1>5 DEF PopFinished, Popped, LoopAgain, ConnectedCount, Connected
<1>6. CASE PopAborted
  BY <1>6 DEF PopAborted, Popped, LoopAgain, ConnectedCount, Connected
<1>7. CASE PopActorCreate
  <2> DEFINE id == Head(to_command).id
             new == [socket |-> NoSocket, connect_ack |-> TRUE, host |-> TRUE]
  <2>1. sim # "off" /\ UNCHANGED <<state, sim, nb_connected_actors>>
    BY <1>7 DEF PopActorCreate, Popped, LifecycleInv
  <2>2. CASE UNCHANGED actor_connections
    BY <2>1, <2>2 DEF ConnectedCount, Connected
  <2>3. CASE /\ id \notin DOMAIN actor_connections
             /\ actor_connections' = Put(actor_connections, id, new)
    <3>1. new.socket = NoSocket /\ new.connect_ack = TRUE
      OBVIOUS
    <3> HIDE DEF new, id
    <3>2. ConnectedCount' /\ IsFiniteSet(DOMAIN actor_connections')
      BY <2>1, <2>3, <3>1, RegisterCount
    <3>3. \A i \in DOMAIN actor_connections' :
            actor_connections'[i] = new \/
            (i \in DOMAIN actor_connections /\ actor_connections'[i] = actor_connections[i])
      BY <2>1, <2>3, <3>1, RegisterCount
    <3> QED
      BY <2>1, <3>1, <3>2, <3>3 DEF Connected
  <2> QED
    BY <1>7, <2>2, <2>3 DEF PopActorCreate
<1>8. CASE StartSimulation
  BY <1>8 DEF StartSimulation, Throw, ConnectedCount, Connected
<1>9. CASE MaestroAbort
  BY <1>9 DEF MaestroAbort, ConnectedCount, Connected
<1>10. CASE MaestroRun
  BY <1>10 DEF MaestroRun, ConnectedCount, Connected
<1>11. CASE SimulationEnds
  BY <1>11 DEF SimulationEnds, SimStep, ConnectedCount, Connected
<1>12. CASE
         WaitAnyReadableFails \/ SignalCaught \/ AcceptClient \/ WaitAnyReadable \/
         WriteAck \/ Settle \/ EndTraverse \/ EndDropped \/ PopNothing \/ PopActorQuit \/
         CloseAndReturn \/ RaiseSignal
  BY <1>12 DEF WaitAnyReadableFails, SignalCaught, AcceptClient,
  WaitAnyReadable, WriteAck, Settle, EndTraverse, EndDropped, PopNothing,
  PopActorQuit, CloseAndReturn, RaiseSignal, ConnectedCount, Connected
<1>13. ASSUME NEW s \in Sockets,
         ReadEof(s) \/ HandleStatus(s) \/ HandleUnset(s) \/ ReadDropped(s) \/
         ClientConnect(s) \/ SendCommand(s) \/ ReadAck(s) \/ CloseConnection(s) \/
         SendQuit(s) \/ SendJunk(s) \/ Die(s) \/ ConnectionLost(s)
      PROVE RegistryInv'
  BY <1>13 DEF ReadEof, HandleStatus, HandleUnset, ReadDropped, ClientConnect,
  SendCommand, ReadAck, CloseConnection, SendQuit, SendJunk, Die,
  ConnectionLost, ClientUnchanged, CommandUnchanged, ConnectedCount, Connected
<1>14. ASSUME NEW i \in DOMAIN actor,
         ActorQuit(i) \/ ActorReadFails(i) \/ ActorFails(i) \/ ActorCreate(i) \/
         ActorCreateAck(i) \/ ActorConnected(i)
      PROVE RegistryInv'
  BY <1>14 DEF ActorQuit, ActorReadFails, ActorFails, ActorCreate,
  ActorCreateAck, ActorConnected, ConnectedCount, Connected
<1> QED
  BY <1>1, <1>2, <1>3, <1>4, <1>5, <1>6, <1>7, <1>8, <1>9, <1>10, <1>11, <1>12,
  <1>13, <1>14 DEF Next, CommandThread, SimGridThread, Client

----------------------------------------------------------------------------
(* The life cycle of the server and of its sockets *)

\* Connected actors are connected to the socket of a client.
LEMMA ConnectedToSocket ==
    ASSUME IndInv
    PROVE  \A i \in DOMAIN actor_connections : Connected(i) => SocketOf(i) \in Sockets
  BY DEF IndInv, TypeOK, RegistryTypeOK, ActorConnection, Connected, SocketOf

\* serve() and the SimGrid thread advance together: every step keeps LifecycleInv.
LEMMA LifecycleStep ==
    ASSUME IndInv, Next PROVE LifecycleInv'
<1> USE DEF IndInv, LifecycleInv, TypeOK, QueueTypeOK
<1>1. CASE WaitAnyReadableFails
  BY <1>1 DEF WaitAnyReadableFails, Throw
<1>2. CASE SignalCaught
  BY <1>2 DEF SignalCaught, Selected, CloseOpenSockets, Throw
<1>3. CASE AcceptClient
  BY <1>3 DEF AcceptClient, Selected, Backlog
<1>4. CASE WaitAnyReadable
  BY <1>4 DEF WaitAnyReadable, Selected
<1>5. ASSUME NEW s \in Sockets, ReadEof(s) PROVE LifecycleInv'
  BY <1>5 DEF ReadEof, Readable, Throw
<1>6. ASSUME NEW s \in Sockets, HandleAddActor(s) PROVE LifecycleInv'
  BY <1>6 DEF HandleAddActor, CommandUnchanged, Received, Readable, Reply, Throw
<1>7. ASSUME NEW s \in Sockets, HandleStart(s) PROVE LifecycleInv'
  BY <1>7 DEF HandleStart, CommandUnchanged, Received, Readable, Reply, Throw,
  StartAllowed, StartSimulationInAnotherThread
<1>8. ASSUME NEW s \in Sockets, HandleKill(s) PROVE LifecycleInv'
  BY <1>8 DEF HandleKill, CommandUnchanged, Received, Readable, Reply
<1>9. ASSUME NEW s \in Sockets, HandleStatus(s) PROVE LifecycleInv'
  BY <1>9 DEF HandleStatus, CommandUnchanged, Received, Readable, Reply
<1>10. ASSUME NEW s \in Sockets, HandleConnect(s) PROVE LifecycleInv'
  BY <1>10 DEF HandleConnect, CommandUnchanged, Received, Readable, Reply,
  Throw, ConnectActor, StartSimulationInAnotherThread
<1>11. ASSUME NEW s \in Sockets, HandleUnset(s) PROVE LifecycleInv'
  BY <1>11 DEF HandleUnset, CommandUnchanged, Received, Readable, Throw
<1>12. ASSUME NEW s \in Sockets, ReadDropped(s) PROVE LifecycleInv'
  BY <1>12 DEF ReadDropped, WatchedAfterEnd
<1>13. CASE WriteAck
  BY <1>13 DEF WriteAck, Throw
<1>14. CASE Settle
  BY <1>14 DEF Settle, WatchedAfterHandover
<1>15. CASE EndTraverse
  BY <1>15 DEF EndTraverse
<1>16. CASE EndDropped
  BY <1>16 DEF EndDropped
<1>17. CASE PopNothing
  BY <1>17 DEF PopNothing, LoopAgain
<1>18. CASE PopFinished
  BY <1>18 DEF PopFinished, Popped, LoopAgain
<1>19. CASE PopAborted
  BY <1>19 DEF PopAborted, Popped, LoopAgain
<1>20. CASE PopActorQuit
  BY <1>20 DEF PopActorQuit, Popped, LoopAgain
<1>21. CASE PopActorCreate
  BY <1>21 DEF PopActorCreate, Popped, LoopAgain, Throw
<1>22. CASE CloseAndReturn
  BY <1>22 DEF CloseAndReturn, CloseOpenSockets, Throw
<1>23. CASE StartSimulation
  BY <1>23 DEF StartSimulation, Throw
<1>24. CASE MaestroAbort
  BY <1>24 DEF MaestroAbort
<1>25. CASE MaestroRun
  BY <1>25 DEF MaestroRun
<1>26. CASE SimulationEnds
  BY <1>26 DEF SimulationEnds, SimStep
<1>27. ASSUME NEW i \in DOMAIN actor, ActorQuit(i) PROVE LifecycleInv'
  BY <1>27 DEF ActorQuit, SimStep
<1>28. ASSUME NEW i \in DOMAIN actor, ActorReadFails(i) PROVE LifecycleInv'
  BY <1>28 DEF ActorReadFails, SimStep
<1>29. ASSUME NEW i \in DOMAIN actor, ActorFails(i) PROVE LifecycleInv'
  BY <1>29 DEF ActorFails, ActorInv
<1>30. ASSUME NEW i \in DOMAIN actor, ActorCreate(i) PROVE LifecycleInv'
  BY <1>30 DEF ActorCreate, SimStep
<1>31. ASSUME NEW i \in DOMAIN actor, ActorCreateAck(i) PROVE LifecycleInv'
  BY <1>31 DEF ActorCreateAck
<1>32. ASSUME NEW i \in DOMAIN actor, ActorConnected(i) PROVE LifecycleInv'
  BY <1>32 DEF ActorConnected, SimStep
<1>33. CASE
         RaiseSignal
  BY <1>33 DEF RaiseSignal
<1>34. ASSUME NEW s \in Sockets,
         ClientConnect(s) \/ SendCommand(s) \/ ReadAck(s) \/ CloseConnection(s) \/
         SendQuit(s) \/ SendJunk(s) \/ Die(s) \/ ConnectionLost(s)
      PROVE LifecycleInv'
  BY <1>34 DEF ClientConnect, SendCommand, ReadAck, CloseConnection, SendQuit,
  SendJunk, Die, ConnectionLost, ClientUnchanged
<1> QED
  BY <1>1, <1>2, <1>3, <1>4, <1>5, <1>6, <1>7, <1>8, <1>9, <1>10, <1>11, <1>12,
  <1>13, <1>14, <1>15, <1>16, <1>17, <1>18, <1>19, <1>20, <1>21, <1>22, <1>23,
  <1>24, <1>25, <1>26, <1>27, <1>28, <1>29, <1>30, <1>31, <1>32, <1>33,
  <1>34 DEF Next, CommandThread, SimGridThread, Client

\* A socket is given to one actor, and then leaves the barely connected ones.
LEMMA SocketStep ==
    ASSUME IndInv, Next PROVE SocketInv'
<1> USE DEF IndInv, SocketInv, Connected, SocketOf, TypeOK, FilingTypeOK, TcpTypeOK, RegistryTypeOK
<1>1. CASE WaitAnyReadableFails
  BY <1>1 DEF WaitAnyReadableFails, Throw
<1>2. CASE SignalCaught
  <2>1. \A s \in Sockets : fd[s] # "none" => fd'[s] # "none"
    BY <1>2 DEF SignalCaught, CloseOpenSockets
  <2>2. CASE barely_connected_sockets' = {}
    BY <1>2, <2>1, <2>2, ConnectedToSocket DEF SignalCaught
  <2>3. CASE pc' = "aborted" /\ UNCHANGED barely_connected_sockets
    BY <1>2, <2>1, <2>3, ConnectedToSocket DEF SignalCaught
  <2> QED
    BY <1>2, <2>2, <2>3 DEF SignalCaught, CloseOpenSockets, Throw
<1>3. CASE AcceptClient
  BY <1>3 DEF AcceptClient, Selected, Backlog
<1>4. CASE WaitAnyReadable
  BY <1>4 DEF WaitAnyReadable, Selected
<1>5. ASSUME NEW s \in Sockets, ReadEof(s) PROVE SocketInv'
  BY <1>5 DEF ReadEof, Readable, Throw
<1>6. ASSUME NEW s \in Sockets, HandleAddActor(s) PROVE SocketInv'
  BY <1>6 DEF HandleAddActor, CommandUnchanged, Received, Readable, Reply,
  Throw, Put
<1>7. ASSUME NEW s \in Sockets, HandleStart(s) PROVE SocketInv'
  BY <1>7 DEF HandleStart, CommandUnchanged, Received, Readable, Reply, Throw,
  StartAllowed, StartSimulationInAnotherThread
<1>8. ASSUME NEW s \in Sockets, HandleKill(s) PROVE SocketInv'
  BY <1>8 DEF HandleKill, CommandUnchanged, Received, Readable, Reply
<1>9. ASSUME NEW s \in Sockets, HandleStatus(s) PROVE SocketInv'
  BY <1>9 DEF HandleStatus, CommandUnchanged, Received, Readable, Reply
<1>10. ASSUME NEW s \in Sockets, HandleConnect(s) PROVE SocketInv'
  <2>1. /\ pc = "traverse" /\ s \in barely_connected_sockets
        /\ UNCHANGED <<fd, barely_connected_sockets>>
    BY <1>10 DEF HandleConnect, Received, Readable, CommandUnchanged
  <2>2. CASE UNCHANGED registryVars
    BY <2>1, <2>2
  <2>3. ASSUME NEW id, ConnectError(id) = "none", ConnectActor(s, id)
        PROVE  SocketInv'
    <3>1. /\ DOMAIN actor_connections' = DOMAIN actor_connections
          /\ id \in DOMAIN actor_connections
          /\ \A i \in DOMAIN actor_connections :
               SocketOf(i)' = IF i = id THEN s ELSE SocketOf(i)
      BY <2>3, ConnectEffect
    <3>2. \A i \in DOMAIN actor_connections : SocketOf(i) # s
      BY <2>1
    <3>3. issuer'.socket = s /\ pc' = "ack"
      BY <2>3 DEF ConnectActor, Reply
    <3> QED
      BY <2>1, <3>1, <3>2, <3>3
  <2> QED
    BY <1>10, <2>2, <2>3 DEF HandleConnect
<1>11. ASSUME NEW s \in Sockets, HandleUnset(s) PROVE SocketInv'
  BY <1>11 DEF HandleUnset, CommandUnchanged, Received, Readable, Throw
<1>12. ASSUME NEW s \in Sockets, ReadDropped(s) PROVE SocketInv'
  <2>1. \A t \in Sockets : fd[t] # "none" => fd'[t] # "none"
    BY <1>12 DEF ReadDropped
  <2> QED
    BY <1>12, <2>1, ConnectedToSocket DEF ReadDropped
<1>13. CASE WriteAck
  BY <1>13 DEF WriteAck, Throw
<1>14. CASE Settle
  BY <1>14 DEF Settle, WatchedAfterHandover
<1>15. CASE EndTraverse
  BY <1>15 DEF EndTraverse
<1>16. CASE EndDropped
  BY <1>16 DEF EndDropped
<1>17. CASE PopNothing
  BY <1>17 DEF PopNothing, LoopAgain
<1>18. CASE PopFinished
  BY <1>18 DEF PopFinished, Popped, LoopAgain
<1>19. CASE PopAborted
  BY <1>19 DEF PopAborted, Popped, LoopAgain
<1>20. CASE PopActorQuit
  BY <1>20 DEF PopActorQuit, Popped, LoopAgain
<1>21. CASE PopActorCreate
  BY <1>21 DEF PopActorCreate, Popped, LoopAgain, Throw, Put
<1>22. CASE CloseAndReturn
  <2>1. \A s \in Sockets : fd[s] # "none" => fd'[s] # "none"
    BY <1>22 DEF CloseAndReturn, CloseOpenSockets
  <2>2. CASE barely_connected_sockets' = {}
    BY <1>22, <2>1, <2>2, ConnectedToSocket DEF CloseAndReturn
  <2>3. CASE pc' = "aborted" /\ UNCHANGED barely_connected_sockets
    BY <1>22, <2>1, <2>3, ConnectedToSocket DEF CloseAndReturn
  <2> QED
    BY <1>22, <2>2, <2>3 DEF CloseAndReturn, CloseOpenSockets, Throw
<1>23. CASE StartSimulation
  BY <1>23 DEF StartSimulation, Throw
<1>24. CASE MaestroAbort
  BY <1>24 DEF MaestroAbort
<1>25. CASE MaestroRun
  BY <1>25 DEF MaestroRun
<1>26. CASE SimulationEnds
  BY <1>26 DEF SimulationEnds, SimStep
<1>27. ASSUME NEW i \in DOMAIN actor, ActorQuit(i) PROVE SocketInv'
  BY <1>27 DEF ActorQuit, SimStep
<1>28. ASSUME NEW i \in DOMAIN actor, ActorReadFails(i) PROVE SocketInv'
  BY <1>28 DEF ActorReadFails, SimStep
<1>29. ASSUME NEW i \in DOMAIN actor, ActorFails(i) PROVE SocketInv'
  BY <1>29 DEF ActorFails
<1>30. ASSUME NEW i \in DOMAIN actor, ActorCreate(i) PROVE SocketInv'
  BY <1>30 DEF ActorCreate, SimStep
<1>31. ASSUME NEW i \in DOMAIN actor, ActorCreateAck(i) PROVE SocketInv'
  BY <1>31 DEF ActorCreateAck
<1>32. ASSUME NEW i \in DOMAIN actor, ActorConnected(i) PROVE SocketInv'
  BY <1>32 DEF ActorConnected, SimStep
<1>33. CASE
         RaiseSignal
  BY <1>33 DEF RaiseSignal
<1>34. ASSUME NEW s \in Sockets,
         ClientConnect(s) \/ SendCommand(s) \/ ReadAck(s) \/ CloseConnection(s) \/
         SendQuit(s) \/ SendJunk(s) \/ Die(s) \/ ConnectionLost(s)
      PROVE SocketInv'
  BY <1>34 DEF ClientConnect, SendCommand, ReadAck, CloseConnection, SendQuit,
  SendJunk, Die, ConnectionLost, ClientUnchanged
<1> QED
  BY <1>1, <1>2, <1>3, <1>4, <1>5, <1>6, <1>7, <1>8, <1>9, <1>10, <1>11, <1>12,
  <1>13, <1>14, <1>15, <1>16, <1>17, <1>18, <1>19, <1>20, <1>21, <1>22, <1>23,
  <1>24, <1>25, <1>26, <1>27, <1>28, <1>29, <1>30, <1>31, <1>32, <1>33,
  <1>34 DEF Next, CommandThread, SimGridThread, Client

\* START and the last CONNECT launch the simulation with every actor connected.
LEMMA LaunchStep ==
    ASSUME IndInv, Next PROVE LaunchInv'
<1> USE DEF IndInv, LaunchInv, Connected, ConsecutiveIds
<1>1. ASSUME NEW s \in Sockets, HandleAddActor(s) PROVE LaunchInv'
  <2>1. CASE UNCHANGED actor_connections
    BY <1>1, <2>1 DEF HandleAddActor
  <2>2. CASE state = "ACCEPTING_NEW_ACTORS"
    BY <1>1, <2>2 DEF HandleAddActor, LifecycleInv
  <2> QED
    BY <1>1, <2>1, <2>2 DEF HandleAddActor, TypeOK, ThreadTypeOK, ServerState
<1>2. ASSUME NEW s \in Sockets, HandleStart(s) PROVE LaunchInv'
  <2>1. CASE UNCHANGED <<sim, initial>>
    BY <1>2, <2>1 DEF HandleStart
  <2>2. CASE /\ StartAllowed /\ AllConnected(nb_connected_actors, actor_connections)
             /\ StartSimulationInAnotherThread(actor_connections)
    <3>1. sim = "off" /\ AllConnected(nb_connected_actors, actor_connections)
      BY <2>2 DEF StartAllowed, LifecycleInv
    <3>2. ConsecutiveIds(DOMAIN actor_connections)
      BY <3>1 DEF RegistryInv
    <3>3. UNCHANGED actor_connections
      BY <1>2 DEF HandleStart
    <3> QED
      BY <2>2, <3>1, <3>2, <3>3, EverybodyConnected
         DEF StartSimulationInAnotherThread
  <2> QED
    BY <1>2, <2>1, <2>2 DEF HandleStart
<1>3. ASSUME NEW s \in Sockets, HandleConnect(s) PROVE LaunchInv'
  <2>1. CASE UNCHANGED <<sim, initial, registryVars>>
    BY <2>1
  <2>2. ASSUME NEW id, ConnectError(id) = "none", ConnectActor(s, id)
        PROVE  LaunchInv'
    <3>1. /\ DOMAIN actor_connections' = DOMAIN actor_connections
          /\ \A i \in DOMAIN actor_connections : Connected(i) => Connected(i)'
      BY <2>2, ConnectEffect
    <3>2. CASE UNCHANGED <<sim, initial>>
      BY <3>1, <3>2
    <3>3. CASE /\ state = "WAITING_FOR_ALL_ACTORS_CONNECTION"
               /\ AllConnected(nb_connected_actors', actor_connections')
               /\ StartSimulationInAnotherThread(actor_connections')
      <4>1. sim = "off" /\ AllConnected(nb_connected_actors', actor_connections')
        BY <3>3 DEF LifecycleInv
      <4>2. ConsecutiveIds(DOMAIN actor_connections)
        BY <4>1 DEF RegistryInv
      <4> QED
        BY <2>2, <3>1, <3>3, <4>1, <4>2, LastConnect DEF StartSimulationInAnotherThread
    <3> QED
      BY <2>2, <3>2, <3>3 DEF ConnectActor
  <2> QED
    BY <1>3, <2>1, <2>2 DEF HandleConnect
<1>4. CASE PopActorCreate
  BY <1>4 DEF PopActorCreate, Popped, LoopAgain, Throw, Put, LifecycleInv
<1>5. CASE StartSimulation
  BY <1>5 DEF StartSimulation, Throw
<1>6. CASE MaestroAbort
  BY <1>6 DEF MaestroAbort
<1>7. CASE MaestroRun
  BY <1>7 DEF MaestroRun
<1>8. CASE SimulationEnds
  BY <1>8 DEF SimulationEnds, SimStep
<1>9. CASE
         WaitAnyReadableFails \/ SignalCaught \/ AcceptClient \/ WaitAnyReadable \/
         WriteAck \/ Settle \/ EndTraverse \/ EndDropped \/ PopNothing \/ PopFinished \/
         PopAborted \/ PopActorQuit \/ CloseAndReturn \/ RaiseSignal
  BY <1>9 DEF WaitAnyReadableFails, SignalCaught, AcceptClient, WaitAnyReadable,
  WriteAck, Settle, EndTraverse, EndDropped, PopNothing, PopFinished,
  PopAborted, PopActorQuit, CloseAndReturn, RaiseSignal
<1>10. ASSUME NEW s \in Sockets,
         ReadEof(s) \/ HandleKill(s) \/ HandleStatus(s) \/ HandleUnset(s) \/
         ReadDropped(s) \/ ClientConnect(s) \/ SendCommand(s) \/ ReadAck(s) \/
         CloseConnection(s) \/ SendQuit(s) \/ SendJunk(s) \/ Die(s) \/ ConnectionLost(s)
      PROVE LaunchInv'
  BY <1>10 DEF ReadEof, HandleKill, HandleStatus, HandleUnset, ReadDropped,
  ClientConnect, SendCommand, ReadAck, CloseConnection, SendQuit, SendJunk, Die,
  ConnectionLost, ClientUnchanged, CommandUnchanged
<1>11. ASSUME NEW i \in DOMAIN actor,
         ActorQuit(i) \/ ActorReadFails(i) \/ ActorFails(i) \/ ActorCreate(i) \/
         ActorCreateAck(i) \/ ActorConnected(i)
      PROVE LaunchInv'
  BY <1>11 DEF ActorQuit, ActorReadFails, ActorFails, ActorCreate,
  ActorCreateAck, ActorConnected
<1> QED
  BY <1>1, <1>2, <1>3, <1>4, <1>5, <1>6, <1>7, <1>8, <1>9, <1>10,
  <1>11 DEF Next, CommandThread, SimGridThread, Client

\* ACTOR_CREATE messages are pushed and popped with new pids.
LEMMA PidStep ==
    ASSUME IndInv, Next PROVE PidInv'
<1> USE DEF IndInv, PidInv, TypeOK, QueueTypeOK, RegistryTypeOK, SimTypeOK, LifecycleInv
<1>1. ASSUME NEW s \in Sockets, HandleAddActor(s) PROVE PidInv'
  BY <1>1 DEF HandleAddActor, CommandUnchanged, Received, Readable, Reply,
  Throw, Put
<1>2. ASSUME NEW s \in Sockets, HandleStart(s) PROVE PidInv'
  BY <1>2 DEF HandleStart, CommandUnchanged, Received, Readable, Reply, Throw,
  StartAllowed, StartSimulationInAnotherThread
<1>3. ASSUME NEW s \in Sockets, HandleConnect(s) PROVE PidInv'
  BY <1>3 DEF HandleConnect, CommandUnchanged, Received, Readable, Reply, Throw,
  ConnectActor, StartSimulationInAnotherThread, SetSocket
<1>4. CASE PopFinished
  BY <1>4 DEF PopFinished, Popped, LoopAgain
<1>5. CASE PopAborted
  BY <1>5 DEF PopAborted, Popped, LoopAgain
<1>6. CASE PopActorQuit
  BY <1>6 DEF PopActorQuit, Popped, LoopAgain
<1>7. CASE PopActorCreate
  <2>1. /\ to_command \in Seq(InterthreadMessage) /\ to_command # <<>>
        /\ Head(to_command) = to_command[1] /\ 1 \in DOMAIN to_command
        /\ to_command' = Tail(to_command) /\ to_command[1].type = "ACTOR_CREATE"
        /\ UNCHANGED <<sim, next_pid>>
    BY <1>7 DEF PopActorCreate, Popped
  <2>2. \A k \in DOMAIN to_command' :
          k + 1 \in DOMAIN to_command /\ to_command'[k] = to_command[k + 1] /\ k \in Nat \ {0}
    BY <2>1
  <2>3. /\ to_command[1].id < next_pid
        /\ \A i \in DOMAIN actor_connections' :
             i \in DOMAIN actor_connections \/ i = to_command[1].id
    BY <1>7, <2>1 DEF PopActorCreate, Put
  <2>4. sim' = "running" => \A i \in DOMAIN actor_connections' : i < next_pid'
    BY <2>1, <2>3
  <2>5. \A k \in DOMAIN to_command' : to_command'[k].type = "ACTOR_CREATE" =>
          /\ to_command'[k].id \notin DOMAIN actor_connections'
          /\ to_command'[k].id < next_pid'
    <3> TAKE k \in DOMAIN to_command'
    <3>1. k + 1 \in DOMAIN to_command /\ to_command'[k] = to_command[k + 1] /\ k + 1 # 1
      BY <2>2
    <3> QED
      BY <2>1, <2>3, <3>1
  <2>6. \A k, l \in DOMAIN to_command' :
          /\ to_command'[k].type = "ACTOR_CREATE" /\ to_command'[l].type = "ACTOR_CREATE"
          /\ to_command'[k].id = to_command'[l].id
          => k = l
    BY <2>2
  <2> QED
    BY <2>4, <2>5, <2>6
<1>8. CASE StartSimulation
  BY <1>8 DEF StartSimulation, Throw
<1>9. CASE MaestroAbort
  BY <1>9 DEF MaestroAbort, Message
<1>10. CASE MaestroRun
  <2>1. /\ DOMAIN actor_connections = 2 .. Cardinality(initial) + 1
        /\ Cardinality(initial) \in Nat
    BY <1>10, FS_CardinalityType DEF MaestroRun, LaunchInv, ConsecutiveIds, RegistryInv
  <2>2. to_command' = <<>>
    BY <1>10 DEF MaestroRun
  <2> QED
    BY <1>10, <2>1, <2>2 DEF MaestroRun
<1>11. CASE SimulationEnds
  BY <1>11 DEF SimulationEnds, SimStep, Message
<1>12. ASSUME NEW i \in DOMAIN actor, ActorQuit(i) PROVE PidInv'
  BY <1>12 DEF ActorQuit, SimStep, Message
<1>13. ASSUME NEW i \in DOMAIN actor, ActorFails(i) PROVE PidInv'
  BY <1>13 DEF ActorFails, Message
<1>14. ASSUME NEW i \in DOMAIN actor, ActorCreate(i) PROVE PidInv'
  <2> DEFINE m == Message("ACTOR_CREATE", NoSocket, next_pid)
  <2>1. m \in InterthreadMessage /\ m.id = next_pid
    BY DEF Message, InterthreadMessage
  <2>2. /\ to_command' = Append(to_command, m) /\ next_pid' = next_pid + 1
        /\ sim = "running" /\ UNCHANGED <<sim, actor_connections>>
    BY <1>14 DEF ActorCreate, SimStep
  <2> HIDE DEF m
  <2>3. DOMAIN to_command' = DOMAIN to_command \cup {Len(to_command) + 1}
    BY <2>1, <2>2
  <2>4. /\ \A k \in DOMAIN to_command : to_command'[k] = to_command[k]
        /\ to_command'[Len(to_command) + 1] = m
    BY <2>1, <2>2
  <2>5. \A k \in DOMAIN to_command : to_command[k].type = "ACTOR_CREATE" =>
          to_command[k].id # next_pid /\ to_command[k].id < next_pid + 1
             /\ to_command[k].id \in Nat
    BY DEF InterthreadMessage
  <2>6. next_pid \notin DOMAIN actor_connections
    BY <2>2
  <2> QED
    BY <2>1, <2>2, <2>3, <2>4, <2>5, <2>6
<1>15. CASE
         WaitAnyReadableFails \/ SignalCaught \/ AcceptClient \/ WaitAnyReadable \/
         WriteAck \/ Settle \/ EndTraverse \/ EndDropped \/ PopNothing \/ CloseAndReturn \/
         RaiseSignal
  BY <1>15 DEF WaitAnyReadableFails, SignalCaught, AcceptClient,
  WaitAnyReadable, WriteAck, Settle, EndTraverse, EndDropped, PopNothing,
  CloseAndReturn, RaiseSignal
<1>16. ASSUME NEW s \in Sockets,
         ReadEof(s) \/ HandleKill(s) \/ HandleStatus(s) \/ HandleUnset(s) \/
         ReadDropped(s) \/ ClientConnect(s) \/ SendCommand(s) \/ ReadAck(s) \/
         CloseConnection(s) \/ SendQuit(s) \/ SendJunk(s) \/ Die(s) \/ ConnectionLost(s)
      PROVE PidInv'
  BY <1>16 DEF ReadEof, HandleKill, HandleStatus, HandleUnset, ReadDropped,
  ClientConnect, SendCommand, ReadAck, CloseConnection, SendQuit, SendJunk, Die,
  ConnectionLost, ClientUnchanged, CommandUnchanged
<1>17. ASSUME NEW i \in DOMAIN actor,
         ActorReadFails(i) \/ ActorCreateAck(i) \/ ActorConnected(i)
      PROVE PidInv'
  BY <1>17 DEF ActorReadFails, ActorCreateAck, ActorConnected
<1> QED
  BY <1>1, <1>2, <1>3, <1>4, <1>5, <1>6, <1>7, <1>8, <1>9, <1>10, <1>11, <1>12,
  <1>13, <1>14, <1>15, <1>16, <1>17 DEF Next, CommandThread, SimGridThread,
  Client

\* Actors enter their request loop with a connected socket.
LEMMA ActorStep ==
    ASSUME IndInv, Next PROVE ActorInv'
<1> USE DEF IndInv, ActorInv, Connected
<1>1. ASSUME NEW s \in Sockets, HandleAddActor(s) PROVE ActorInv'
  <2>1. CASE UNCHANGED actor_connections
    BY <1>1, <2>1 DEF HandleAddActor, CommandUnchanged
  <2>2. CASE /\ state = "ACCEPTING_NEW_ACTORS"
             /\ \E new : actor_connections' = Put(actor_connections, NbActors + 2, new)
    <3>1. \A i \in DOMAIN actor_connections :
            i \in DOMAIN actor_connections' /\ actor_connections'[i] = actor_connections[i]
      BY <2>2, FreshId DEF Put
    <3> QED
      BY <1>1, <3>1 DEF HandleAddActor, CommandUnchanged
  <2> QED
    BY <1>1, <2>1, <2>2 DEF HandleAddActor, TypeOK, ThreadTypeOK, ServerState
<1>2. ASSUME NEW s \in Sockets, HandleStart(s) PROVE ActorInv'
  <2>1. UNCHANGED <<actor_connections, connect_ack, actor>>
    BY <1>2 DEF HandleStart, CommandUnchanged
  <2>2. sim' = sim \/ sim = "off"
    BY <1>2 DEF HandleStart, StartAllowed, LifecycleInv
  <2> QED
    BY <2>1, <2>2
<1>3. ASSUME NEW s \in Sockets, HandleConnect(s) PROVE ActorInv'
  <2>0. UNCHANGED actor
    BY <1>3 DEF HandleConnect, CommandUnchanged
  <2>1. CASE UNCHANGED <<sim, registryVars, connect_ack>>
    BY <2>0, <2>1
  <2>2. ASSUME NEW id, ConnectError(id) = "none", ConnectActor(s, id)
        PROVE  ActorInv'
    <3>1. /\ DOMAIN actor_connections' = DOMAIN actor_connections
          /\ id \in DOMAIN actor_connections
          /\ \A i \in DOMAIN actor_connections : Connected(i) \/ i = id => Connected(i)'
      BY <2>2, ConnectEffect
    <3>2. connect_ack' \subseteq connect_ack \cup {id}
      BY <2>2 DEF ConnectActor
    <3>3. sim' = sim \/ sim = "off"
      BY <2>2 DEF ConnectActor, LifecycleInv
    <3> QED
      BY <2>0, <3>1, <3>2, <3>3
  <2> QED
    BY <1>3, <2>1, <2>2 DEF HandleConnect
<1>4. CASE PopActorCreate
  BY <1>4 DEF PopActorCreate, Popped, LoopAgain, Throw, Put
<1>5. CASE StartSimulation
  BY <1>5 DEF StartSimulation, Throw
<1>6. CASE MaestroAbort
  BY <1>6 DEF MaestroAbort
<1>7. CASE MaestroRun
  BY <1>7 DEF MaestroRun, LaunchInv
<1>8. CASE SimulationEnds
  BY <1>8 DEF SimulationEnds, SimStep
<1>9. ASSUME NEW i \in DOMAIN actor, ActorQuit(i) PROVE ActorInv'
  BY <1>9 DEF ActorQuit, SimStep
<1>10. ASSUME NEW i \in DOMAIN actor, ActorReadFails(i) PROVE ActorInv'
  BY <1>10 DEF ActorReadFails, SimStep
<1>11. ASSUME NEW i \in DOMAIN actor, ActorFails(i) PROVE ActorInv'
  BY <1>11 DEF ActorFails
<1>12. ASSUME NEW i \in DOMAIN actor, ActorCreate(i) PROVE ActorInv'
  BY <1>12 DEF ActorCreate, SimStep, Put
<1>13. ASSUME NEW i \in DOMAIN actor, ActorConnected(i) PROVE ActorInv'
  BY <1>13 DEF ActorConnected, SimStep
<1>14. CASE
         WaitAnyReadableFails \/ SignalCaught \/ AcceptClient \/ WaitAnyReadable \/
         WriteAck \/ Settle \/ EndTraverse \/ EndDropped \/ PopNothing \/ PopFinished \/
         PopAborted \/ PopActorQuit \/ CloseAndReturn \/ RaiseSignal
  BY <1>14 DEF WaitAnyReadableFails, SignalCaught, AcceptClient,
  WaitAnyReadable, WriteAck, Settle, EndTraverse, EndDropped, PopNothing,
  PopFinished, PopAborted, PopActorQuit, CloseAndReturn, RaiseSignal
<1>15. ASSUME NEW s \in Sockets,
         ReadEof(s) \/ HandleKill(s) \/ HandleStatus(s) \/ HandleUnset(s) \/
         ReadDropped(s) \/ ClientConnect(s) \/ SendCommand(s) \/ ReadAck(s) \/
         CloseConnection(s) \/ SendQuit(s) \/ SendJunk(s) \/ Die(s) \/ ConnectionLost(s)
      PROVE ActorInv'
  BY <1>15 DEF ReadEof, HandleKill, HandleStatus, HandleUnset, ReadDropped,
  ClientConnect, SendCommand, ReadAck, CloseConnection, SendQuit, SendJunk, Die,
  ConnectionLost, ClientUnchanged, CommandUnchanged
<1>16. ASSUME NEW i \in DOMAIN actor,
         ActorCreateAck(i)
      PROVE ActorInv'
  BY <1>16 DEF ActorCreateAck
<1> QED
  BY <1>1, <1>2, <1>3, <1>4, <1>5, <1>6, <1>7, <1>8, <1>9, <1>10, <1>11, <1>12,
  <1>13, <1>14, <1>15, <1>16 DEF Next, CommandThread, SimGridThread, Client

\* No step throws one of the internal errors.
LEMMA BookkeepingHoldsStep ==
    ASSUME IndInv, Next PROVE BookkeepingHolds'
<1> USE DEF IndInv, BookkeepingHolds, BadBookkeeping
<1>1. CASE WaitAnyReadableFails
  BY <1>1 DEF WaitAnyReadableFails, Throw
<1>2. CASE SignalCaught
  BY <1>2 DEF SignalCaught, Selected, CloseOpenSockets, Throw
<1>3. ASSUME NEW s \in Sockets, ReadEof(s) PROVE BookkeepingHolds'
  BY <1>3 DEF ReadEof, Readable, Throw
<1>4. ASSUME NEW s \in Sockets, HandleAddActor(s) PROVE BookkeepingHolds'
  BY <1>4 DEF HandleAddActor, CommandUnchanged, Received, Readable, Reply, Throw
<1>5. ASSUME NEW s \in Sockets, HandleStart(s) PROVE BookkeepingHolds'
  BY <1>5 DEF HandleStart, CommandUnchanged, Received, Readable, Reply, Throw,
  StartAllowed, StartSimulationInAnotherThread
<1>6. ASSUME NEW s \in Sockets, HandleKill(s) PROVE BookkeepingHolds'
  BY <1>6 DEF HandleKill, CommandUnchanged, Received, Readable, Reply
<1>7. ASSUME NEW s \in Sockets, HandleStatus(s) PROVE BookkeepingHolds'
  BY <1>7 DEF HandleStatus, CommandUnchanged, Received, Readable, Reply
<1>8. ASSUME NEW s \in Sockets, HandleConnect(s) PROVE BookkeepingHolds'
  BY <1>8 DEF HandleConnect, CommandUnchanged, Received, Readable, Reply, Throw,
  ConnectActor, StartSimulationInAnotherThread, ConnectError, LifecycleInv,
  RegistryInv
<1>9. ASSUME NEW s \in Sockets, HandleUnset(s) PROVE BookkeepingHolds'
  BY <1>9 DEF HandleUnset, CommandUnchanged, Received, Readable, Throw
<1>10. CASE PopActorCreate
  BY <1>10 DEF PopActorCreate, Popped, LoopAgain, Throw, PidInv, TypeOK,
  QueueTypeOK
<1>11. CASE CloseAndReturn
  BY <1>11 DEF CloseAndReturn, CloseOpenSockets, Throw
<1>12. CASE StartSimulation
  BY <1>12 DEF StartSimulation, Throw, LaunchInv
<1>13. CASE
         AcceptClient \/ WaitAnyReadable \/ WriteAck \/ Settle \/ EndTraverse \/
         EndDropped \/ PopNothing \/ PopFinished \/ PopAborted \/ PopActorQuit \/
         MaestroAbort \/ MaestroRun \/ SimulationEnds \/ RaiseSignal
  BY <1>13 DEF AcceptClient, WaitAnyReadable, WriteAck, Throw, Settle, EndTraverse,
  EndDropped, PopNothing, PopFinished, PopAborted, PopActorQuit, MaestroAbort,
  MaestroRun, SimulationEnds, RaiseSignal
<1>14. ASSUME NEW s \in Sockets,
         ReadDropped(s) \/ ClientConnect(s) \/ SendCommand(s) \/ ReadAck(s) \/
         CloseConnection(s) \/ SendQuit(s) \/ SendJunk(s) \/ Die(s) \/ ConnectionLost(s)
      PROVE BookkeepingHolds'
  BY <1>14 DEF ReadDropped, ClientConnect, SendCommand, ReadAck,
  CloseConnection, SendQuit, SendJunk, Die, ConnectionLost, ClientUnchanged
<1>15. ASSUME NEW i \in DOMAIN actor,
         ActorQuit(i) \/ ActorReadFails(i) \/ ActorFails(i) \/ ActorCreate(i) \/
         ActorCreateAck(i) \/ ActorConnected(i)
      PROVE BookkeepingHolds'
  BY <1>15 DEF ActorQuit, ActorReadFails, ActorFails, ActorCreate,
  ActorCreateAck, ActorConnected
<1> QED
  BY <1>1, <1>2, <1>3, <1>4, <1>5, <1>6, <1>7, <1>8, <1>9, <1>10, <1>11, <1>12,
  <1>13, <1>14, <1>15 DEF Next, CommandThread, SimGridThread, Client

----------------------------------------------------------------------------
(* The theorems *)

\* The inductive invariant holds when serve() enters its loop.
LEMMA InitInv ==
    ASSUME Init PROVE IndInv
<1>1. TypeOK
  <2>1. ThreadTypeOK /\ RegistryTypeOK
    BY DEF Init, ThreadTypeOK, RegistryTypeOK, ControlPoint, ServerState, Error
  <2>2. FilingTypeOK
    BY DEF Init, FilingTypeOK, Issuer, NoIssuer, Answer, Failure
  <2>3. QueueTypeOK /\ SimTypeOK
    <3>1. QueueTypeOK
      BY DEF Init, QueueTypeOK
    <3>2. DOMAIN actor = {}
      BY DEF Init
    <3> QED
      BY <3>1, <3>2 DEF Init, SimTypeOK, SimState, NoPid
  <2>4. NoCommand \in Command /\ <<>> \in Seq(Answer)
    BY DEF NoCommand, Command, CommandType, NoPid
  <2>5. TcpTypeOK
    BY <2>4 DEF Init, TcpTypeOK, ClientState, Inbox
  <2> QED
    BY <2>1, <2>2, <2>3, <2>5 DEF TypeOK
<1>2. DOMAIN actor_connections = {}
  BY DEF Init
<1>3. RegistryInv
  <2>1. {i \in DOMAIN actor_connections : Connected(i)} = {}
    BY <1>2
  <2>2. IsFiniteSet({}) /\ Cardinality({}) = 0
    BY FS_EmptySet
  <2>3. {} = 2 .. 0 + 1
    OBVIOUS
  <2> QED
    BY <1>2, <2>1, <2>2, <2>3 DEF Init, RegistryInv, ConnectedCount, ConsecutiveIds
<1> QED
  BY <1>1, <1>2, <1>3 DEF Init, IndInv, LifecycleInv, SocketInv, LaunchInv, PidInv,
     ActorInv, BookkeepingHolds, BadBookkeeping

\* Every step of the system preserves the inductive invariant.
LEMMA NextInv ==
    ASSUME IndInv, [Next]_vars PROVE IndInv'
<1>1. CASE Next
  <2>1. TypeOK'
    BY <1>1, ThreadTypeStep, RegistryTypeStep, FilingTypeStep, QueueTypeStep,
       TcpTypeStep, SimTypeStep DEF TypeOK
  <2> QED
    BY <1>1, <2>1, LifecycleStep, RegistryStep, SocketStep, LaunchStep, PidStep,
       ActorStep, BookkeepingHoldsStep DEF IndInv
<1>2. CASE UNCHANGED vars
  <2>1. TypeOK'
    BY <1>2 DEF IndInv, TypeOK, ThreadTypeOK, RegistryTypeOK, FilingTypeOK,
       QueueTypeOK, TcpTypeOK, SimTypeOK
  <2>2. RegistryInv' /\ SocketInv' /\ LaunchInv' /\ ActorInv'
    BY <1>2 DEF IndInv, RegistryInv, SocketInv, LaunchInv, ActorInv, ConnectedCount,
       Connected, SocketOf, ConsecutiveIds
  <2> QED
    BY <1>2, <2>1, <2>2 DEF IndInv, LifecycleInv, PidInv, BookkeepingHolds
<1> QED
  BY <1>1, <1>2

\* The inductive invariant holds in every reachable state.
THEOREM Inductive == Spec => []IndInv
  BY InitInv, NextInv, PTL DEF Spec

\* serve() and its clients stay within their types.
THEOREM TypeCorrect == Spec => []TypeOK
<1>1. IndInv => TypeOK
  BY DEF IndInv
<1> QED
  BY <1>1, Inductive, PTL

\* nb_connected_actors counts the connected actors, whoever connects and when.
THEOREM CountCorrect == Spec => []ConnectedCount
<1>1. IndInv => ConnectedCount
  BY DEF IndInv, RegistryInv
<1> QED
  BY <1>1, Inductive, PTL

\* The simulation starts with actors 2 .. n+1, each with a socket of its own,
\* whatever the clients send and whichever of them die.
THEOREM StartComplete == Spec => []StartsComplete
<1>1. IndInv => StartsComplete
  BY DEF IndInv, LaunchInv, SocketInv, StartsComplete
<1> QED
  BY <1>1, Inductive, PTL

\* No command and no message makes an assertion of the server on its registry of
\* actors, or on the ids, fail.  The assertion of send_all() on the socket is another
\* matter, see WriteAck.
THEOREM BookkeepingCorrect == Spec => []BookkeepingHolds
<1>1. IndInv => BookkeepingHolds
  BY DEF IndInv
<1> QED
  BY <1>1, Inductive, PTL

\* A step that launches the simulation, or changes its initial actors.
Launching == (sim' = "launched" /\ sim # "launched") \/ initial' # initial

\* The initial actors are fixed, and the simulation launched, in the two states
\* in which actors are waited for, and in no other.
LEMMA LaunchedStep ==
    ASSUME Next, Launching
    PROVE  state \in {"ACCEPTING_NEW_ACTORS", "WAITING_FOR_ALL_ACTORS_CONNECTION"}
<1> USE DEF Launching
<1>1. ASSUME NEW s \in Sockets, HandleStart(s)
      PROVE  state \in {"ACCEPTING_NEW_ACTORS", "WAITING_FOR_ALL_ACTORS_CONNECTION"}
  BY <1>1 DEF HandleStart, StartAllowed
<1>2. ASSUME NEW s \in Sockets, HandleConnect(s)
      PROVE  state \in {"ACCEPTING_NEW_ACTORS", "WAITING_FOR_ALL_ACTORS_CONNECTION"}
  BY <1>2 DEF HandleConnect, ConnectActor
<1>3. CASE StartSimulation \/ MaestroAbort \/ MaestroRun \/ SimulationEnds \/ RaiseSignal
  BY <1>3 DEF StartSimulation, MaestroAbort, MaestroRun, SimulationEnds, RaiseSignal
<1>4. CASE WaitAnyReadableFails \/ SignalCaught \/ AcceptClient \/ WaitAnyReadable \/ WriteAck
           \/ Settle \/ EndTraverse \/ EndDropped \/ PopNothing \/ PopFinished \/ PopAborted
           \/ PopActorQuit \/ PopActorCreate \/ CloseAndReturn
  BY <1>4 DEF WaitAnyReadableFails, SignalCaught, AcceptClient, WaitAnyReadable, WriteAck,
  Settle, EndTraverse, EndDropped, PopNothing, PopFinished, PopAborted, PopActorQuit,
  PopActorCreate, CloseAndReturn
<1>5. ASSUME NEW s \in Sockets,
             \/ ReadEof(s) \/ HandleAddActor(s) \/ HandleKill(s) \/ HandleStatus(s)
             \/ HandleUnset(s) \/ ReadDropped(s)
      PROVE  FALSE
  BY <1>5 DEF ReadEof, HandleAddActor, HandleKill, HandleStatus, HandleUnset, ReadDropped
<1>6. ASSUME NEW s \in Sockets, Client(s) PROVE FALSE
  BY <1>6 DEF Client, ClientConnect, SendCommand, ReadAck, CloseConnection, SendQuit, SendJunk,
  Die, ConnectionLost, ClientUnchanged
<1>7. ASSUME NEW i \in DOMAIN actor,
             \/ ActorQuit(i) \/ ActorReadFails(i) \/ ActorFails(i) \/ ActorCreate(i)
             \/ ActorCreateAck(i) \/ ActorConnected(i)
      PROVE  FALSE
  BY <1>7 DEF ActorQuit, ActorReadFails, ActorFails, ActorCreate, ActorCreateAck,
  ActorConnected
<1> QED
  BY <1>1, <1>2, <1>3, <1>4, <1>5, <1>6, <1>7 DEF Next, CommandThread, SimGridThread

\* The simulation is launched at most once, never after a KILL, and its initial
\* actors are fixed from then on.
THEOREM LaunchOnce == Spec => LaunchedOnce
<1> DEFINE A == /\ sim' = "launched" /\ sim # "launched" => sim = "off" /\ state # "KILLED"
                /\ sim # "off" => initial' = initial
<1>1. IndInv /\ [Next]_vars => [A]_vars
  <2> SUFFICES ASSUME IndInv, Next PROVE A
    OBVIOUS
  <2>1. CASE Launching
    BY <2>1, LaunchedStep DEF IndInv, LifecycleInv
  <2>2. CASE ~Launching
    BY <2>2 DEF Launching
  <2> QED
    BY <2>1, <2>2
<1> QED
  BY <1>1, Inductive, PTL DEF Spec, LaunchedOnce
============================================================================
