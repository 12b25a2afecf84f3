-------------------------- MODULE ServeOwnerProofs --------------------------
(***************************************************************************)
(* Proofs about who owns what in the server, for every set of clients: a   *)
(* socket belongs to one thread (OneOwner), the selector watches what the  *)
(* command thread keeps (WatchedAreKept), and well-configured clients      *)
(* cannot make the process abort by the order they come and go in          *)
(* (AbortsOnlyOnMisuse).                                                   *)
(*                                                                         *)
(* OwnerInv follows a socket from the accept to the actor and back.        *)
(* ReliableInv adds how far each client is with its one command, when no   *)
(* client dies.  TokenInv says that an actor id is a token: one party at a *)
(* time holds it, from the answer that announces it to the CONNECT that    *)
(* uses it up.                                                             *)
(***************************************************************************)
EXTENDS ServeSessionProofs

\* The actor is registered, and a client is connected to it.
Bound(i) == i \in DOMAIN actor_connections /\ Connected(i)

HasQuit(i) == i \in DOMAIN actor /\ actor[i] = "quit"

\* The SimGrid thread gives the socket back by a message not popped yet.
GivenBack(k) == k \in DOMAIN to_command /\ to_command[k].type = "ACTOR_QUIT"

\* A socket is barely connected or dropped; the one whose command is being
\* answered is barely connected, and at other times there is none (unless the
\* answer could not be written).
FiledInv ==
    /\ barely_connected_sockets \cap dropped_sockets = {}
    /\ IF pc \in {"ack", "settle"} THEN issuer.socket \in barely_connected_sockets
                                   ELSE pc # "aborted" => issuer = NoIssuer

\* The socket of an actor is never about to be dropped, and is dropped only after
\* the actor has quit.
BoundInv ==
    /\ \A i \in DOMAIN actor : actor[i] # "connecting" => Bound(i)
    /\ \A i \in DOMAIN actor_connections : Connected(i) =>
         /\ issuer.socket = SocketOf(i) => ~issuer.drop
         /\ SocketOf(i) \in dropped_sockets => HasQuit(i)

\* A socket given back is that of an actor that has quit, once, and not dropped.
GivenBackInv ==
    /\ \A k \in DOMAIN to_command : GivenBack(k) =>
         /\ to_command[k].socket \notin dropped_sockets
         /\ \E i \in DOMAIN actor_connections :
              Connected(i) /\ HasQuit(i) /\ SocketOf(i) = to_command[k].socket
    /\ \A k, l \in DOMAIN to_command :
         GivenBack(k) /\ GivenBack(l) /\ to_command[k].socket = to_command[l].socket
         => k = l

\* The way of a socket: barely connected, then dropped, or an actor's until the
\* command thread pops the ACTOR_QUIT of that actor.
OwnerInv == FiledInv /\ BoundInv /\ GivenBackInv

\* The server has not read the command of this client.
NotRead(s) == fd[s] = "none" \/ (s \in barely_connected_sockets /\ s # issuer.socket)

\* The client of an actor that has not quit: it waits for the answer to its
\* CONNECT, is in its request loop, or has sent its quit.
ClientOfActor(s) ==
    /\ fd[s] = "open" /\ command[s].type = "CONNECT"
    /\ \/ client[s] = "awaiting" /\ inbox[s] = "empty"
          /\ (ack[s] # <<>> => Head(ack[s]).success)
       \/ client[s] = "served" /\ inbox[s] = "empty"
       \/ client[s] = "closed" /\ inbox[s] = "quit"

\* The command thread watches, open, what it keeps, and gets back open sockets.
WatchInv ==
    /\ registered = barely_connected_sockets \cup dropped_sockets
    /\ \A s \in barely_connected_sockets \cup dropped_sockets : fd[s] = "open"
    /\ \A k \in DOMAIN to_command : GivenBack(k) => fd[to_command[k].socket] = "open"

\* A client waits once its command is sent; a socket is found readable because of
\* a command, and its client still waits when the answer is written.
WaitingInv ==
    /\ \A s \in Sockets :
         /\ client[s] # "reset"
         /\ NotRead(s) => /\ ack[s] = <<>>
                          /\ \/ client[s] \in {"idle", "connected"} /\ inbox[s] = "empty"
                             \/ client[s] = "awaiting" /\ inbox[s] = "command"
         /\ s \in readable /\ NotRead(s) => inbox[s] = "command"
    /\ pc \in {"select", "pop"} => readable = {}
    /\ pc = "ack" =>
         /\ client[issuer.socket] = "awaiting"
         /\ inbox[issuer.socket] = "empty" /\ ack[issuer.socket] = <<>>
         /\ ~issuer.drop => issuer.answer.success

ActorClientsInv ==
    \A i \in DOMAIN actor_connections :
        Connected(i) /\ ~HasQuit(i) => ClientOfActor(SocketOf(i))

\* How far the clients are while the server is up, when none of them dies.
ReliableInv == WatchInv /\ WaitingInv /\ ActorClientsInv

NobodyDies == Unreliable = {} => error \notin LostClient /\ (ServerUp => ReliableInv)

\* Who may hold an actor id: the answer being written, the client it was
\* written to, the answer to a creator, the processes it was handed to, the
\* CONNECT a client was started with, the actor it has become.
Answers(id) ==
    /\ pc = "ack" /\ command[issuer.socket].type = "ADD_ACTOR"
    /\ issuer.answer.success /\ issuer.answer.value = id

Told(s, id) ==
    /\ command[s].type = "ADD_ACTOR" /\ ack[s] # <<>>
    /\ Head(ack[s]).success /\ Head(ack[s]).value = id

Asked(s, id) ==
    /\ command[s].type = "CONNECT" /\ command[s].id = id
    /\ client[s] = "connected" \/ inbox[s] = "command"

HolderOf(kind, s) == [kind |-> kind, socket |-> s]

Holds(h, id) ==
    \/ h = HolderOf("answer", NoSocket) /\ Answers(id)
    \/ \E s \in Sockets : \/ h = HolderOf("told", s) /\ Told(s, id)
                          \/ h = HolderOf("asked", s) /\ Asked(s, id)
    \/ h = HolderOf("created", NoSocket) /\ id \in create_ack
    \/ h = HolderOf("handed", NoSocket) /\ id \in handed
    \/ h = HolderOf("bound", NoSocket) /\ Bound(id)

\* An actor id is registered and held by one party at most.
TokenInv ==
    /\ \A id, h, g : Holds(h, id) /\ Holds(g, id) => h = g
    /\ \A id, h : Holds(h, id) => id \in DOMAIN actor_connections

\* What a client sends first is its command, which has a type.
TypedInv ==
    \A s \in Sockets : /\ client[s] \in {"idle", "connected"} => inbox[s] = "empty"
                       /\ client[s] # "idle" => command[s].type # "UNSET"

Misled == {"unknown_actor", "already_connected", "unset_command"}

WellConfigured == Misconfigured = {} => error \notin Misled /\ TypedInv /\ TokenInv

OwnershipInv == SessionInv /\ OwnerInv /\ NobodyDies /\ WellConfigured

USE DEF threadVars, registryVars, filingVars, traversalVars, queueVars, tcpVars, simVars,
    vars

----------------------------------------------------------------------------
(* Who a socket belongs to *)

\* An actor keeps the socket it is bound to.
LEMMA BoundStays ==
    ASSUME SessionInv, Next
    PROVE  \A i : Bound(i) => Bound(i)' /\ SocketOf(i)' = SocketOf(i)
<1>0. IndInv
  BY DEF SessionInv
<1>1. ASSUME UNCHANGED actor_connections
      PROVE  \A i : Bound(i) => Bound(i)' /\ SocketOf(i)' = SocketOf(i)
  BY <1>1 DEF Bound, Connected, SocketOf
<1>2. ASSUME NEW id, NEW c, id \notin DOMAIN actor_connections,
             actor_connections' = Put(actor_connections, id, c)
      PROVE  \A i : Bound(i) => Bound(i)' /\ SocketOf(i)' = SocketOf(i)
  BY <1>2 DEF Bound, Connected, SocketOf, Put
<1>3. ASSUME NEW s \in Sockets, HandleAddActor(s)
      PROVE  \A i : Bound(i) => Bound(i)' /\ SocketOf(i)' = SocketOf(i)
  <2>1. CASE state = "ACCEPTING_NEW_ACTORS"
    <3>1. NbActors + 2 \notin DOMAIN actor_connections
      BY <1>0, <2>1, FreshId DEF IndInv, LifecycleInv, RegistryInv, NbActors
    <3> QED
      BY <1>2, <1>3, <2>1, <3>1 DEF HandleAddActor
  <2>2. CASE state # "ACCEPTING_NEW_ACTORS"
    BY <1>1, <1>3, <2>2 DEF HandleAddActor
  <2> QED
    BY <2>1, <2>2
<1>4. ASSUME NEW s \in Sockets, HandleConnect(s)
      PROVE  \A i : Bound(i) => Bound(i)' /\ SocketOf(i)' = SocketOf(i)
  <2>1. CASE UNCHANGED actor_connections
    BY <1>1, <2>1
  <2>2. ASSUME NEW id, ConnectError(id) = "none", ConnectActor(s, id)
        PROVE  \A i : Bound(i) => Bound(i)' /\ SocketOf(i)' = SocketOf(i)
    BY <1>0, <2>2, ConnectEffect DEF Bound, Connected, SocketOf
  <2> QED
    BY <1>4, <2>1, <2>2 DEF HandleConnect
<1>5. ASSUME NEW s \in Sockets, HandleStart(s) \/ HandleKill(s)
      PROVE  \A i : Bound(i) => Bound(i)' /\ SocketOf(i)' = SocketOf(i)
  BY <1>1, <1>5 DEF HandleStart, HandleKill
<1>6. CASE PopActorCreate
  BY <1>1, <1>2, <1>6 DEF PopActorCreate
<1>7. CASE PopFinished \/ PopAborted \/ PopActorQuit
  BY <1>1, <1>7 DEF PopFinished, PopAborted, PopActorQuit
<1>8. CASE SimGridThread
  BY <1>1, <1>8 DEF SimGridThread, StartSimulation, MaestroAbort, MaestroRun, SimulationEnds,
     ActorQuit, ActorReadFails, ActorFails, ActorCreate, ActorCreateAck, ActorConnected
<1>9. CASE Quiet
  BY <1>1, <1>9 DEF Quiet
<1> QED
  BY <1>3, <1>4, <1>5, <1>6, <1>7, <1>8, <1>9, QuietOrLoud

\* Nobody but a CONNECT binds an actor to a socket.
LEMMA NothingBound ==
    ASSUME SessionInv, Next, \A s \in Sockets : ~HandleConnect(s)
    PROVE  \A i : Bound(i)' => Bound(i) /\ SocketOf(i)' = SocketOf(i)
<1>0. IndInv
  BY DEF SessionInv
<1>1. ASSUME UNCHANGED actor_connections
      PROVE  \A i : Bound(i)' => Bound(i) /\ SocketOf(i)' = SocketOf(i)
  BY <1>1 DEF Bound, Connected, SocketOf
<1>2. ASSUME NEW id, NEW c, c.socket = NoSocket,
             actor_connections' = Put(actor_connections, id, c)
      PROVE  \A i : Bound(i)' => Bound(i) /\ SocketOf(i)' = SocketOf(i)
  BY <1>2 DEF Bound, Connected, SocketOf, Put
<1>3. ASSUME NEW s \in Sockets, HandleAddActor(s) \/ HandleStart(s) \/ HandleKill(s)
      PROVE  \A i : Bound(i)' => Bound(i) /\ SocketOf(i)' = SocketOf(i)
  <2>1. CASE UNCHANGED actor_connections
    BY <1>1, <2>1
  <2>2. CASE HandleAddActor(s) /\ actor_connections' # actor_connections
    <3>1. PICK id, c : /\ c = [socket |-> NoSocket, connect_ack |-> FALSE,
                               host |-> command[s].host]
                       /\ actor_connections' = Put(actor_connections, id, c)
      BY <2>2 DEF HandleAddActor
    <3> QED
      BY <1>2, <3>1
  <2> QED
    BY <1>3, <2>1, <2>2 DEF HandleStart, HandleKill
<1>4. CASE PopFinished \/ PopAborted \/ PopActorQuit \/ PopActorCreate
  <2>1. CASE UNCHANGED actor_connections
    BY <1>1, <2>1
  <2>2. CASE PopActorCreate /\ actor_connections' # actor_connections
    <3>1. PICK id, c : /\ c = [socket |-> NoSocket, connect_ack |-> TRUE, host |-> TRUE]
                       /\ actor_connections' = Put(actor_connections, id, c)
      BY <2>2 DEF PopActorCreate
    <3> QED
      BY <1>2, <3>1
  <2> QED
    BY <1>4, <2>1, <2>2 DEF PopFinished, PopAborted, PopActorQuit
<1>5. CASE SimGridThread
  BY <1>1, <1>5 DEF SimGridThread, StartSimulation, MaestroAbort, MaestroRun, SimulationEnds,
     ActorQuit, ActorReadFails, ActorFails, ActorCreate, ActorCreateAck, ActorConnected
<1>6. CASE Quiet
  BY <1>1, <1>6 DEF Quiet
<1> QED
  BY <1>3, <1>4, <1>5, <1>6, QuietOrLoud

\* An actor that has quit does not come back.
LEMMA QuitStays ==
    ASSUME SessionInv, Next PROVE \A i : HasQuit(i) => HasQuit(i)'
<1>0. IndInv /\ CreationInv
  BY DEF SessionInv
<1>1. ASSUME UNCHANGED actor PROVE \A i : HasQuit(i) => HasQuit(i)'
  BY <1>1 DEF HasQuit
<1>2. CASE MaestroRun
  BY <1>0, <1>2 DEF MaestroRun, IndInv, ActorInv, HasQuit
<1>3. ASSUME NEW i \in DOMAIN actor, ActorCreate(i) PROVE \A j : HasQuit(j) => HasQuit(j)'
  <2>1. next_pid \notin DOMAIN actor
    BY <1>0 DEF CreationInv, IndInv, TypeOK, SimTypeOK
  <2> QED
    BY <1>3, <2>1 DEF ActorCreate, Put, HasQuit
<1>4. ASSUME NEW i \in DOMAIN actor, ActorReadFails(i) \/ ActorFails(i) \/ ActorConnected(i)
                                     \/ ActorQuit(i) \/ ActorCreateAck(i)
      PROVE  \A j : HasQuit(j) => HasQuit(j)'
  BY <1>4 DEF ActorReadFails, ActorFails, ActorConnected, ActorQuit, ActorCreateAck, HasQuit
<1>5. ASSUME NEW s \in Sockets, \/ HandleAddActor(s) \/ HandleStart(s) \/ HandleKill(s)
                                \/ HandleConnect(s)
      PROVE  \A j : HasQuit(j) => HasQuit(j)'
  BY <1>1, <1>5 DEF HandleAddActor, HandleStart, HandleKill, HandleConnect, CommandUnchanged
<1>6. CASE Quiet \/ PopFinished \/ PopAborted \/ PopActorQuit \/ PopActorCreate
           \/ StartSimulation \/ MaestroAbort \/ SimulationEnds
  BY <1>1, <1>6 DEF Quiet, PopFinished, PopAborted, PopActorQuit, PopActorCreate,
     StartSimulation, MaestroAbort, SimulationEnds
<1> QED
  BY <1>2, <1>3, <1>4, <1>5, <1>6, QuietOrLoud DEF SimGridThread

\* A socket is filed once, and answered while it is barely connected.
LEMMA FiledStep ==
    ASSUME SessionInv, SessionInv', OwnerInv, Next PROVE FiledInv'
<1>0. /\ IndInv /\ HandInv /\ TypeOK /\ BookkeepingHolds' /\ FiledInv /\ GivenBackInv
      /\ pc \in {"ack", "settle"} => issuer.socket \in Sockets
  BY DEF SessionInv, IndInv, OwnerInv, TypeOK, FilingTypeOK
<1> USE DEF FiledInv
<1>1. CASE WaitAnyReadableFails \/ SignalCaught \/ WaitAnyReadable \/ EndTraverse \/ EndDropped
           \/ PopNothing \/ PopFinished \/ PopAborted \/ PopActorCreate \/ CloseAndReturn
  BY <1>0, <1>1 DEF WaitAnyReadableFails, Selected, SignalCaught, WaitAnyReadable, EndTraverse,
     EndDropped, PopNothing, PopFinished, PopAborted, PopActorCreate, CloseAndReturn, Popped,
     LoopAgain, CloseOpenSockets, Throw
<1>2. CASE AcceptClient
  BY <1>0, <1>2 DEF AcceptClient, Selected, Backlog, HandInv
<1>3. CASE WriteAck \/ Settle
  BY <1>0, <1>3 DEF WriteAck, Settle, Throw
<1>4. ASSUME NEW s \in Sockets, \/ ReadEof(s) \/ HandleAddActor(s) \/ HandleStart(s)
                                \/ HandleKill(s) \/ HandleStatus(s) \/ HandleConnect(s)
                                \/ HandleUnset(s)
      PROVE  FiledInv'
  <2>1. /\ pc = "traverse" /\ s \in barely_connected_sockets /\ UNCHANGED filingVars
        /\ \/ pc' = "ack" /\ issuer'.socket = s
           \/ pc' = "aborted" /\ UNCHANGED issuer
    BY <1>4 DEF ReadEof, HandleAddActor, HandleStart, HandleKill, HandleStatus, HandleConnect,
       HandleUnset, ConnectActor, CommandUnchanged, Received, Readable, Reply, Throw
  <2> QED
    BY <1>0, <2>1
<1>5. ASSUME NEW s \in Sockets, ReadDropped(s) PROVE FiledInv'
  BY <1>0, <1>5 DEF ReadDropped
<1>6. CASE PopActorQuit
  <2>1. /\ 1 \in DOMAIN to_command /\ Head(to_command) = to_command[1]
        /\ to_command[1].type = "ACTOR_QUIT"
    BY <1>0, <1>6 DEF PopActorQuit, Popped, TypeOK, QueueTypeOK
  <2>2. to_command[1].socket \notin barely_connected_sockets
    BY <1>0, <1>6, <2>1 DEF GivenBackInv, GivenBack, PopActorQuit, Popped, IndInv, SocketInv
  <2>3. /\ dropped_sockets' = dropped_sockets \cup {to_command[1].socket}
        /\ pc = "pop" /\ pc' \notin {"ack", "settle"}
        /\ UNCHANGED <<barely_connected_sockets, issuer>>
    BY <1>6, <2>1 DEF PopActorQuit, Popped, LoopAgain
  <2> QED
    BY <1>0, <2>2, <2>3
<1>7. CASE StartSimulation
  BY <1>0, <1>7 DEF StartSimulation, Throw, BookkeepingHolds, BadBookkeeping
<1>8. CASE MaestroAbort \/ MaestroRun \/ SimulationEnds \/ RaiseSignal
  BY <1>0, <1>8 DEF MaestroAbort, MaestroRun, SimulationEnds, RaiseSignal
<1>9. ASSUME NEW i \in DOMAIN actor, \/ ActorQuit(i) \/ ActorReadFails(i) \/ ActorFails(i)
                                     \/ ActorCreate(i) \/ ActorCreateAck(i)
                                     \/ ActorConnected(i)
      PROVE  FiledInv'
  BY <1>0, <1>9 DEF ActorQuit, ActorReadFails, ActorFails, ActorCreate, ActorCreateAck,
     ActorConnected
<1>10. ASSUME NEW s \in Sockets, Client(s) PROVE FiledInv'
  BY <1>0, <1>10 DEF Client, ClientConnect, SendCommand, ReadAck, CloseConnection, SendQuit,
     SendJunk, Die, ConnectionLost, ClientUnchanged
<1> QED
  BY <1>1, <1>2, <1>3, <1>4, <1>5, <1>6, <1>7, <1>8, <1>9, <1>10
  DEF Next, CommandThread, SimGridThread

\* The actors that do not wait for a connection are bound to a socket.
LEMMA RunningAreBound ==
    ASSUME SessionInv, OwnerInv, Next
    PROVE  \A i \in DOMAIN actor' : actor'[i] # "connecting" => Bound(i)'
<1>0. /\ IndInv /\ BoundInv
      /\ \A i : Bound(i) => Bound(i)'
  BY BoundStays DEF SessionInv, OwnerInv
<1> DEFINE P == \A i \in DOMAIN actor' : actor'[i] # "connecting" => Bound(i)'
<1>1. ASSUME UNCHANGED actor PROVE P
  BY <1>0, <1>1 DEF BoundInv
<1>2. CASE MaestroRun
  BY <1>0, <1>2 DEF MaestroRun, IndInv, LaunchInv, Bound
<1>3. ASSUME NEW i \in DOMAIN actor, ActorCreate(i) PROVE P
  BY <1>0, <1>3 DEF ActorCreate, Put, BoundInv
<1>4. ASSUME NEW i \in DOMAIN actor, ActorReadFails(i) \/ ActorFails(i) \/ ActorConnected(i)
                                     \/ ActorQuit(i) \/ ActorCreateAck(i)
      PROVE  P
  <2>1. actor[i] \in {"running", "failing"} \/ i \in connect_ack => Bound(i)
    BY <1>0 DEF IndInv, ActorInv, Bound
  <2> QED
    BY <1>0, <1>4, <2>1 DEF ActorReadFails, ActorFails, ActorConnected, ActorQuit,
       ActorCreateAck, BoundInv
<1>5. ASSUME NEW s \in Sockets, \/ HandleAddActor(s) \/ HandleStart(s) \/ HandleKill(s)
                                \/ HandleConnect(s)
      PROVE  P
  BY <1>1, <1>5 DEF HandleAddActor, HandleStart, HandleKill, HandleConnect, CommandUnchanged
<1>6. CASE Quiet \/ PopFinished \/ PopAborted \/ PopActorQuit \/ PopActorCreate
           \/ StartSimulation \/ MaestroAbort \/ SimulationEnds
  BY <1>1, <1>6 DEF Quiet, PopFinished, PopAborted, PopActorQuit, PopActorCreate,
     StartSimulation, MaestroAbort, SimulationEnds
<1> QED
  BY <1>2, <1>3, <1>4, <1>5, <1>6, QuietOrLoud DEF SimGridThread

\* Dropping a socket never takes it away from an actor that uses it.
LEMMA BoundStep ==
    ASSUME SessionInv, OwnerInv, Next PROVE BoundInv'
<1>0. /\ IndInv /\ FiledInv /\ BoundInv /\ GivenBackInv /\ TypeOK
      /\ \A i : HasQuit(i) => HasQuit(i)'
      /\ \A i \in DOMAIN actor' : actor'[i] # "connecting" => Bound(i)'
  BY QuitStays, RunningAreBound DEF SessionInv, OwnerInv, IndInv
<1> DEFINE P == \A i \in DOMAIN actor_connections' : Connected(i)' =>
                  /\ issuer'.socket = SocketOf(i)' => ~issuer'.drop
                  /\ SocketOf(i)' \in dropped_sockets' => HasQuit(i)'
           SameBound == \A i : Bound(i)' => Bound(i) /\ SocketOf(i)' = SocketOf(i)
<1>1. /\ \A i : Bound(i) <=> i \in DOMAIN actor_connections /\ Connected(i)
      /\ \A i : Bound(i)' <=> i \in DOMAIN actor_connections' /\ Connected(i)'
  BY DEF Bound
<1>2. \A i : Bound(i) => SocketOf(i) \in Sockets /\ SocketOf(i) # NoIssuer.socket
  BY <1>0, <1>1, ConnectedToSocket, SocketsAssumption DEF NoIssuer
<1>3. \A i, j : Bound(i) /\ Bound(j) /\ SocketOf(i) = SocketOf(j) => i = j
  BY <1>0, <1>1 DEF IndInv, SocketInv
<1>4. SUFFICES P
  BY <1>0 DEF BoundInv
<1>5. ASSUME SameBound, dropped_sockets' \subseteq dropped_sockets, issuer' \in {issuer, NoIssuer}
      PROVE  P
  BY <1>0, <1>1, <1>2, <1>5 DEF BoundInv
<1>6. ASSUME NEW s \in barely_connected_sockets, pc = "traverse"
      PROVE  s \notin dropped_sockets /\ \A i : Bound(i) => SocketOf(i) # s
  BY <1>0, <1>1, <1>6 DEF FiledInv, IndInv, SocketInv
<1>7. ASSUME NEW s \in Sockets, HandleConnect(s) PROVE P
  <2>1. s \in barely_connected_sockets /\ pc = "traverse" /\ UNCHANGED dropped_sockets
    BY <1>7 DEF HandleConnect, Received, Readable, CommandUnchanged
  <2>2. CASE UNCHANGED actor_connections /\ (UNCHANGED issuer \/ Reply(s, Failure, TRUE))
    <3>1. SameBound
      BY <2>2 DEF Bound, Connected, SocketOf
    <3>2. UNCHANGED issuer \/ issuer'.socket = s
      BY <2>2 DEF Reply
    <3> QED
      BY <1>0, <1>1, <1>5, <1>6, <2>1, <3>1, <3>2 DEF BoundInv
  <2>3. ASSUME NEW id, ConnectError(id) = "none", ConnectActor(s, id) PROVE P
    <3>1. issuer'.drop = FALSE
      BY <2>3 DEF ConnectActor, Reply
    <3>2. \A i : Bound(i)' => \/ SocketOf(i)' = s
                              \/ Bound(i) /\ SocketOf(i)' = SocketOf(i)
      BY <1>0, <2>3, ConnectEffect DEF Bound, Connected, SocketOf
    <3> QED
      BY <1>0, <1>1, <1>6, <2>1, <3>1, <3>2 DEF BoundInv
  <2> QED
    BY <1>7, <2>2, <2>3 DEF HandleConnect
<1>8. CASE \A s \in Sockets : ~HandleConnect(s)
  <2>1. SameBound
    BY <1>8, NothingBound
  <2>2. ASSUME NEW s \in Sockets, \/ HandleAddActor(s) \/ HandleStart(s) \/ HandleKill(s)
                                  \/ HandleStatus(s)
        PROVE  P
    <3>1. /\ s \in barely_connected_sockets /\ pc = "traverse" /\ UNCHANGED dropped_sockets
          /\ UNCHANGED issuer \/ issuer'.socket = s
      BY <2>2 DEF HandleAddActor, HandleStart, HandleKill, HandleStatus, Received, Readable,
         CommandUnchanged, Reply
    <3> QED
      BY <1>0, <1>1, <1>6, <2>1, <3>1 DEF BoundInv
  <2>3. CASE Settle
    BY <1>0, <1>1, <1>2, <2>1, <2>3 DEF BoundInv, Settle
  <2>4. CASE PopActorQuit
    <3>1. /\ 1 \in DOMAIN to_command /\ Head(to_command) = to_command[1]
          /\ to_command[1].type = "ACTOR_QUIT"
      BY <1>0, <2>4 DEF PopActorQuit, Popped, TypeOK, QueueTypeOK
    <3>2. PICK j : Bound(j) /\ HasQuit(j) /\ SocketOf(j) = to_command[1].socket
      BY <1>0, <1>1, <3>1 DEF GivenBackInv, GivenBack
    <3>3. dropped_sockets' = dropped_sockets \cup {SocketOf(j)} /\ UNCHANGED issuer
      BY <2>4, <3>1, <3>2 DEF PopActorQuit
    <3> QED
      BY <1>0, <1>1, <1>3, <2>1, <3>2, <3>3 DEF BoundInv
  <2>5. CASE SignalCaught \/ CloseAndReturn
    BY <1>5, <2>1, <2>5 DEF SignalCaught, CloseAndReturn, CloseOpenSockets
  <2>6. CASE WaitAnyReadableFails \/ AcceptClient \/ WaitAnyReadable \/ WriteAck \/ EndTraverse
             \/ EndDropped \/ PopNothing \/ PopFinished \/ PopAborted \/ PopActorCreate
             \/ StartSimulation \/ MaestroAbort \/ MaestroRun \/ SimulationEnds \/ RaiseSignal
    BY <1>5, <2>1, <2>6 DEF WaitAnyReadableFails, AcceptClient, WaitAnyReadable, WriteAck,
       EndTraverse, EndDropped, PopNothing, PopFinished, PopAborted, PopActorCreate,
       StartSimulation, MaestroAbort, MaestroRun, SimulationEnds, RaiseSignal
  <2>7. ASSUME NEW s \in Sockets, ReadEof(s) \/ HandleUnset(s) \/ ReadDropped(s) \/ Client(s)
        PROVE  P
    BY <1>5, <2>1, <2>7 DEF ReadEof, HandleUnset, CommandUnchanged, ReadDropped, Client,
       ClientConnect, SendCommand, ReadAck, CloseConnection, SendQuit, SendJunk, Die,
       ConnectionLost, ClientUnchanged
  <2>8. ASSUME NEW i \in DOMAIN actor, \/ ActorQuit(i) \/ ActorReadFails(i) \/ ActorFails(i)
                                       \/ ActorCreate(i) \/ ActorCreateAck(i)
                                       \/ ActorConnected(i)
        PROVE  P
    BY <1>5, <2>1, <2>8 DEF ActorQuit, ActorReadFails, ActorFails, ActorCreate,
       ActorCreateAck, ActorConnected
  <2> QED
    BY <1>8, <2>2, <2>3, <2>4, <2>5, <2>6, <2>7, <2>8
    DEF Next, CommandThread, SimGridThread
<1> QED
  BY <1>7, <1>8

\* An actor gives its socket back once, and the command thread then drops it.
LEMMA GivenBackStep ==
    ASSUME SessionInv, OwnerInv, Next PROVE GivenBackInv'
<1>0. /\ IndInv /\ FiledInv /\ BoundInv /\ GivenBackInv /\ TypeOK
      /\ \A i : HasQuit(i) => HasQuit(i)'
      /\ \A i : Bound(i) => Bound(i)' /\ SocketOf(i)' = SocketOf(i)
  BY QuitStays, BoundStays DEF SessionInv, OwnerInv, IndInv
<1> DEFINE Quitter(s) == \E i : Bound(i) /\ HasQuit(i) /\ SocketOf(i) = s
           QuitterNext(s) == \E i : Bound(i)' /\ HasQuit(i)' /\ SocketOf(i)' = s
           Back(m) == m.type = "ACTOR_QUIT"
<1>1. /\ \A i : Bound(i) <=> i \in DOMAIN actor_connections /\ Connected(i)
      /\ \A i : Bound(i)' <=> i \in DOMAIN actor_connections' /\ Connected(i)'
  BY DEF Bound
<1>2. /\ \A k \in DOMAIN to_command : Back(to_command[k]) =>
           to_command[k].socket \notin dropped_sockets /\ Quitter(to_command[k].socket)
      /\ \A k, l \in DOMAIN to_command :
           Back(to_command[k]) /\ Back(to_command[l])
             /\ to_command[k].socket = to_command[l].socket => k = l
  BY <1>0, <1>1 DEF GivenBackInv, GivenBack
<1>3. \A s : Quitter(s) => QuitterNext(s)
  BY <1>0
<1>4. ASSUME \A k \in DOMAIN to_command' : Back(to_command'[k]) =>
               to_command'[k].socket \notin dropped_sockets' /\ QuitterNext(to_command'[k].socket),
             \A k, l \in DOMAIN to_command' :
               Back(to_command'[k]) /\ Back(to_command'[l])
                 /\ to_command'[k].socket = to_command'[l].socket => k = l
      PROVE  GivenBackInv'
  BY <1>1, <1>4 DEF GivenBackInv, GivenBack
<1>5. ASSUME UNCHANGED to_command, dropped_sockets' \subseteq dropped_sockets PROVE GivenBackInv'
  BY <1>1, <1>2, <1>3, <1>5 DEF GivenBackInv, GivenBack
<1> HIDE DEF QuitterNext
<1>6. CASE Settle
  <2>1. issuer.drop => \A k \in DOMAIN to_command : Back(to_command[k]) =>
                         to_command[k].socket # issuer.socket
    BY <1>0, <1>1, <1>2 DEF BoundInv
  <2>2. /\ UNCHANGED to_command
        /\ dropped_sockets' = IF issuer.drop THEN dropped_sockets \cup {issuer.socket}
                                             ELSE dropped_sockets
    BY <1>6 DEF Settle
  <2> QED
    BY <1>2, <1>3, <1>4, <2>1, <2>2
<1>7. ASSUME NEW t, Popped(t), \/ UNCHANGED dropped_sockets
                               \/ /\ t = "ACTOR_QUIT"
                                  /\ dropped_sockets' =
                                       dropped_sockets \cup {Head(to_command).socket}
      PROVE  GivenBackInv'
  <2>1. /\ Head(to_command) = to_command[1] /\ 1 \in DOMAIN to_command /\ to_command[1].type = t
        /\ \A k \in DOMAIN to_command' : /\ k + 1 \in DOMAIN to_command /\ k \in Nat
                                         /\ to_command'[k] = to_command[k + 1] /\ k + 1 # 1
    BY <1>0, <1>7 DEF Popped, TypeOK, QueueTypeOK
  <2>2. \A k, l \in DOMAIN to_command' : k + 1 = l + 1 => k = l
    BY <2>1
  <2> QED
    BY <1>2, <1>3, <1>4, <1>7, <2>1, <2>2
<1>8. ASSUME NEW t, NEW s, NEW j, to_command' = Append(to_command, Message(t, s, j)),
             UNCHANGED dropped_sockets,
             t = "ACTOR_QUIT" => /\ s \notin dropped_sockets /\ ~Quitter(s) /\ QuitterNext(s)
      PROVE  GivenBackInv'
  <2>1. /\ Message(t, s, j).type = t /\ Message(t, s, j).socket = s
        /\ \A k \in DOMAIN to_command' :
             \/ k = Len(to_command) + 1 /\ to_command'[k] = Message(t, s, j)
             \/ k \in DOMAIN to_command /\ to_command'[k] = to_command[k]
    BY <1>0, <1>8 DEF TypeOK, QueueTypeOK, Message
  <2> QED
    BY <1>2, <1>3, <1>4, <1>8, <2>1
<1>9. ASSUME NEW i \in DOMAIN actor, ActorQuit(i) PROVE GivenBackInv'
  <2>1. Bound(i) /\ ~HasQuit(i) /\ HasQuit(i)'
    BY <1>0, <1>9 DEF ActorQuit, BoundInv, HasQuit
  <2>2. SocketOf(i) \notin dropped_sockets /\ ~Quitter(SocketOf(i)) /\ QuitterNext(SocketOf(i))
    <3>1. SocketOf(i) \notin dropped_sockets /\ ~Quitter(SocketOf(i))
      BY <1>0, <1>1, <2>1 DEF IndInv, SocketInv, BoundInv
    <3>2. Bound(i)' /\ HasQuit(i)' /\ SocketOf(i)' = SocketOf(i)
      BY <1>0, <2>1
    <3> QED
      BY <3>1, <3>2 DEF QuitterNext
  <2> QED
    BY <1>8, <1>9, <2>2 DEF ActorQuit
<1>10. ASSUME NEW i \in DOMAIN actor, \/ ActorReadFails(i) \/ ActorFails(i) \/ ActorCreate(i)
                                      \/ ActorCreateAck(i) \/ ActorConnected(i)
       PROVE  GivenBackInv'
  BY <1>5, <1>8, <1>10 DEF ActorReadFails, ActorFails, ActorCreate, ActorCreateAck,
     ActorConnected
<1>11. CASE StartSimulation \/ MaestroAbort \/ MaestroRun \/ SimulationEnds
  BY <1>5, <1>8, <1>11 DEF StartSimulation, MaestroAbort, MaestroRun, SimulationEnds
<1>12. CASE PopFinished \/ PopAborted \/ PopActorQuit \/ PopActorCreate
  BY <1>7, <1>12 DEF PopFinished, PopAborted, PopActorQuit, PopActorCreate
<1>13. CASE WaitAnyReadableFails \/ AcceptClient \/ WaitAnyReadable \/ WriteAck \/ EndTraverse
            \/ EndDropped \/ PopNothing \/ SignalCaught \/ CloseAndReturn \/ RaiseSignal
  BY <1>5, <1>13 DEF WaitAnyReadableFails, AcceptClient, WaitAnyReadable, WriteAck, EndTraverse,
     EndDropped, PopNothing, SignalCaught, CloseAndReturn, CloseOpenSockets, RaiseSignal
<1>14. ASSUME NEW s \in Sockets, \/ ReadEof(s) \/ HandleAddActor(s) \/ HandleStart(s)
                                 \/ HandleKill(s) \/ HandleStatus(s) \/ HandleConnect(s)
                                 \/ HandleUnset(s) \/ ReadDropped(s) \/ Client(s)
       PROVE  GivenBackInv'
  BY <1>5, <1>14 DEF ReadEof, HandleAddActor, HandleStart, HandleKill, HandleStatus,
     HandleConnect, HandleUnset, CommandUnchanged, ReadDropped, Client, ClientConnect,
     SendCommand, ReadAck, CloseConnection, SendQuit, SendJunk, Die, ConnectionLost,
     ClientUnchanged
<1> QED
  BY <1>6, <1>9, <1>10, <1>11, <1>12, <1>13, <1>14 DEF Next, CommandThread, SimGridThread

----------------------------------------------------------------------------
(* How far the clients are, when none of them dies *)

\* Nothing the clients still do changes how the server ended.
LEMMA GoneIsFinal ==
    ASSUME Next, ~ServerUp PROVE UNCHANGED <<pc, error>>
<1>1. CASE WaitAnyReadableFails \/ SignalCaught \/ AcceptClient \/ WaitAnyReadable
           \/ WriteAck \/ Settle \/ EndTraverse \/ EndDropped \/ PopNothing \/ PopFinished
           \/ PopAborted \/ PopActorQuit \/ PopActorCreate \/ CloseAndReturn
  BY <1>1 DEF ServerUp, WaitAnyReadableFails, SignalCaught, Selected, AcceptClient,
     WaitAnyReadable, WriteAck, Settle, EndTraverse, EndDropped, PopNothing, PopFinished,
     PopAborted, PopActorQuit, PopActorCreate, Popped, CloseAndReturn
<1>2. ASSUME NEW s \in Sockets, \/ ReadEof(s) \/ HandleAddActor(s) \/ HandleStart(s)
                                \/ HandleKill(s) \/ HandleStatus(s) \/ HandleConnect(s)
                                \/ HandleUnset(s) \/ ReadDropped(s)
      PROVE  UNCHANGED <<pc, error>>
  BY <1>2 DEF ServerUp, ReadEof, HandleAddActor, HandleStart, HandleKill, HandleStatus,
     HandleConnect, HandleUnset, Received, Readable, ReadDropped
<1>3. ASSUME NEW s \in Sockets, Client(s) PROVE UNCHANGED <<pc, error>>
  BY <1>3 DEF Client, ClientConnect, SendCommand, ReadAck, CloseConnection,
     SendQuit, SendJunk, Die, ConnectionLost, ClientUnchanged
<1>4. CASE SimGridThread \/ RaiseSignal
  BY <1>4 DEF ServerUp, SimGridThread, SimStep, StartSimulation, MaestroAbort, MaestroRun,
     SimulationEnds, ActorQuit, ActorReadFails, ActorFails, ActorCreate, ActorCreateAck,
     ActorConnected, RaiseSignal
<1> QED
  BY <1>1, <1>2, <1>3, <1>4 DEF Next, CommandThread

\* A server that is up was up before.
LEMMA UpBefore ==
    ASSUME Next, ServerUp' PROVE ServerUp
  BY GoneIsFinal DEF ServerUp

\* The state before a step of a server whose clients do not die.
Peaceful ==
    /\ SessionInv /\ OwnerInv /\ ReliableInv
    /\ Unreliable = {} /\ ServerUp

\* No client of a running actor is at the end of its stream.
LEMMA NoReadFails ==
    ASSUME Peaceful, NEW i \in DOMAIN actor, actor[i] = "running"
    PROVE  ClientOfActor(SocketOf(i)) /\ ~ActorReadFails(i)
<1>1. Bound(i) /\ ~HasQuit(i)
  BY DEF Peaceful, OwnerInv, BoundInv, HasQuit
<1>2. ClientOfActor(SocketOf(i))
  BY <1>1 DEF Peaceful, ReliableInv, ActorClientsInv, Bound
<1> QED
  BY <1>2 DEF ClientOfActor, ActorReadFails

\* What the selector watches is open, and no socket is forgotten.
LEMMA WatchStep ==
    ASSUME Peaceful, ServerUp', Next PROVE WatchInv'
<1>0. /\ IndInv /\ HandInv /\ TypeOK /\ FiledInv /\ BoundInv /\ GivenBackInv
      /\ WatchInv /\ WaitingInv
      /\ pc \in {"ack", "settle"} => issuer.socket \in Sockets
      /\ fd \in [Sockets -> {"none", "open", "closed"}]
      /\ barely_connected_sockets \subseteq Sockets /\ dropped_sockets \subseteq Sockets
  BY DEF Peaceful, ReliableInv, SessionInv, IndInv, OwnerInv, TypeOK, FilingTypeOK, TcpTypeOK
<1>1. \A k \in DOMAIN to_command : GivenBack(k) =>
        /\ to_command[k].socket \in Sockets /\ to_command[k].socket \notin dropped_sockets
        /\ fd[to_command[k].socket] = "open"
  <2>1. \A k \in DOMAIN to_command : to_command[k] \in InterthreadMessage
    BY <1>0 DEF TypeOK, QueueTypeOK
  <2> QED
    BY <1>0, <2>1 DEF WatchInv, GivenBackInv, GivenBack, InterthreadMessage
<1>2. ASSUME UNCHANGED <<filingVars, fd>>,
             \A k \in DOMAIN to_command' :
               \/ to_command'[k].type = "ACTOR_QUIT" => fd[to_command'[k].socket] = "open"
               \/ \E l \in DOMAIN to_command : to_command'[k] = to_command[l]
      PROVE  WatchInv'
  BY <1>1, <1>0, <1>2 DEF WatchInv, GivenBack
<1>3. ASSUME UNCHANGED <<filingVars, fd, to_command>> PROVE WatchInv'
  BY <1>2, <1>3
<1>4. CASE AcceptClient
  <2>1. PICK s \in Sockets :
          /\ fd' = [fd EXCEPT ![s] = "open"]
          /\ barely_connected_sockets' = barely_connected_sockets \cup {s}
          /\ registered' = registered \cup {s}
          /\ UNCHANGED <<dropped_sockets, to_command>>
    BY <1>4 DEF AcceptClient, Backlog
  <2>2. \A r \in Sockets : fd[r] = "open" => fd'[r] = "open"
    BY <1>0, <2>1
  <2>3. fd'[s] = "open"
    BY <1>0, <2>1
  <2> QED
    BY <1>0, <1>1, <2>1, <2>2, <2>3 DEF WatchInv, GivenBack
<1>5. CASE Settle
  <2>1. fd[issuer.socket] = "open" /\ issuer.socket \notin dropped_sockets
    BY <1>0, <1>5 DEF Settle, FiledInv, WatchInv
  <2> QED
    BY <1>0, <1>5, <2>1 DEF Settle, WatchedAfterHandover, WatchInv, FiledInv, GivenBack
<1>6. ASSUME NEW s \in Sockets, ReadDropped(s) PROVE WatchInv'
  <2>1. s \in dropped_sockets /\ s \notin barely_connected_sockets /\ client[s] # "reset"
    BY <1>0, <1>6 DEF ReadDropped, FiledInv, WaitingInv
  <2>2. \/ UNCHANGED <<filingVars, fd, to_command>>
        \/ /\ fd' = [fd EXCEPT ![s] = "closed"]
           /\ dropped_sockets' = dropped_sockets \ {s} /\ registered' = registered \ {s}
           /\ UNCHANGED <<barely_connected_sockets, to_command>>
    BY <1>6, <2>1 DEF ReadDropped, WatchedAfterEnd
  <2>3. CASE /\ fd' = [fd EXCEPT ![s] = "closed"]
             /\ dropped_sockets' = dropped_sockets \ {s} /\ registered' = registered \ {s}
             /\ UNCHANGED <<barely_connected_sockets, to_command>>
    <3>1. \A r \in Sockets : r # s => fd'[r] = fd[r]
      BY <1>0, <2>3
    <3> QED
      BY <1>0, <1>1, <2>1, <2>3, <3>1 DEF WatchInv, GivenBack
  <2> QED
    BY <1>3, <2>2, <2>3
<1>7. CASE PopActorQuit
  <2>1. /\ 1 \in DOMAIN to_command /\ Head(to_command) = to_command[1] /\ GivenBack(1)
    BY <1>0, <1>7 DEF PopActorQuit, Popped, TypeOK, QueueTypeOK, GivenBack
  <2>2. \A k \in DOMAIN to_command' : \E l \in DOMAIN to_command : to_command'[k] = to_command[l]
    BY <1>0, <1>7, PopFacts DEF PopActorQuit
  <2>3. /\ dropped_sockets' = dropped_sockets \cup {to_command[1].socket}
        /\ registered' = registered \cup {to_command[1].socket}
        /\ UNCHANGED <<barely_connected_sockets, fd>>
    BY <1>7, <2>1 DEF PopActorQuit
  <2> QED
    BY <1>0, <1>1, <2>1, <2>2, <2>3 DEF WatchInv, GivenBack
<1>8. CASE PopFinished \/ PopAborted \/ PopActorCreate
  <2>1. \A k \in DOMAIN to_command' : \E l \in DOMAIN to_command : to_command'[k] = to_command[l]
    BY <1>0, <1>8, PopFacts DEF PopFinished, PopAborted, PopActorCreate
  <2> QED
    BY <1>2, <1>8, <2>1 DEF PopFinished, PopAborted, PopActorCreate
<1>9. ASSUME NEW m, NEW s, NEW j, to_command' = Append(to_command, Message(m, s, j)),
             UNCHANGED <<filingVars, fd>>, m = "ACTOR_QUIT" => fd[s] = "open"
      PROVE  WatchInv'
  <2>1. Message(m, s, j).type = m /\ Message(m, s, j).socket = s
    BY DEF Message
  <2>2. \A k \in DOMAIN to_command' :
          \/ to_command'[k] = Message(m, s, j)
          \/ k \in DOMAIN to_command /\ to_command'[k] = to_command[k]
    BY <1>0, <1>9, PushFacts
  <2> QED
    BY <1>2, <1>9, <2>1, <2>2
<1>10. ASSUME NEW i \in DOMAIN actor, ActorQuit(i) PROVE WatchInv'
  <2>1. fd[SocketOf(i)] = "open"
    BY <1>10, NoReadFails DEF ActorQuit, ClientOfActor
  <2> QED
    BY <1>9, <1>10, <2>1 DEF ActorQuit
<1>11. ASSUME NEW i \in DOMAIN actor, ActorReadFails(i) PROVE WatchInv'
  BY <1>11, NoReadFails DEF ActorReadFails
<1>12. ASSUME NEW i \in DOMAIN actor, \/ ActorFails(i) \/ ActorCreate(i) \/ ActorCreateAck(i)
                                      \/ ActorConnected(i)
       PROVE  WatchInv'
  BY <1>3, <1>9, <1>12 DEF ActorFails, ActorCreate, ActorCreateAck, ActorConnected
<1>13. CASE StartSimulation \/ MaestroAbort \/ MaestroRun \/ SimulationEnds \/ RaiseSignal
  BY <1>3, <1>9, <1>13 DEF StartSimulation, MaestroAbort, MaestroRun, SimulationEnds, RaiseSignal
<1>14. CASE SignalCaught \/ CloseAndReturn
  BY <1>14 DEF SignalCaught, CloseAndReturn, CloseOpenSockets, Throw, ServerUp
<1>15. CASE WaitAnyReadableFails \/ WaitAnyReadable \/ WriteAck \/ EndTraverse
            \/ EndDropped \/ PopNothing
  BY <1>3, <1>15 DEF WaitAnyReadableFails, WaitAnyReadable, WriteAck, EndTraverse,
     EndDropped, PopNothing
<1>16. ASSUME NEW s \in Sockets, \/ ReadEof(s) \/ HandleAddActor(s) \/ HandleStart(s)
                                 \/ HandleKill(s) \/ HandleStatus(s) \/ HandleConnect(s)
                                 \/ HandleUnset(s) \/ Client(s)
       PROVE  WatchInv'
  BY <1>3, <1>16 DEF ReadEof, HandleAddActor, HandleStart, HandleKill, HandleStatus,
     HandleConnect, HandleUnset, CommandUnchanged, Client, ClientConnect,
     SendCommand, ReadAck, CloseConnection, SendQuit, SendJunk, Die, ConnectionLost,
     ClientUnchanged
<1> QED
  BY <1>4, <1>5, <1>6, <1>7, <1>8, <1>10, <1>11, <1>12, <1>13, <1>14, <1>15, <1>16
  DEF Next, CommandThread, SimGridThread

\* The socket that answers is not one whose command is still to be read.
LEMMA AnsweredIsRead ==
    ASSUME Peaceful, pc \in {"ack", "settle"}
    PROVE  ~NotRead(issuer.socket)
  BY DEF Peaceful, SessionInv, IndInv, SocketInv, OwnerInv, FiledInv, NotRead

\* Whatever the order of the steps, a client gets its answer before it moves on.
LEMMA WaitingStep ==
    ASSUME Peaceful, ServerUp', Next PROVE WaitingInv'
<1>0. /\ IndInv /\ HandInv /\ TypeOK /\ FiledInv /\ BoundInv /\ WatchInv /\ WaitingInv
      /\ pc \in {"ack", "settle"} => issuer.socket \in Sockets /\ ~NotRead(issuer.socket)
      /\ fd \in [Sockets -> {"none", "open", "closed"}] /\ client \in [Sockets -> ClientState]
      /\ inbox \in [Sockets -> Inbox] /\ ack \in [Sockets -> Seq(Answer)]
      /\ barely_connected_sockets \subseteq Sockets /\ dropped_sockets \subseteq Sockets
      /\ ServerUp /\ Unreliable = {}
  BY AnsweredIsRead DEF Peaceful, ReliableInv, SessionInv, IndInv, OwnerInv, TypeOK,
     FilingTypeOK, TcpTypeOK
<1>1. ASSUME UNCHANGED <<client, ack, inbox>>, readable' \in {readable, {}},
             pc' \in {"select", "pop"} => readable' = {},
             pc' = "ack" => pc = "ack" /\ UNCHANGED issuer,
             \A s \in Sockets : NotRead(s)' => NotRead(s)
      PROVE  WaitingInv'
  BY <1>0, <1>1 DEF WaitingInv
<1>2. ASSUME UNCHANGED <<client, ack, inbox, readable, pc, issuer, fd, barely_connected_sockets>>
      PROVE  WaitingInv'
  BY <1>0, <1>1, <1>2 DEF WaitingInv, NotRead
<1>3. CASE AcceptClient
  <2>1. PICK s \in Backlog :
          /\ fd' = [fd EXCEPT ![s] = "open"]
          /\ barely_connected_sockets' = barely_connected_sockets \cup {s}
    BY <1>3 DEF AcceptClient
  <2>2. s \in Sockets /\ fd[s] = "none"
    BY DEF Backlog
  <2>3. \A r \in Sockets : NotRead(r)' => NotRead(r)
    BY <1>0, <1>3, <2>1, <2>2 DEF AcceptClient, NotRead
  <2>4. /\ UNCHANGED <<client, ack, inbox, readable>> /\ pc' = "pop" /\ pc = "select"
    BY <1>3 DEF AcceptClient, Selected
  <2> QED
    BY <1>0, <1>1, <2>3, <2>4 DEF WaitingInv
<1>4. CASE WaitAnyReadable
  <2>1. /\ readable' = {s \in registered : Pending(s)}
        /\ pc' = IF readable' = {} THEN "pop" ELSE "traverse"
        /\ UNCHANGED <<client, ack, inbox, fd, barely_connected_sockets, issuer>>
    BY <1>4 DEF WaitAnyReadable
  <2>2. \A s \in Sockets : NotRead(s)' <=> NotRead(s)
    BY <2>1 DEF NotRead
  <2>3. \A s \in Sockets : s \in readable' /\ NotRead(s) => inbox[s] = "command"
    BY <1>0, <2>1 DEF Pending, WaitingInv
  <2> QED
    BY <1>0, <2>1, <2>2, <2>3 DEF WaitingInv
<1>5. ASSUME NEW s \in Sockets, \/ HandleAddActor(s) \/ HandleStart(s) \/ HandleKill(s)
                                \/ HandleStatus(s) \/ HandleConnect(s) \/ HandleUnset(s)
                                \/ ReadEof(s)
      PROVE  WaitingInv'
  <2>1. /\ pc = "traverse" /\ s \in barely_connected_sockets
        /\ UNCHANGED <<client, ack, fd, barely_connected_sockets, readable>>
    BY <1>5 DEF HandleAddActor, HandleStart, HandleKill, HandleStatus, HandleConnect,
       HandleUnset, ReadEof, Received, Readable, CommandUnchanged
  <2>2. /\ inbox[s] = "command" /\ inbox' = [inbox EXCEPT ![s] = "empty"]
        /\ pc' = "ack" /\ issuer'.socket = s
        /\ ~issuer'.drop => issuer'.answer.success
    BY <1>5 DEF HandleAddActor, HandleStart, HandleKill, HandleStatus, HandleConnect,
       ConnectActor, HandleUnset, ReadEof, Received, Reply, Success, Throw, ServerUp
  <2>3. NotRead(s) /\ \A r \in Sockets : NotRead(r)' => NotRead(r) /\ r # s
    BY <1>0, <2>1, <2>2, SocketsAssumption
    DEF NotRead, FiledInv, NoIssuer, WatchInv
  <2>4. client[s] = "awaiting" /\ ack[s] = <<>>
    BY <1>0, <2>2, <2>3 DEF WaitingInv
  <2>5. inbox'[s] = "empty" /\ \A r \in Sockets : r # s => inbox'[r] = inbox[r]
    BY <1>0, <2>2
  <2> QED
    BY <1>0, <2>1, <2>2, <2>3, <2>4, <2>5 DEF WaitingInv
<1>6. CASE WriteAck
  <2> DEFINE s == issuer.socket
  <2>1. /\ pc = "ack" /\ pc' = "settle" /\ s \in Sockets
        /\ ack' = [ack EXCEPT ![s] = <<issuer.answer>>]
        /\ UNCHANGED <<client, inbox, fd, readable, barely_connected_sockets, issuer>>
    BY <1>0, <1>6 DEF WriteAck, WaitingInv, FiledInv, WatchInv
  <2>2. \A r \in Sockets : NotRead(r)' => NotRead(r) /\ r # s
    BY <1>0, <2>1 DEF NotRead
  <2>3. \A r \in Sockets : r # s => ack'[r] = ack[r]
    BY <1>0, <2>1
  <2> QED
    BY <1>0, <2>1, <2>2, <2>3 DEF WaitingInv
<1>7. CASE Settle
  <2>1. /\ pc = "settle" /\ pc' = "traverse"
        /\ UNCHANGED <<client, ack, inbox, fd, readable>>
        /\ barely_connected_sockets' = barely_connected_sockets \ {issuer.socket}
    BY <1>7 DEF Settle
  <2>2. \A r \in Sockets : NotRead(r)' => NotRead(r)
    BY <2>1 DEF NotRead
  <2> QED
    BY <1>1, <2>1, <2>2
<1>8. CASE EndTraverse \/ EndDropped
  <2>1. /\ UNCHANGED <<client, ack, inbox, fd, issuer, barely_connected_sockets>>
        /\ \/ pc' = "pop" /\ readable' = {}
           \/ pc' = "dropped" /\ readable' = readable
    BY <1>8 DEF EndTraverse, EndDropped
  <2> QED
    BY <1>1, <2>1 DEF NotRead
<1>9. CASE PopNothing \/ PopFinished \/ PopAborted \/ PopActorQuit \/ PopActorCreate
  <2>1. /\ UNCHANGED <<client, ack, inbox, fd, readable, issuer, barely_connected_sockets>>
        /\ pc = "pop" /\ pc' # "ack"
    BY <1>9 DEF PopNothing, PopFinished, PopAborted, PopActorQuit, PopActorCreate, Popped,
       LoopAgain, Throw
  <2> QED
    BY <1>0, <1>1, <2>1 DEF NotRead, WaitingInv
<1>10. CASE WaitAnyReadableFails \/ SignalCaught \/ CloseAndReturn
  BY <1>10 DEF WaitAnyReadableFails, SignalCaught, CloseAndReturn, CloseOpenSockets, Throw,
     ServerUp
<1>11. ASSUME NEW s \in Sockets, ReadDropped(s) PROVE WaitingInv'
  <2>1. /\ s \in dropped_sockets /\ readable' = readable \ {s} /\ pc = "dropped" /\ pc' = pc
        /\ UNCHANGED <<client, ack, issuer, barely_connected_sockets>>
        /\ inbox' \in {inbox, [inbox EXCEPT ![s] = "empty"]}
        /\ fd' \in {fd, [fd EXCEPT ![s] = "closed"]}
    BY <1>11 DEF ReadDropped
  <2>2. ~NotRead(s)
    BY <1>0, <2>1 DEF NotRead, WatchInv, FiledInv
  <2>3. \A r \in Sockets : /\ fd'[r] = "none" => fd[r] = "none"
                           /\ r # s => inbox'[r] = inbox[r]
    BY <1>0, <2>1
  <2>4. \A r \in Sockets : NotRead(r)' => NotRead(r) /\ r # s
    BY <2>1, <2>2, <2>3 DEF NotRead
  <2> QED
    BY <1>0, <2>1, <2>3, <2>4 DEF WaitingInv
<1>12. CASE StartSimulation
  BY <1>2, <1>12 DEF StartSimulation, Throw, ServerUp
<1>13. CASE MaestroAbort \/ MaestroRun \/ SimulationEnds \/ RaiseSignal
  BY <1>2, <1>13 DEF MaestroAbort, MaestroRun, SimulationEnds, RaiseSignal
<1>14. ASSUME NEW i \in DOMAIN actor, \/ ActorFails(i) \/ ActorCreate(i) \/ ActorCreateAck(i)
                                      \/ ActorConnected(i)
       PROVE  WaitingInv'
  BY <1>2, <1>14 DEF ActorFails, ActorCreate, ActorCreateAck, ActorConnected
<1>15. ASSUME NEW i \in DOMAIN actor, ActorReadFails(i) PROVE WaitingInv'
  BY <1>15, NoReadFails DEF ActorReadFails
<1>16. ASSUME NEW i \in DOMAIN actor, ActorQuit(i) PROVE WaitingInv'
  <2>1. /\ inbox[SocketOf(i)] = "quit" /\ inbox' = [inbox EXCEPT ![SocketOf(i)] = "empty"]
        /\ UNCHANGED <<client, ack, fd, readable, pc, issuer, barely_connected_sockets>>
    BY <1>16 DEF ActorQuit
  <2>2. \A r \in Sockets : NotRead(r)' <=> NotRead(r)
    BY <2>1 DEF NotRead
  <2>3. SocketOf(i) \in Sockets => ~NotRead(SocketOf(i))
    BY <1>0, <2>1 DEF WaitingInv
  <2>4. \A r \in Sockets : inbox'[r] = inbox[r] \/ (r = SocketOf(i) /\ inbox'[r] = "empty")
    BY <1>0, <2>1
  <2> QED
    BY <1>0, <2>1, <2>2, <2>3, <2>4 DEF WaitingInv
<1>17. ASSUME NEW s \in Sockets, Client(s) PROVE WaitingInv'
  <2>1. /\ UNCHANGED <<fd, readable, pc, issuer, barely_connected_sockets>>
        /\ \A r \in Sockets : NotRead(r)' <=> NotRead(r)
    BY <1>17 DEF Client, ClientConnect, SendCommand, ReadAck, CloseConnection, SendQuit,
       SendJunk, Die, ConnectionLost, ClientUnchanged, NotRead
  <2>2. ~Die(s) /\ ~ConnectionLost(s)
    BY <1>0 DEF Die, ConnectionLost
  <2>3. \A r \in Sockets : r # s => /\ client'[r] = client[r] /\ ack'[r] = ack[r]
                                    /\ inbox'[r] = inbox[r]
    BY <1>0, <1>17, <2>2 DEF Client, ClientConnect, SendCommand, ReadAck, CloseConnection,
       SendQuit, SendJunk, ClientUnchanged
  <2>4. \/ client[s] = "idle" /\ client'[s] = "connected" /\ UNCHANGED <<ack, inbox>>
        \/ client[s] = "connected" /\ client'[s] = "awaiting" /\ inbox'[s] = "command"
           /\ UNCHANGED ack
        \/ client[s] = "awaiting" /\ ack[s] # <<>> /\ client'[s] # "reset"
        \/ client[s] \in {"served", "refused"} /\ client'[s] # "reset"
    BY <1>0, <1>17, <2>2 DEF Client, ClientConnect, SendCommand, ReadAck, CloseConnection,
       SendQuit, SendJunk, ClientUnchanged
  <2>5. pc = "ack" => issuer.socket # s
    BY <1>0, <2>4 DEF WaitingInv
  <2>6. NotRead(s) /\ client[s] = "connected" => inbox[s] = "empty" /\ s \notin readable
    BY <1>0 DEF WaitingInv
  <2> QED
    BY <1>0, <2>1, <2>3, <2>4, <2>5, <2>6 DEF WaitingInv
<1> QED
  BY <1>3, <1>4, <1>5, <1>6, <1>7, <1>8, <1>9, <1>10, <1>11, <1>12, <1>13, <1>14, <1>15, <1>16,
     <1>17
  DEF Next, CommandThread, SimGridThread

\* The client of an actor is in its request loop until it sends its quit.
LEMMA ActorClientsStep ==
    ASSUME Peaceful, ServerUp', Next PROVE ActorClientsInv'
<1>0. /\ SessionInv /\ IndInv /\ HandInv /\ TypeOK /\ FiledInv /\ BoundInv /\ WatchInv
      /\ WaitingInv /\ ActorClientsInv
      /\ pc \in {"ack", "settle"} => issuer.socket \in Sockets
      /\ fd \in [Sockets -> {"none", "open", "closed"}] /\ client \in [Sockets -> ClientState]
      /\ inbox \in [Sockets -> Inbox] /\ ack \in [Sockets -> Seq(Answer)]
      /\ command \in [Sockets -> Command]
      /\ ServerUp /\ Unreliable = {}
  BY DEF Peaceful, ReliableInv, SessionInv, IndInv, OwnerInv, TypeOK,
     FilingTypeOK, TcpTypeOK
<1>1. /\ \A i : Bound(i) <=> i \in DOMAIN actor_connections /\ Connected(i)
      /\ \A i : Bound(i)' <=> i \in DOMAIN actor_connections' /\ Connected(i)'
  BY DEF Bound
<1>2. ASSUME NEW s \in Sockets, HandleConnect(s), NEW i, Bound(i)', SocketOf(i)' = s
      PROVE  ClientOfActor(s)'
  <2>1. /\ inbox[s] = "command" /\ inbox' = [inbox EXCEPT ![s] = "empty"]
        /\ command[s].type = "CONNECT" /\ pc = "traverse" /\ s \in barely_connected_sockets
        /\ UNCHANGED <<client, ack, fd, command>>
    BY <1>2 DEF HandleConnect, Received, Readable, CommandUnchanged
  <2>2. NotRead(s) /\ fd[s] = "open"
    BY <1>0, <2>1, SocketsAssumption DEF NotRead, FiledInv, NoIssuer, WatchInv
  <2>3. client[s] = "awaiting" /\ ack[s] = <<>> /\ inbox'[s] = "empty"
    BY <1>0, <2>1, <2>2 DEF WaitingInv
  <2> QED
    BY <2>1, <2>2, <2>3 DEF ClientOfActor
<1>3. ASSUME NEW i, Bound(i), ~HasQuit(i), ~HasQuit(i)' PROVE ClientOfActor(SocketOf(i))'
  <2>0. PICK s : s = SocketOf(i)
    OBVIOUS
  <2>1. SocketOf(i)' = s /\ s \in Sockets /\ ClientOfActor(s)
    BY <1>0, <1>1, <1>3, <2>0, BoundStays, ConnectedToSocket DEF ActorClientsInv
  <2> SUFFICES ClientOfActor(s)'
    BY <2>1
  <2>2. /\ s \notin dropped_sockets
        /\ issuer.socket = s => ~issuer.drop
        /\ s \in barely_connected_sockets => pc \in {"ack", "settle", "aborted"}
        /\ \A j \in DOMAIN actor_connections : Connected(j) /\ SocketOf(j) = s => j = i
    BY <1>0, <1>1, <1>3, <2>0 DEF BoundInv, IndInv, SocketInv
  <2>3. ASSUME UNCHANGED <<fd[s], command[s], client[s], inbox[s], ack[s]>>
        PROVE  ClientOfActor(s)'
    BY <2>1, <2>3 DEF ClientOfActor
  <2>4. CASE WriteAck
    <3>1. ack[issuer.socket] = <<>> /\ pc = "ack" /\ client[issuer.socket] = "awaiting"
      BY <1>0, <2>4 DEF WriteAck, WaitingInv
    <3>2. /\ ack' = [ack EXCEPT ![issuer.socket] = <<issuer.answer>>]
          /\ UNCHANGED <<fd, command, client, inbox>>
      BY <1>0, <2>4, <3>1 DEF WriteAck, FiledInv, WatchInv
    <3>3. CASE issuer.socket = s
      <4>1. issuer.answer.success /\ ack'[s] = <<issuer.answer>>
        BY <1>0, <2>1, <2>2, <3>1, <3>2, <3>3 DEF WaitingInv
      <4>2. Head(<<issuer.answer>>) = issuer.answer
        OBVIOUS
      <4> QED
        BY <2>1, <3>2, <4>1, <4>2 DEF ClientOfActor
    <3>4. CASE issuer.socket # s
      BY <1>0, <2>1, <2>3, <3>2, <3>4
    <3> QED
      BY <3>3, <3>4
  <2>5. ASSUME NEW r \in Sockets, Client(r) PROVE ClientOfActor(s)'
    <3>1. CASE r # s
      BY <1>0, <2>1, <2>3, <2>5, <3>1 DEF Client, ClientConnect, SendCommand, ReadAck,
         CloseConnection, SendQuit, SendJunk, Die, ConnectionLost, ClientUnchanged
    <3>2. CASE r = s /\ ReadAck(s)
      BY <1>0, <2>1, <3>2 DEF ClientOfActor, ReadAck, ClientUnchanged
    <3>3. CASE r = s /\ SendQuit(s)
      BY <1>0, <2>1, <3>3 DEF ClientOfActor, SendQuit, ClientUnchanged
    <3>4. CASE r = s /\ \/ ClientConnect(s) \/ SendCommand(s) \/ CloseConnection(s)
                        \/ SendJunk(s) \/ Die(s) \/ ConnectionLost(s)
      BY <1>0, <2>1, <3>4 DEF ClientOfActor, ClientConnect, SendCommand, CloseConnection,
         SendJunk, Die, ConnectionLost
    <3> QED
      BY <2>5, <3>1, <3>2, <3>3, <3>4 DEF Client
  <2>6. CASE AcceptClient
    <3>1. PICK r \in Sockets : fd[r] = "none" /\ fd' = [fd EXCEPT ![r] = "open"]
      BY <2>6 DEF AcceptClient, Backlog
    <3>2. UNCHANGED <<command, client, inbox, ack>>
      BY <2>6 DEF AcceptClient
    <3> QED
      BY <1>0, <2>1, <2>3, <3>1, <3>2 DEF ClientOfActor
  <2>7. ASSUME NEW r \in Sockets, \/ HandleAddActor(r) \/ HandleStart(r) \/ HandleKill(r)
                                  \/ HandleStatus(r) \/ HandleConnect(r) \/ HandleUnset(r)
                                  \/ ReadEof(r) \/ ReadDropped(r)
        PROVE  ClientOfActor(s)'
    <3>1. r # s
      BY <2>2, <2>7 DEF HandleAddActor, HandleStart, HandleKill, HandleStatus, HandleConnect,
         HandleUnset, ReadEof, ReadDropped, Received, Readable
    <3> QED
      BY <1>0, <2>1, <2>3, <2>7, <3>1 DEF HandleAddActor, HandleStart, HandleKill, HandleStatus,
         HandleConnect, HandleUnset, ReadEof, ReadDropped, Received, CommandUnchanged
  <2>8. ASSUME NEW j \in DOMAIN actor, ActorQuit(j) PROVE ClientOfActor(s)'
    <3>1. Bound(j) /\ HasQuit(j)'
      BY <1>0, <2>8 DEF ActorQuit, BoundInv, HasQuit
    <3>2. SocketOf(j) # s
      BY <1>1, <1>3, <2>2, <3>1
    <3> QED
      BY <1>0, <2>1, <2>3, <2>8, <3>2 DEF ActorQuit
  <2>9. ASSUME NEW j \in DOMAIN actor, ActorReadFails(j) PROVE ClientOfActor(s)'
    BY <2>9, NoReadFails DEF ActorReadFails
  <2>10. ASSUME NEW j \in DOMAIN actor, \/ ActorFails(j) \/ ActorCreate(j) \/ ActorCreateAck(j)
                                        \/ ActorConnected(j)
         PROVE  ClientOfActor(s)'
    BY <2>3, <2>10 DEF ActorFails, ActorCreate, ActorCreateAck, ActorConnected
  <2>11. CASE SignalCaught \/ CloseAndReturn
    BY <2>11 DEF SignalCaught, CloseAndReturn, CloseOpenSockets, Throw, ServerUp
  <2>12. CASE WaitAnyReadableFails \/ WaitAnyReadable \/ Settle \/ EndTraverse \/ EndDropped
              \/ PopNothing \/ RaiseSignal
    BY <2>3, <2>12 DEF WaitAnyReadableFails, WaitAnyReadable, Settle, EndTraverse, EndDropped,
       PopNothing, RaiseSignal
  <2>13. CASE PopFinished \/ PopAborted \/ PopActorQuit \/ PopActorCreate
    BY <2>3, <2>13 DEF PopFinished, PopAborted, PopActorQuit, PopActorCreate
  <2>14. CASE StartSimulation \/ MaestroAbort \/ MaestroRun \/ SimulationEnds
    BY <2>3, <2>14 DEF StartSimulation, MaestroAbort, MaestroRun, SimulationEnds
  <2>15. CASE SimGridThread
    BY <2>8, <2>9, <2>10, <2>14, <2>15 DEF SimGridThread
  <2>16. CASE CommandThread
    BY <2>4, <2>6, <2>7, <2>11, <2>12, <2>13, <2>16 DEF CommandThread
  <2> QED
    BY <2>5, <2>12, <2>15, <2>16 DEF Next
<1>4. ASSUME NEW i, Bound(i)', ~HasQuit(i)' PROVE ClientOfActor(SocketOf(i))'
  <2>1. ~HasQuit(i)
    BY <1>0, <1>4, QuitStays
  <2>2. CASE Bound(i)
    BY <1>3, <1>4, <2>1, <2>2
  <2>3. CASE ~Bound(i)
    <3>1. PICK s \in Sockets : HandleConnect(s)
      BY <1>0, <1>4, <2>3, NothingBound
    <3>2. SocketOf(i)' = s
      <4>1. CASE UNCHANGED actor_connections
        BY <1>4, <2>3, <4>1 DEF Bound, Connected
      <4>2. ASSUME NEW id, ConnectError(id) = "none", ConnectActor(s, id)
            PROVE  SocketOf(i)' = s
        BY <1>0, <1>4, <2>3, <4>2, ConnectEffect DEF Bound, Connected, SocketOf
      <4> QED
        BY <3>1, <4>1, <4>2 DEF HandleConnect
    <3> QED
      BY <1>2, <1>4, <3>1, <3>2
  <2> QED
    BY <2>2, <2>3
<1> QED
  BY <1>1, <1>4 DEF ActorClientsInv

\* The server loses no client that does not die, so no step of it throws for one.
LEMMA NoClientLost ==
    ASSUME Peaceful, error \notin LostClient, Next PROVE error' \notin LostClient
<1>0. /\ TypeOK /\ FiledInv /\ WatchInv /\ WaitingInv
      /\ barely_connected_sockets \subseteq Sockets /\ dropped_sockets \subseteq Sockets
  BY DEF Peaceful, ReliableInv, SessionInv, IndInv, OwnerInv, TypeOK, FilingTypeOK
<1>1. CASE WaitAnyReadableFails
  BY <1>0, <1>1 DEF WaitAnyReadableFails, WatchInv
<1>2. CASE SignalCaught \/ CloseAndReturn
  BY <1>0, <1>2 DEF SignalCaught, CloseAndReturn, CloseOpenSockets, WaitingInv
<1>3. ASSUME NEW s \in Sockets, ReadEof(s) PROVE FALSE
  <2>1. /\ pc = "traverse" /\ s \in barely_connected_sockets /\ s \in readable
        /\ inbox[s] = "empty"
    BY <1>3 DEF ReadEof, Readable
  <2>2. NotRead(s)
    BY <1>0, <2>1, SocketsAssumption DEF NotRead, FiledInv, NoIssuer
  <2> QED
    BY <1>0, <2>1, <2>2 DEF WaitingInv
<1>4. ASSUME NEW s \in Sockets, \/ HandleAddActor(s) \/ HandleStart(s) \/ HandleKill(s)
                                \/ HandleStatus(s) \/ HandleConnect(s) \/ HandleUnset(s)
                                \/ ReadDropped(s) \/ Client(s)
      PROVE  error' \notin LostClient
  BY <1>4 DEF HandleAddActor, HandleStart, HandleKill, HandleStatus, HandleConnect,
     ConnectError, ConnectActor, HandleUnset, Reply, Throw, ReadDropped, Client, ClientConnect,
     SendCommand, ReadAck, CloseConnection, SendQuit, SendJunk, Die, ConnectionLost,
     ClientUnchanged, LostClient
<1>5. CASE AcceptClient \/ WaitAnyReadable \/ Settle \/ EndTraverse \/ EndDropped
           \/ PopNothing \/ PopFinished \/ PopAborted \/ PopActorQuit \/ PopActorCreate
           \/ StartSimulation \/ MaestroAbort \/ MaestroRun \/ SimulationEnds \/ RaiseSignal
  BY <1>5 DEF AcceptClient, WaitAnyReadable, Settle, EndTraverse, EndDropped,
     PopNothing, PopFinished, PopAborted, PopActorQuit, PopActorCreate, StartSimulation, Throw,
     MaestroAbort, MaestroRun, SimulationEnds, RaiseSignal, LostClient
<1>6. ASSUME NEW i \in DOMAIN actor, \/ ActorQuit(i) \/ ActorReadFails(i) \/ ActorFails(i)
                                     \/ ActorCreate(i) \/ ActorCreateAck(i)
                                     \/ ActorConnected(i)
      PROVE  error' \notin LostClient
  BY <1>6 DEF ActorQuit, ActorReadFails, ActorFails, ActorCreate, ActorCreateAck, ActorConnected
<1>7. CASE WriteAck
  <2>1. fd[issuer.socket] = "open"
    BY <1>0, <1>7 DEF WriteAck, FiledInv, WatchInv
  <2> QED
    BY <1>7, <2>1 DEF WriteAck
<1> QED
  BY <1>1, <1>2, <1>3, <1>4, <1>5, <1>6, <1>7 DEF Next, CommandThread, SimGridThread

----------------------------------------------------------------------------
(* Who holds an actor id, when the clients are well configured *)

\* Two holders of different kinds, or of different sockets, are different.
LEMMA HoldersDiffer ==
    \A k, l, s, t : HolderOf(k, s) = HolderOf(l, t) => k = l /\ s = t
<1> SUFFICES ASSUME NEW k, NEW l, NEW s, NEW t, HolderOf(k, s) = HolderOf(l, t)
             PROVE  k = l /\ s = t
  OBVIOUS
<1>1. HolderOf(k, s).kind = k /\ HolderOf(l, t).kind = l
  BY DEF HolderOf
<1>2. HolderOf(k, s).socket = s /\ HolderOf(l, t).socket = t
  BY DEF HolderOf
<1> QED
  BY <1>1, <1>2

\* Ids that nobody new holds stay tokens.
LEMMA TokensKept ==
    ASSUME TokenInv, DOMAIN actor_connections \subseteq DOMAIN actor_connections',
           \A h, id : Holds(h, id)' => Holds(h, id)
    PROVE  TokenInv'
  BY DEF TokenInv

\* After the step, party g may hold id n; nobody holds more otherwise.
OnlyGives(g, n) == \A h, id : Holds(h, id)' => Holds(h, id) \/ (h = g /\ id = n)

\* A new id is given to one party.
LEMMA TokenGranted ==
    ASSUME TokenInv, DOMAIN actor_connections \subseteq DOMAIN actor_connections',
           NEW g, NEW n, n \notin DOMAIN actor_connections, n \in DOMAIN actor_connections',
           OnlyGives(g, n)
    PROVE  TokenInv'
  BY DEF TokenInv, OnlyGives

\* An id changes hands.
LEMMA TokenPassed ==
    ASSUME TokenInv, DOMAIN actor_connections \subseteq DOMAIN actor_connections',
           NEW f, NEW g, NEW n, Holds(f, n), ~Holds(f, n)', OnlyGives(g, n)
    PROVE  TokenInv'
<1>1. \A h, id : Holds(h, id)' /\ id # n => Holds(h, id)
  BY DEF OnlyGives
<1>2. \A h : Holds(h, n)' => h = g
  BY DEF TokenInv, OnlyGives
<1>3. \A id, h, k : Holds(h, id)' /\ Holds(k, id)' => h = k
  BY <1>1, <1>2 DEF TokenInv
<1>4. n \in DOMAIN actor_connections
  BY DEF TokenInv
<1>5. \A id, h : Holds(h, id)' => id \in DOMAIN actor_connections'
  BY <1>1, <1>4 DEF TokenInv
<1> QED
  BY <1>3, <1>5 DEF TokenInv

\* A step after which nobody holds more than before.
LEMMA NobodyHoldsMore ==
    ASSUME \A id : Answers(id)' => Answers(id),
           \A s \in Sockets : \A id : (Told(s, id)' => Told(s, id)) /\ (Asked(s, id)' => Asked(s, id)),
           create_ack' \subseteq create_ack, handed' \subseteq handed,
           \A id : Bound(id)' => Bound(id)
    PROVE  \A h, id : Holds(h, id)' => Holds(h, id)
  BY DEF Holds

\* The state before a step of a server whose clients are well configured.
Configured ==
    /\ SessionInv /\ OwnerInv /\ Misconfigured = {}
    /\ TypedInv /\ TokenInv

\* Clients send typed commands, after they have connected.
LEMMA TypedStep ==
    ASSUME Configured, Next PROVE TypedInv'
<1>0. /\ TypedInv /\ Misconfigured = {} /\ HandInv
      /\ client \in [Sockets -> ClientState]
      /\ inbox \in [Sockets -> Inbox] /\ command \in [Sockets -> Command]
      /\ pc \in {"ack", "settle"} => issuer.socket \in Sockets
  BY DEF Configured, SessionInv, IndInv, TypeOK, FilingTypeOK, TcpTypeOK
<1>1. ASSUME UNCHANGED <<client, command>>,
             \A s \in Sockets : inbox'[s] = inbox[s] \/ inbox'[s] = "empty"
      PROVE  TypedInv'
  BY <1>0, <1>1 DEF TypedInv
<1>2. ASSUME NEW s \in Sockets, NEW v, inbox' = [inbox EXCEPT ![v] = "empty"],
             UNCHANGED <<client, command>>
      PROVE  TypedInv'
  BY <1>0, <1>1, <1>2
<1>3. CASE WriteAck
  <2>1. issuer.socket \in Sockets /\ client[issuer.socket] # "idle"
    BY <1>0, <1>3 DEF WriteAck, HandInv
  <2>2. /\ client' \in {client, [client EXCEPT ![issuer.socket] = "reset"]}
        /\ UNCHANGED <<command, inbox>>
    BY <1>3 DEF WriteAck
  <2> QED
    BY <1>0, <2>1, <2>2 DEF TypedInv
<1>4. ASSUME NEW s \in Sockets, \/ ReadEof(s) \/ HandleAddActor(s) \/ HandleStart(s)
                                \/ HandleKill(s) \/ HandleStatus(s) \/ HandleConnect(s)
                                \/ HandleUnset(s) \/ ReadDropped(s)
      PROVE  TypedInv'
  <2>1. UNCHANGED <<client, command>> /\ inbox' \in {inbox, [inbox EXCEPT ![s] = "empty"]}
    BY <1>4 DEF ReadEof, HandleAddActor, HandleStart, HandleKill, HandleStatus, HandleConnect,
       HandleUnset, ReadDropped, Received, CommandUnchanged
  <2> QED
    BY <1>0, <1>1, <2>1
<1>5. ASSUME NEW i \in DOMAIN actor, \/ ActorQuit(i) \/ ActorReadFails(i) \/ ActorFails(i)
                                     \/ ActorCreate(i) \/ ActorCreateAck(i)
                                     \/ ActorConnected(i)
      PROVE  TypedInv'
  <2>1. /\ UNCHANGED <<client, command>>
        /\ inbox' \in {inbox, [inbox EXCEPT ![SocketOf(i)] = "empty"]}
    BY <1>5 DEF ActorQuit, ActorReadFails, ActorFails, ActorCreate, ActorCreateAck,
       ActorConnected
  <2> QED
    BY <1>0, <1>1, <2>1
<1>6. ASSUME NEW s \in Sockets, ClientConnect(s) PROVE TypedInv'
  <2>1. PICK c \in Commands(s) :
          /\ command' = [command EXCEPT ![s] = c]
          /\ client' = [client EXCEPT ![s] = "connected"] /\ client[s] = "idle"
          /\ UNCHANGED inbox
    BY <1>6 DEF ClientConnect
  <2>2. c.type # "UNSET"
    BY <1>0 DEF Commands
  <2> QED
    BY <1>0, <2>1, <2>2 DEF TypedInv
<1>7. ASSUME NEW s \in Sockets, \/ SendCommand(s) \/ ReadAck(s) \/ CloseConnection(s)
                                \/ SendQuit(s) \/ SendJunk(s) \/ Die(s) \/ ConnectionLost(s)
      PROVE  TypedInv'
  <2>1. /\ UNCHANGED command
        /\ client[s] # "idle" /\ client'[s] \notin {"idle", "connected"}
        /\ \A r \in Sockets : r # s => client'[r] = client[r] /\ inbox'[r] = inbox[r]
    BY <1>0, <1>7 DEF SendCommand, ReadAck, CloseConnection, SendQuit, SendJunk, Die,
       ConnectionLost, ClientUnchanged
  <2> QED
    BY <1>0, <2>1 DEF TypedInv
<1>8. CASE WaitAnyReadableFails \/ SignalCaught \/ AcceptClient \/ WaitAnyReadable \/ Settle
           \/ EndTraverse \/ EndDropped \/ PopNothing \/ CloseAndReturn \/ RaiseSignal
  BY <1>1, <1>8 DEF WaitAnyReadableFails, SignalCaught, AcceptClient, WaitAnyReadable, Settle,
     EndTraverse, EndDropped, PopNothing, CloseAndReturn, RaiseSignal
<1>9. CASE PopFinished \/ PopAborted \/ PopActorQuit \/ PopActorCreate
           \/ StartSimulation \/ MaestroAbort \/ MaestroRun \/ SimulationEnds
  BY <1>1, <1>9 DEF PopFinished, PopAborted, PopActorQuit, PopActorCreate, StartSimulation,
     MaestroAbort, MaestroRun, SimulationEnds
<1> QED
  BY <1>3, <1>4, <1>5, <1>6, <1>7, <1>8, <1>9 DEF Next, CommandThread, SimGridThread, Client

\* An id goes from ADD_ACTOR, or from the creation of an actor, to one CONNECT.
LEMMA TokenStep ==
    ASSUME Configured, Next PROVE TokenInv'
<1>0. /\ SessionInv /\ IndInv /\ HandInv /\ FiledInv /\ TypedInv /\ TokenInv
      /\ Misconfigured = {}
      /\ client \in [Sockets -> ClientState] /\ inbox \in [Sockets -> Inbox]
      /\ command \in [Sockets -> Command] /\ ack \in [Sockets -> Seq(Answer)]
      /\ pc \in {"ack", "settle"} => issuer.socket \in Sockets
  BY DEF Configured, SessionInv, IndInv, OwnerInv, TypeOK, FilingTypeOK, TcpTypeOK
<1>1. DOMAIN actor_connections \subseteq DOMAIN actor_connections'
  BY <1>0, RegistryGrows
<1> DEFINE SameBound == \A id : Bound(id)' => Bound(id)
           SameAnswers == \A id : Answers(id)' => Answers(id)
           SameClients == \A s \in Sockets : \A id : /\ Told(s, id)' => Told(s, id)
                                                     /\ Asked(s, id)' => Asked(s, id)
<1>2. ASSUME SameBound, SameAnswers, SameClients, create_ack' \subseteq create_ack,
             handed' \subseteq handed
      PROVE  TokenInv'
  BY <1>0, <1>1, <1>2, NobodyHoldsMore, TokensKept
<1>3. ASSUME UNCHANGED <<client, command, ack>>,
             \A s \in Sockets : inbox'[s] = inbox[s] \/ inbox'[s] = "empty"
      PROVE  SameClients
  BY <1>3 DEF Told, Asked
<1>4. ASSUME pc' # "ack" \/ UNCHANGED <<pc, issuer, command>> PROVE SameAnswers
  BY <1>4 DEF Answers
<1> HIDE DEF SameBound, SameAnswers, SameClients
<1>5. ASSUME NEW s \in Sockets, HandleAddActor(s) PROVE TokenInv'
  <2>1. SameBound
    <3>1. \A r \in Sockets : ~HandleConnect(r)
      BY <1>0, <1>5 DEF HandleAddActor, HandleConnect, Received
    <3> QED
      BY <1>0, <3>1, NothingBound DEF SameBound
  <2>2. SameClients /\ create_ack' = create_ack /\ handed' = handed
    BY <1>0, <1>3, <1>5 DEF HandleAddActor, Received, CommandUnchanged
  <2>3. CASE state # "ACCEPTING_NEW_ACTORS"
    <3>1. SameAnswers
      BY <1>5, <2>3 DEF HandleAddActor, Throw, Reply, Failure, Answers, SameAnswers
    <3> QED
      BY <1>2, <2>1, <2>2, <3>1
  <2>4. CASE state = "ACCEPTING_NEW_ACTORS"
    <3>0. PICK g, n : g = HolderOf("answer", NoSocket) /\ n = NbActors + 2
      OBVIOUS
    <3>1. /\ actor_connections' = Put(actor_connections, n,
                    [socket |-> NoSocket, connect_ack |-> FALSE, host |-> command[s].host])
          /\ issuer' = [socket |-> s, answer |-> Success(n), drop |-> TRUE]
      BY <1>5, <2>4, <3>0 DEF HandleAddActor, Reply
    <3>2. n \notin DOMAIN actor_connections /\ n \in DOMAIN actor_connections'
      BY <1>0, <2>4, <3>0, <3>1, FreshId DEF Put
    <3>3. \A id : Answers(id)' => id = n
      BY <3>1 DEF Answers, Success
    <3>4. OnlyGives(g, n)
      BY <2>1, <2>2, <3>0, <3>3 DEF OnlyGives, Holds, SameBound, SameClients
    <3> QED
      BY <1>0, <1>1, <3>2, <3>4, TokenGranted
  <2> QED
    BY <2>3, <2>4
<1>6. ASSUME NEW s \in Sockets, HandleConnect(s) PROVE TokenInv'
  <2> DEFINE n == command[s].id
  <2>1. /\ command[s].type = "CONNECT" /\ inbox[s] = "command"
        /\ inbox' = [inbox EXCEPT ![s] = "empty"] /\ pc = "traverse"
        /\ UNCHANGED <<client, command, ack, create_ack, handed>>
    BY <1>6 DEF HandleConnect, Received, Readable, CommandUnchanged
  <2>2. SameClients
    BY <1>0, <1>3, <2>1
  <2>3. SameAnswers
    <3>1. pc' # "ack" \/ issuer'.socket = s
      BY <1>6 DEF HandleConnect, ConnectActor, Reply, Throw
    <3> QED
      BY <2>1, <3>1 DEF Answers, SameAnswers
  <2>4. CASE UNCHANGED actor_connections
    <3>1. SameBound
      BY <2>4 DEF SameBound, Bound, Connected
    <3> QED
      BY <1>2, <2>1, <2>2, <2>3, <3>1
  <2>5. CASE ConnectError(n) = "none" /\ ConnectActor(s, n)
    <3>1. \A id : Bound(id)' => Bound(id) \/ id = n
      BY <1>0, <2>5, ConnectEffect DEF Bound, Connected
    <3>2. PICK f, g, m : /\ f = HolderOf("asked", s) /\ g = HolderOf("bound", NoSocket)
                         /\ m = n
      OBVIOUS
    <3>3. client[s] # "connected" /\ inbox'[s] # "command"
      BY <1>0, <2>1 DEF TypedInv
    <3>4. Holds(f, m)
      BY <2>1, <3>2 DEF Holds, Asked
    <3>5. ~Holds(f, m)'
      BY <1>0, <2>1, <3>2, <3>3, HoldersDiffer DEF Holds, Asked
    <3>6. OnlyGives(g, m)
      <4> HIDE DEF n
      <4> QED
        BY <2>1, <2>2, <2>3, <3>1, <3>2 DEF OnlyGives, Holds, SameClients, SameAnswers
    <3> QED
      BY <1>0, <1>1, <3>4, <3>5, <3>6, TokenPassed
  <2> QED
    BY <1>6, <2>4, <2>5 DEF HandleConnect
<1>7. CASE WriteAck
  <2> DEFINE s == issuer.socket
             n == issuer.answer.value
  <2>1. /\ pc = "ack" /\ s \in Sockets /\ pc' \in {"settle", "aborted"}
        /\ UNCHANGED <<command, inbox, issuer, actor_connections, create_ack, handed>>
    BY <1>0, <1>7 DEF WriteAck, Throw
  <2>2. SameAnswers /\ SameBound
    BY <1>4, <2>1 DEF SameBound, Bound, Connected
  <2>3. \A r \in Sockets : \A id : Asked(r, id)' => Asked(r, id)
    BY <1>0, <1>7, <2>1 DEF WriteAck, Asked
  <2>4. CASE UNCHANGED ack
    <3>1. SameClients
      BY <2>1, <2>3, <2>4 DEF SameClients, Told
    <3> QED
      BY <1>2, <2>1, <2>2, <3>1
  <2>5. CASE ack' = [ack EXCEPT ![s] = <<issuer.answer>>]
    <3>1. \A r \in Sockets : r # s => ack'[r] = ack[r]
      BY <1>0, <2>5
    <3>2. ack'[s] = <<issuer.answer>> /\ Head(<<issuer.answer>>) = issuer.answer
      BY <1>0, <2>1, <2>5
    <3>3. \A r \in Sockets : \A id : Told(r, id)' =>
            Told(r, id) \/ (r = s /\ id = n /\ Answers(n))
      BY <2>1, <3>1, <3>2 DEF Told, Answers
    <3>4. CASE ~Answers(n)
      <4>1. SameClients
        BY <2>3, <3>3, <3>4 DEF SameClients
      <4> QED
        BY <1>2, <2>1, <2>2, <4>1
    <3>5. CASE Answers(n)
      <4>1. PICK f, g, m : /\ f = HolderOf("answer", NoSocket) /\ g = HolderOf("told", s)
                           /\ m = n
        OBVIOUS
      <4>2. OnlyGives(g, m)
        <5> HIDE DEF s, n
        <5> QED
          BY <2>1, <2>2, <2>3, <3>3, <4>1 DEF OnlyGives, Holds, SameAnswers, SameBound
      <4>3. ~Holds(f, m)'
        BY <2>1, <4>1, HoldersDiffer DEF Holds, Answers
      <4>4. Holds(f, m)
        BY <3>5, <4>1 DEF Holds
      <4> QED
        BY <1>0, <1>1, <4>2, <4>3, <4>4, TokenPassed
    <3> QED
      BY <3>4, <3>5
  <2> QED
    BY <1>7, <2>4, <2>5 DEF WriteAck
<1>8. CASE PopActorCreate
  <2>1. SameAnswers /\ SameClients
    BY <1>3, <1>4, <1>8 DEF PopActorCreate, LoopAgain, Throw
  <2>2. SameBound
    <3>1. \A r \in Sockets : ~HandleConnect(r)
      BY <1>8 DEF PopActorCreate, Popped, HandleConnect, Received, Readable
    <3> QED
      BY <1>0, <3>1, NothingBound DEF SameBound
  <2>3. CASE UNCHANGED create_ack
    BY <1>2, <1>8, <2>1, <2>2, <2>3 DEF PopActorCreate
  <2>4. ASSUME NEW n, n \notin DOMAIN actor_connections, n \in DOMAIN actor_connections',
               create_ack' = create_ack \cup {n}
        PROVE  TokenInv'
    <3>1. handed' = handed
      BY <1>8 DEF PopActorCreate
    <3>0. PICK g : g = HolderOf("created", NoSocket)
      OBVIOUS
    <3>2. OnlyGives(g, n)
      BY <2>1, <2>2, <2>4, <3>0, <3>1 DEF OnlyGives, Holds, SameAnswers, SameClients, SameBound
    <3> QED
      BY <1>0, <1>1, <2>4, <3>2, TokenGranted
  <2> QED
    BY <1>8, <2>3, <2>4 DEF PopActorCreate, Put
<1>9. ASSUME NEW i \in DOMAIN actor, ActorCreateAck(i) PROVE TokenInv'
  <2>1. SameAnswers /\ SameClients /\ SameBound
    BY <1>3, <1>4, <1>9 DEF ActorCreateAck, SameBound, Bound, Connected
  <2>2. PICK n \in create_ack : /\ create_ack' = create_ack \ {n}
                                /\ handed' = handed \/ handed' = handed \cup {n}
    BY <1>9 DEF ActorCreateAck
  <2>3. CASE handed' = handed
    BY <1>2, <2>1, <2>2, <2>3
  <2>4. CASE handed' = handed \cup {n}
    <3>0. PICK f, g : f = HolderOf("created", NoSocket) /\ g = HolderOf("handed", NoSocket)
      OBVIOUS
    <3>1. Holds(f, n)
      BY <3>0 DEF Holds
    <3>2. ~Holds(f, n)'
      BY <2>2, <3>0, HoldersDiffer DEF Holds
    <3>3. OnlyGives(g, n)
      BY <2>1, <2>2, <2>4, <3>0 DEF OnlyGives, Holds, SameAnswers, SameClients, SameBound
    <3> QED
      BY <1>0, <1>1, <3>1, <3>2, <3>3, TokenPassed
  <2> QED
    BY <2>2, <2>3, <2>4
<1>10. ASSUME NEW s \in Sockets, ReadAck(s) PROVE TokenInv'
  <2>1. /\ UNCHANGED <<pc, issuer, actor_connections, create_ack, command, inbox>>
        /\ ack[s] # <<>> /\ ack' = [ack EXCEPT ![s] = <<>>]
        /\ client' = [client EXCEPT ![s] = IF Head(ack[s]).success THEN "served"
                                                                  ELSE "refused"]
        /\ handed' = IF command[s].type = "ADD_ACTOR" /\ Head(ack[s]).success
                     THEN handed \cup {Head(ack[s]).value} ELSE handed
    BY <1>10 DEF ReadAck, ClientUnchanged
  <2>2. SameAnswers /\ SameBound
    BY <1>4, <2>1 DEF SameBound, Bound, Connected
  <2>3. ack'[s] = <<>> /\ \A r \in Sockets : r # s => ack'[r] = ack[r]
    BY <1>0, <2>1
  <2>4. \A r \in Sockets : \A id : /\ Told(r, id)' => Told(r, id) /\ r # s
                                   /\ Asked(r, id)' => Asked(r, id)
    BY <1>0, <2>1, <2>3 DEF Told, Asked
  <2>5. CASE ~(command[s].type = "ADD_ACTOR" /\ Head(ack[s]).success)
    <3>1. SameClients
      BY <2>4 DEF SameClients
    <3> QED
      BY <1>2, <2>1, <2>2, <2>5, <3>1
  <2>6. CASE command[s].type = "ADD_ACTOR" /\ Head(ack[s]).success
    <3>1. PICK f, g, n : /\ f = HolderOf("told", s) /\ g = HolderOf("handed", NoSocket)
                         /\ n = Head(ack[s]).value
      OBVIOUS
    <3>2. Told(s, n) /\ handed' = handed \cup {n}
      BY <2>1, <2>6, <3>1 DEF Told
    <3>3. Holds(f, n)
      BY <3>1, <3>2 DEF Holds
    <3>4. ~Holds(f, n)'
      BY <2>4, <3>1, HoldersDiffer DEF Holds
    <3>5. OnlyGives(g, n)
      BY <2>1, <2>2, <2>4, <3>1, <3>2 DEF OnlyGives, Holds, SameAnswers, SameBound
    <3> QED
      BY <1>0, <1>1, <3>3, <3>4, <3>5, TokenPassed
  <2> QED
    BY <2>5, <2>6
<1>11. ASSUME NEW s \in Sockets, ClientConnect(s) PROVE TokenInv'
  <2>1. PICK c \in Commands(s) :
          /\ command' = [command EXCEPT ![s] = c] /\ handed' = handed \ {c.id}
          /\ client[s] = "idle" /\ client' = [client EXCEPT ![s] = "connected"]
          /\ UNCHANGED <<pc, issuer, actor_connections, create_ack, ack, inbox>>
    BY <1>11 DEF ClientConnect, ClientUnchanged
  <2>2. /\ command'[s] = c /\ ack'[s] = <<>> /\ inbox'[s] = "empty"
        /\ pc = "ack" => issuer.socket # s
    BY <1>0, <2>1 DEF HandInv, TypedInv
  <2>3. \A r \in Sockets : r # s => command'[r] = command[r] /\ client'[r] = client[r]
    BY <1>0, <2>1
  <2>4. SameAnswers /\ SameBound
    BY <1>0, <2>1, <2>2, <2>3 DEF SameBound, Bound, Connected, SameAnswers, Answers
  <2>5. \A r \in Sockets : \A id : /\ Told(r, id)' => Told(r, id)
                                   /\ Asked(r, id)' => \/ Asked(r, id)
                                                       \/ r = s /\ c.type = "CONNECT" /\ id = c.id
    BY <2>1, <2>2, <2>3 DEF Told, Asked
  <2>6. CASE c.type # "CONNECT"
    <3>1. SameClients
      BY <2>5, <2>6 DEF SameClients
    <3> QED
      BY <1>2, <2>1, <2>4, <3>1
  <2>7. CASE c.type = "CONNECT"
    <3>1. c.id \in handed
      BY <1>0, <2>7 DEF Commands
    <3>2. PICK f, g, n : /\ f = HolderOf("handed", NoSocket) /\ g = HolderOf("asked", s)
                         /\ n = c.id
      OBVIOUS
    <3>3. Holds(f, n)
      BY <3>1, <3>2 DEF Holds
    <3>4. ~Holds(f, n)'
      BY <2>1, <3>2, HoldersDiffer DEF Holds
    <3>5. OnlyGives(g, n)
      BY <2>1, <2>4, <2>5, <3>2 DEF OnlyGives, Holds, SameAnswers, SameBound
    <3> QED
      BY <1>0, <1>1, <3>3, <3>4, <3>5, TokenPassed
  <2> QED
    BY <2>6, <2>7
<1>12. ASSUME NEW s \in Sockets, HandleStart(s) \/ HandleKill(s) \/ HandleStatus(s)
       PROVE  TokenInv'
  <2>1. SameClients
    BY <1>0, <1>3, <1>12 DEF HandleStart, HandleKill, HandleStatus, Received, CommandUnchanged
  <2>2. SameAnswers
    <3>1. pc' # "ack" \/ issuer'.socket = s
      BY <1>12 DEF HandleStart, HandleKill, HandleStatus, Reply, Throw
    <3>2. command[s].type # "ADD_ACTOR" /\ UNCHANGED command
      BY <1>12 DEF HandleStart, HandleKill, HandleStatus, Received, CommandUnchanged
    <3> QED
      BY <3>1, <3>2 DEF Answers, SameAnswers
  <2>3. UNCHANGED <<actor_connections, create_ack, handed>>
    BY <1>12 DEF HandleStart, HandleKill, HandleStatus, CommandUnchanged
  <2> QED
    BY <1>2, <2>1, <2>2, <2>3 DEF SameBound, Bound, Connected
<1>13. ASSUME NEW s \in Sockets, ReadEof(s) \/ HandleUnset(s) \/ ReadDropped(s) PROVE TokenInv'
  <2>1. SameClients
    BY <1>0, <1>3, <1>13 DEF ReadEof, HandleUnset, ReadDropped, Received, CommandUnchanged
  <2>2. SameAnswers
    BY <1>4, <1>13 DEF ReadEof, HandleUnset, ReadDropped, Throw
  <2>3. UNCHANGED <<actor_connections, create_ack, handed>>
    BY <1>13 DEF ReadEof, HandleUnset, ReadDropped, CommandUnchanged
  <2> QED
    BY <1>2, <2>1, <2>2, <2>3 DEF SameBound, Bound, Connected
<1>14. CASE WaitAnyReadableFails \/ SignalCaught \/ AcceptClient \/ WaitAnyReadable \/ Settle
            \/ EndTraverse \/ EndDropped \/ PopNothing \/ PopFinished \/ PopAborted
            \/ PopActorQuit \/ CloseAndReturn \/ RaiseSignal
  <2>1. /\ UNCHANGED <<client, command, ack, inbox, actor_connections, create_ack, handed>>
        /\ pc' # "ack" \/ UNCHANGED <<pc, issuer, command>>
    BY <1>14 DEF WaitAnyReadableFails, SignalCaught, AcceptClient, WaitAnyReadable, Settle,
       EndTraverse, EndDropped, PopNothing, PopFinished, PopAborted, PopActorQuit,
       CloseAndReturn, CloseOpenSockets, Throw, LoopAgain, RaiseSignal
  <2> QED
    BY <1>2, <1>3, <1>4, <2>1 DEF SameBound, Bound, Connected
<1>15. CASE StartSimulation \/ MaestroAbort \/ MaestroRun \/ SimulationEnds
  <2>1. /\ UNCHANGED <<client, command, ack, inbox, actor_connections, create_ack, handed>>
        /\ pc' # "ack" \/ UNCHANGED <<pc, issuer, command>>
    BY <1>15 DEF StartSimulation, MaestroAbort, MaestroRun, SimulationEnds, Throw
  <2> QED
    BY <1>2, <1>3, <1>4, <2>1 DEF SameBound, Bound, Connected
<1>16. ASSUME NEW i \in DOMAIN actor, \/ ActorQuit(i) \/ ActorReadFails(i) \/ ActorFails(i)
                                      \/ ActorCreate(i) \/ ActorConnected(i)
       PROVE  TokenInv'
  <2>1. /\ UNCHANGED <<client, command, ack, actor_connections, create_ack, handed, pc, issuer>>
        /\ inbox' \in {inbox, [inbox EXCEPT ![SocketOf(i)] = "empty"]}
    BY <1>16 DEF ActorQuit, ActorReadFails, ActorFails, ActorCreate, ActorConnected
  <2>2. \A s \in Sockets : inbox'[s] = inbox[s] \/ inbox'[s] = "empty"
    BY <1>0, <2>1
  <2> QED
    BY <1>2, <1>3, <1>4, <2>1, <2>2 DEF SameBound, Bound, Connected
<1>17. ASSUME NEW s \in Sockets, \/ SendCommand(s) \/ CloseConnection(s) \/ SendQuit(s)
                                 \/ SendJunk(s) \/ Die(s) \/ ConnectionLost(s)
       PROVE  TokenInv'
  <2>1. UNCHANGED <<command, ack, actor_connections, create_ack, handed, pc, issuer>>
    BY <1>17 DEF SendCommand, CloseConnection, SendQuit, SendJunk, Die, ConnectionLost,
       ClientUnchanged
  <2>2. SameClients
    BY <1>0, <1>17 DEF SameClients, Told, Asked, SendCommand, CloseConnection, SendQuit,
       SendJunk, Die, ConnectionLost
  <2> QED
    BY <1>2, <1>4, <2>1, <2>2 DEF SameBound, Bound, Connected
<1> QED
  BY <1>5, <1>6, <1>7, <1>8, <1>9, <1>10, <1>11, <1>12, <1>13, <1>14, <1>15, <1>16, <1>17
  DEF Next, CommandThread, SimGridThread, Client

\* No command of a well-configured client makes the server throw for an unknown
\* actor, an actor connected twice or a command without a type.
LEMMA NobodyMisled ==
    ASSUME Configured, error \notin Misled, Next PROVE error' \notin Misled
<1>0. /\ TypedInv /\ TokenInv
  BY DEF Configured
<1>1. ASSUME NEW s \in Sockets, HandleConnect(s) PROVE error' \notin Misled
  <2> DEFINE n == command[s].id
  <2>1. Holds(HolderOf("asked", s), n)
    BY <1>1 DEF HandleConnect, Received, Holds, Asked
  <2>2. n \in DOMAIN actor_connections /\ ~Holds(HolderOf("bound", NoSocket), n)
    BY <1>0, <2>1, HoldersDiffer DEF TokenInv
  <2>3. ~Connected(n)
    BY <2>2 DEF Holds, Bound
  <2>4. ConnectError(n) \notin Misled
    BY <2>2, <2>3 DEF ConnectError, Misled
  <2> QED
    BY <1>1, <2>4 DEF HandleConnect, ConnectActor, Reply, Throw
<1>2. ASSUME NEW s \in Sockets, HandleUnset(s) PROVE FALSE
  BY <1>0, <1>2 DEF HandleUnset, Received, TypedInv
<1>3. ASSUME NEW s \in Sockets, \/ HandleAddActor(s) \/ HandleStart(s) \/ HandleKill(s)
                                \/ HandleStatus(s) \/ ReadEof(s) \/ ReadDropped(s) \/ Client(s)
      PROVE  error' \notin Misled
  BY <1>3 DEF HandleAddActor, HandleStart, HandleKill, HandleStatus, ReadEof, Reply, Throw,
     ReadDropped, Client, ClientConnect, SendCommand, ReadAck, CloseConnection, SendQuit,
     SendJunk, Die, ConnectionLost, ClientUnchanged, Misled
<1>4. CASE WaitAnyReadableFails \/ SignalCaught \/ AcceptClient \/ WaitAnyReadable \/ WriteAck
           \/ Settle \/ EndTraverse \/ EndDropped \/ PopNothing \/ PopFinished \/ PopAborted
           \/ PopActorQuit \/ PopActorCreate \/ CloseAndReturn
           \/ StartSimulation \/ MaestroAbort \/ MaestroRun \/ SimulationEnds \/ RaiseSignal
  BY <1>4 DEF WaitAnyReadableFails, SignalCaught, AcceptClient, WaitAnyReadable, WriteAck,
     Settle, EndTraverse, EndDropped, PopNothing, PopFinished, PopAborted, PopActorQuit,
     PopActorCreate, CloseAndReturn, CloseOpenSockets, StartSimulation, Throw, MaestroAbort,
     MaestroRun, SimulationEnds, RaiseSignal, Misled
<1>5. ASSUME NEW i \in DOMAIN actor, \/ ActorQuit(i) \/ ActorReadFails(i) \/ ActorFails(i)
                                     \/ ActorCreate(i) \/ ActorCreateAck(i)
                                     \/ ActorConnected(i)
      PROVE  error' \notin Misled
  BY <1>5 DEF ActorQuit, ActorReadFails, ActorFails, ActorCreate, ActorCreateAck, ActorConnected
<1> QED
  BY <1>1, <1>2, <1>3, <1>4, <1>5 DEF Next, CommandThread, SimGridThread

----------------------------------------------------------------------------
(* The theorems *)

\* Nobody owns anything when serve() enters its loop.
LEMMA OwnershipInit ==
    ASSUME Init PROVE OwnershipInv
<1>1. DOMAIN actor = {} /\ DOMAIN actor_connections = {} /\ DOMAIN to_command = {}
  BY DEF Init
<1>2. OwnerInv
  BY <1>1 DEF Init, OwnerInv, FiledInv, BoundInv, GivenBackInv, GivenBack
<1>3. NobodyDies
  <2>1. error \notin LostClient
    BY DEF Init, LostClient
  <2>2. WatchInv /\ ActorClientsInv
    BY <1>1 DEF Init, WatchInv, ActorClientsInv
  <2>3. WaitingInv
    BY DEF Init, WaitingInv, NotRead
  <2> QED
    BY <2>1, <2>2, <2>3 DEF NobodyDies, ReliableInv
<1>4. WellConfigured
  <2>1. error \notin Misled
    BY DEF Init, Misled
  <2>2. TypedInv
    BY DEF Init, TypedInv
  <2>3. \A h, id : ~Holds(h, id)
    BY <1>1 DEF Init, Holds, Answers, Told, Asked, Bound
  <2> QED
    BY <2>1, <2>2, <2>3 DEF WellConfigured, TokenInv
<1> QED
  BY <1>2, <1>3, <1>4, SessionInit DEF OwnershipInv

\* When no client dies, no client is lost, and each does its part in order.
LEMMA NobodyDiesStep ==
    ASSUME OwnershipInv, Next PROVE NobodyDies'
<1> SUFFICES ASSUME Unreliable = {}
             PROVE  error' \notin LostClient /\ (ServerUp' => ReliableInv')
  BY DEF NobodyDies
<1>1. CASE ServerUp
  <2>1. Peaceful /\ error \notin LostClient
    BY <1>1 DEF OwnershipInv, NobodyDies, Peaceful
  <2> QED
    BY <2>1, NoClientLost, WatchStep, WaitingStep, ActorClientsStep DEF ReliableInv
<1>2. CASE ~ServerUp
  <2>1. ~ServerUp'
    BY <1>2, UpBefore
  <2> QED
    BY <1>2, <2>1, GoneIsFinal DEF OwnershipInv, NobodyDies
<1> QED
  BY <1>1, <1>2

\* When the clients are well configured, an actor id stays a token.
LEMMA WellConfiguredStep ==
    ASSUME OwnershipInv, Next PROVE WellConfigured'
<1> SUFFICES ASSUME Misconfigured = {} PROVE error' \notin Misled /\ TypedInv' /\ TokenInv'
  BY DEF WellConfigured
<1>1. Configured /\ error \notin Misled
  BY DEF OwnershipInv, WellConfigured, Configured
<1> QED
  BY <1>1, NobodyMisled, TypedStep, TokenStep

\* Every step of the system preserves the invariant.
LEMMA OwnershipNext ==
    ASSUME OwnershipInv, [Next]_vars PROVE OwnershipInv'
<1>1. SessionInv'
  BY SessionNext DEF OwnershipInv
<1>2. CASE Next
  <2>1. OwnerInv'
    BY <1>1, <1>2, FiledStep, BoundStep, GivenBackStep DEF OwnershipInv, OwnerInv
  <2> QED
    BY <1>1, <1>2, <2>1, NobodyDiesStep, WellConfiguredStep DEF OwnershipInv
<1>3. CASE UNCHANGED vars
  <2>1. OwnerInv'
    BY <1>3 DEF OwnershipInv, OwnerInv, FiledInv, BoundInv, GivenBackInv, GivenBack, Bound,
       Connected, SocketOf, HasQuit
  <2>2. NobodyDies'
    BY <1>3 DEF OwnershipInv, NobodyDies, ServerUp, ReliableInv, WatchInv, WaitingInv,
       ActorClientsInv, NotRead, ClientOfActor, GivenBack, Connected, SocketOf, HasQuit
  <2>3. \A h, id : Holds(h, id)' <=> Holds(h, id)
    BY <1>3 DEF Holds, Answers, Told, Asked, Bound, Connected
  <2>4. WellConfigured'
    BY <1>3, <2>3 DEF OwnershipInv, WellConfigured, TypedInv, TokenInv
  <2> QED
    BY <1>1, <2>1, <2>2, <2>4 DEF OwnershipInv
<1> QED
  BY <1>2, <1>3

\* Who owns each socket and each actor id, in every reachable state.
THEOREM OwnershipInductive == Spec => []OwnershipInv
  BY OwnershipInit, OwnershipNext, PTL DEF Spec

\* The command thread never reads, drops or closes a socket that the actor's thread
\* reads decisions on, or has given back by a message not popped yet.
THEOREM OneOwnerCorrect == Spec => []OneOwner
<1>1. OwnershipInv => OneOwner
  <2> SUFFICES ASSUME OwnershipInv, NEW s \in Sockets \ {issuer.socket},
                      s \in barely_connected_sockets \cup dropped_sockets, OwnedByActor(s)
               PROVE  FALSE
    BY DEF OneOwner, OwnershipInv, OwnerInv, FiledInv
  <2>0. SocketInv /\ BoundInv /\ GivenBackInv
    BY DEF OwnershipInv, OwnerInv, SessionInv, IndInv
  <2>1. PICK i \in DOMAIN actor_connections :
          /\ Connected(i) /\ SocketOf(i) = s
          /\ s \in dropped_sockets => FALSE
    <3>1. CASE \E i \in DOMAIN actor : /\ actor[i] \in {"running", "failing", "failed"}
                                      /\ SocketOf(i) = s
      BY <2>0, <3>1 DEF BoundInv, Bound, HasQuit
    <3>2. CASE \E k \in DOMAIN to_command : GivenBack(k) /\ to_command[k].socket = s
      BY <2>0, <3>2 DEF GivenBackInv
    <3> QED
      BY <3>1, <3>2 DEF OwnedByActor, GivenBack
  <2> QED
    BY <2>0, <2>1 DEF SocketInv
<1> QED
  BY <1>1, OwnershipInductive, PTL

\* When every client closes its connection in order, select() watches what the
\* command thread keeps, no more and no less, whatever the order of the handovers.
THEOREM WatchedKept == Spec => []WatchedAreKept
<1>1. OwnershipInv => WatchedAreKept
  BY DEF OwnershipInv, NobodyDies, ReliableInv, WatchInv, ServerUp, WatchedAreKept
<1> QED
  BY <1>1, OwnershipInductive, PTL

\* A server whose clients neither die nor are misconfigured throws for no other reason
\* than an ADD_ACTOR or a START that comes too late, wherever the threads stand.
THEOREM AbortsRightly == Spec => []AbortsOnlyOnMisuse
<1>1. OwnershipInv => AbortsOnlyOnMisuse
  <2> SUFFICES ASSUME OwnershipInv PROVE AbortsOnlyOnMisuse
    OBVIOUS
  <2>1. error \in Error /\ error \notin BadBookkeeping
    BY DEF OwnershipInv, SessionInv, IndInv, TypeOK, ThreadTypeOK, BookkeepingHolds
  <2>2. Unreliable = {} => error \notin LostClient
    BY DEF OwnershipInv, NobodyDies
  <2>3. Misconfigured = {} => error \notin Misled
    BY DEF OwnershipInv, WellConfigured
  <2> QED
    BY <2>1, <2>2, <2>3 DEF AbortsOnlyOnMisuse, Error, Misuse, Misled
<1> QED
  BY <1>1, OwnershipInductive, PTL

=============================================================================
