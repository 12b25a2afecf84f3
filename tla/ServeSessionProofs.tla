------------------------- MODULE ServeSessionProofs -------------------------
(***************************************************************************)
(* Proofs about what the server promises to those who drive it, for every  *)
(* set of clients: it implements the life cycle of Session, its return     *)
(* code tells whether an actor failed, an id a client is told of is        *)
(* registered, and nothing happens after a KILL.                           *)
(*                                                                         *)
(* IndInv of ServeProofs does not say what is in the queue between the two *)
(* threads.  OutcomeInv adds that a failure is queued before the end of    *)
(* the simulation, CreationInv that at most one creation of an actor is on *)
(* its way and that pids are handed out without a gap, HandInv that the    *)
(* ids on their way to a client are registered.                            *)
(***************************************************************************)
EXTENDS ServeSession, ServeProofs

\* When the loop of serve() ends and what it knows by then.
LoopInv ==
    /\ pc = "select" => state \notin {"SIMULATION_FINISHED", "KILLED"}
    /\ pc = "closing" => state \in {"SIMULATION_FINISHED", "KILLED"}
    /\ ServerUp /\ return_code = 1 => state = "SIMULATION_FINISHED"
    /\ state = "SIMULATION_FINISHED" /\ return_code = 0 => sim = "done" /\ ~Failed

Queued(type) == \E k \in DOMAIN to_command : to_command[k].type = type

\* A failure is in the queue, and the end of the simulation is not before it.
FailureFirst ==
    \E k \in DOMAIN to_command :
        /\ to_command[k].type = "SIMULATION_ABORTED"
        /\ \A l \in 1 .. k : to_command[l].type # "SIMULATION_FINISHED"

\* How the simulation ended and what the command thread has been told of it.
OutcomeInv ==
    /\ Queued("SIMULATION_FINISHED") => sim = "done"
    /\ Queued("SIMULATION_ABORTED") => Failed
    /\ Failed /\ state # "SIMULATION_FINISHED" => FailureFirst
    /\ sim = "running" => DOMAIN actor # {} \/ initial = {}
    /\ sim = "done" => \A i \in DOMAIN actor : actor[i] \in {"quit", "failed"}

\* The creation of an actor, from the message to the answer, holds the SimGrid
\* thread; the actor it is about has the last pid.
Creating ==
    /\ sim = "running" /\ section \in DOMAIN actor /\ actor[section] = "running"

CreationInv ==
    /\ \A i \in DOMAIN actor : i < next_pid
    /\ section # NoPid => sim = "running" /\ section \in DOMAIN actor
    /\ \A k \in DOMAIN to_command : to_command[k].type = "ACTOR_CREATE" =>
         /\ Creating /\ create_ack = {}
         /\ to_command[k].id = next_pid - 1
    /\ create_ack # {} => Creating /\ create_ack = {next_pid - 1}
    /\ sim = "running" =>
         /\ Queued("ACTOR_CREATE") => DOMAIN actor_connections = 2 .. next_pid - 2
         /\ ~Queued("ACTOR_CREATE") => DOMAIN actor_connections = 2 .. next_pid - 1

\* A connection that is not accepted yet has left no trace, and the answer of
\* ADD_ACTOR, on its way to the client, is registered.
HandInv ==
    /\ handed \subseteq DOMAIN actor_connections
    /\ create_ack \subseteq DOMAIN actor_connections
    /\ \A s \in Sockets : client[s] = "idle" => fd[s] = "none" /\ ack[s] = <<>>
    /\ \A s \in Sockets : fd[s] = "none" =>
         /\ s \notin dropped_sockets
         /\ pc \in {"ack", "settle"} => issuer.socket # s
         /\ \A k \in DOMAIN to_command :
              to_command[k].type = "ACTOR_QUIT" => to_command[k].socket # s
    /\ pc = "ack" /\ command[issuer.socket].type = "ADD_ACTOR" /\ issuer.answer.success =>
         issuer.answer.value \in DOMAIN actor_connections
    /\ \A s \in Sockets : /\ command[s].type = "ADD_ACTOR" /\ ack[s] # <<>>
                          /\ Head(ack[s]).success
         => Head(ack[s]).value \in DOMAIN actor_connections

SessionInv == IndInv /\ LoopInv /\ OutcomeInv /\ CreationInv /\ HandInv

USE DEF threadVars, registryVars, filingVars, traversalVars, queueVars, tcpVars, simVars,
    vars

----------------------------------------------------------------------------
(* The queue between the threads *)

\* Popping a message keeps the others, in order.
LEMMA PopFacts ==
    ASSUME IndInv, NEW t, Popped(t), NEW u
    PROVE  /\ Queued(t)
           /\ Queued(u)' => Queued(u)
           /\ u # t /\ Queued(u) => Queued(u)'
           /\ FailureFirst => t # "SIMULATION_FINISHED"
           /\ FailureFirst /\ t # "SIMULATION_ABORTED" => FailureFirst'
           /\ \A k \in DOMAIN to_command' : \E l \in DOMAIN to_command : to_command'[k] = to_command[l]
<1> DEFINE q == to_command
<1>1. q \in Seq(InterthreadMessage) /\ q # <<>> /\ to_command' = Tail(q) /\ Head(q).type = t
  BY DEF IndInv, TypeOK, QueueTypeOK, Popped
<1>2. /\ 1 \in DOMAIN q /\ q[1].type = t
      /\ \A k \in DOMAIN to_command' : k + 1 \in DOMAIN q /\ to_command'[k] = q[k + 1]
      /\ \A k \in DOMAIN q : k # 1 => k - 1 \in DOMAIN to_command' /\ to_command'[k - 1] = q[k]
      /\ DOMAIN q \subseteq Nat \ {0}
  BY <1>1
<1>3. Queued(t) /\ (Queued(u)' => Queued(u)) /\ (u # t /\ Queued(u) => Queued(u)')
  BY <1>2 DEF Queued
<1>4. FailureFirst => t # "SIMULATION_FINISHED"
  <2>1. \A k \in DOMAIN q : 1 \in 1 .. k
    BY <1>2
  <2> QED
    BY <1>2, <2>1 DEF FailureFirst
<1>5. ASSUME FailureFirst, t # "SIMULATION_ABORTED" PROVE FailureFirst'
  <2>1. PICK k \in DOMAIN q : /\ q[k].type = "SIMULATION_ABORTED"
                              /\ \A l \in 1 .. k : q[l].type # "SIMULATION_FINISHED"
    BY <1>5 DEF FailureFirst
  <2>2. k # 1 /\ k - 1 \in DOMAIN to_command' /\ to_command'[k - 1].type = "SIMULATION_ABORTED"
    BY <1>2, <1>5, <2>1
  <2>3. ASSUME NEW l \in 1 .. k - 1 PROVE to_command'[l].type # "SIMULATION_FINISHED"
    <3>1. l \in DOMAIN to_command' /\ l + 1 \in 1 .. k
      BY <1>1, <2>2
    <3> QED
      BY <1>2, <2>1, <3>1
  <2> QED
    BY <2>2, <2>3 DEF FailureFirst
<1> QED
  BY <1>2, <1>3, <1>4, <1>5

\* Pushing a message leaves the others where they are.
LEMMA PushFacts ==
    ASSUME IndInv, NEW t, NEW s, NEW i, to_command' = Append(to_command, Message(t, s, i)),
           NEW u
    PROVE  /\ Queued(u)' <=> Queued(u) \/ u = t
           /\ FailureFirst => FailureFirst'
           /\ t = "SIMULATION_ABORTED" /\ ~Queued("SIMULATION_FINISHED") => FailureFirst'
           /\ \A k \in DOMAIN to_command' :
                to_command'[k] = Message(t, s, i) \/ (k \in DOMAIN to_command /\ to_command'[k] = to_command[k])
<1> DEFINE q == to_command  m == Message(t, s, i)
<1>0. m.type = t
  BY DEF Message
<1> HIDE DEF m
<1>1. q \in Seq(InterthreadMessage) /\ to_command' = Append(q, m)
  BY DEF IndInv, TypeOK, QueueTypeOK, m
<1>2. /\ DOMAIN to_command' = DOMAIN q \cup {Len(q) + 1} /\ to_command'[Len(q) + 1] = m
      /\ \A k \in DOMAIN q : to_command'[k] = q[k] /\ 1 .. k \subseteq DOMAIN q
      /\ DOMAIN q = 1 .. Len(q) /\ Len(q) \in Nat
  BY <1>1
<1>3. Queued(u)' <=> Queued(u) \/ u = t
  BY <1>0, <1>2 DEF Queued
<1>4. FailureFirst => FailureFirst'
  BY <1>2 DEF FailureFirst
<1>5. t = "SIMULATION_ABORTED" /\ ~Queued("SIMULATION_FINISHED") => FailureFirst'
  <2>1. \A l \in 1 .. Len(q) + 1 : l \in DOMAIN q \/ l = Len(q) + 1
    BY <1>2
  <2> QED
    BY <1>0, <1>2, <2>1 DEF FailureFirst, Queued
<1> QED
  BY <1>2, <1>3, <1>4, <1>5 DEF m

----------------------------------------------------------------------------
(* Steps nobody but the clients and the command thread see *)

Quiet == UNCHANGED <<state, registryVars, queueVars, simVars>>

\* The steps that change what the two threads share.
LEMMA QuietOrLoud ==
    ASSUME Next
    PROVE  \/ Quiet
           \/ \E s \in Sockets : HandleAddActor(s) \/ HandleStart(s) \/ HandleKill(s)
                                 \/ HandleConnect(s)
           \/ PopFinished \/ PopAborted \/ PopActorQuit \/ PopActorCreate
           \/ SimGridThread
<1>1. CASE WaitAnyReadableFails \/ SignalCaught \/ AcceptClient \/ WaitAnyReadable
           \/ WriteAck \/ Settle \/ EndTraverse \/ EndDropped \/ PopNothing
           \/ CloseAndReturn \/ RaiseSignal
  BY <1>1 DEF Quiet, WaitAnyReadableFails, SignalCaught, AcceptClient, WaitAnyReadable,
     WriteAck, Settle, EndTraverse, EndDropped, PopNothing, CloseAndReturn, RaiseSignal
<1>2. ASSUME NEW s \in Sockets, \/ ReadEof(s) \/ HandleStatus(s) \/ HandleUnset(s)
                                \/ ReadDropped(s) \/ Client(s)
      PROVE  Quiet
  BY <1>2 DEF Quiet, ReadEof, HandleStatus, HandleUnset, CommandUnchanged, ReadDropped,
     Client, ClientConnect, SendCommand, ReadAck, CloseConnection, SendQuit, SendJunk,
     Die, ConnectionLost, ClientUnchanged
<1> QED
  BY <1>1, <1>2 DEF Next, CommandThread

\* Nothing happens in a simulation that is over.
LEMMA DoneIsFinal ==
    ASSUME IndInv, OutcomeInv, Next, sim = "done"
    PROVE  UNCHANGED <<sim, actor, initial>> /\ (Failed' <=> Failed)
<1>1. UNCHANGED <<sim, actor, initial>>
  <2>1. CASE Quiet
    BY <2>1 DEF Quiet
  <2>2. ASSUME NEW s \in Sockets, \/ HandleAddActor(s) \/ HandleStart(s) \/ HandleKill(s)
                                  \/ HandleConnect(s)
        PROVE  UNCHANGED <<sim, actor, initial>>
    BY <2>2 DEF IndInv, LifecycleInv, HandleAddActor, HandleStart, StartAllowed, HandleKill,
       HandleConnect, ConnectActor, CommandUnchanged
  <2>3. CASE PopFinished \/ PopAborted \/ PopActorQuit \/ PopActorCreate
    BY <2>3 DEF PopFinished, PopAborted, PopActorQuit, PopActorCreate
  <2>4. CASE SimGridThread
    BY <2>4 DEF OutcomeInv, SimGridThread, StartSimulation, MaestroAbort, MaestroRun,
       SimulationEnds, SimStep, ActorQuit, ActorReadFails, ActorFails, ActorCreate,
       ActorCreateAck, ActorConnected
  <2> QED
    BY <2>1, <2>2, <2>3, <2>4, QuietOrLoud
<1> QED
  BY <1>1 DEF Failed

\* Only an actor that fails, or maestro(), makes the simulation fail.
LEMMA FailedSame ==
    ASSUME sim # "done", sim' # "done",
           \A i \in DOMAIN actor' : actor'[i] = "failed" => i \in DOMAIN actor /\ actor[i] = "failed",
           \A i \in DOMAIN actor : actor[i] = "failed" => i \in DOMAIN actor' /\ actor'[i] = "failed"
    PROVE  Failed' <=> Failed
  BY DEF Failed

----------------------------------------------------------------------------
(* The loop of serve() and the outcome of the simulation *)

\* The loop ends with what it has been told.
LEMMA LoopStep ==
    ASSUME SessionInv, Next PROVE LoopInv'
<1>0. IndInv /\ LoopInv /\ OutcomeInv
  BY DEF SessionInv
<1>1. sim = "done" => sim' = "done" /\ (Failed' <=> Failed)
  BY <1>0, DoneIsFinal
<1>2. state = "SIMULATION_FINISHED" => pc \in {"closing", "returned", "aborted"}
  BY <1>0 DEF IndInv, LifecycleInv
<1> USE DEF LoopInv, ServerUp
<1>3. CASE WaitAnyReadableFails \/ SignalCaught \/ AcceptClient \/ WaitAnyReadable
  BY <1>0, <1>1, <1>3 DEF WaitAnyReadableFails, SignalCaught, Selected, AcceptClient,
     WaitAnyReadable, CloseOpenSockets, Throw
<1>4. CASE WriteAck \/ Settle \/ EndTraverse \/ EndDropped
  BY <1>0, <1>1, <1>4 DEF WriteAck, Settle, EndTraverse, EndDropped, Throw
<1>5. CASE PopNothing \/ PopActorQuit \/ PopActorCreate
  BY <1>0, <1>1, <1>5 DEF PopNothing, PopActorQuit, PopActorCreate, Popped, LoopAgain, Throw
<1>6. CASE PopFinished
  <2>1. Queued("SIMULATION_FINISHED") /\ ~FailureFirst /\ pc = "pop"
    BY <1>0, <1>6, PopFacts DEF PopFinished, Popped
  <2>2. sim = "done" /\ ~Failed
    BY <1>0, <1>2, <2>1 DEF OutcomeInv
  <2> QED
    BY <1>1, <1>6, <2>2 DEF PopFinished, LoopAgain
<1>7. CASE PopAborted
  BY <1>7 DEF PopAborted, LoopAgain
<1>8. CASE CloseAndReturn
  BY <1>0, <1>1, <1>8 DEF CloseAndReturn, CloseOpenSockets, Throw
<1>9. ASSUME NEW s \in Sockets, \/ ReadEof(s) \/ HandleAddActor(s) \/ HandleKill(s)
                                \/ HandleStatus(s) \/ HandleUnset(s) \/ ReadDropped(s)
      PROVE  LoopInv'
  BY <1>0, <1>1, <1>2, <1>9 DEF ReadEof, Readable, Received, HandleAddActor, HandleKill,
     HandleStatus, HandleUnset, CommandUnchanged, Throw, Reply, ReadDropped
<1>10. ASSUME NEW s \in Sockets, HandleStart(s) \/ HandleConnect(s) PROVE LoopInv'
  BY <1>0, <1>1, <1>2, <1>10 DEF Readable, Received, HandleStart, HandleConnect,
     ConnectActor, StartSimulationInAnotherThread, CommandUnchanged, Throw, Reply
<1>11. CASE SimGridThread
  BY <1>0, <1>1, <1>11 DEF SimGridThread, StartSimulation, MaestroAbort, MaestroRun,
     SimulationEnds, ActorQuit, ActorReadFails, ActorFails, ActorCreate,
     ActorCreateAck, ActorConnected, Throw
<1>12. ASSUME NEW s \in Sockets, Client(s) PROVE LoopInv'
  BY <1>0, <1>1, <1>12 DEF Client, ClientConnect, SendCommand, ReadAck, CloseConnection,
     SendQuit, SendJunk, Die, ConnectionLost, ClientUnchanged
<1>13. CASE RaiseSignal
  BY <1>0, <1>1, <1>13 DEF RaiseSignal
<1> QED
  BY <1>3, <1>4, <1>5, <1>6, <1>7, <1>8, <1>9, <1>10, <1>11, <1>12, <1>13
  DEF Next, CommandThread

\* A failure is told before the end of the simulation.
LEMMA OutcomeStep ==
    ASSUME SessionInv, Next PROVE OutcomeInv'
<1>0. IndInv /\ OutcomeInv /\ CreationInv
  BY DEF SessionInv
<1>1. /\ state \in {"ACCEPTING_NEW_ACTORS", "WAITING_FOR_ALL_ACTORS_CONNECTION"} => sim = "off"
      /\ sim \in {"off", "launched", "maestro"} => to_command = <<>> /\ DOMAIN actor = {}
      /\ pc \in {"traverse", "pop"} => state # "SIMULATION_FINISHED"
  BY <1>0 DEF IndInv, LifecycleInv, ActorInv
<1>2. ASSUME UNCHANGED <<to_command, actor, sim, initial>>,
             state' = state \/ state # "SIMULATION_FINISHED"
      PROVE  OutcomeInv'
  BY <1>0, <1>2 DEF OutcomeInv, Failed, Queued, FailureFirst
<1>3. ASSUME NEW t, Popped(t), UNCHANGED <<actor, sim, initial>>,
             state' = IF t \in {"SIMULATION_FINISHED", "SIMULATION_ABORTED"}
                      THEN "SIMULATION_FINISHED" ELSE state
      PROVE  OutcomeInv'
  <2>1. Failed' <=> Failed
    BY <1>3 DEF Failed
  <2>2. /\ Queued("SIMULATION_FINISHED")' => Queued("SIMULATION_FINISHED")
        /\ Queued("SIMULATION_ABORTED")' => Queued("SIMULATION_ABORTED")
        /\ FailureFirst /\ t # "SIMULATION_ABORTED" => FailureFirst'
    BY <1>0, <1>3, PopFacts
  <2>3. pc = "pop" /\ state # "SIMULATION_FINISHED"
    BY <1>1, <1>3 DEF Popped
  <2> QED
    BY <1>0, <1>3, <2>1, <2>2, <2>3 DEF OutcomeInv
<1>4. ASSUME NEW s \in Sockets, HandleStart(s) \/ HandleConnect(s) PROVE OutcomeInv'
  <2>0. pc = "traverse" /\ UNCHANGED <<to_command, actor>>
    BY <1>4 DEF HandleStart, HandleConnect, Received, Readable, CommandUnchanged
  <2>1. CASE UNCHANGED <<sim, initial>>
    BY <1>1, <1>2, <2>0, <2>1
  <2>2. CASE ~UNCHANGED <<sim, initial>>
    <3>1. sim = "off" /\ sim' = "launched"
      BY <1>1, <1>4, <2>2 DEF HandleStart, HandleConnect, StartAllowed, ConnectActor,
         StartSimulationInAnotherThread
    <3>2. to_command' = <<>> /\ DOMAIN actor' = {}
      BY <1>1, <2>0, <3>1
    <3> QED
      BY <3>1, <3>2 DEF OutcomeInv, Failed, Queued
  <2> QED
    BY <2>1, <2>2
<1>5. ASSUME NEW s \in Sockets, HandleAddActor(s) \/ HandleKill(s) PROVE OutcomeInv'
  <2>1. pc = "traverse" /\ UNCHANGED <<to_command, actor, sim, initial>>
    BY <1>5 DEF HandleAddActor, HandleKill, Received, Readable, CommandUnchanged
  <2> QED
    BY <1>1, <1>2, <2>1
<1>6. CASE StartSimulation
  <2>1. /\ sim = "launched" /\ sim' \in {"launched", "maestro"}
        /\ UNCHANGED <<to_command, actor>>
    BY <1>6 DEF StartSimulation
  <2> QED
    BY <1>1, <2>1 DEF OutcomeInv, Failed, Queued
<1>7. CASE MaestroAbort
  <2>1. /\ DOMAIN actor' = {} /\ initial' # {} /\ sim' = "done" /\ ~Queued("SIMULATION_FINISHED")
        /\ to_command' = Append(to_command, Message("SIMULATION_ABORTED", NoSocket, NoPid))
    BY <1>1, <1>7 DEF MaestroAbort, Queued
  <2>2. Failed' /\ FailureFirst'
    BY <1>0, <2>1, PushFacts DEF Failed
  <2> QED
    BY <2>1, <2>2 DEF OutcomeInv
<1>8. CASE MaestroRun
  <2>1. /\ to_command' = <<>> /\ DOMAIN actor' = initial /\ sim' = "running"
        /\ initial' = initial /\ \A i \in DOMAIN actor' : actor'[i] = "running"
    BY <1>1, <1>8 DEF MaestroRun
  <2> QED
    BY <2>1 DEF OutcomeInv, Failed, Queued
<1>9. CASE SimulationEnds
  <2>1. /\ sim = "running" /\ sim' = "done" /\ UNCHANGED <<actor, initial, state>>
        /\ \A i \in DOMAIN actor : actor[i] \in {"quit", "failed"}
        /\ to_command' = Append(to_command, Message("SIMULATION_FINISHED", NoSocket, NoPid))
    BY <1>9 DEF SimulationEnds, SimStep
  <2>2. Failed' <=> Failed
    BY <1>0, <2>1 DEF OutcomeInv, Failed
  <2>3. /\ Queued("SIMULATION_ABORTED")' <=> Queued("SIMULATION_ABORTED")
        /\ FailureFirst => FailureFirst'
    BY <1>0, <2>1, PushFacts
  <2> QED
    BY <1>0, <2>1, <2>2, <2>3 DEF OutcomeInv
<1>10. ASSUME NEW i \in DOMAIN actor, NEW t \in {"ACTOR_QUIT", "ACTOR_CREATE"}, NEW s, NEW j,
              to_command' = Append(to_command, Message(t, s, j)), sim = "running",
              UNCHANGED <<sim, initial, state>>, DOMAIN actor' # {}, Failed' <=> Failed
       PROVE  OutcomeInv'
  <2>1. /\ Queued("SIMULATION_ABORTED")' <=> Queued("SIMULATION_ABORTED")
        /\ Queued("SIMULATION_FINISHED")' <=> Queued("SIMULATION_FINISHED")
        /\ FailureFirst => FailureFirst'
    BY <1>0, <1>10, PushFacts
  <2> QED
    BY <1>0, <1>10, <2>1 DEF OutcomeInv
<1>11. ASSUME NEW i \in DOMAIN actor, ActorQuit(i) PROVE OutcomeInv'
  <2>1. /\ sim = "running" /\ UNCHANGED <<sim, initial, state>> /\ actor[i] = "running"
        /\ to_command' = Append(to_command, Message("ACTOR_QUIT", SocketOf(i), NoPid))
        /\ actor' = [actor EXCEPT ![i] = "quit"]
    BY <1>11 DEF ActorQuit, SimStep
  <2>2. DOMAIN actor' # {} /\ (Failed' <=> Failed)
    BY <2>1, FailedSame
  <2> QED
    BY <1>10, <2>1, <2>2
<1>12. ASSUME NEW i \in DOMAIN actor, ActorCreate(i) PROVE OutcomeInv'
  <2>1. /\ sim = "running" /\ UNCHANGED <<sim, initial, state>>
        /\ to_command' = Append(to_command, Message("ACTOR_CREATE", NoSocket, next_pid))
        /\ actor' = Put(actor, next_pid, "connecting")
    BY <1>12 DEF ActorCreate, SimStep
  <2>2. next_pid \notin DOMAIN actor
    BY <1>0 DEF CreationInv, IndInv, TypeOK, SimTypeOK
  <2>3. DOMAIN actor' # {} /\ (Failed' <=> Failed)
    BY <2>1, <2>2, FailedSame DEF Put
  <2> QED
    BY <1>10, <2>1, <2>3
<1>13. ASSUME NEW i \in DOMAIN actor, ActorFails(i) PROVE OutcomeInv'
  <2>1. /\ actor[i] = "failing" /\ UNCHANGED <<sim, initial, state>>
        /\ actor' = [actor EXCEPT ![i] = "failed"]
        /\ to_command' = Append(to_command, Message("SIMULATION_ABORTED", NoSocket, NoPid))
    BY <1>13 DEF ActorFails
  <2>2. sim # "done" /\ ~Queued("SIMULATION_FINISHED") /\ Failed' /\ DOMAIN actor' # {}
    BY <1>0, <2>1 DEF OutcomeInv, Failed
  <2>3. FailureFirst' /\ ~Queued("SIMULATION_FINISHED")'
    BY <1>0, <2>1, <2>2, PushFacts
  <2> QED
    BY <2>1, <2>2, <2>3 DEF OutcomeInv
<1>14. ASSUME NEW i \in DOMAIN actor,
              ActorReadFails(i) \/ ActorCreateAck(i) \/ ActorConnected(i)
       PROVE  OutcomeInv'
  <2>1. UNCHANGED <<sim, initial, state, to_command>>
    BY <1>14 DEF ActorReadFails, ActorCreateAck, ActorConnected
  <2>2. /\ DOMAIN actor' = DOMAIN actor
        /\ \A j \in DOMAIN actor : \/ actor'[j] = actor[j]
                                   \/ /\ actor[j] \in {"running", "connecting"}
                                      /\ actor'[j] \in {"failing", "running"} /\ sim = "running"
    BY <1>14 DEF ActorReadFails, ActorCreateAck, ActorConnected, SimStep
  <2> QED
    BY <1>0, <2>1, <2>2 DEF OutcomeInv, Failed, Queued, FailureFirst
<1>15. CASE Quiet
  BY <1>2, <1>15 DEF Quiet
<1>16. CASE PopFinished \/ PopAborted \/ PopActorQuit \/ PopActorCreate
  BY <1>3, <1>16 DEF PopFinished, PopAborted, PopActorQuit, PopActorCreate
<1> QED
  BY <1>4, <1>5, <1>6, <1>7, <1>8, <1>9, <1>11, <1>12, <1>13, <1>14, <1>15, <1>16,
     QuietOrLoud DEF SimGridThread

----------------------------------------------------------------------------
(* The creation of an actor *)

\* Nothing of a creation is left once the SimGrid thread goes on.
LEMMA NoCreation ==
    ASSUME CreationInv, ~Creating
    PROVE  ~Queued("ACTOR_CREATE") /\ create_ack = {}
  BY DEF CreationInv, Queued

\* The SimGrid thread is not held for anybody: no actor has pid 0.
LEMMA SectionPid ==
    ASSUME CreationInv, IndInv, section = NoPid
    PROVE  ~Creating
<1>1. Creating => section \in DOMAIN actor_connections
  BY DEF IndInv, ActorInv, Creating
<1>2. Creating => \A i \in DOMAIN actor_connections : i >= 2
  BY DEF CreationInv, Creating, IndInv, TypeOK, SimTypeOK
<1> QED
  BY <1>1, <1>2 DEF NoPid

\* One creation at a time, and pids without a gap.
LEMMA CreationStep ==
    ASSUME SessionInv, Next PROVE CreationInv'
<1>0. IndInv /\ OutcomeInv /\ CreationInv
  BY DEF SessionInv
<1>1. /\ state \in {"ACCEPTING_NEW_ACTORS", "WAITING_FOR_ALL_ACTORS_CONNECTION"} => sim = "off"
      /\ sim \in {"off", "launched", "maestro"} => to_command = <<>> /\ DOMAIN actor = {}
      /\ next_pid \in Nat /\ DOMAIN actor \subseteq Nat
  BY <1>0 DEF IndInv, LifecycleInv, ActorInv, TypeOK, SimTypeOK
<1>2. ASSUME UNCHANGED <<to_command, actor, section, next_pid, create_ack>>,
             UNCHANGED <<sim, DOMAIN actor_connections>> \/ (sim # "running" /\ sim' # "running")
      PROVE  CreationInv'
  BY <1>0, <1>2 DEF CreationInv, Creating, Queued
<1>3. ASSUME NEW t, Popped(t), t # "ACTOR_CREATE",
             UNCHANGED <<actor, sim, section, next_pid, create_ack, actor_connections>>
      PROVE  CreationInv'
  <2>1. Queued("ACTOR_CREATE")' <=> Queued("ACTOR_CREATE")
    BY <1>0, <1>3, PopFacts
  <2>2. \A k \in DOMAIN to_command' : \E l \in DOMAIN to_command : to_command'[k] = to_command[l]
    BY <1>0, <1>3, PopFacts
  <2> QED
    BY <1>0, <1>3, <2>1, <2>2 DEF CreationInv, Creating
<1>4. ASSUME NEW s \in Sockets, HandleStart(s) \/ HandleConnect(s) PROVE CreationInv'
  <2>1. UNCHANGED <<to_command, actor, section, next_pid, create_ack>>
    BY <1>4 DEF HandleStart, HandleConnect, CommandUnchanged
  <2>2. DOMAIN actor_connections' = DOMAIN actor_connections
    BY <1>0, <1>4, ConnectEffect DEF HandleStart, HandleConnect
  <2>3. sim' = sim \/ (sim = "off" /\ sim' = "launched")
    BY <1>1, <1>4 DEF HandleStart, HandleConnect, StartAllowed, ConnectActor,
       StartSimulationInAnotherThread
  <2> QED
    BY <1>2, <2>1, <2>2, <2>3
<1>5. ASSUME NEW s \in Sockets, HandleAddActor(s) \/ HandleKill(s) PROVE CreationInv'
  <2>1. UNCHANGED <<to_command, actor, section, next_pid, create_ack, sim>>
    BY <1>5 DEF HandleAddActor, HandleKill, CommandUnchanged
  <2>2. UNCHANGED actor_connections \/ sim = "off"
    BY <1>1, <1>5 DEF HandleAddActor, HandleKill
  <2> QED
    BY <1>2, <2>1, <2>2
<1>6. CASE PopActorCreate
  <2> DEFINE id == Head(to_command).id
  <2>1. Popped("ACTOR_CREATE") /\ UNCHANGED <<actor, sim, section, next_pid>>
    BY <1>6 DEF PopActorCreate
  <2>2. /\ to_command # <<>> /\ to_command \in Seq(InterthreadMessage)
        /\ 1 \in DOMAIN to_command /\ Head(to_command) = to_command[1]
        /\ to_command[1].type = "ACTOR_CREATE"
    BY <1>0, <2>1 DEF Popped, IndInv, TypeOK, QueueTypeOK
  <2>3. /\ Creating /\ create_ack = {} /\ id = next_pid - 1
        /\ DOMAIN actor_connections = 2 .. next_pid - 2
    BY <1>0, <2>2 DEF CreationInv, Creating, Queued
  <2>4. \A k \in DOMAIN to_command' : to_command'[k].type # "ACTOR_CREATE"
    <3>1. ASSUME NEW k \in DOMAIN to_command', to_command'[k].type = "ACTOR_CREATE" PROVE FALSE
      <4>1. k + 1 \in DOMAIN to_command /\ to_command'[k] = to_command[k + 1] /\ k + 1 # 1
        BY <2>1, <2>2 DEF Popped
      <4>2. to_command[k + 1].id = next_pid - 1 /\ to_command[1].id = next_pid - 1
        BY <1>0, <2>2, <3>1, <4>1 DEF CreationInv
      <4> QED
        BY <1>0, <2>2, <3>1, <4>1, <4>2 DEF IndInv, PidInv
    <3> QED
      BY <3>1
  <2>5. section \in 2 .. next_pid - 2 /\ next_pid - 1 \notin DOMAIN actor_connections
    <3>1. section \in DOMAIN actor_connections
      BY <1>0, <2>3 DEF IndInv, ActorInv, Creating
    <3> QED
      BY <1>1, <2>3, <3>1
  <2>6. /\ DOMAIN actor_connections' = DOMAIN actor_connections \cup {id}
        /\ create_ack' = create_ack \cup {id}
    BY <1>6, <2>3, <2>5 DEF PopActorCreate, Put
  <2>7. DOMAIN actor_connections' = 2 .. next_pid - 1 /\ create_ack' = {next_pid - 1}
    BY <1>1, <2>3, <2>5, <2>6
  <2> QED
    BY <1>0, <2>1, <2>3, <2>4, <2>7 DEF CreationInv, Creating, Queued
<1>7. CASE StartSimulation
  BY <1>1, <1>2, <1>7 DEF StartSimulation
<1>8. CASE MaestroAbort
  <2>1. ~Creating /\ sim = "maestro"
    BY <1>8 DEF MaestroAbort, Creating
  <2>2. /\ sim' = "done" /\ UNCHANGED <<actor, section, next_pid, create_ack>>
        /\ to_command' = Append(to_command, Message("SIMULATION_ABORTED", NoSocket, NoPid))
    BY <1>8 DEF MaestroAbort
  <2>3. ~Queued("ACTOR_CREATE")'
    BY <1>0, <2>1, <2>2, NoCreation, PushFacts
  <2> QED
    BY <1>0, <2>1, <2>2, <2>3, NoCreation DEF CreationInv, Queued
<1>9. CASE MaestroRun
  <2> DEFINE D == DOMAIN actor_connections
  <2>1. /\ initial = D /\ ConsecutiveIds(initial) /\ sim = "maestro"
        /\ IsFiniteSet(D)
    BY <1>0, <1>9 DEF MaestroRun, IndInv, LaunchInv, RegistryInv
  <2>2. Cardinality(initial) \in Nat /\ D = 2 .. Cardinality(initial) + 1
    BY <2>1, FS_CardinalityType DEF ConsecutiveIds
  <2>3. /\ sim' = "running" /\ DOMAIN actor' = initial /\ UNCHANGED <<to_command, section, create_ack>>
        /\ next_pid' = Cardinality(initial) + 2 /\ DOMAIN actor_connections' = D
    BY <1>9 DEF MaestroRun
  <2>4. to_command' = <<>> /\ create_ack' = {} /\ section' = NoPid
    BY <1>0, <1>1, <2>1, <2>3, NoCreation DEF CreationInv, Creating
  <2>5. D = 2 .. next_pid' - 1 /\ \A i \in DOMAIN actor' : i < next_pid'
    <3>1. \A n \in Nat : (n + 2) - 1 = n + 1 /\ \A i \in 2 .. n + 1 : i < n + 2
      OBVIOUS
    <3> QED
      BY <2>1, <2>2, <2>3, <3>1
  <2> HIDE DEF D
  <2> QED
    BY <2>3, <2>4, <2>5 DEF CreationInv, Queued
<1>10. CASE SimulationEnds
  <2>1. ~Creating /\ section = NoPid
    BY <1>0, <1>10, SectionPid DEF SimulationEnds, SimStep
  <2>2. /\ sim' = "done" /\ UNCHANGED <<actor, section, next_pid, create_ack>>
        /\ to_command' = Append(to_command, Message("SIMULATION_FINISHED", NoSocket, NoPid))
    BY <1>10 DEF SimulationEnds
  <2>3. ~Queued("ACTOR_CREATE")' /\ create_ack = {}
    BY <1>0, <2>1, <2>2, NoCreation, PushFacts
  <2> QED
    BY <1>0, <2>1, <2>2, <2>3 DEF CreationInv, Queued
<1>11. ASSUME ~Creating, ~Queued("ACTOR_CREATE")', UNCHANGED <<sim, actor_connections>>,
              UNCHANGED next_pid, create_ack' \subseteq create_ack,
              DOMAIN actor' = DOMAIN actor,
              section' # NoPid => sim = "running" /\ section' \in DOMAIN actor'
       PROVE  CreationInv'
  <2>1. create_ack' = {} /\ ~Queued("ACTOR_CREATE")
    BY <1>0, <1>11, NoCreation
  <2> QED
    BY <1>0, <1>11, <2>1 DEF CreationInv, Queued
<1>12. ASSUME NEW i \in DOMAIN actor, ActorQuit(i) PROVE CreationInv'
  <2>1. /\ section = NoPid /\ sim = "running"
        /\ UNCHANGED <<sim, actor_connections, next_pid, create_ack, section>>
        /\ actor' = [actor EXCEPT ![i] = "quit"]
        /\ to_command' = Append(to_command, Message("ACTOR_QUIT", SocketOf(i), NoPid))
    BY <1>12 DEF ActorQuit, SimStep
  <2>2. ~Creating
    BY <1>0, <2>1, SectionPid
  <2>3. ~Queued("ACTOR_CREATE")'
    BY <1>0, <2>1, <2>2, NoCreation, PushFacts
  <2> QED
    BY <1>11, <2>1, <2>2, <2>3
<1>13. ASSUME NEW i \in DOMAIN actor, ActorReadFails(i) \/ ActorConnected(i)
       PROVE  CreationInv'
  <2>1. /\ section = NoPid /\ sim = "running" /\ section' \in {NoPid, i}
        /\ UNCHANGED <<sim, actor_connections, next_pid, create_ack, to_command>>
        /\ DOMAIN actor' = DOMAIN actor
    BY <1>13 DEF ActorReadFails, ActorConnected, SimStep
  <2>2. ~Creating
    BY <1>0, <2>1, SectionPid
  <2>3. ~Queued("ACTOR_CREATE")'
    BY <1>0, <2>1, <2>2, NoCreation DEF Queued
  <2> QED
    BY <1>11, <2>1, <2>2, <2>3
<1>14. ASSUME NEW i \in DOMAIN actor, ActorFails(i) PROVE CreationInv'
  <2>1. /\ section = i /\ actor[i] = "failing" /\ section' = NoPid
        /\ UNCHANGED <<sim, actor_connections, next_pid, create_ack>>
        /\ DOMAIN actor' = DOMAIN actor
        /\ to_command' = Append(to_command, Message("SIMULATION_ABORTED", NoSocket, NoPid))
    BY <1>14 DEF ActorFails
  <2>2. ~Creating
    BY <2>1 DEF Creating
  <2>3. ~Queued("ACTOR_CREATE")'
    BY <1>0, <2>1, <2>2, NoCreation, PushFacts
  <2> QED
    BY <1>11, <2>1, <2>2, <2>3
<1>15. ASSUME NEW i \in DOMAIN actor, ActorCreate(i) PROVE CreationInv'
  <2> DEFINE m == Message("ACTOR_CREATE", NoSocket, next_pid)
  <2>1. /\ section = NoPid /\ sim = "running" /\ actor[i] = "running" /\ section' = i
        /\ UNCHANGED <<sim, actor_connections, create_ack>> /\ next_pid' = next_pid + 1
        /\ actor' = Put(actor, next_pid, "connecting")
        /\ to_command' = Append(to_command, Message("ACTOR_CREATE", NoSocket, next_pid))
    BY <1>15 DEF ActorCreate, SimStep
  <2>2. ~Creating
    BY <1>0, <2>1, SectionPid
  <2>3. ~Queued("ACTOR_CREATE") /\ create_ack = {} /\ Queued("ACTOR_CREATE")'
    BY <1>0, <2>1, <2>2, NoCreation, PushFacts
  <2>4. \A k \in DOMAIN to_command' : to_command'[k].type = "ACTOR_CREATE" =>
          to_command'[k].id = next_pid
    <3>1. m.id = next_pid
      BY DEF Message
    <3>2. \A k \in DOMAIN to_command' :
            to_command'[k] = m \/ (k \in DOMAIN to_command /\ to_command'[k] = to_command[k])
      BY <1>0, <2>1, PushFacts
    <3> QED
      BY <2>3, <3>1, <3>2 DEF Queued
  <2>5. /\ DOMAIN actor' = DOMAIN actor \cup {next_pid} /\ i # next_pid /\ actor'[i] = "running"
        /\ \A j \in DOMAIN actor' : j < next_pid'
    BY <1>0, <1>1, <2>1 DEF Put, CreationInv
  <2>6. DOMAIN actor_connections' = 2 .. next_pid' - 2 /\ next_pid' - 1 = next_pid
    BY <1>0, <1>1, <2>1, <2>3 DEF CreationInv
  <2> QED
    BY <2>1, <2>3, <2>4, <2>5, <2>6 DEF CreationInv, Creating
<1>16. ASSUME NEW i \in DOMAIN actor, ActorCreateAck(i) PROVE CreationInv'
  <2>1. PICK c \in create_ack : create_ack' = create_ack \ {c}
    BY <1>16 DEF ActorCreateAck
  <2>2. /\ section' = NoPid
        /\ UNCHANGED <<sim, actor_connections, next_pid, actor, to_command>>
    BY <1>16 DEF ActorCreateAck
  <2>3. create_ack' = {} /\ ~Queued("ACTOR_CREATE")
    BY <1>0, <2>1 DEF CreationInv, Queued
  <2> QED
    BY <1>0, <2>2, <2>3 DEF CreationInv, Queued
<1>17. CASE Quiet
  BY <1>2, <1>17 DEF Quiet
<1>18. CASE PopFinished \/ PopAborted \/ PopActorQuit
  BY <1>3, <1>18 DEF PopFinished, PopAborted, PopActorQuit
<1> QED
  BY <1>4, <1>5, <1>6, <1>7, <1>8, <1>9, <1>10, <1>12, <1>13, <1>14, <1>15, <1>16, <1>17,
     <1>18, QuietOrLoud DEF SimGridThread

----------------------------------------------------------------------------
(* The ids clients are told of *)

\* Registered actors stay registered.
LEMMA RegistryGrows ==
    ASSUME SessionInv, Next PROVE DOMAIN actor_connections \subseteq DOMAIN actor_connections'
<1>0. IndInv
  BY DEF SessionInv
<1>1. ASSUME NEW s \in Sockets, \/ HandleAddActor(s) \/ HandleStart(s) \/ HandleKill(s)
                                \/ HandleConnect(s)
      PROVE  DOMAIN actor_connections \subseteq DOMAIN actor_connections'
  BY <1>0, <1>1, ConnectEffect DEF HandleAddActor, HandleStart, HandleKill, HandleConnect, Put
<1>2. CASE PopFinished \/ PopAborted \/ PopActorQuit \/ PopActorCreate
  BY <1>2 DEF PopFinished, PopAborted, PopActorQuit, PopActorCreate, Put
<1>3. CASE SimGridThread
  BY <1>3 DEF SimGridThread, StartSimulation, MaestroAbort, MaestroRun, SimulationEnds,
     ActorQuit, ActorReadFails, ActorFails, ActorCreate, ActorCreateAck, ActorConnected
<1>4. CASE Quiet
  BY <1>4 DEF Quiet
<1> QED
  BY <1>1, <1>2, <1>3, <1>4, QuietOrLoud

\* No thread or client makes an id of its own.
LEMMA HandStep ==
    ASSUME SessionInv, Next PROVE HandInv'
<1>0. IndInv /\ HandInv /\ CreationInv /\ TypeOK
  BY DEF SessionInv, IndInv
<1>1. DOMAIN actor_connections \subseteq DOMAIN actor_connections'
  BY RegistryGrows
<1>2. \A s \in barely_connected_sockets : s \in Sockets /\ fd[s] # "none" /\ client[s] # "idle"
  BY <1>0 DEF IndInv, SocketInv, TypeOK, FilingTypeOK, HandInv
<1>3. /\ fd \in [Sockets -> {"none", "open", "closed"}]
      /\ client \in [Sockets -> ClientState] /\ command \in [Sockets -> Command]
      /\ ack \in [Sockets -> Seq(Answer)]
      /\ pc \in {"ack", "settle"} => issuer.socket \in Sockets
  BY <1>0 DEF TypeOK, TcpTypeOK, FilingTypeOK
<1>4. ASSUME UNCHANGED <<handed, create_ack, client, command, ack>>,
             \A s \in Sockets : /\ client[s] = "idle" => fd'[s] = fd[s]
                                /\ fd'[s] = "none" => fd[s] = "none"
                                /\ fd[s] = "none" /\ s \in dropped_sockets' => s \in dropped_sockets,
             \A k \in DOMAIN to_command' :
               \/ to_command'[k].type = "ACTOR_QUIT" => fd[to_command'[k].socket] # "none"
               \/ \E l \in DOMAIN to_command : to_command'[k] = to_command[l],
             \/ pc' \notin {"ack", "settle"}
             \/ UNCHANGED <<pc, issuer>>
      PROVE  HandInv'
  BY <1>0, <1>1, <1>3, <1>4 DEF HandInv
<1>5. CASE WaitAnyReadableFails \/ WaitAnyReadable \/ EndTraverse \/ EndDropped
           \/ PopNothing \/ RaiseSignal
  BY <1>4, <1>5 DEF WaitAnyReadableFails, WaitAnyReadable, EndTraverse, EndDropped,
     PopNothing, LoopAgain, RaiseSignal, Throw
<1>6. CASE Settle
  <2>1. \A s \in Sockets : fd[s] = "none" => (s \in dropped_sockets' => s \in dropped_sockets)
    BY <1>0, <1>6 DEF Settle, HandInv
  <2> QED
    BY <1>4, <1>6, <2>1 DEF Settle
<1>7. CASE PopFinished \/ PopAborted \/ PopActorQuit
  <2>1. PICK t : Popped(t)
    BY <1>7 DEF PopFinished, PopAborted, PopActorQuit
  <2>2. \A k \in DOMAIN to_command' : \E l \in DOMAIN to_command : to_command'[k] = to_command[l]
    BY <1>0, <2>1, PopFacts
  <2>3. \A s \in Sockets : fd[s] = "none" => (s \in dropped_sockets' => s \in dropped_sockets)
    <3>1. CASE PopActorQuit
      <4>1. /\ 1 \in DOMAIN to_command /\ Head(to_command) = to_command[1]
            /\ to_command[1].type = "ACTOR_QUIT"
        BY <1>0, <3>1 DEF PopActorQuit, Popped, IndInv, TypeOK, QueueTypeOK
      <4>2. dropped_sockets' = dropped_sockets \cup {to_command[1].socket}
        BY <3>1, <4>1 DEF PopActorQuit
      <4> QED
        BY <1>0, <4>1, <4>2 DEF HandInv
    <3>2. CASE PopFinished \/ PopAborted
      BY <3>2 DEF PopFinished, PopAborted
    <3> QED
      BY <1>7, <3>1, <3>2
  <2>4. /\ pc' \notin {"ack", "settle"} /\ UNCHANGED <<handed, create_ack, client, command, ack>>
        /\ fd' = fd
    BY <1>7 DEF PopFinished, PopAborted, PopActorQuit, LoopAgain
  <2> QED
    BY <1>4, <2>2, <2>3, <2>4
<1>8. CASE AcceptClient
  <2>1. \A s \in Sockets : /\ client[s] = "idle" => fd'[s] = fd[s]
                           /\ fd'[s] = "none" => fd[s] = "none"
    BY <1>3, <1>8 DEF AcceptClient, Backlog
  <2> QED
    BY <1>4, <1>8, <2>1 DEF AcceptClient
<1>9. CASE SignalCaught \/ CloseAndReturn
  <2>1. /\ \/ fd' = fd
           \/ fd' = [s \in Sockets |-> IF s \in barely_connected_sockets \cup dropped_sockets
                                       THEN "closed" ELSE fd[s]]
        /\ dropped_sockets' \subseteq dropped_sockets /\ UNCHANGED to_command
    BY <1>9 DEF SignalCaught, CloseAndReturn, CloseOpenSockets
  <2>2. \A s \in dropped_sockets : s \in Sockets /\ client[s] # "idle" /\ fd[s] # "none"
    BY <1>0 DEF HandInv, TypeOK, FilingTypeOK
  <2>3. \A s \in Sockets : /\ client[s] = "idle" => fd'[s] = fd[s]
                           /\ fd'[s] = "none" => fd[s] = "none"
    BY <1>2, <1>3, <2>1, <2>2
  <2>4. pc' \notin {"ack", "settle"} /\ UNCHANGED <<handed, create_ack, client, command, ack>>
    BY <1>9 DEF SignalCaught, CloseAndReturn, CloseOpenSockets, Throw
  <2> QED
    BY <1>4, <2>1, <2>3, <2>4
<1>10. ASSUME NEW s \in Sockets, ReadEof(s) \/ ReadDropped(s) \/ HandleUnset(s) PROVE HandInv'
  <2>1. \A r \in Sockets : /\ client[r] = "idle" => fd'[r] = fd[r]
                           /\ fd'[r] = "none" => fd[r] = "none"
                           /\ r \in dropped_sockets' => r \in dropped_sockets
    BY <1>0, <1>3, <1>10 DEF ReadEof, ReadDropped, HandleUnset, CommandUnchanged, HandInv
  <2>2. \/ pc' \notin {"ack", "settle"}
        \/ UNCHANGED <<pc, issuer>>
    BY <1>10 DEF ReadEof, ReadDropped, HandleUnset, Throw
  <2>3. UNCHANGED <<handed, create_ack, client, command, ack, to_command>>
    BY <1>10 DEF ReadEof, ReadDropped, HandleUnset, CommandUnchanged
  <2> QED
    BY <1>4, <2>1, <2>2, <2>3
<1>11. ASSUME NEW s \in Sockets, \/ HandleAddActor(s) \/ HandleStart(s) \/ HandleKill(s)
                                \/ HandleStatus(s) \/ HandleConnect(s)
      PROVE  HandInv'
  <2>1. /\ UNCHANGED <<handed, create_ack, client, command, ack, fd, to_command,
                       dropped_sockets>>
        /\ s \in barely_connected_sockets /\ pc = "traverse"
    BY <1>11 DEF HandleAddActor, HandleStart, HandleKill, HandleStatus, HandleConnect,
       CommandUnchanged, Received, Readable
  <2>2. CASE pc' = "aborted"
    BY <1>4, <2>1, <2>2
  <2>3. CASE pc' # "aborted"
    <3>1. /\ pc' = "ack" /\ issuer'.socket = s
          /\ command[s].type = "ADD_ACTOR" /\ issuer'.answer.success =>
               issuer'.answer.value \in DOMAIN actor_connections'
      <4>1. CASE HandleAddActor(s)
        <5>1. \/ Reply(s, Failure, TRUE)
              \/ /\ NbActors + 2 \in DOMAIN actor_connections'
                 /\ Reply(s, Success(NbActors + 2), TRUE)
          BY <2>3, <4>1 DEF HandleAddActor, Throw, Put
        <5> QED
          BY <5>1 DEF Reply, Success, Failure
      <4>2. CASE \/ HandleStart(s) \/ HandleKill(s) \/ HandleStatus(s) \/ HandleConnect(s)
        BY <2>3, <4>2 DEF HandleStart, HandleKill, HandleStatus, HandleConnect, ConnectActor,
           Received, Reply, Throw
      <4> QED
        BY <1>11, <4>1, <4>2
    <3> QED
      BY <1>0, <1>1, <1>2, <2>1, <3>1 DEF HandInv
  <2> QED
    BY <2>2, <2>3
<1>12. CASE WriteAck
  <2> DEFINE s == issuer.socket
  <2>1. /\ pc = "ack" /\ pc' \in {"settle", "aborted"}
        /\ s \in Sockets /\ client[s] # "idle"
        /\ UNCHANGED <<handed, create_ack, command, fd, issuer, actor_connections,
                       to_command, dropped_sockets>>
    BY <1>0, <1>3, <1>12 DEF WriteAck, HandInv, Throw
  <2>2. CASE client' = [client EXCEPT ![s] = "reset"] /\ UNCHANGED ack
    BY <1>0, <1>3, <2>1, <2>2 DEF HandInv
  <2>3. CASE ack' = [ack EXCEPT ![s] = <<issuer.answer>>] /\ UNCHANGED client
    <3>1. Head(<<issuer.answer>>) = issuer.answer
      OBVIOUS
    <3>2. \A r \in Sockets : ack'[r] = IF r = s THEN <<issuer.answer>> ELSE ack[r]
      BY <1>3, <2>3
    <3> QED
      BY <1>0, <2>1, <2>3, <3>1, <3>2 DEF HandInv
  <2>4. CASE UNCHANGED <<client, ack>>
    BY <1>0, <1>3, <2>1, <2>4 DEF HandInv
  <2> QED
    BY <1>12, <2>2, <2>3, <2>4 DEF WriteAck
<1>13. CASE PopActorCreate
  <2>1. /\ UNCHANGED <<handed, client, command, ack, fd, dropped_sockets>>
        /\ pc' \notin {"ack", "settle"} /\ create_ack' \subseteq DOMAIN actor_connections'
    BY <1>0, <1>1, <1>13 DEF PopActorCreate, LoopAgain, Throw, Put, HandInv
  <2>2. \A k \in DOMAIN to_command' : \E l \in DOMAIN to_command : to_command'[k] = to_command[l]
    BY <1>0, <1>13, PopFacts DEF PopActorCreate
  <2> QED
    BY <1>0, <1>1, <2>1, <2>2 DEF HandInv
<1>14. CASE StartSimulation \/ MaestroRun
  BY <1>4, <1>14 DEF StartSimulation, MaestroRun, Throw
<1>15. ASSUME NEW t, NEW s, NEW j, to_command' = Append(to_command, Message(t, s, j)),
              t = "ACTOR_QUIT" => fd[s] # "none",
              UNCHANGED <<handed, create_ack, client, command, ack, fd, dropped_sockets, pc,
                          issuer>>
       PROVE  HandInv'
  <2>1. Message(t, s, j).type = t /\ Message(t, s, j).socket = s
    BY DEF Message
  <2>2. \A k \in DOMAIN to_command' :
          \/ to_command'[k] = Message(t, s, j)
          \/ k \in DOMAIN to_command /\ to_command'[k] = to_command[k]
    BY <1>0, <1>15, PushFacts
  <2> QED
    BY <1>4, <1>15, <2>1, <2>2
<1>16. CASE MaestroAbort \/ SimulationEnds
  BY <1>15, <1>16 DEF MaestroAbort, SimulationEnds
<1>17. ASSUME NEW i \in DOMAIN actor, ActorFails(i) \/ ActorCreate(i) PROVE HandInv'
  BY <1>15, <1>17 DEF ActorFails, ActorCreate
<1>18. ASSUME NEW i \in DOMAIN actor, ActorQuit(i) PROVE HandInv'
  <2>1. SocketOf(i) \in Sockets
    BY <1>0, <1>18, SocketOfType DEF ActorQuit
  <2>2. fd[SocketOf(i)] # "none"
    BY <1>0, <1>18 DEF ActorQuit, IndInv, ActorInv, SocketInv
  <2> QED
    BY <1>15, <1>18, <2>2 DEF ActorQuit
<1>19. ASSUME NEW i \in DOMAIN actor, ActorReadFails(i) \/ ActorConnected(i) PROVE HandInv'
  <2>1. \A r \in Sockets : /\ client[r] = "idle" => fd'[r] = fd[r]
                           /\ fd'[r] = "none" => fd[r] = "none"
    BY <1>3, <1>19 DEF ActorReadFails, ActorConnected
  <2> QED
    BY <1>4, <1>19, <2>1 DEF ActorReadFails, ActorConnected
<1>20. ASSUME NEW i \in DOMAIN actor, ActorCreateAck(i) PROVE HandInv'
  <2>1. /\ UNCHANGED <<client, command, ack, fd, pc, issuer, actor_connections,
                       to_command, dropped_sockets>>
        /\ create_ack' \subseteq create_ack /\ handed' \subseteq handed \cup create_ack
    BY <1>20 DEF ActorCreateAck
  <2> QED
    BY <1>0, <2>1 DEF HandInv
<1>21. ASSUME NEW s \in Sockets, ClientConnect(s) PROVE HandInv'
  <2>1. /\ UNCHANGED <<create_ack, ack, fd, pc, issuer, actor_connections,
                       to_command, dropped_sockets>>
        /\ handed' \subseteq handed /\ client[s] = "idle"
        /\ client' = [client EXCEPT ![s] = "connected"]
        /\ \A r \in Sockets : r # s => command'[r] = command[r]
    BY <1>3, <1>21 DEF ClientConnect, ClientUnchanged
  <2>2. ack[s] = <<>> /\ (pc \in {"ack", "settle"} => issuer.socket # s)
    BY <1>0, <2>1 DEF HandInv
  <2> QED
    BY <1>0, <1>3, <2>1, <2>2 DEF HandInv
<1>22. ASSUME NEW s \in Sockets, \/ SendCommand(s) \/ CloseConnection(s) \/ SendQuit(s)
                                 \/ SendJunk(s) \/ Die(s) \/ ConnectionLost(s)
       PROVE  HandInv'
  <2>1. /\ UNCHANGED <<create_ack, ack, fd, pc, issuer, actor_connections, handed, command,
                       to_command, dropped_sockets>>
        /\ \A r \in Sockets : client'[r] = "idle" => client[r] = "idle"
    BY <1>3, <1>22 DEF SendCommand, CloseConnection, SendQuit, SendJunk, Die, ConnectionLost,
       ClientUnchanged
  <2> QED
    BY <1>0, <1>3, <2>1 DEF HandInv
<1>23. ASSUME NEW s \in Sockets, ReadAck(s) PROVE HandInv'
  <2>1. /\ UNCHANGED <<create_ack, fd, pc, issuer, actor_connections, command,
                       to_command, dropped_sockets>>
        /\ ack[s] # <<>> /\ ack' = [ack EXCEPT ![s] = <<>>]
        /\ \A r \in Sockets : client'[r] = "idle" => client[r] = "idle"
        /\ handed' = IF command[s].type = "ADD_ACTOR" /\ Head(ack[s]).success
                     THEN handed \cup {Head(ack[s]).value} ELSE handed
    BY <1>3, <1>23 DEF ReadAck, ClientUnchanged
  <2>2. handed' \subseteq DOMAIN actor_connections
    BY <1>0, <2>1 DEF HandInv
  <2>3. \A r \in Sockets : ack'[r] = IF r = s THEN <<>> ELSE ack[r]
    BY <1>3, <2>1
  <2> QED
    BY <1>0, <1>3, <2>1, <2>2, <2>3 DEF HandInv
<1> QED
  BY <1>5, <1>6, <1>7, <1>8, <1>9, <1>10, <1>11, <1>12, <1>13, <1>14, <1>15, <1>16, <1>17,
     <1>18, <1>19, <1>20, <1>21, <1>22, <1>23
  DEF Next, CommandThread, SimGridThread, Client

----------------------------------------------------------------------------
(* The invariant *)

\* It holds when serve() enters its loop.
LEMMA SessionInit ==
    ASSUME Init PROVE SessionInv
<1>1. DOMAIN actor = {} /\ DOMAIN actor_connections = {} /\ DOMAIN to_command = {}
  BY DEF Init
<1>2. LoopInv
  BY DEF Init, LoopInv
<1>3. OutcomeInv
  BY <1>1 DEF Init, OutcomeInv, Failed, Queued
<1>4. CreationInv
  BY <1>1 DEF Init, CreationInv
<1>5. HandInv
  BY <1>1 DEF Init, HandInv
<1> QED
  BY <1>2, <1>3, <1>4, <1>5, InitInv DEF SessionInv

\* Every step of the threads and the clients keeps it.
LEMMA SessionNext ==
    ASSUME SessionInv, [Next]_vars PROVE SessionInv'
<1>1. IndInv'
  BY NextInv DEF SessionInv
<1>2. CASE Next
  BY <1>1, <1>2, LoopStep, OutcomeStep, CreationStep, HandStep DEF SessionInv
<1>3. CASE UNCHANGED vars
  <2>1. LoopInv' /\ OutcomeInv'
    BY <1>3 DEF SessionInv, LoopInv, OutcomeInv, ServerUp, Failed, Queued, FailureFirst
  <2>2. CreationInv' /\ HandInv'
    BY <1>3 DEF SessionInv, CreationInv, Creating, HandInv, Queued
  <2> QED
    BY <1>1, <2>1, <2>2 DEF SessionInv
<1> QED
  BY <1>2, <1>3

\* The queue tells failures before the end, creations come one at a time and the
\* ids on their way to clients are registered, in every reachable state.
THEOREM SessionInductive == Spec => []SessionInv
  BY SessionInit, SessionNext, PTL DEF Spec

\* A server that returns 0 after a simulation has had no failed actor: the
\* message of a failure comes before the one of the end of the simulation.
THEOREM ReturnCodeCorrect == Spec => []ReturnCodeTellsFailures
<1>1. SessionInv => ReturnCodeTellsFailures
  BY DEF SessionInv, LoopInv, OutcomeInv, Failed, ReturnCodeTellsFailures
<1> QED
  BY <1>1, SessionInductive, PTL

\* The ids clients have got from ADD_ACTOR and from Actor::create are registered.
THEOREM HandedRegistered == Spec => []HandedAreRegistered
<1>1. SessionInv => HandedAreRegistered
  BY DEF SessionInv, HandInv, HandedAreRegistered
<1> QED
  BY <1>1, SessionInductive, PTL

\* After a KILL the loop ends: no client is accepted and no actor connected.
THEOREM KillFinal == Spec => KilledIsFinal
<1> DEFINE A == state = "KILLED" =>
                  /\ state' \in {"KILLED", "SIMULATION_FINISHED"}
                  /\ \A s \in Sockets : fd[s] = "none" => fd'[s] = "none"
                  /\ nb_connected_actors' = nb_connected_actors
<1>1. SessionInv /\ [Next]_vars => [A]_vars
  <2> SUFFICES ASSUME SessionInv, Next, state = "KILLED" PROVE A
    BY DEF A
  <2>0. /\ pc # "select" /\ IndInv /\ HandInv
        /\ fd \in [Sockets -> {"none", "open", "closed"}]
    BY DEF SessionInv, LoopInv, IndInv, TypeOK, TcpTypeOK
  <2>1. CASE WaitAnyReadableFails \/ SignalCaught \/ AcceptClient \/ WaitAnyReadable
    BY <2>0, <2>1 DEF WaitAnyReadableFails, SignalCaught, AcceptClient, WaitAnyReadable,
       Selected
  <2>2. CASE WriteAck \/ Settle \/ EndTraverse \/ EndDropped \/ PopNothing \/ PopFinished
             \/ PopAborted \/ PopActorQuit \/ PopActorCreate \/ RaiseSignal
    BY <2>2 DEF WriteAck, Settle, EndTraverse, EndDropped, PopNothing, PopFinished,
       PopAborted, PopActorQuit, PopActorCreate, RaiseSignal
  <2>3. CASE CloseAndReturn
    <3>1. \A s \in barely_connected_sockets \cup dropped_sockets : fd[s] # "none"
      BY <2>0 DEF IndInv, SocketInv, HandInv, TypeOK, FilingTypeOK
    <3> QED
      BY <2>0, <2>3, <3>1 DEF CloseAndReturn, CloseOpenSockets
  <2>4. ASSUME NEW s \in Sockets, \/ ReadEof(s) \/ HandleAddActor(s) \/ HandleStart(s)
                                  \/ HandleKill(s) \/ HandleStatus(s) \/ HandleConnect(s)
                                  \/ HandleUnset(s)
        PROVE  A
    BY <2>4 DEF ReadEof, HandleAddActor, HandleStart, StartAllowed, HandleKill, HandleStatus,
       HandleConnect, HandleUnset, CommandUnchanged
  <2>5. ASSUME NEW s \in Sockets, ReadDropped(s) PROVE A
    BY <2>0, <2>5 DEF ReadDropped, HandInv
  <2>6. CASE SimGridThread
    <3>1. ASSUME NEW i \in DOMAIN actor, ActorReadFails(i) PROVE A
      <4>1. SocketOf(i) \in Sockets /\ fd[SocketOf(i)] # "none"
        BY <2>0, <3>1, SocketOfType DEF ActorReadFails, IndInv, ActorInv, SocketInv
      <4> QED
        BY <2>0, <3>1, <4>1 DEF ActorReadFails
    <3> QED
      BY <2>6, <3>1 DEF SimGridThread, StartSimulation, MaestroAbort, MaestroRun,
         SimulationEnds, ActorQuit, ActorFails, ActorCreate, ActorCreateAck, ActorConnected
  <2>7. ASSUME NEW s \in Sockets, Client(s) PROVE A
    BY <2>7 DEF Client, ClientConnect, SendCommand, ReadAck, CloseConnection, SendQuit,
       SendJunk, Die, ConnectionLost, ClientUnchanged
  <2> QED
    BY <2>1, <2>2, <2>3, <2>4, <2>5, <2>6, <2>7 DEF Next, CommandThread
<1> QED
  BY <1>1, SessionInductive, PTL DEF Spec, KilledIsFinal

----------------------------------------------------------------------------
(* The server implements Session *)

\* What the life cycle does not see.
LEMMA Stutter ==
    ASSUME UNCHANGED <<state, return_code, actor_connections>>, Process' = Process,
           Simulation' = Simulation, Failed' <=> Failed
    PROVE  UNCHANGED Life!vars
<1>1. Failed' = Failed
  BY DEF Failed
<1> QED
  BY <1>1 DEF Life!vars, Connected

\* serve() starts as a session does.
LEMMA LifeInit ==
    ASSUME Init PROVE Life!Init
<1>1. DOMAIN actor_connections = {} /\ DOMAIN actor = {} /\ sim = "off"
  BY DEF Init
<1>2. Process = "up" /\ Simulation = "off"
  BY <1>1 DEF Init, Process, Simulation, ServerUp
<1>3. Failed = FALSE
  BY <1>1 DEF Failed
<1> QED
  BY <1>1, <1>2, <1>3 DEF Init, Life!Init

\* The sessions count actors as the server does.
LEMMA LifeCardinality ==
    \A S : Life!Cardinality(S) = Cardinality(S)
  BY DEF Life!Cardinality, Cardinality

\* The simulation as the life cycle sees it.
LEMMA SimulationFacts ==
    ASSUME IndInv
    PROVE  /\ Simulation = "off" <=> sim = "off"
           /\ Simulation = "over" <=> sim = "done"
           /\ Simulation = "on" <=> sim \in {"launched", "maestro", "running"}
  BY DEF IndInv, TypeOK, SimTypeOK, SimState, Simulation

\* A step that leaves the state of the session alone is not seen, or ends the
\* process with an abort.
LEMMA QuietLife ==
    ASSUME SessionInv, UNCHANGED <<state, return_code, actor_connections, simVars>>,
           \/ pc' = pc
           \/ ServerUp /\ (ServerUp' \/ pc' = "aborted")
    PROVE  [Life!Next]_(Life!vars)
<1>1. Simulation' = Simulation /\ (Failed' <=> Failed)
  BY DEF Simulation, Failed
<1>2. CASE pc' = pc \/ (ServerUp /\ ServerUp')
  <2>1. Process' = Process
    BY <1>2 DEF Process, ServerUp
  <2> QED
    BY <1>1, <2>1, Stutter
<1>3. CASE pc' = "aborted" /\ ServerUp
  <2>1. Process = "up" /\ Process' = "aborted"
    BY <1>3 DEF Process, ServerUp
  <2>2. UNCHANGED Failed
    BY <1>1 DEF Failed
  <2>3. Life!Abort
    BY <1>1, <2>1, <2>2 DEF Life!Abort, Connected
  <2> QED
    BY <2>1, <2>3 DEF Life!Next
<1> QED
  BY <1>2, <1>3

\* Commands and the steps of the loop that change nothing of the session.
LEMMA ThreadLife ==
    ASSUME SessionInv,
           \/ WaitAnyReadableFails \/ AcceptClient \/ WaitAnyReadable \/ WriteAck \/ Settle
           \/ EndTraverse \/ EndDropped \/ PopNothing \/ PopActorQuit \/ RaiseSignal
           \/ \E s \in Sockets : \/ ReadEof(s) \/ HandleStatus(s) \/ HandleUnset(s)
                                 \/ ReadDropped(s) \/ Client(s)
    PROVE  [Life!Next]_(Life!vars)
<1>1. CASE \/ WaitAnyReadableFails \/ AcceptClient \/ WaitAnyReadable \/ WriteAck \/ Settle
           \/ EndTraverse \/ EndDropped \/ PopNothing \/ PopActorQuit \/ RaiseSignal
  <2>1. /\ UNCHANGED <<state, return_code, actor_connections, simVars>>
        /\ (ServerUp /\ ServerUp') \/ (ServerUp /\ pc' = "aborted") \/ pc' = pc
    BY <1>1 DEF WaitAnyReadableFails, AcceptClient, WaitAnyReadable, WriteAck, Settle,
       EndTraverse, EndDropped, PopNothing, PopActorQuit, RaiseSignal, Throw, LoopAgain,
       Selected, Popped, ServerUp
  <2> QED
    BY <2>1, QuietLife DEF ServerUp
<1>2. ASSUME NEW s \in Sockets, \/ ReadEof(s) \/ HandleStatus(s) \/ HandleUnset(s)
                                \/ ReadDropped(s) \/ Client(s)
      PROVE  [Life!Next]_(Life!vars)
  <2>1. /\ UNCHANGED <<state, return_code, actor_connections, simVars>>
        /\ (ServerUp /\ ServerUp') \/ (ServerUp /\ pc' = "aborted") \/ pc' = pc
    BY <1>2 DEF ReadEof, HandleStatus, HandleUnset, Received, Readable, CommandUnchanged,
       Reply, Throw, ReadDropped, Client, ClientConnect, SendCommand, ReadAck, CloseConnection,
       SendQuit, SendJunk, Die, ConnectionLost, ClientUnchanged, ServerUp
  <2> QED
    BY <2>1, QuietLife DEF ServerUp
<1> QED
  BY <1>1, <1>2

\* The ways out of the loop.
LEMMA ReturnLife ==
    ASSUME SessionInv, SignalCaught \/ CloseAndReturn PROVE [Life!Next]_(Life!vars)
<1>1. /\ UNCHANGED <<state, actor_connections, simVars>> /\ ServerUp /\ Process = "up"
      /\ SignalCaught \/ state \in {"SIMULATION_FINISHED", "KILLED"}
  BY DEF SignalCaught, CloseAndReturn, SessionInv, LoopInv, Selected, ServerUp, Process
<1>2. CASE pc' = "aborted"
  <2>1. UNCHANGED return_code
    BY <1>2 DEF SignalCaught, CloseAndReturn, CloseOpenSockets
  <2> QED
    BY <1>1, <1>2, <2>1, QuietLife
<1>3. CASE pc' # "aborted"
  <2>1. Process' = "returned" /\ return_code' = IF SignalCaught THEN 1 ELSE return_code
    BY <1>3 DEF SignalCaught, CloseAndReturn, CloseOpenSockets, Throw, Process, ServerUp,
       Selected
  <2>2. Simulation' = Simulation /\ UNCHANGED Failed
    BY <1>1 DEF Simulation, Failed
  <2>3. CASE SignalCaught
    <3>1. Life!Interrupt
      BY <1>1, <2>1, <2>2, <2>3 DEF Life!Interrupt, Connected
    <3> QED
      BY <1>1, <3>1 DEF Life!Next
  <2>4. CASE ~SignalCaught
    <3>1. Life!Return
      BY <1>1, <2>1, <2>2, <2>4 DEF Life!Return, Connected
    <3> QED
      BY <1>1, <3>1 DEF Life!Next
  <2> QED
    BY <2>3, <2>4
<1> QED
  BY <1>2, <1>3

\* ADD_ACTOR and ACTOR_CREATE register the actor with the next id.
LEMMA RegisterLife ==
    ASSUME SessionInv, NEW new, new.socket = NoSocket,
           NbActors + 2 \notin DOMAIN actor_connections,
           actor_connections' = Put(actor_connections, NbActors + 2, new),
           UNCHANGED <<state, return_code, simVars>>, ServerUp, ServerUp',
           state = "ACCEPTING_NEW_ACTORS" \/ Simulation = "on"
    PROVE  [Life!Next]_(Life!vars)
<1>1. Process = "up" /\ UNCHANGED <<Process, Simulation>> /\ UNCHANGED Failed
  BY DEF Process, Simulation, Failed, ServerUp
<1>2. /\ DOMAIN actor_connections' = DOMAIN actor_connections \cup {NbActors + 2}
      /\ \A i \in DOMAIN actor_connections : actor_connections'[i] = actor_connections[i]
      /\ actor_connections'[NbActors + 2] = new
  BY DEF Put
<1>3. {i \in DOMAIN actor_connections' : Connected(i)'} = {i \in DOMAIN actor_connections : Connected(i)}
  BY <1>2 DEF Connected
<1>4. Life!Register
  BY <1>1, <1>2, <1>3, LifeCardinality DEF Life!Register, NbActors, Connected
<1> QED
  BY <1>1, <1>4 DEF Life!Next, Life!AddActor, Life!CreateActor

\* ADD_ACTOR.
LEMMA AddActorLife ==
    ASSUME SessionInv, NEW s \in Sockets, HandleAddActor(s) PROVE [Life!Next]_(Life!vars)
<1>1. /\ ServerUp /\ UNCHANGED <<state, return_code, simVars>>
      /\ pc' \in {"ack", "aborted"}
  BY DEF HandleAddActor, Received, Readable, CommandUnchanged, Reply, Throw, ServerUp
<1>2. CASE UNCHANGED actor_connections
  BY <1>1, <1>2, QuietLife DEF ServerUp
<1>3. CASE ~UNCHANGED actor_connections
  <2> DEFINE new == [socket |-> NoSocket, connect_ack |-> FALSE, host |-> command[s].host]
  <2>1. /\ state = "ACCEPTING_NEW_ACTORS" /\ pc' = "ack"
        /\ actor_connections' = Put(actor_connections, NbActors + 2, new)
    BY <1>3 DEF HandleAddActor, Reply
  <2>2. NbActors + 2 \notin DOMAIN actor_connections
    BY <2>1, FreshId DEF SessionInv
  <2>3. new.socket = NoSocket
    OBVIOUS
  <2> HIDE DEF new
  <2> QED
    BY <1>1, <2>1, <2>2, <2>3, RegisterLife DEF ServerUp
<1> QED
  BY <1>2, <1>3

\* ACTOR_CREATE: the pid SimGrid gave to the actor is the next id.
LEMMA CreateLife ==
    ASSUME SessionInv, PopActorCreate PROVE [Life!Next]_(Life!vars)
<1>0. IndInv /\ CreationInv
  BY DEF SessionInv
<1> DEFINE id == Head(to_command).id
           new == [socket |-> NoSocket, connect_ack |-> TRUE, host |-> TRUE]
<1>1. /\ to_command # <<>> /\ to_command \in Seq(InterthreadMessage)
      /\ 1 \in DOMAIN to_command /\ Head(to_command) = to_command[1]
      /\ to_command[1].type = "ACTOR_CREATE"
  BY <1>0 DEF PopActorCreate, Popped, IndInv, TypeOK, QueueTypeOK
<1>2. /\ Creating /\ id = next_pid - 1 /\ DOMAIN actor_connections = 2 .. next_pid - 2
      /\ next_pid \in Nat
  BY <1>0, <1>1 DEF CreationInv, Creating, Queued, IndInv, TypeOK, SimTypeOK
<1>3. section \in 2 .. next_pid - 2
  BY <1>0, <1>2 DEF IndInv, ActorInv, Creating
<1>4. NbActors = next_pid - 3
  <2>1. Cardinality(2 .. next_pid - 2) = (next_pid - 2) - 2 + 1
    BY <1>2, <1>3, FS_Interval
  <2> QED
    BY <1>2, <2>1 DEF NbActors
<1>5. id = NbActors + 2 /\ id \notin DOMAIN actor_connections
  BY <1>2, <1>4
<1>6. /\ actor_connections' = Put(actor_connections, NbActors + 2, new)
      /\ UNCHANGED <<state, return_code, simVars>> /\ ServerUp /\ ServerUp'
  BY <1>5 DEF PopActorCreate, Popped, LoopAgain, ServerUp
<1>7. Simulation = "on" /\ new.socket = NoSocket
  BY <1>0, <1>2, SimulationFacts DEF Creating
<1> HIDE DEF new, id
<1> QED
  BY <1>5, <1>6, <1>7, RegisterLife

\* START: the counter says whether every actor is connected.
LEMMA StartLife ==
    ASSUME SessionInv, NEW s \in Sockets, HandleStart(s) PROVE [Life!Next]_(Life!vars)
<1> DEFINE D == DOMAIN actor_connections
           P == {i \in D : Connected(i)}
<1>0. IndInv
  BY DEF SessionInv
<1>1. /\ ServerUp /\ UNCHANGED <<return_code, actor_connections, actor>>
      /\ pc' \in {"ack", "aborted"}
  BY DEF HandleStart, Received, Readable, CommandUnchanged, Reply, Throw, ServerUp
<1>2. CASE ~StartAllowed
  <2>1. UNCHANGED <<state, simVars>> /\ pc' = "aborted"
    BY <1>2 DEF HandleStart, CommandUnchanged, Throw
  <2> QED
    BY <1>1, <2>1, QuietLife
<1>3. CASE StartAllowed
  <2>1. state = "ACCEPTING_NEW_ACTORS" /\ sim = "off" /\ pc' = "ack" /\ DOMAIN actor = {}
    BY <1>0, <1>3 DEF StartAllowed, HandleStart, Reply, IndInv, LifecycleInv, ActorInv
  <2>2. Process = "up" /\ Process' = "up"
    BY <1>1, <2>1 DEF Process, ServerUp
  <2>3. P = D <=> AllConnected(nb_connected_actors, actor_connections)
    BY <1>0, EverybodyConnected DEF IndInv, RegistryInv, ConnectedCount, AllConnected
  <2>4. sim' \in {"off", "launched"}
    BY <1>3, <2>1 DEF HandleStart, StartSimulationInAnotherThread
  <2>5. UNCHANGED Failed
    BY <1>1, <2>1, <2>4 DEF Failed
  <2>6. {i \in DOMAIN actor_connections' : Connected(i)'} = P
    BY <1>1 DEF Connected
  <2>7. CASE P = D
    <3>1. state' = "SIMULATION_RUNNING" /\ sim' = "launched"
      BY <1>3, <2>3, <2>7 DEF HandleStart, StartSimulationInAnotherThread
    <3>2. Simulation' = "on"
      BY <3>1 DEF Simulation
    <3>3. Life!Start
      BY <1>1, <2>1, <2>2, <2>5, <2>6, <2>7, <3>1, <3>2 DEF Life!Start, Life!Launch
    <3> QED
      BY <2>2, <3>3 DEF Life!Next
  <2>8. CASE P # D
    <3>1. state' = "WAITING_FOR_ALL_ACTORS_CONNECTION" /\ sim' = sim
      BY <1>3, <2>3, <2>8 DEF HandleStart
    <3>2. Simulation' = Simulation
      BY <3>1 DEF Simulation
    <3>3. Life!Start
      BY <1>1, <2>1, <2>2, <2>5, <2>6, <2>8, <3>1, <3>2 DEF Life!Start
    <3> QED
      BY <2>2, <3>3 DEF Life!Next
  <2> QED
    BY <2>7, <2>8
<1> QED
  BY <1>2, <1>3

\* CONNECT: the last actor launches the simulation that has been asked for.
LEMMA ConnectLife ==
    ASSUME SessionInv, NEW s \in Sockets, HandleConnect(s) PROVE [Life!Next]_(Life!vars)
<1> DEFINE D == DOMAIN actor_connections
           P == {i \in D : Connected(i)}
           id == command[s].id
<1>0. IndInv
  BY DEF SessionInv
<1>1. /\ ServerUp /\ UNCHANGED <<return_code, actor>> /\ pc' \in {"ack", "aborted"}
  BY DEF HandleConnect, ConnectActor, Received, Readable, CommandUnchanged, Reply, Throw,
     ServerUp
<1>2. CASE state = "KILLED" \/ ConnectError(id) # "none"
  <2>1. UNCHANGED <<state, actor_connections, simVars>>
    BY <1>2 DEF HandleConnect, CommandUnchanged
  <2> QED
    BY <1>1, <2>1, QuietLife DEF ServerUp
<1>3. CASE state # "KILLED" /\ ConnectError(id) = "none"
  <2>1. ConnectActor(s, id) /\ pc' = "ack" /\ state # "SIMULATION_FINISHED"
    BY <1>3 DEF HandleConnect, ConnectActor, Reply, ConnectError
  <2>2. Process = "up" /\ Process' = "up"
    BY <1>1, <2>1 DEF Process, ServerUp
  <2>3. /\ id \in D /\ ~Connected(id) /\ DOMAIN actor_connections' = D
        /\ {i \in DOMAIN actor_connections' : Connected(i)'} = P \cup {id}
    BY <1>0, <1>3, <2>1, ConnectEffect
  <2>4. AllConnected(nb_connected_actors', actor_connections') <=> P \cup {id} = D
    <3>1. ConnectedCount' /\ IsFiniteSet(DOMAIN actor_connections')
      BY <1>0, <1>3, <2>1, ConnectCount
    <3>2. nb_connected_actors' = Cardinality(P \cup {id})
      BY <2>3, <3>1 DEF ConnectedCount
    <3>3. AllConnected(nb_connected_actors', actor_connections') =>
            \A i \in DOMAIN actor_connections' : Connected(i)'
      BY <1>0, <1>3, <2>1, LastConnect
    <3> QED
      BY <2>3, <3>2, <3>3 DEF AllConnected
  <2> DEFINE last == state = "WAITING_FOR_ALL_ACTORS_CONNECTION" /\ P \cup {id} = D
  <2>5. CASE last
    <3>1. state' = "SIMULATION_RUNNING" /\ sim' = "launched" /\ sim = "off" /\ DOMAIN actor = {}
      BY <1>0, <2>1, <2>4, <2>5 DEF ConnectActor, StartSimulationInAnotherThread, IndInv,
         LifecycleInv, ActorInv
    <3>2. Simulation' = "on" /\ UNCHANGED Failed
      BY <1>1, <3>1 DEF Simulation, Failed
    <3>3. Life!Connect(id)
      BY <1>1, <1>3, <2>1, <2>2, <2>3, <2>5, <3>1, <3>2 DEF Life!Connect, Life!Launch
    <3> QED
      BY <2>2, <2>3, <3>3 DEF Life!Next
  <2>6. CASE ~last
    <3>1. UNCHANGED <<state, sim, initial>>
      BY <2>1, <2>4, <2>6 DEF ConnectActor
    <3>2. UNCHANGED Simulation /\ UNCHANGED Failed
      BY <1>1, <3>1 DEF Simulation, Failed
    <3>3. Life!Connect(id)
      BY <1>1, <1>3, <2>1, <2>2, <2>3, <2>6, <3>1, <3>2 DEF Life!Connect, Life!DoNotLaunch
    <3> QED
      BY <2>2, <2>3, <3>3 DEF Life!Next
  <2> QED
    BY <2>5, <2>6
<1> QED
  BY <1>2, <1>3

\* KILL.
LEMMA KillLife ==
    ASSUME SessionInv, NEW s \in Sockets, HandleKill(s) PROVE [Life!Next]_(Life!vars)
<1>1. /\ ServerUp /\ ServerUp' /\ UNCHANGED <<return_code, actor_connections, simVars>>
      /\ state' = "KILLED"
  BY DEF HandleKill, Received, Readable, CommandUnchanged, Reply, ServerUp
<1>2. /\ Process = "up" /\ Process' = "up" /\ UNCHANGED Simulation
      /\ UNCHANGED Failed
  BY <1>1 DEF Process, Simulation, Failed
<1>3. Life!Kill
  BY <1>1, <1>2 DEF Life!Kill, Connected
<1> QED
  BY <1>2, <1>3 DEF Life!Next

\* The command thread learns how the simulation ended.
LEMMA FinishLife ==
    ASSUME SessionInv, PopFinished \/ PopAborted PROVE [Life!Next]_(Life!vars)
<1>0. IndInv /\ OutcomeInv /\ LoopInv
  BY DEF SessionInv
<1>1. /\ ServerUp /\ ServerUp' /\ UNCHANGED <<actor_connections, simVars>>
      /\ state' = "SIMULATION_FINISHED" /\ pc = "pop"
  BY DEF PopFinished, PopAborted, Popped, LoopAgain, ServerUp
<1>2. /\ Process = "up" /\ Process' = "up" /\ UNCHANGED Simulation
      /\ UNCHANGED Failed
  BY <1>1 DEF Process, Simulation, Failed
<1>3. state # "SIMULATION_FINISHED" /\ return_code = 0
  BY <1>0, <1>1 DEF IndInv, LifecycleInv, LoopInv, TypeOK, ThreadTypeOK
<1>4. CASE PopFinished
  <2>1. Queued("SIMULATION_FINISHED") /\ ~FailureFirst /\ return_code' = 0
    BY <1>0, <1>3, <1>4, PopFacts DEF PopFinished
  <2>2. sim = "done" /\ ~Failed
    BY <1>0, <1>3, <2>1 DEF OutcomeInv
  <2>3. Simulation = "over"
    BY <2>2 DEF Simulation
  <2>4. Life!Finish
    BY <1>1, <1>2, <2>1, <2>2, <2>3 DEF Life!Finish, Connected
  <2> QED
    BY <1>2, <2>4 DEF Life!Next
<1>5. CASE PopAborted
  <2>1. Queued("SIMULATION_ABORTED") /\ return_code' = 1
    BY <1>0, <1>5, PopFacts DEF PopAborted
  <2>2. Failed
    BY <1>0, <2>1 DEF OutcomeInv
  <2>3. Life!Finish
    BY <1>1, <1>2, <2>1, <2>2 DEF Life!Finish, Connected
  <2> QED
    BY <1>2, <2>3 DEF Life!Next
<1> QED
  BY <1>4, <1>5

\* The SimGrid thread: launch, end and failures.
LEMMA SimLife ==
    ASSUME SessionInv, SimGridThread PROVE [Life!Next]_(Life!vars)
<1>0. IndInv /\ OutcomeInv /\ CreationInv
  BY DEF SessionInv
<1>1. ServerUp /\ UNCHANGED <<state, return_code, actor_connections>>
  BY DEF SimGridThread, StartSimulation, MaestroAbort, MaestroRun, SimulationEnds, SimStep,
     ActorQuit, ActorReadFails, ActorFails, ActorCreate, ActorCreateAck, ActorConnected
<1>2. Process = "up"
  BY <1>1 DEF Process
<1>3. ASSUME UNCHANGED pc PROVE Process' = "up"
  BY <1>1, <1>3 DEF Process, ServerUp
<1>4. CASE StartSimulation
  <2>1. ConsecutiveIds(initial)
    BY <1>0, <1>4 DEF StartSimulation, IndInv, LaunchInv
  <2>2. sim = "launched" /\ sim' = "maestro" /\ UNCHANGED <<pc, actor>>
    BY <1>4, <2>1 DEF StartSimulation
  <2>3. UNCHANGED Simulation /\ (Failed' <=> Failed)
    BY <2>2 DEF Simulation, Failed
  <2> QED
    BY <1>1, <1>2, <1>3, <2>2, <2>3, Stutter
<1>5. CASE MaestroAbort
  <2>1. /\ sim = "maestro" /\ sim' = "done" /\ UNCHANGED <<pc, actor, initial>> /\ initial # {}
        /\ DOMAIN actor = {}
    BY <1>0, <1>5 DEF MaestroAbort, IndInv, ActorInv
  <2>2. Simulation = "on" /\ Simulation' = "over" /\ Failed'
    BY <2>1 DEF Simulation, Failed
  <2>3. {i \in DOMAIN actor_connections : Connected(i)} = DOMAIN actor_connections
    BY <1>0, <2>1 DEF IndInv, LaunchInv
  <2>4. Life!SimulationEnds
    BY <1>1, <1>2, <1>3, <2>1, <2>2, <2>3 DEF Life!SimulationEnds, Connected
  <2> QED
    BY <1>2, <2>4 DEF Life!Next
<1>6. CASE MaestroRun
  <2>1. /\ sim = "maestro" /\ sim' = "running" /\ UNCHANGED <<pc, initial>>
        /\ DOMAIN actor = {} /\ \A i \in DOMAIN actor' : actor'[i] = "running"
    BY <1>0, <1>6 DEF MaestroRun, IndInv, ActorInv
  <2>2. UNCHANGED Simulation /\ (Failed' <=> Failed)
    BY <2>1 DEF Simulation, Failed
  <2> QED
    BY <1>1, <1>2, <1>3, <2>1, <2>2, Stutter
<1>7. CASE SimulationEnds
  <2>1. sim = "running" /\ sim' = "done" /\ UNCHANGED <<pc, actor, initial>>
    BY <1>7 DEF SimulationEnds, SimStep
  <2>2. Simulation = "on" /\ Simulation' = "over" /\ UNCHANGED Failed
    BY <1>0, <2>1 DEF Simulation, Failed, OutcomeInv
  <2>3. Life!SimulationEnds
    BY <1>1, <1>2, <1>3, <2>1, <2>2 DEF Life!SimulationEnds, Connected
  <2> QED
    BY <1>2, <2>3 DEF Life!Next
<1>8. ASSUME NEW i \in DOMAIN actor, ActorFails(i) PROVE [Life!Next]_(Life!vars)
  <2>1. /\ actor[i] = "failing" /\ UNCHANGED <<pc, sim, initial>>
        /\ actor' = [actor EXCEPT ![i] = "failed"]
    BY <1>8 DEF ActorFails
  <2>2. sim \in {"launched", "maestro", "running"} /\ Failed'
    BY <1>0, <2>1 DEF OutcomeInv, IndInv, ActorInv, TypeOK, SimTypeOK, SimState, Failed
  <2>3. Simulation = "on" /\ UNCHANGED Simulation
    BY <2>1, <2>2 DEF Simulation
  <2>4. Life!ActorFails
    BY <1>1, <1>2, <1>3, <2>1, <2>2, <2>3 DEF Life!ActorFails, Connected
  <2> QED
    BY <1>2, <2>4 DEF Life!Next
<1>9. ASSUME NEW i \in DOMAIN actor, \/ ActorQuit(i) \/ ActorReadFails(i) \/ ActorCreate(i)
                                     \/ ActorCreateAck(i) \/ ActorConnected(i)
      PROVE  [Life!Next]_(Life!vars)
  <2>1. UNCHANGED <<pc, sim, initial>>
    BY <1>9 DEF ActorQuit, ActorReadFails, ActorCreate, ActorCreateAck, ActorConnected
  <2>2. sim # "done" \/ UNCHANGED actor
    BY <1>9 DEF ActorQuit, ActorReadFails, ActorCreate, ActorCreateAck, ActorConnected, SimStep
  <2>3. next_pid \notin DOMAIN actor
    BY <1>0 DEF CreationInv, IndInv, TypeOK, SimTypeOK
  <2>4. /\ \A j \in DOMAIN actor' : actor'[j] = "failed" => j \in DOMAIN actor /\ actor[j] = "failed"
        /\ \A j \in DOMAIN actor : actor[j] = "failed" => j \in DOMAIN actor' /\ actor'[j] = "failed"
    BY <1>9, <2>3 DEF ActorQuit, ActorReadFails, ActorCreate, ActorCreateAck, ActorConnected, Put
  <2>5. UNCHANGED Simulation /\ (Failed' <=> Failed)
    BY <2>1, <2>2, <2>4 DEF Simulation, Failed
  <2> QED
    BY <1>1, <1>2, <1>3, <2>1, <2>5, Stutter
<1> QED
  BY <1>4, <1>5, <1>6, <1>7, <1>8, <1>9 DEF SimGridThread

\* Two threads, their queues and the TCP connections implement the life cycle of
\* a session: ids are given in order, a simulation is launched once and when it is
\* complete, and the return code is the one of the simulation.
THEOREM SessionImplemented == Spec => ImplementsSession
<1>1. Init => Life!Init
  BY LifeInit
<1>2. SessionInv /\ [Next]_vars => [Life!Next]_(Life!vars)
  <2> SUFFICES ASSUME SessionInv, [Next]_vars PROVE [Life!Next]_(Life!vars)
    OBVIOUS
  <2>1. CASE UNCHANGED vars
    BY <2>1, QuietLife
  <2>2. CASE Next
    BY <2>2, ThreadLife, ReturnLife, AddActorLife, CreateLife, StartLife, ConnectLife,
       KillLife, FinishLife, SimLife DEF Next, CommandThread
  <2> QED
    BY <2>1, <2>2
<1> QED
  BY <1>1, <1>2, SessionInductive, PTL DEF Spec, ImplementsSession, Life!Spec
=============================================================================
