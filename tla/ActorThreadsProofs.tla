------------------------ MODULE ActorThreadsProofs ------------------------
(***************************************************************************)
(* Proofs about actors and the threads that play them, for any number of   *)
(* processes, actors and decisions, and a server that may disappear:       *)
(* TypeOK, MutualExclusion, ConnectIsExpected and ClockFrozen.             *)
(*                                                                         *)
(* The argument: a thread in user code belongs to the simulated actor that *)
(* has the SimGrid thread, or is the new thread this actor's client has    *)
(* just started and waits for, or is alone in its process because the      *)
(* simulation has not reached its actor yet.                               *)
(***************************************************************************)
EXTENDS ActorThreads, SubsequencesProofs, WellFoundedInduction

\* Where a simulated actor is before it has handled the decision it is sent.
Unread == {"born", "await_connect", "read", "thought"}

\* Threads that have not taken a decision of their own yet.
Newborn == {"absent", "hook", "connecting", "accepted", "connected", "posted", "yielding"}

\* The creations under way fit in.
BoundInv == nb + PendingCreations <= MaxActors

\* A client thread, its connection and its simulated actor agree.
Agree(i) ==
    /\ thread[i] = "absent" => wire[i] = "nothing" /\ pc[i] \in {"absent", "born", "await_connect"}
    /\ thread[i] \in {"hook", "connecting"} =>
         wire[i] = "nothing" /\ pc[i] \in {"born", "await_connect"}
    /\ thread[i] \in {"accepted", "connected", "posted", "user"} =>
         wire[i] = "nothing" /\ pc[i] \in {"born", "await_connect", "read"}
    /\ thread[i] = "sem" => wire[i] = "nothing" /\ pc[i] = "read"
    /\ thread[i] \in {"waiting", "yielding"} =>
         \/ wire[i] \in {"get", "yield", "sleep", "join", "join_for"} /\ pc[i] \in Unread
         \/ wire[i] = "nothing" /\ pc[i] = "reply"
         \/ wire[i] = "reply" /\ pc[i] = "read"
    /\ thread[i] \in {"creating", "forking"} =>
         \/ wire[i] \in {"create", "fork"} /\ pc[i] \in Unread
         \/ wire[i] = "nothing" /\ pc[i] \in {"created", "create_wait"}
         \/ wire[i] = "reply" /\ pc[i] = "read"
    /\ thread[i] \in {"joining", "after", "gone"} =>
         \/ wire[i] = "quit" /\ pc[i] \in Unread \ {"thought"}
         \/ wire[i] = "nothing" /\ pc[i] = "over"

AgreeInv ==
    \A i \in Actors : Agree(i) /\ (pc[i] = "absent" <=> i > nb)

\* Every simulated actor is in one place: it runs, is to run, or is blocked.
PlaceInv ==
    /\ Distinct(ready)
    /\ current \notin Elements(ready)
    /\ \A i \in Actors :
         /\ i \in Elements(ready) \/ current = i =>
              i \notin asleep /\ target[i] = NoPid /\ pc[i] \notin {"absent", "over"}
         /\ i \in asleep \/ target[i] # NoPid => pc[i] \in {"reply", "thought"}
         /\ pc[i] \in {"born", "await_connect", "read", "created", "create_wait"} =>
              i \in Elements(ready) \/ current = i

\* The process of i has no other thread.
Alone(i) == process[i] = i /\ \A j \in Actors : process[j] = i => j = i

\* Who has the SimGrid thread.
TurnInv ==
    \A i \in Actors :
        /\ wire[i] = "reply" \/ thread[i] = "sem" \/ pc[i] = "create_wait" => current = i
        /\ pc[i] = "read" => current = i \/ Alone(i)
        /\ pc[i] \in {"born", "await_connect"} =>
             Alone(i) \/ (process[i] # i /\ thread[i] \in Newborn)

\* An actor nobody plays yet has no relatives.
AbsentInv ==
    \A c \in Actors : thread[c] = "absent" =>
        Alone(c) /\ parent[c] = NoPid /\ \A j \in Actors : parent[j] # c

\* Parents and children, threads and processes: a thread started by another one
\* is in its process, outlived by it, and keeps it waiting until it has connected.
Joined(c) ==
    process[c] # c =>
        /\ parent[c] \in Actors /\ process[parent[c]] = process[c]
        /\ thread[c] # "gone" => thread[parent[c]] \notin {"after", "gone"}
        /\ thread[c] \in {"hook", "connecting", "accepted", "connected"} =>
             thread[parent[c]] = "sem" /\ child[parent[c]] = c

FamilyInv ==
    \A c \in Actors :
        /\ parent[c] < c /\ Joined(c)
        /\ thread[c] \in {"hook", "connected"} => process[c] # c
        /\ thread[c] = "after" => process[c] = c

\* The creation of an actor, from its simulated actor to its client.
Creating(i) == thread[i] \in {"creating", "forking"} /\ wire[i] \in {"nothing", "reply"}

CreationInv ==
    /\ \A i \in Actors : Creating(i) =>
         /\ child[i] \in Actors /\ i < child[i] /\ child[i] <= nb
         /\ thread[child[i]] = "absent"
         /\ wire[i] = "reply" => child[i] \in registered
         /\ \A j \in Actors : Creating(j) /\ child[j] = child[i] => j = i
    /\ \A c \in Actors : thread[c] \in {"hook", "connecting"} => c \in registered
    /\ create_ack \subseteq registered
    /\ \A c \in connect_ack : thread[c] \notin {"absent", "hook", "connecting"}

UpInv == AgreeInv /\ PlaceInv /\ TurnInv /\ AbsentInv /\ FamilyInv /\ CreationInv

IndInv == TypeOK /\ BoundInv /\ (server = "up" => UpInv)

USE DEF familyVars, clientVars, simVars, queueVars, vars

----------------------------------------------------------------------------
(* Types *)

LEMMA TypeInit == Init => TypeOK
  BY BoundsAssumption DEF Init, TypeOK, Actors, NoPid, ThreadState, ControlPoint, Decision, ThinkTimeFromEnv

\* The actor whose creation is being handled.
LEMMA CreatingChild ==
    ASSUME IndInv, server = "up", NEW i \in Actors, pc[i] \in {"created", "create_wait"}
    PROVE  Creating(i) /\ child[i] \in Actors
<1>1. Agree(i) /\ thread[i] \in ThreadState
  BY DEF IndInv, UpInv, AgreeInv, TypeOK
<1>2. Creating(i)
  BY <1>1 DEF Agree, Creating, Unread, ThreadState
<1> QED
  BY <1>2 DEF IndInv, UpInv, CreationInv

\* The creations on their way.
Creations == {j \in Actors : wire[j] \in {"create", "fork"}}

LEMMA CreationsFinite ==
    /\ IsFiniteSet(Creations) /\ Cardinality(Creations) \in Nat
    /\ IsFiniteSet(Creations)' /\ Cardinality(Creations)' \in Nat
<1>1. IsFiniteSet(Actors)
  BY BoundsAssumption, FS_Interval DEF Actors
<1>2. Creations \in SUBSET Actors /\ Creations' \in SUBSET Actors
  BY DEF Creations
<1>3. IsFiniteSet(Creations) /\ IsFiniteSet(Creations')
  BY <1>1, <1>2, FS_Subset
<1> QED
  BY <1>3, FS_CardinalityType

\* A creation that is handled has been counted.
LEMMA CreationFits ==
    ASSUME IndInv, NEW i \in Actors, HandleCreate(i) PROVE nb + 1 \in Actors
<1>1. i \in Creations
  BY DEF HandleCreate, Reads, Creations
<1>2. Cardinality(Creations) # 0 /\ Cardinality(Creations) \in Nat
  BY <1>1, CreationsFinite, FS_EmptySet
<1>3. nb \in Nat /\ nb + Cardinality(Creations) <= MaxActors /\ MaxActors \in Nat
  BY BoundsAssumption DEF IndInv, TypeOK, BoundInv, PendingCreations, Creations
<1> QED
  BY <1>2, <1>3 DEF Actors

\* The end of a process leaves every thread in a state.
LEMMA EndProcessType ==
    ASSUME thread \in [Actors -> ThreadState], NEW i \in Actors, EndProcess(i)
    PROVE  thread' \in [Actors -> ThreadState]
<1>1. "gone" \in ThreadState
  BY DEF ThreadState
<1> QED
  BY <1>1 DEF EndProcess

\* One step per action.
LEMMA TypeNext ==
    ASSUME IndInv, Next PROVE TypeOK'
<1>0. TypeOK /\ BoundInv
  BY DEF IndInv
<1> USE <1>0
<1> USE DEF Decision, ThreadState, ControlPoint
<1>1. ASSUME NEW i \in Actors, NEW d \in Decision \ {"quit"}, SendDecision(i, d) PROVE TypeOK'
  <2>1. budget[i] \in 0 .. MaxDecisions /\ budget[i] > 0 /\ MaxDecisions \in Nat
    BY <1>1, BoundsAssumption DEF TypeOK, SendDecision
  <2>2. budget[i] - 1 \in 0 .. MaxDecisions
    BY <2>1
  <2>3. WaitState(d) \in ThreadState /\ Written(d) \in Decision \cup {"nothing"}
    BY DEF WaitState, Written
  <2> QED
    BY <1>1, <2>2, <2>3 DEF TypeOK, SendDecision
<1>2. ASSUME NEW i \in Actors, ReadFails(i) PROVE TypeOK'
  <2>1. thread' \in [Actors -> ThreadState]
    <3>1. thread \in [Actors -> ThreadState]
      BY DEF TypeOK
    <3>2. CASE EndProcess(i)
      BY <3>1, <3>2, EndProcessType
    <3>3. CASE \E x \in {"user", "joining"} : thread' = [thread EXCEPT ![i] = x]
      BY <3>1, <3>3
    <3> QED
      BY <1>2, <3>2, <3>3 DEF ReadFails
  <2> QED
    BY <1>2, <2>1 DEF TypeOK, ReadFails
<1>3. ASSUME NEW i \in Actors, ConnectFails(i) PROVE TypeOK'
  <2>1. thread' \in [Actors -> ThreadState]
    <3>1. thread \in [Actors -> ThreadState]
      BY DEF TypeOK
    <3>2. CASE EndProcess(i)
      BY <3>1, <3>2, EndProcessType
    <3>3. CASE thread' = [thread EXCEPT ![i] = "after"]
      BY <3>1, <3>3
    <3> QED
      BY <1>3, <3>2, <3>3 DEF ConnectFails
  <2> QED
    BY <1>3, <2>1 DEF TypeOK, ConnectFails
<1>4. ASSUME NEW i \in Actors, ReadReply(i) PROVE TypeOK'
  BY <1>4 DEF TypeOK, ReadReply
<1>5. ASSUME NEW i \in Actors, StartThread(i) PROVE TypeOK'
  BY <1>5 DEF TypeOK, StartThread
<1>6. ASSUME NEW i \in Actors, Fork(i) PROVE TypeOK'
  BY <1>6 DEF TypeOK, Fork
<1>7. ASSUME NEW i \in Actors, SendConnect(i) PROVE TypeOK'
  BY <1>7 DEF TypeOK, SendConnect
<1>8. ASSUME NEW i \in Actors, PostSemaphore(i) PROVE TypeOK'
  BY <1>8 DEF TypeOK, PostSemaphore
<1>9. ASSUME NEW i \in Actors, YieldFirst(i) PROVE TypeOK'
  BY <1>9 DEF TypeOK, YieldFirst, Written
<1>10. ASSUME NEW i \in Actors, Disconnect(i) PROVE TypeOK'
  BY <1>10 DEF TypeOK, Disconnect, Written
<1>11. ASSUME NEW i \in Actors, JoinChildren(i) PROVE TypeOK'
  BY <1>11 DEF TypeOK, JoinChildren
<1>12. ASSUME NEW i \in Actors, ExitProcess(i) PROVE TypeOK'
  BY <1>12 DEF TypeOK, ExitProcess
<1>13. ASSUME NEW i \in Actors, ReuseConnectedSocket(i) PROVE TypeOK'
  <2>1. budget[i] \in 0 .. MaxDecisions /\ budget[i] > 0 /\ MaxDecisions \in Nat
    BY <1>13, BoundsAssumption DEF TypeOK, ReuseConnectedSocket
  <2>2. budget[i] - 1 \in 0 .. MaxDecisions
    BY <2>1
  <2> QED
    BY <1>13, <2>2 DEF TypeOK, ReuseConnectedSocket
<1>14. ASSUME NEW i \in Actors, RegisterActor(i) PROVE TypeOK'
  BY <1>14 DEF TypeOK, RegisterActor
<1>15. ASSUME NEW i \in Actors, HandleConnect(i) PROVE TypeOK'
  BY <1>15 DEF TypeOK, HandleConnect
<1>16. ASSUME NEW i \in Actors, WriteConnectAck(i) PROVE TypeOK'
  BY <1>16 DEF TypeOK, WriteConnectAck
<1>17. ASSUME NEW i \in Actors, YieldToParent(i) PROVE TypeOK'
  BY <1>17 DEF TypeOK, YieldToParent, HasThread
<1>18. ASSUME NEW i \in Actors, AwaitConnect(i) PROVE TypeOK'
  BY <1>18 DEF TypeOK, AwaitConnect, HasThread
<1>19. ASSUME NEW i \in Actors, Think(i) PROVE TypeOK'
  BY <1>19 DEF TypeOK, Think, HasThread
<1>20. ASSUME NEW i \in Actors, HandleGet(i) PROVE TypeOK'
  BY <1>20 DEF TypeOK, HandleGet, Reads, HasThread
<1>21. ASSUME NEW i \in Actors, HandleYield(i) PROVE TypeOK'
  BY <1>21 DEF TypeOK, HandleYield, Reads, HasThread
<1>22. ASSUME NEW i \in Actors, HandleSleep(i) PROVE TypeOK'
  BY <1>22 DEF TypeOK, HandleSleep, Reads, HasThread
<1>23. ASSUME NEW i \in Actors, HandleJoin(i) PROVE TypeOK'
  <2>1. PICK c \in Actors :
               /\ wire' \in {[wire EXCEPT ![i] = "reply"], [wire EXCEPT ![i] = "nothing"]}
               /\ pc' \in {[pc EXCEPT ![i] = "read"], [pc EXCEPT ![i] = "reply"]}
               /\ target' \in {target, [target EXCEPT ![i] = c]}
               /\ asleep' \in {asleep, asleep \cup {i}} /\ current' \in {current, NoPid}
    BY <1>23 DEF HandleJoin
  <2>2. /\ wire' \in [Actors -> Decision \cup {"reply", "nothing"}]
        /\ pc' \in [Actors -> ControlPoint]
    <3>1. /\ wire \in [Actors -> Decision \cup {"reply", "nothing"}]
          /\ pc \in [Actors -> ControlPoint]
      BY DEF TypeOK
    <3>2. {"read", "reply"} \subseteq ControlPoint
      BY DEF ControlPoint
    <3> QED
      BY <2>1, <3>1, <3>2
  <2>3. target' \in [Actors -> Actors \cup {NoPid}]
    <3>1. target \in [Actors -> Actors \cup {NoPid}]
      BY DEF TypeOK
    <3> QED
      BY <2>1, <3>1
  <2>4. asleep' \subseteq Actors /\ current' \in Actors \cup {NoPid}
    BY <2>1 DEF TypeOK
  <2> QED
    BY <1>23, <2>2, <2>3, <2>4 DEF TypeOK, HandleJoin
<1>24. ASSUME NEW i \in Actors, RequestRegistration(i) PROVE TypeOK'
  <2>1. child[i] \in Actors
    BY <1>24, CreatingChild DEF RequestRegistration, HasThread
  <2> QED
    BY <1>24, <2>1 DEF TypeOK, RequestRegistration
<1>25. ASSUME NEW i \in Actors, ReplyCreate(i) PROVE TypeOK'
  BY <1>25 DEF TypeOK, ReplyCreate, HasThread
<1>26. ASSUME NEW i \in Actors, Reply(i) PROVE TypeOK'
  BY <1>26 DEF TypeOK, Reply, HasThread
<1>27. ASSUME NEW i \in Actors, HandleQuit(i) PROVE TypeOK'
  <2>1. CASE parent[i] # NoPid /\ target[parent[i]] = i
    <3>1. parent[i] \in Actors /\ ready \in Seq(Actors)
      BY <2>1 DEF TypeOK
    <3>2. Append(ready, parent[i]) \in Seq(Actors)
      BY <3>1
    <3> QED
      BY <1>27, <2>1, <3>1, <3>2 DEF TypeOK, HandleQuit
  <2>2. CASE ~(parent[i] # NoPid /\ target[parent[i]] = i)
    BY <1>27, <2>2 DEF TypeOK, HandleQuit
  <2> QED
    BY <2>1, <2>2
<1>28. ASSUME NEW i \in Actors, HandleCreate(i) PROVE TypeOK'
  <2>1. nb + 1 \in Actors
    BY <1>28, CreationFits
  <2>2. ready \o <<nb + 1, i>> \in Seq(Actors) /\ nb + 1 \in 0 .. MaxActors
    BY <2>1 DEF TypeOK, Actors
  <2> QED
    BY <1>28, <2>1, <2>2 DEF TypeOK, HandleCreate
<1>29. CASE Dispatch
  BY <1>29 DEF TypeOK, Dispatch
<1>30. CASE AdvanceClock
  BY <1>30 DEF TypeOK, AdvanceClock
<1>31. CASE ServerDies
  BY <1>31 DEF TypeOK, ServerDies
<1>32. CASE Exited
  BY <1>32 DEF TypeOK, Exited
<1> QED
  BY <1>1, <1>2, <1>3, <1>4, <1>5, <1>6, <1>7, <1>8, <1>9, <1>10, <1>11, <1>12, <1>13,
     <1>14, <1>15, <1>16, <1>17, <1>18, <1>19, <1>20, <1>21, <1>22, <1>23, <1>24, <1>25,
     <1>26, <1>27, <1>28, <1>29, <1>30, <1>31, <1>32 DEF Next, SimGridThread,
     ClientThread, CommandThread

----------------------------------------------------------------------------
(* The bound on the number of actors *)

LEMMA BoundInit == Init => BoundInv
<1> SUFFICES ASSUME Init PROVE BoundInv
  OBVIOUS
<1>1. Creations = {}
  BY DEF Init, Creations
<1>2. PendingCreations = 0
  BY <1>1, FS_EmptySet DEF PendingCreations, Creations
<1> QED
  BY <1>2, BoundsAssumption DEF Init, BoundInv

LEMMA BoundNext ==
    ASSUME IndInv, Next PROVE BoundInv'
<1>0. /\ nb \in Nat /\ nb + Cardinality(Creations) <= MaxActors /\ MaxActors \in Nat
      /\ wire \in [Actors -> Decision \cup {"reply", "nothing"}]
  BY BoundsAssumption DEF IndInv, TypeOK, BoundInv, PendingCreations, Creations
<1>1. SUFFICES nb' + Cardinality(Creations') <= MaxActors
  BY DEF BoundInv, PendingCreations, Creations
<1>2. ASSUME nb' = nb, Creations' \subseteq Creations
      PROVE  nb' + Cardinality(Creations') <= MaxActors
  BY <1>0, <1>2, CreationsFinite, FS_Subset
<1>3. ASSUME NEW i \in Actors, NEW d \in Decision \ {"quit"}, SendDecision(i, d)
      PROVE  nb' + Cardinality(Creations') <= MaxActors
  <2>1. CASE d \notin {"create", "fork"}
    <3>1. nb' = nb /\ Creations' \subseteq Creations
      BY <1>0, <1>3, <2>1 DEF SendDecision, Written, Creations
    <3> QED
      BY <1>2, <3>1
  <2>2. CASE d \in {"create", "fork"}
    <3>1. nb' = nb /\ Creations' \in SUBSET (Creations \cup {i}) /\ nb + Cardinality(Creations) < MaxActors
      BY <1>0, <1>3, <2>2 DEF SendDecision, Written, Creations, PendingCreations
    <3>2. /\ IsFiniteSet(Creations \cup {i})
          /\ Cardinality(Creations \cup {i}) \in {Cardinality(Creations), Cardinality(Creations) + 1}
      BY CreationsFinite, FS_AddElement
    <3>3. Cardinality(Creations') <= Cardinality(Creations \cup {i})
      BY <3>1, <3>2, FS_Subset
    <3> QED
      BY <1>0, <3>1, <3>2, <3>3, CreationsFinite
  <2> QED
    BY <2>1, <2>2
<1>4. ASSUME NEW i \in Actors, HandleCreate(i)
      PROVE  nb' + Cardinality(Creations') <= MaxActors
  <2>1. i \in Creations /\ nb' = nb + 1 /\ Creations' = Creations \ {i}
    BY <1>0, <1>4 DEF HandleCreate, Reads, Creations
  <2>2. Cardinality(Creations') = Cardinality(Creations) - 1
    BY <2>1, CreationsFinite, FS_RemoveElement
  <2> QED
    BY <1>0, <2>1, <2>2, CreationsFinite
<1>5. ASSUME NEW i \in Actors,
             \/ YieldFirst(i) \/ Disconnect(i) \/ ReadReply(i) \/ StartThread(i) \/ Fork(i)
             \/ HandleGet(i) \/ HandleYield(i) \/ HandleSleep(i) \/ HandleJoin(i)
             \/ ReplyCreate(i) \/ Reply(i) \/ HandleQuit(i)
      PROVE  nb' = nb /\ Creations' \subseteq Creations
  <2>1. nb' = nb
    BY <1>5 DEF YieldFirst, Disconnect, ReadReply, StartThread, Fork, HandleGet, HandleYield,
         HandleSleep, HandleJoin, ReplyCreate, Reply, HandleQuit
  <2>2. \E w \in {"yield", "quit", "reply", "nothing"} : wire' = [wire EXCEPT ![i] = w]
    BY <1>5 DEF YieldFirst, Disconnect, ReadReply, StartThread, Fork, HandleGet, HandleYield,
         HandleSleep, HandleJoin, ReplyCreate, Reply, HandleQuit, Written
  <2> QED
    BY <1>0, <2>1, <2>2 DEF Creations
<1>6. ASSUME NEW i \in Actors,
             \/ ReadFails(i) \/ ConnectFails(i) \/ SendConnect(i) \/ PostSemaphore(i)
             \/ JoinChildren(i) \/ ExitProcess(i) \/ ReuseConnectedSocket(i)
             \/ CommandThread(i) \/ YieldToParent(i) \/ AwaitConnect(i) \/ Think(i)
             \/ RequestRegistration(i)
      PROVE  nb' = nb /\ wire' = wire
  BY <1>6 DEF ReadFails, ConnectFails, SendConnect, PostSemaphore, JoinChildren, ExitProcess,
       ReuseConnectedSocket, CommandThread, RegisterActor, HandleConnect, WriteConnectAck,
       YieldToParent, AwaitConnect, Think, RequestRegistration
<1>7. Dispatch \/ AdvanceClock \/ Exited => nb' = nb /\ wire' = wire
  BY DEF Dispatch, AdvanceClock, Exited
<1>8. ServerDies => nb' = nb /\ Creations' \subseteq Creations
  BY <1>0 DEF ServerDies, Creations
<1>9. wire' = wire => Creations' \subseteq Creations
  BY DEF Creations
<1> QED
  BY <1>2, <1>3, <1>4, <1>5, <1>6, <1>7, <1>8, <1>9 DEF Next, SimGridThread, ClientThread

----------------------------------------------------------------------------
(* While the server is there: the steps that change the state of one client *)
(* thread only                                                              *)

\* g is f but for i, where it is v.
Differs(f, g, i, v) == g[i] = v /\ \A j \in Actors : j # i => g[j] = f[j]

\* What a thread may become without any effect on its relatives.
Settled == {"user", "waiting", "creating", "forking", "posted", "yielding", "joining"}

\* Between two decisions nothing changes in the family of a thread.
LEMMA FamilyKept ==
    ASSUME FamilyInv, AbsentInv, UNCHANGED <<parent, process>>, NEW i \in Actors,
           NEW v \in Settled, thread[i] \in Settled, Differs(thread, thread', i, v),
           \A j \in Actors : thread[j] = "sem" => child'[j] = child[j]
    PROVE  FamilyInv' /\ AbsentInv'
<1>1. /\ thread'[i] = v /\ v \in Settled /\ thread[i] \in Settled
      /\ \A j \in Actors : j # i => thread'[j] = thread[j]
  BY DEF Differs
<1>2. AbsentInv'
  BY <1>1 DEF AbsentInv, Alone, Settled
<1>3. ASSUME NEW c \in Actors PROVE Joined(c)'
  BY <1>1 DEF FamilyInv, Joined, Settled
<1>4. ASSUME NEW c \in Actors
      PROVE  /\ parent'[c] < c
             /\ thread'[c] \in {"hook", "connected"} => process'[c] # c
             /\ thread'[c] = "after" => process'[c] = c
  BY <1>1 DEF FamilyInv, Settled
<1> QED
  BY <1>2, <1>3, <1>4 DEF FamilyInv

\* A client thread writes to its connection or reads from it.
LEMMA ClientStep ==
    ASSUME TypeOK, UpInv, NEW i \in Actors, UNCHANGED <<parent, process, simVars, queueVars>>,
           thread[i] \in Settled, NEW v \in Settled, Differs(thread, thread', i, v),
           NEW w, w # "reply", Differs(wire, wire', i, w),
           v \in {"creating", "forking"} => w # "nothing",
           Agree(i)', v \notin Newborn /\ pc[i] \in {"born", "await_connect"} => Alone(i)
    PROVE  UpInv'
<1>0. AgreeInv /\ PlaceInv /\ TurnInv /\ AbsentInv /\ FamilyInv /\ CreationInv
  BY DEF UpInv
<1>1. /\ thread'[i] = v /\ v \in Settled /\ thread[i] \in Settled /\ wire'[i] = w
      /\ \A j \in Actors : j # i => thread'[j] = thread[j] /\ wire'[j] = wire[j]
  BY DEF Differs
<1>2. AgreeInv'
  <2> SUFFICES ASSUME NEW j \in Actors PROVE Agree(j)' /\ (pc'[j] = "absent" <=> j > nb')
    BY DEF AgreeInv
  <2>1. CASE j = i
    BY <1>0, <2>1 DEF AgreeInv
  <2>2. CASE j # i
    BY <1>0, <1>1, <2>2 DEF AgreeInv, Agree
  <2> QED
    BY <2>1, <2>2
<1>3. PlaceInv'
  BY <1>0 DEF PlaceInv
<1>4. TurnInv'
  <2>1. \A j \in Actors : Alone(j)' <=> Alone(j)
    BY DEF Alone
  <2> QED
    BY <1>0, <1>1, <2>1 DEF TurnInv, Settled
<1>5. FamilyInv' /\ AbsentInv'
  BY <1>0, FamilyKept
<1>6. CreationInv'
  <2>1. \A j \in Actors : Creating(j)' => Creating(j) /\ j # i
    BY <1>1 DEF Creating
  <2>2. \A j \in Actors : thread[j] \in {"absent", "hook", "connecting"} <=> thread'[j] \in {"absent", "hook", "connecting"}
    BY <1>1 DEF Settled
  <2>3. connect_ack \subseteq Actors
    BY DEF TypeOK
  <2> QED
    BY <1>0, <1>1, <2>1, <2>2, <2>3 DEF CreationInv, Settled
<1> QED
  BY <1>2, <1>3, <1>4, <1>5, <1>6 DEF UpInv

LEMMA SendDecisionUp ==
    ASSUME TypeOK, UpInv, server = "up", NEW i \in Actors, NEW d \in Decision \ {"quit"},
           SendDecision(i, d)
    PROVE  UpInv'
<1>1. thread[i] = "user" /\ Agree(i)
  BY DEF SendDecision, UpInv, AgreeInv
<1>2. Differs(thread, thread', i, WaitState(d)) /\ Differs(wire, wire', i, d)
  BY DEF SendDecision, Written, TypeOK, Differs
<1>3. WaitState(d) \in Settled /\ thread[i] \in Settled
  BY <1>1 DEF WaitState, Settled
<1>4. Agree(i)'
  BY <1>1, <1>2 DEF Agree, Differs, WaitState, Decision, Unread, SendDecision
<1>5. pc[i] \in {"born", "await_connect"} => Alone(i)
  BY <1>1 DEF UpInv, TurnInv, Newborn
<1> QED
  BY <1>1, <1>2, <1>3, <1>4, <1>5, ClientStep DEF SendDecision, Decision

LEMMA ReadReplyUp ==
    ASSUME TypeOK, UpInv, NEW i \in Actors, ReadReply(i) PROVE UpInv'
<1>1. thread[i] \in Settled /\ Agree(i) /\ wire[i] = "reply"
  BY DEF ReadReply, UpInv, AgreeInv, Settled
<1>2. Differs(thread, thread', i, "user") /\ Differs(wire, wire', i, "nothing")
  BY DEF ReadReply, TypeOK, Differs
<1>3. pc[i] = "read"
  BY <1>1 DEF Agree, ReadReply
<1>4. Agree(i)'
  BY <1>2, <1>3 DEF Agree, Differs, ReadReply
<1> QED
  BY <1>1, <1>2, <1>3, <1>4, ClientStep DEF ReadReply, Settled

LEMMA YieldFirstUp ==
    ASSUME TypeOK, UpInv, server = "up", NEW i \in Actors, YieldFirst(i) PROVE UpInv'
<1>1. thread[i] = "posted" /\ Agree(i)
  BY DEF YieldFirst, UpInv, AgreeInv
<1>2. Differs(thread, thread', i, "yielding") /\ Differs(wire, wire', i, "yield")
  BY DEF YieldFirst, Written, TypeOK, Differs
<1>3. Agree(i)'
  BY <1>1, <1>2 DEF Agree, Differs, YieldFirst, Unread
<1> QED
  BY <1>1, <1>2, <1>3, ClientStep DEF YieldFirst, Settled, Newborn

LEMMA DisconnectUp ==
    ASSUME TypeOK, UpInv, server = "up", NEW i \in Actors, Disconnect(i) PROVE UpInv'
<1>1. thread[i] = "user" /\ Agree(i)
  BY DEF Disconnect, UpInv, AgreeInv
<1>2. Differs(thread, thread', i, "joining") /\ Differs(wire, wire', i, "quit")
  BY DEF Disconnect, Written, TypeOK, Differs
<1>3. Agree(i)'
  BY <1>1, <1>2 DEF Agree, Differs, Disconnect, Unread
<1>4. pc[i] \in {"born", "await_connect"} => Alone(i)
  BY <1>1 DEF UpInv, TurnInv, Newborn
<1> QED
  BY <1>1, <1>2, <1>3, <1>4, ClientStep DEF Disconnect, Settled
\* Neither a mutation nor a registration moves anybody.
LEMMA RegisterUp ==
    ASSUME UpInv, UNCHANGED <<thread, parent, process, wire, simVars, connect_ack>>,
           registered \subseteq registered', create_ack' \subseteq registered'
    PROVE  UpInv'
<1>0. AgreeInv /\ PlaceInv /\ TurnInv /\ AbsentInv /\ FamilyInv /\ CreationInv
  BY DEF UpInv
<1>1. AgreeInv' /\ PlaceInv'
  BY <1>0 DEF AgreeInv, Agree, PlaceInv
<1>2. TurnInv' /\ AbsentInv'
  BY <1>0 DEF TurnInv, AbsentInv, Alone
<1>3. FamilyInv'
  BY <1>0 DEF FamilyInv, Joined
<1>4. CreationInv'
  BY <1>0 DEF CreationInv, Creating
<1> QED
  BY <1>1, <1>2, <1>3, <1>4 DEF UpInv

\* The thread of an actor moves on, without its connection.
LEMMA ThreadStep ==
    ASSUME TypeOK, UpInv, NEW i \in Actors,
           UNCHANGED <<parent, process, wire, simVars, requests, registered, create_ack>>,
           NEW v, Differs(thread, thread', i, v), v \notin {"absent", "sem", "creating", "forking"},
           thread[i] \notin {"absent", "sem", "creating", "forking"},
           v \in {"hook", "connecting"} => i \in registered,
           connect_ack' \subseteq connect_ack \cup {i},
           i \in connect_ack' => v \notin {"hook", "connecting"},
           Agree(i)', v \notin Newborn /\ pc[i] \in {"born", "await_connect"} => Alone(i)
    PROVE  AgreeInv' /\ PlaceInv' /\ TurnInv' /\ AbsentInv' /\ CreationInv'
<1>0. AgreeInv /\ PlaceInv /\ TurnInv /\ AbsentInv /\ CreationInv
  BY DEF UpInv
<1>1. /\ thread'[i] = v
      /\ \A j \in Actors : j # i => thread'[j] = thread[j]
  BY DEF Differs
<1>2. AgreeInv'
  <2> SUFFICES ASSUME NEW j \in Actors PROVE Agree(j)' /\ (pc'[j] = "absent" <=> j > nb')
    BY DEF AgreeInv
  <2>1. CASE j = i
    BY <1>0, <2>1 DEF AgreeInv
  <2>2. CASE j # i
    BY <1>0, <1>1, <2>2 DEF AgreeInv, Agree
  <2> QED
    BY <2>1, <2>2
<1>3. PlaceInv'
  BY <1>0 DEF PlaceInv
<1>4. TurnInv'
  <2>1. \A j \in Actors : Alone(j)' <=> Alone(j)
    BY DEF Alone
  <2> QED
    BY <1>0, <1>1, <2>1 DEF TurnInv
<1>5. AbsentInv'
  BY <1>0, <1>1 DEF AbsentInv, Alone
<1>6. CreationInv'
  <2>1. \A j \in Actors : Creating(j)' => Creating(j) /\ j # i
    BY <1>1 DEF Creating
  <2>2. \A j \in Actors : thread[j] = "absent" => thread'[j] = "absent"
    BY <1>1
  <2>3. \A j \in Actors : thread'[j] \in {"hook", "connecting"} => j \in registered
    BY <1>0, <1>1 DEF CreationInv
  <2>4. \A c \in connect_ack' : thread'[c] \notin {"absent", "hook", "connecting"}
    BY <1>0, <1>1 DEF CreationInv, TypeOK
  <2> QED
    BY <1>0, <1>1, <2>1, <2>2, <2>3, <2>4 DEF CreationInv
<1> QED
  BY <1>2, <1>3, <1>4, <1>5, <1>6

LEMMA SendConnectUp ==
    ASSUME TypeOK, UpInv, NEW i \in Actors, SendConnect(i) PROVE UpInv'
<1>1. thread[i] = "hook" /\ Agree(i) /\ i \in registered /\ i \notin connect_ack
  BY DEF SendConnect, UpInv, AgreeInv, CreationInv
<1>2. Differs(thread, thread', i, "connecting")
  BY DEF SendConnect, TypeOK, Differs
<1>3. Agree(i)'
  BY <1>1, <1>2 DEF Agree, Differs, SendConnect
<1>4. AgreeInv' /\ PlaceInv' /\ TurnInv' /\ AbsentInv' /\ CreationInv'
  BY <1>1, <1>2, <1>3, ThreadStep DEF SendConnect, Newborn
<1>5. FamilyInv'
  BY <1>1, <1>2 DEF UpInv, FamilyInv, Joined, Differs, SendConnect
<1> QED
  BY <1>4, <1>5 DEF UpInv

LEMMA HandleConnectUp ==
    ASSUME TypeOK, UpInv, NEW i \in Actors, HandleConnect(i) PROVE UpInv'
<1>1. thread[i] = "connecting" /\ Agree(i)
  BY DEF HandleConnect, UpInv, AgreeInv
<1>2. Differs(thread, thread', i, "accepted")
  BY DEF HandleConnect, TypeOK, Differs
<1>3. Agree(i)'
  BY <1>1, <1>2 DEF Agree, Differs, HandleConnect
<1>4. AgreeInv' /\ PlaceInv' /\ TurnInv' /\ AbsentInv' /\ CreationInv'
  BY <1>1, <1>2, <1>3, ThreadStep DEF HandleConnect, Newborn
<1>5. FamilyInv'
  BY <1>1, <1>2 DEF UpInv, FamilyInv, Joined, Differs, HandleConnect
<1> QED
  BY <1>4, <1>5 DEF UpInv

\* Only a forked process goes on with its program; it has no other thread yet or
\* has the SimGrid thread.
LEMMA WriteConnectAckUp ==
    ASSUME TypeOK, UpInv, NEW i \in Actors, WriteConnectAck(i) PROVE UpInv'
<1> DEFINE v == IF process[i] = i THEN "user" ELSE "connected"
<1>1. thread[i] = "accepted" /\ Agree(i)
  BY DEF WriteConnectAck, UpInv, AgreeInv
<1>2. Differs(thread, thread', i, v)
  BY DEF WriteConnectAck, TypeOK, Differs
<1>3. Agree(i)'
  BY <1>1, <1>2 DEF Agree, Differs, WriteConnectAck
<1>4. v = "user" /\ pc[i] \in {"born", "await_connect"} => Alone(i)
  BY DEF UpInv, TurnInv
<1>5. AgreeInv' /\ PlaceInv' /\ TurnInv' /\ AbsentInv' /\ CreationInv'
  BY <1>1, <1>2, <1>3, <1>4, ThreadStep DEF WriteConnectAck, Newborn
<1>6. FamilyInv'
  BY <1>1, <1>2 DEF UpInv, FamilyInv, Joined, Differs, WriteConnectAck
<1> QED
  BY <1>5, <1>6 DEF UpInv

LEMMA JoinChildrenUp ==
    ASSUME TypeOK, UpInv, NEW i \in Actors, JoinChildren(i) PROVE UpInv'
<1> DEFINE v == IF process[i] = i THEN "after" ELSE "gone"
<1>1. thread[i] = "joining" /\ Agree(i)
  BY DEF JoinChildren, UpInv, AgreeInv
<1>2. Differs(thread, thread', i, v)
  BY DEF JoinChildren, TypeOK, Differs
<1>3. Agree(i)'
  BY <1>1, <1>2 DEF Agree, Differs, JoinChildren
<1>4. pc[i] \in {"born", "await_connect"} => Alone(i)
  BY <1>1 DEF UpInv, TurnInv, Newborn
<1>5. AgreeInv' /\ PlaceInv' /\ TurnInv' /\ AbsentInv' /\ CreationInv'
  BY <1>1, <1>2, <1>3, <1>4, ThreadStep DEF JoinChildren, Newborn
<1>6. FamilyInv'
  <2>1. \A c \in Actors : process[c] # c /\ parent[c] = i => thread[c] = "gone"
    BY DEF JoinChildren, ChildThreads, UpInv, FamilyInv, Joined
  <2> QED
    BY <1>1, <1>2, <2>1 DEF UpInv, FamilyInv, Joined, Differs, JoinChildren
<1> QED
  BY <1>5, <1>6 DEF UpInv

LEMMA ExitProcessUp ==
    ASSUME TypeOK, UpInv, NEW i \in Actors, ExitProcess(i) PROVE UpInv'
<1>1. thread[i] = "after" /\ Agree(i)
  BY DEF ExitProcess, UpInv, AgreeInv
<1>2. Differs(thread, thread', i, "gone")
  BY DEF ExitProcess, TypeOK, Differs
<1>3. Agree(i)'
  BY <1>1, <1>2 DEF Agree, Differs, ExitProcess
<1>4. pc[i] \in {"born", "await_connect"} => Alone(i)
  BY <1>1 DEF UpInv, TurnInv, Newborn
<1>5. AgreeInv' /\ PlaceInv' /\ TurnInv' /\ AbsentInv' /\ CreationInv'
  BY <1>1, <1>2, <1>3, <1>4, ThreadStep DEF ExitProcess, Newborn
<1>6. FamilyInv'
  BY <1>1, <1>2 DEF UpInv, FamilyInv, Joined, Differs, ExitProcess
<1> QED
  BY <1>5, <1>6 DEF UpInv
----------------------------------------------------------------------------
(* The steps of two threads: a parent and its child *)

LEMMA PostSemaphoreUp ==
    ASSUME TypeOK, UpInv, NEW i \in Actors, PostSemaphore(i) PROVE UpInv'
<1> DEFINE p == parent[i]
<1>0. AgreeInv /\ PlaceInv /\ TurnInv /\ AbsentInv /\ FamilyInv /\ CreationInv
  BY DEF UpInv
<1>1. thread[i] = "connected" /\ process[i] # i
  BY <1>0 DEF PostSemaphore, FamilyInv
<1>2. /\ p \in Actors /\ p # i /\ thread[p] = "sem" /\ process[p] = process[i]
      /\ current = p /\ wire[p] = "nothing" /\ pc[p] = "read"
      /\ wire[i] = "nothing" /\ pc[i] \in {"born", "await_connect", "read"}
  <2>1. p \in Actors /\ thread[p] = "sem" /\ process[p] = process[i]
    BY <1>0, <1>1 DEF FamilyInv, Joined
  <2> QED
    BY <1>0, <1>1, <2>1 DEF TurnInv, AgreeInv, Agree
<1>3. /\ thread'[i] = "posted" /\ thread'[p] = "user"
      /\ \A j \in Actors : j # i /\ j # p => thread'[j] = thread[j]
  BY <1>2 DEF PostSemaphore, TypeOK
<1>4. UNCHANGED <<parent, process, wire, simVars, queueVars>>
  BY DEF PostSemaphore
<1> HIDE DEF p
<1>5. AgreeInv'
  <2> SUFFICES ASSUME NEW j \in Actors PROVE Agree(j)' /\ (pc'[j] = "absent" <=> j > nb')
    BY DEF AgreeInv
  <2>1. CASE j \in {i, p}
    BY <1>0, <1>2, <1>3, <1>4, <2>1 DEF AgreeInv, Agree
  <2>2. CASE j \notin {i, p}
    BY <1>0, <1>3, <1>4, <2>2 DEF AgreeInv, Agree
  <2> QED
    BY <2>1, <2>2
<1>6. PlaceInv'
  BY <1>0, <1>4 DEF PlaceInv
<1>7. TurnInv'
  <2>1. \A j \in Actors : Alone(j)' <=> Alone(j)
    BY <1>4 DEF Alone
  <2> QED
    BY <1>0, <1>1, <1>2, <1>3, <1>4, <2>1 DEF TurnInv, Newborn
<1>8. AbsentInv'
  BY <1>0, <1>2, <1>3, <1>4 DEF AbsentInv, Alone
<1>9. FamilyInv'
  <2> SUFFICES ASSUME NEW c \in Actors
               PROVE  /\ parent'[c] < c /\ Joined(c)'
                      /\ thread'[c] \in {"hook", "connected"} => process'[c] # c
                      /\ thread'[c] = "after" => process'[c] = c
    BY DEF FamilyInv
  <2>1. parent'[c] < c /\ (thread'[c] = "after" => process'[c] = c)
    BY <1>0, <1>3, <1>4 DEF FamilyInv
  <2>2. thread'[c] \in {"hook", "connected"} => process'[c] # c
    BY <1>0, <1>3, <1>4 DEF FamilyInv
  <2>3. process[c] # c /\ c # i /\ parent[c] = p
          => thread[c] \notin {"hook", "connecting", "accepted", "connected"}
    BY <1>0, <1>1 DEF FamilyInv, Joined, p
  <2>4. Joined(c)'
    <3>1. Joined(c)
      BY <1>0 DEF FamilyInv
    <3>2. /\ thread'[c] # "gone" => thread[c] # "gone"
          /\ thread'[c] \in {"hook", "connecting", "accepted", "connected"} => c # i /\ thread[c] = thread'[c]
      BY <1>1, <1>2, <1>3
    <3>3. parent[c] \in Actors =>
            /\ thread'[parent[c]] \in {"after", "gone"} => thread[parent[c]] \in {"after", "gone"}
            /\ parent[c] # p /\ thread[parent[c]] = "sem" => thread'[parent[c]] = "sem"
      BY <1>1, <1>3
    <3> QED
      BY <1>4, <2>3, <3>1, <3>2, <3>3 DEF Joined
  <2> QED
    BY <2>1, <2>2, <2>4
<1>10. CreationInv'
  <2>1. \A j \in Actors : Creating(j)' => Creating(j)
    BY <1>3, <1>4 DEF Creating
  <2>2. \A j \in Actors : thread[j] \in {"absent", "hook", "connecting"} <=> thread'[j] \in {"absent", "hook", "connecting"}
    BY <1>1, <1>2, <1>3
  <2>3. \A j \in Actors : j # i /\ j # p => thread'[j] = thread[j]
    BY <1>3
  <2> QED
    BY <1>0, <1>1, <1>2, <1>3, <1>4, <2>1, <2>2 DEF CreationInv, TypeOK
<1> QED
  BY <1>5, <1>6, <1>7, <1>8, <1>9, <1>10 DEF UpInv

\* The client of a new actor appears: a thread of the same process if v is
\* "hook", a process of its own if it is "connecting".
LEMMA ChildUp ==
    ASSUME TypeOK, UpInv, NEW i \in Actors, thread[i] \in {"creating", "forking"},
           wire[i] = "reply", NEW c \in Actors, c = child[i], c # i,
           NEW u \in {"sem", "user"}, NEW v \in {"hook", "connecting"}, u = "sem" <=> v = "hook",
           thread'[i] = u, thread'[c] = v,
           \A j \in Actors : j # i /\ j # c => thread'[j] = thread[j],
           Differs(wire, wire', i, "nothing"), Differs(parent, parent', c, i),
           Differs(process, process', c, IF v = "hook" THEN process[i] ELSE c),
           UNCHANGED <<simVars, queueVars>>
    PROVE  UpInv'
<1>0. AgreeInv /\ PlaceInv /\ TurnInv /\ AbsentInv /\ FamilyInv /\ CreationInv
  BY DEF UpInv
<1>1. /\ c \in Actors /\ i < c /\ c # i /\ thread[c] = "absent" /\ c \in registered /\ c <= nb
      /\ \A j \in Actors : Creating(j) /\ child[j] = c => j = i
  BY <1>0 DEF CreationInv, Creating, Actors
<1>2. current = i /\ pc[i] = "read"
  BY <1>0 DEF TurnInv, AgreeInv, Agree
<1>3. /\ wire[c] = "nothing" /\ pc[c] \in {"born", "await_connect"} /\ Alone(c) /\ process[c] = c
      /\ \A j \in Actors : parent[j] # c /\ (process[j] = c => j = c)
  <2>1. Alone(c) /\ \A j \in Actors : parent[j] # c
    BY <1>0, <1>1 DEF AbsentInv
  <2>2. ~(c > nb)
    BY <1>1 DEF TypeOK, Actors
  <2>3. wire[c] = "nothing" /\ pc[c] \in {"born", "await_connect"}
    BY <1>0, <1>1, <2>2 DEF AgreeInv, Agree
  <2> QED
    BY <2>1, <2>3 DEF Alone
<1>4. /\ thread'[i] = u /\ thread'[c] = v
      /\ \A j \in Actors : j # i /\ j # c => thread'[j] = thread[j]
      /\ wire'[i] = "nothing" /\ \A j \in Actors : j # i => wire'[j] = wire[j]
      /\ parent'[c] = i /\ \A j \in Actors : j # c => parent'[j] = parent[j]
      /\ process'[c] = (IF v = "hook" THEN process[i] ELSE c)
      /\ \A j \in Actors : j # c => process'[j] = process[j]
  BY <1>1 DEF Differs
<1>5. AgreeInv'
  <2> SUFFICES ASSUME NEW j \in Actors PROVE Agree(j)' /\ (pc'[j] = "absent" <=> j > nb')
    BY DEF AgreeInv
  <2>1. CASE j \in {i, c}
    BY <1>0, <1>1, <1>2, <1>3, <1>4, <2>1 DEF AgreeInv, Agree
  <2>2. CASE j \notin {i, c}
    BY <1>0, <1>4, <2>2 DEF AgreeInv, Agree
  <2> QED
    BY <2>1, <2>2
<1>6. PlaceInv'
  BY <1>0 DEF PlaceInv
<1>7. ASSUME NEW j \in Actors, j # i, j # c, Alone(j) PROVE Alone(j)'
  BY <1>1, <1>3, <1>4, <1>7 DEF Alone
<1>8. TurnInv'
  <2> SUFFICES ASSUME NEW j \in Actors
               PROVE /\ wire'[j] = "reply" \/ thread'[j] = "sem" \/ pc'[j] = "create_wait" => current' = j
                     /\ pc'[j] = "read" => current' = j \/ Alone(j)'
                     /\ pc'[j] \in {"born", "await_connect"} =>
                          Alone(j)' \/ (process'[j] # j /\ thread'[j] \in Newborn)
    BY DEF TurnInv
  <2>1. CASE j = i
    BY <1>2, <2>1
  <2>2. CASE j = c
    <3>1. CASE v = "hook"
      <4>1. process'[c] # c
        BY <1>1, <1>3, <1>4, <3>1
      <4> QED
        BY <1>1, <1>3, <1>4, <2>2, <3>1, <4>1 DEF Newborn
    <3>2. CASE v = "connecting"
      <4>1. Alone(c)'
        BY <1>3, <1>4, <3>2 DEF Alone
      <4> QED
        BY <1>1, <1>3, <1>4, <2>2, <3>2, <4>1
    <3> QED
      BY <3>1, <3>2
  <2>3. CASE j # i /\ j # c
    BY <1>0, <1>4, <1>7, <2>3 DEF TurnInv
  <2> QED
    BY <2>1, <2>2, <2>3
<1>9. AbsentInv'
  <2> SUFFICES ASSUME NEW j \in Actors, thread'[j] = "absent"
               PROVE Alone(j)' /\ parent'[j] = NoPid /\ \A k \in Actors : parent'[k] # j
    BY DEF AbsentInv
  <2>1. j # i /\ j # c /\ thread[j] = "absent"
    BY <1>4
  <2> QED
    BY <1>0, <1>4, <1>7, <2>1 DEF AbsentInv
<1>10. FamilyInv'
  <2> SUFFICES ASSUME NEW j \in Actors
               PROVE  /\ parent'[j] < j /\ Joined(j)'
                      /\ thread'[j] \in {"hook", "connected"} => process'[j] # j
                      /\ thread'[j] = "after" => process'[j] = j
    BY DEF FamilyInv
  <2>1. CASE j = c
    <3>1. v = "hook" => process'[c] # c
      BY <1>1, <1>3, <1>4
    <3>2. process'[i] = process[i]
      BY <1>1, <1>4
    <3> QED
      BY <1>1, <1>4, <2>1, <3>1, <3>2 DEF Joined
  <2>2. CASE j # c
    <3>1. process'[j] = process[j] /\ parent'[j] = parent[j] /\ parent[j] # c
      BY <1>3, <1>4, <2>2
    <3>2. parent'[j] < j
      BY <1>0, <3>1 DEF FamilyInv
    <3>3. /\ thread'[j] \in {"hook", "connected"} => process'[j] # j
          /\ thread'[j] = "after" => process'[j] = j
      BY <1>0, <1>4, <2>2, <3>1 DEF FamilyInv
    <3>4. Joined(j)'
      <4>1. Joined(j)
        BY <1>0 DEF FamilyInv
      <4>2. parent[j] \in Actors => process'[parent[j]] = process[parent[j]]
        BY <1>4, <3>1
      <4>3. parent[j] \in Actors => (thread'[parent[j]] \in {"after", "gone"} => thread[parent[j]] \in {"after", "gone"})
        BY <1>4, <3>1
      <4>4. parent[j] \in Actors => (thread[parent[j]] = "sem" => thread'[parent[j]] = "sem")
        BY <1>4, <3>1
      <4>5. /\ thread'[j] # "gone" => thread[j] # "gone"
            /\ thread'[j] \in {"hook", "connecting", "accepted", "connected"} => thread[j] = thread'[j]
        BY <1>4, <2>2
      <4> QED
        BY <3>1, <4>1, <4>2, <4>3, <4>4, <4>5 DEF Joined
    <3> QED
      BY <3>2, <3>3, <3>4
  <2> QED
    BY <2>1, <2>2
<1>11. CreationInv'
  <2>1. \A j \in Actors : Creating(j)' => Creating(j) /\ j # i /\ j # c /\ child[j] # c
    BY <1>1, <1>4 DEF Creating
  <2>2. \A j \in Actors : j # i /\ j # c => wire'[j] = wire[j] /\ thread'[j] = thread[j]
    BY <1>4
  <2>3. \A j \in Actors : Creating(j) => child[j] \in Actors /\ child[j] # i
    BY <1>0 DEF CreationInv
  <2>4. \A j \in Actors : thread'[j] \in {"hook", "connecting"} => j \in registered
    BY <1>0, <1>1, <1>4 DEF CreationInv
  <2>5. \A j \in connect_ack : thread'[j] \notin {"absent", "hook", "connecting"}
    <3>1. c \notin connect_ack
      BY <1>0, <1>1 DEF CreationInv
    <3> QED
      BY <1>0, <1>4, <3>1 DEF CreationInv, TypeOK
  <2> QED
    BY <1>0, <2>1, <2>2, <2>3, <2>4, <2>5 DEF CreationInv
<1> QED
  BY <1>5, <1>6, <1>8, <1>9, <1>10, <1>11 DEF UpInv

LEMMA StartThreadUp ==
    ASSUME TypeOK, UpInv, NEW i \in Actors, StartThread(i) PROVE UpInv'
<1> DEFINE c == child[i]
<1>1. c \in Actors /\ c # i
  BY DEF StartThread, UpInv, CreationInv, Creating
<1>2. /\ thread'[i] = "sem" /\ thread'[c] = "hook"
      /\ \A j \in Actors : j # i /\ j # c => thread'[j] = thread[j]
  BY <1>1 DEF StartThread, TypeOK
<1>3. Differs(wire, wire', i, "nothing")
  BY DEF StartThread, TypeOK, Differs
<1>4. Differs(parent, parent', c, i) /\ Differs(process, process', c, process[i])
  BY <1>1 DEF StartThread, TypeOK, Differs
<1> QED
  BY <1>1, <1>2, <1>3, <1>4, ChildUp DEF StartThread

LEMMA ForkUp ==
    ASSUME TypeOK, UpInv, NEW i \in Actors, Fork(i) PROVE UpInv'
<1> DEFINE c == child[i]
<1>1. c \in Actors /\ c # i /\ thread[c] = "absent" /\ process[c] = c
  BY DEF Fork, UpInv, CreationInv, Creating, AbsentInv, Alone
<1>2. /\ thread'[i] = "user" /\ thread'[c] = "connecting"
      /\ \A j \in Actors : j # i /\ j # c => thread'[j] = thread[j]
  BY <1>1 DEF Fork, TypeOK
<1>3. Differs(wire, wire', i, "nothing")
  BY DEF Fork, TypeOK, Differs
<1>4. /\ Differs(parent, parent', c, i)
      /\ Differs(process, process', c, IF "connecting" = "hook" THEN process[i] ELSE c)
  BY <1>1 DEF Fork, TypeOK, Differs
<1> QED
  BY <1>1, <1>2, <1>3, <1>4, ChildUp DEF Fork
----------------------------------------------------------------------------
(* The SimGrid thread *)

\* An actor goes to the end of the line.
LEMMA AppendElements ==
    ASSUME NEW s \in Seq(Actors), NEW i \in Actors
    PROVE  /\ Append(s, i) \in Seq(Actors) /\ Elements(Append(s, i)) = Elements(s) \cup {i}
           /\ Distinct(s) /\ i \notin Elements(s) => Distinct(Append(s, i))
<1>1. Append(s, i) = s \o <<i>>
  OBVIOUS
<1>2. <<i>> \in Seq(Actors) /\ Elements(<<i>>) = {i} /\ Distinct(<<i>>)
  BY SingleElements
<1>3. /\ s \o <<i>> \in Seq(Actors) /\ Elements(s \o <<i>>) = Elements(s) \cup Elements(<<i>>)
      /\ Distinct(s) /\ Distinct(<<i>>) /\ Elements(s) \cap Elements(<<i>>) = {}
           => Distinct(s \o <<i>>)
  BY <1>2, ConcatElements
<1>4. i \notin Elements(s) => Elements(s) \cap Elements(<<i>>) = {}
  BY <1>2
<1> QED
  BY <1>1, <1>2, <1>3, <1>4

\* Only actors are in the line.
LEMMA LineOfActors ==
    ASSUME TypeOK
    PROVE  ready \in Seq(Actors) /\ Elements(ready) \subseteq Actors /\ NoPid \notin Actors
<1>1. ready \in Seq(Actors)
  BY DEF TypeOK
<1>2. \A k \in DOMAIN ready : ready[k] \in Actors
  BY <1>1
<1>3. NoPid \notin Actors
  BY DEF NoPid, Actors
<1> QED
  BY <1>1, <1>2, <1>3 DEF Elements

\* Where the simulated actor that had the thread is after its step: still there,
\* in the line, or blocked until a date or the end of another actor.
LEMMA KeepsThread ==
    ASSUME PlaceInv, NEW i \in Actors, current = i, NEW q, q \notin {"absent", "over"},
           Differs(pc, pc', i, q), UNCHANGED <<current, ready, asleep, target>>
    PROVE  PlaceInv'
  BY DEF PlaceInv, Differs

LEMMA Requeued ==
    ASSUME TypeOK, PlaceInv, NEW i \in Actors, current = i, NEW q,
           q \notin {"absent", "over"}, Differs(pc, pc', i, q),
           current' = NoPid, ready' = Append(ready, i), UNCHANGED <<asleep, target>>
    PROVE  PlaceInv'
<1>1. ready \in Seq(Actors) /\ i \notin Elements(ready) /\ Distinct(ready)
  BY DEF TypeOK, PlaceInv
<1>2. Elements(ready') = Elements(ready) \cup {i} /\ Distinct(ready')
  BY <1>1, AppendElements
<1>3. NoPid \notin Actors /\ Elements(ready) \subseteq Actors
  BY LineOfActors
<1> QED
  BY <1>2, <1>3 DEF PlaceInv, Differs

LEMMA Blocked ==
    ASSUME TypeOK, PlaceInv, NEW i \in Actors, current = i, NEW q \in {"reply", "thought"},
           Differs(pc, pc', i, q), current' = NoPid, UNCHANGED ready,
           asleep' \in {asleep, asleep \cup {i}}, NEW c, Differs(target, target', i, c)
    PROVE  PlaceInv'
<1>1. i \notin Elements(ready) /\ NoPid \notin Actors /\ Elements(ready) \subseteq Actors
  BY LineOfActors DEF PlaceInv
<1> QED
  BY <1>1 DEF PlaceInv, Differs

\* The simulated actor that has the SimGrid thread handles what its client has
\* sent, or answers: nothing changes for the other actors.
LEMMA ActorStep ==
    ASSUME TypeOK, UpInv, NEW i \in Actors, current = i,
           NEW q, q # "absent", Differs(pc, pc', i, q), NEW w, Differs(wire, wire', i, w),
           UNCHANGED <<thread, parent, process, nb, child, registered>>,
           create_ack' \subseteq create_ack, connect_ack' \subseteq connect_ack,
           PlaceInv', Agree(i)', current' \in {i, NoPid},
           w = "reply" \/ thread[i] = "sem" \/ q \in {"create_wait", "read"} => current' = i,
           q \in {"born", "await_connect"} => pc[i] \in {"born", "await_connect"},
           Creating(i)' => Creating(i),
           w = "reply" /\ thread[i] \in {"creating", "forking"} => child[i] \in registered
    PROVE  UpInv'
<1>0. AgreeInv /\ PlaceInv /\ TurnInv /\ AbsentInv /\ FamilyInv /\ CreationInv
  BY DEF UpInv
<1>1. /\ pc'[i] = q /\ wire'[i] = w
      /\ \A j \in Actors : j # i => pc'[j] = pc[j] /\ wire'[j] = wire[j]
  BY DEF Differs
<1>2. AgreeInv'
  <2> SUFFICES ASSUME NEW j \in Actors PROVE Agree(j)' /\ (pc'[j] = "absent" <=> j > nb')
    BY DEF AgreeInv
  <2>1. CASE j = i
    <3>1. pc[i] # "absent"
      BY <1>0 DEF PlaceInv
    <3> QED
      BY <1>0, <1>1, <2>1, <3>1 DEF AgreeInv
  <2>2. CASE j # i
    BY <1>0, <1>1, <2>2 DEF AgreeInv, Agree
  <2> QED
    BY <2>1, <2>2
<1>3. TurnInv'
  <2>1. \A j \in Actors : Alone(j)' <=> Alone(j)
    BY DEF Alone
  <2> QED
    BY <1>0, <1>1, <2>1 DEF TurnInv
<1>4. AbsentInv' /\ FamilyInv'
  BY <1>0 DEF AbsentInv, FamilyInv, Joined, Alone
<1>5. CreationInv'
  <2>1. \A j \in Actors : Creating(j)' => Creating(j)
    BY <1>1 DEF Creating
  <2>2. \A j \in Actors : wire'[j] = "reply" /\ Creating(j)' => child[j] \in registered
    BY <1>0, <1>1, <2>1 DEF CreationInv, Creating
  <2> QED
    BY <1>0, <2>1, <2>2 DEF CreationInv
<1> QED
  BY <1>2, <1>3, <1>4, <1>5 DEF UpInv

LEMMA DispatchUp ==
    ASSUME TypeOK, UpInv, Dispatch PROVE UpInv'
<1>0. AgreeInv /\ PlaceInv /\ TurnInv /\ AbsentInv /\ FamilyInv /\ CreationInv
  BY DEF UpInv
<1>1. ready \in Seq(Actors) /\ ready # <<>> /\ Distinct(ready) /\ current' = Head(ready)
      /\ ready' = Tail(ready) /\ current = NoPid
  BY <1>0 DEF TypeOK, Dispatch, PlaceInv
<1>2. /\ Head(ready) \in Actors /\ Elements(ready) = {Head(ready)} \cup Elements(Tail(ready))
      /\ Head(ready) \notin Elements(Tail(ready)) /\ Distinct(Tail(ready))
  BY <1>1, HeadTailElements
<1>3. PlaceInv'
  <2>1. UNCHANGED <<asleep, target, pc>> /\ NoPid \notin Actors
    BY LineOfActors DEF Dispatch
  <2> QED
    BY <1>0, <1>1, <1>2, <2>1 DEF PlaceInv
<1>4. TurnInv'
  <2>1. \A j \in Actors : j # current /\ (Alone(j)' <=> Alone(j))
    BY <1>1 DEF Alone, NoPid, Actors, Dispatch
  <2> QED
    BY <1>0, <2>1 DEF TurnInv, Dispatch
<1>5. AgreeInv' /\ AbsentInv'
  BY <1>0 DEF AgreeInv, Agree, AbsentInv, Alone, Dispatch
<1>6. FamilyInv' /\ CreationInv'
  BY <1>0 DEF FamilyInv, Joined, CreationInv, Creating, Dispatch
<1> QED
  BY <1>3, <1>4, <1>5, <1>6 DEF UpInv

LEMMA AdvanceClockUp ==
    ASSUME TypeOK, UpInv, AdvanceClock PROVE UpInv'
<1>0. AgreeInv /\ PlaceInv /\ TurnInv /\ AbsentInv /\ FamilyInv /\ CreationInv
  BY DEF UpInv
<1>1. PICK i \in Actors :
        /\ i \in asleep /\ ready' = <<i>> /\ asleep' = asleep \ {i}
        /\ Differs(target, target', i, NoPid)
  BY DEF TypeOK, AdvanceClock, Differs
<1>2. ready = <<>> /\ current = NoPid /\ Elements(ready) = {} /\ NoPid \notin Actors
  BY DEF AdvanceClock, Elements, NoPid, Actors
<1>3. Elements(ready') = {i} /\ Distinct(ready')
  BY <1>1, SingleElements
<1>4. PlaceInv'
  BY <1>0, <1>1, <1>2, <1>3 DEF PlaceInv, AdvanceClock, Differs
<1>5. TurnInv' /\ AgreeInv' /\ AbsentInv'
  BY <1>0 DEF TurnInv, AgreeInv, Agree, AbsentInv, Alone, AdvanceClock
<1>6. FamilyInv' /\ CreationInv'
  BY <1>0 DEF FamilyInv, Joined, CreationInv, Creating, AdvanceClock
<1> QED
  BY <1>4, <1>5, <1>6 DEF UpInv
LEMMA YieldToParentUp ==
    ASSUME TypeOK, UpInv, NEW i \in Actors, YieldToParent(i) PROVE UpInv'
<1>1. current = i /\ pc[i] = "born" /\ Agree(i) /\ PlaceInv /\ thread[i] # "sem" /\ wire[i] # "reply"
  BY DEF YieldToParent, HasThread, UpInv, AgreeInv, Agree, TypeOK, ThreadState, Unread
<1>2. Differs(pc, pc', i, "await_connect") /\ Differs(wire, wire', i, wire[i])
  BY DEF YieldToParent, TypeOK, Differs
<1>3. PlaceInv'
  BY <1>1, <1>2, Requeued DEF YieldToParent
<1>4. Agree(i)'
  BY <1>1, <1>2 DEF YieldToParent, Agree, Differs, Unread
<1>5. Creating(i)' => Creating(i)
  BY DEF YieldToParent, Creating
<1>6. /\ UNCHANGED <<thread, parent, process, nb, child, registered>> /\ current' = NoPid
      /\ create_ack' \subseteq create_ack /\ connect_ack' \subseteq connect_ack
  BY <1>1 DEF YieldToParent
<1> QED
  BY <1>1, <1>2, <1>3, <1>4, <1>5, <1>6, ActorStep

LEMMA AwaitConnectUp ==
    ASSUME TypeOK, UpInv, NEW i \in Actors, AwaitConnect(i) PROVE UpInv'
<1>1. /\ current = i /\ pc[i] = "await_connect" /\ Agree(i) /\ PlaceInv
      /\ thread[i] \notin {"absent", "hook", "connecting"}
  BY DEF AwaitConnect, HasThread, UpInv, AgreeInv, CreationInv
<1>2. Differs(pc, pc', i, "read") /\ Differs(wire, wire', i, wire[i])
  BY DEF AwaitConnect, TypeOK, Differs
<1>3. PlaceInv'
  BY <1>1, <1>2, KeepsThread DEF AwaitConnect
<1>4. Agree(i)'
  BY <1>1, <1>2 DEF AwaitConnect, Agree, Differs, Unread
<1>5. (Creating(i)' => Creating(i)) /\ wire[i] # "reply"
  BY <1>1 DEF AwaitConnect, Creating, Agree, TypeOK, ThreadState, Unread
<1>6. /\ UNCHANGED <<thread, parent, process, nb, child, registered>> /\ current' = i
      /\ create_ack' \subseteq create_ack /\ connect_ack' \subseteq connect_ack
  BY <1>1 DEF AwaitConnect
<1> QED
  BY <1>1, <1>2, <1>3, <1>4, <1>5, <1>6, ActorStep

LEMMA ThinkUp ==
    ASSUME TypeOK, UpInv, NEW i \in Actors, Think(i) PROVE UpInv'
<1>1. /\ current = i /\ pc[i] = "read" /\ Agree(i) /\ PlaceInv
      /\ wire[i] \in Decision /\ wire[i] # "quit"
  BY DEF Think, Thinks, HasThread, UpInv, AgreeInv
<1>2. /\ Differs(pc, pc', i, "thought") /\ Differs(wire, wire', i, wire[i])
      /\ Differs(target, target', i, target[i])
  BY DEF Think, TypeOK, Differs
<1>3. PlaceInv'
  BY <1>1, <1>2, Blocked DEF Think
<1>4. thread[i] \in {"waiting", "yielding", "creating", "forking"}
  BY <1>1 DEF Agree, TypeOK, ThreadState, Decision
<1>5. Agree(i)'
  BY <1>1, <1>2, <1>4 DEF Think, Agree, Differs, Unread, Decision
<1>6. (Creating(i)' => Creating(i)) /\ wire[i] # "reply"
  BY <1>1 DEF Think, Creating, Decision
<1>7. /\ UNCHANGED <<thread, parent, process, nb, child, registered>> /\ current' = NoPid
      /\ create_ack' \subseteq create_ack /\ connect_ack' \subseteq connect_ack
  BY <1>1 DEF Think
<1> QED
  BY <1>1, <1>2, <1>3, <1>4, <1>5, <1>6, <1>7, ActorStep

\* The thread of an actor whose decision is being handled.
LEMMA Reading ==
    ASSUME TypeOK, UpInv, NEW i \in Actors, NEW d \in Decision, Reads(i, d)
    PROVE  /\ current = i /\ PlaceInv /\ wire[i] = d /\ Agree(i)
           /\ pc[i] \in Unread
           /\ d \in {"get", "yield", "sleep", "join", "join_for"} => thread[i] \in {"waiting", "yielding"}
           /\ d \in {"create", "fork"} => thread[i] \in {"creating", "forking"}
           /\ d = "quit" => thread[i] \in {"joining", "after", "gone"}
<1>1. /\ current = i /\ PlaceInv /\ wire[i] = d /\ Agree(i) /\ pc[i] \in Unread
      /\ thread[i] \in ThreadState
  BY DEF Reads, HasThread, UpInv, AgreeInv, TypeOK, Unread
<1> QED
  BY <1>1 DEF Agree, ThreadState, Decision

LEMMA HandleGetUp ==
    ASSUME TypeOK, UpInv, NEW i \in Actors, HandleGet(i) PROVE UpInv'
<1>1. current = i /\ PlaceInv /\ thread[i] \in {"waiting", "yielding"}
  BY Reading DEF HandleGet, Decision
<1>2. Differs(pc, pc', i, "read") /\ Differs(wire, wire', i, "reply")
  BY DEF HandleGet, TypeOK, Differs
<1>3. PlaceInv'
  BY <1>1, <1>2, KeepsThread DEF HandleGet
<1>4. Agree(i)'
  BY <1>1, <1>2 DEF HandleGet, Agree, Differs
<1>5. Creating(i)' => Creating(i)
  BY <1>1 DEF HandleGet, Creating
<1>6. /\ UNCHANGED <<thread, parent, process, nb, child, registered>> /\ current' = i
      /\ create_ack' \subseteq create_ack /\ connect_ack' \subseteq connect_ack
  BY <1>1 DEF HandleGet
<1> QED
  BY <1>1, <1>2, <1>3, <1>4, <1>5, <1>6, ActorStep

LEMMA HandleYieldUp ==
    ASSUME TypeOK, UpInv, NEW i \in Actors, HandleYield(i) PROVE UpInv'
<1>1. current = i /\ PlaceInv /\ thread[i] \in {"waiting", "yielding"}
  BY Reading DEF HandleYield, Decision
<1>2. Differs(pc, pc', i, "reply") /\ Differs(wire, wire', i, "nothing")
  BY DEF HandleYield, TypeOK, Differs
<1>3. PlaceInv'
  BY <1>1, <1>2, Requeued DEF HandleYield
<1>4. Agree(i)'
  BY <1>1, <1>2 DEF HandleYield, Agree, Differs
<1>5. Creating(i)' => Creating(i)
  BY <1>1 DEF HandleYield, Creating
<1>6. /\ UNCHANGED <<thread, parent, process, nb, child, registered>> /\ current' = NoPid
      /\ create_ack' \subseteq create_ack /\ connect_ack' \subseteq connect_ack
  BY <1>1 DEF HandleYield
<1> QED
  BY <1>1, <1>2, <1>3, <1>4, <1>5, <1>6, ActorStep

LEMMA HandleSleepUp ==
    ASSUME TypeOK, UpInv, NEW i \in Actors, HandleSleep(i) PROVE UpInv'
<1>1. current = i /\ PlaceInv /\ thread[i] \in {"waiting", "yielding"}
  BY Reading DEF HandleSleep, Decision
<1>2. /\ Differs(pc, pc', i, "reply") /\ Differs(wire, wire', i, "nothing")
      /\ Differs(target, target', i, target[i])
  BY DEF HandleSleep, TypeOK, Differs
<1>3. PlaceInv'
  BY <1>1, <1>2, Blocked DEF HandleSleep
<1>4. Agree(i)'
  BY <1>1, <1>2 DEF HandleSleep, Agree, Differs
<1>5. Creating(i)' => Creating(i)
  BY <1>1 DEF HandleSleep, Creating
<1>6. /\ UNCHANGED <<thread, parent, process, nb, child, registered>> /\ current' = NoPid
      /\ create_ack' \subseteq create_ack /\ connect_ack' \subseteq connect_ack
  BY <1>1 DEF HandleSleep
<1> QED
  BY <1>1, <1>2, <1>3, <1>4, <1>5, <1>6, ActorStep

LEMMA HandleJoinUp ==
    ASSUME TypeOK, UpInv, NEW i \in Actors, HandleJoin(i) PROVE UpInv'
<1>1. current = i /\ PlaceInv /\ thread[i] \in {"waiting", "yielding"}
  BY Reading DEF HandleJoin, Decision
<1>2. PICK c \in Actors :
        IF pc[c] = "over"
        THEN /\ wire' = [wire EXCEPT ![i] = "reply"] /\ pc' = [pc EXCEPT ![i] = "read"]
             /\ UNCHANGED <<target, asleep, current>>
        ELSE /\ wire' = [wire EXCEPT ![i] = "nothing"] /\ pc' = [pc EXCEPT ![i] = "reply"]
             /\ target' = [target EXCEPT ![i] = c]
             /\ asleep' \in {asleep, asleep \cup {i}} /\ current' = NoPid
  BY DEF HandleJoin
<1>3. UNCHANGED <<nb, ready, child, clientVars, server, queueVars>>
  BY DEF HandleJoin
<1>4. Creating(i)' => Creating(i)
  BY <1>1, <1>3 DEF Creating
<1>5. CASE pc[c] = "over"
  <2>1. Differs(pc, pc', i, "read") /\ Differs(wire, wire', i, "reply")
    BY <1>2, <1>5 DEF TypeOK, Differs
  <2>2. PlaceInv'
    BY <1>1, <1>2, <1>3, <1>5, <2>1, KeepsThread
  <2>3. Agree(i)'
    BY <1>1, <1>3, <2>1 DEF Agree, Differs
  <2> QED
    BY <1>1, <1>2, <1>3, <1>4, <1>5, <2>1, <2>2, <2>3, ActorStep
<1>6. CASE pc[c] # "over"
  <2>1. /\ Differs(pc, pc', i, "reply") /\ Differs(wire, wire', i, "nothing")
        /\ Differs(target, target', i, c)
    BY <1>2, <1>6 DEF TypeOK, Differs
  <2>2. PlaceInv'
    BY <1>1, <1>2, <1>3, <1>6, <2>1, Blocked
  <2>3. Agree(i)'
    BY <1>1, <1>3, <2>1 DEF Agree, Differs
  <2> QED
    BY <1>1, <1>2, <1>3, <1>4, <1>6, <2>1, <2>2, <2>3, ActorStep
<1> QED
  BY <1>5, <1>6

LEMMA RequestRegistrationUp ==
    ASSUME TypeOK, UpInv, NEW i \in Actors, RequestRegistration(i) PROVE UpInv'
<1>1. /\ current = i /\ pc[i] = "created" /\ Agree(i) /\ PlaceInv
      /\ thread[i] \in {"creating", "forking"} /\ wire[i] = "nothing"
  BY DEF RequestRegistration, HasThread, UpInv, AgreeInv, Agree, TypeOK, ThreadState, Unread
<1>2. Differs(pc, pc', i, "create_wait") /\ Differs(wire, wire', i, "nothing")
  BY <1>1 DEF RequestRegistration, TypeOK, Differs
<1>3. PlaceInv'
  BY <1>1, <1>2, KeepsThread DEF RequestRegistration
<1>4. Agree(i)'
  BY <1>1, <1>2 DEF RequestRegistration, Agree, Differs
<1>5. Creating(i)' => Creating(i)
  BY DEF RequestRegistration, Creating
<1>6. /\ UNCHANGED <<thread, parent, process, nb, child, registered>> /\ current' = i
      /\ create_ack' \subseteq create_ack /\ connect_ack' \subseteq connect_ack
  BY <1>1 DEF RequestRegistration
<1> QED
  BY <1>1, <1>2, <1>3, <1>4, <1>5, <1>6, ActorStep

LEMMA ReplyCreateUp ==
    ASSUME TypeOK, UpInv, NEW i \in Actors, ReplyCreate(i) PROVE UpInv'
<1>1. /\ current = i /\ pc[i] = "create_wait" /\ Agree(i) /\ PlaceInv
      /\ thread[i] \in {"creating", "forking"} /\ wire[i] = "nothing"
  BY DEF ReplyCreate, HasThread, UpInv, AgreeInv, Agree, TypeOK, ThreadState, Unread
<1>2. Differs(pc, pc', i, "read") /\ Differs(wire, wire', i, "reply")
  BY DEF ReplyCreate, TypeOK, Differs
<1>3. PlaceInv'
  BY <1>1, <1>2, KeepsThread DEF ReplyCreate
<1>4. Agree(i)'
  BY <1>1, <1>2 DEF ReplyCreate, Agree, Differs
<1>5. Creating(i) /\ child[i] \in registered
  BY <1>1 DEF ReplyCreate, Creating, UpInv, CreationInv
<1>6. /\ UNCHANGED <<thread, parent, process, nb, child, registered>> /\ current' = i
      /\ create_ack' \subseteq create_ack /\ connect_ack' \subseteq connect_ack
  BY <1>1 DEF ReplyCreate
<1> QED
  BY <1>1, <1>2, <1>3, <1>4, <1>5, <1>6, ActorStep

LEMMA ReplyUp ==
    ASSUME TypeOK, UpInv, NEW i \in Actors, Reply(i) PROVE UpInv'
<1>1. /\ current = i /\ pc[i] = "reply" /\ Agree(i) /\ PlaceInv
      /\ thread[i] \in {"waiting", "yielding"} /\ wire[i] = "nothing"
  BY DEF Reply, HasThread, UpInv, AgreeInv, Agree, TypeOK, ThreadState, Unread
<1>2. Differs(pc, pc', i, "read") /\ Differs(wire, wire', i, "reply")
  BY DEF Reply, TypeOK, Differs
<1>3. PlaceInv'
  BY <1>1, <1>2, KeepsThread DEF Reply
<1>4. Agree(i)'
  BY <1>1, <1>2 DEF Reply, Agree, Differs
<1>5. Creating(i)' => Creating(i)
  BY <1>1 DEF Reply, Creating
<1>6. /\ UNCHANGED <<thread, parent, process, nb, child, registered>> /\ current' = i
      /\ create_ack' \subseteq create_ack /\ connect_ack' \subseteq connect_ack
  BY <1>1 DEF Reply
<1> QED
  BY <1>1, <1>2, <1>3, <1>4, <1>5, <1>6, ActorStep
LEMMA HandleQuitUp ==
    ASSUME TypeOK, UpInv, NEW i \in Actors, HandleQuit(i) PROVE UpInv'
<1> DEFINE p == parent[i]
<1>1. current = i /\ PlaceInv /\ thread[i] \in {"joining", "after", "gone"}
  BY Reading DEF HandleQuit, Decision
<1>2. Differs(pc, pc', i, "over") /\ Differs(wire, wire', i, "nothing")
  BY DEF HandleQuit, TypeOK, Differs
<1>3. /\ UNCHANGED <<thread, parent, process, nb, child, registered>> /\ current' = NoPid
      /\ create_ack' \subseteq create_ack /\ connect_ack' \subseteq connect_ack
  BY DEF HandleQuit
<1>4. i \notin Elements(ready) /\ i \notin asleep /\ target[i] = NoPid
  BY <1>1 DEF PlaceInv
<1>5. ready \in Seq(Actors) /\ Elements(ready) \subseteq Actors /\ NoPid \notin Actors
  BY LineOfActors
<1>6. PlaceInv'
  <2>1. CASE p # NoPid /\ target[p] = i
    <3>1. p \in Actors /\ p # i /\ p \notin Elements(ready) /\ pc[p] \in {"reply", "thought"}
      BY <1>1, <1>4, <1>5, <2>1 DEF TypeOK, PlaceInv
    <3>2. ready' = Append(ready, p) /\ asleep' = asleep \ {p} /\ Differs(target, target', p, NoPid)
      BY <2>1, <3>1 DEF HandleQuit, TypeOK, Differs
    <3>3. Elements(ready') = Elements(ready) \cup {p} /\ Distinct(ready')
      BY <1>1, <1>5, <3>1, <3>2, AppendElements DEF PlaceInv
    <3> QED
      BY <1>1, <1>2, <1>3, <1>4, <1>5, <3>1, <3>2, <3>3 DEF PlaceInv, Differs
  <2>2. CASE ~(p # NoPid /\ target[p] = i)
    <3>1. UNCHANGED <<ready, asleep, target>>
      BY <2>2 DEF HandleQuit
    <3> QED
      BY <1>1, <1>2, <1>3, <1>4, <1>5, <3>1 DEF PlaceInv, Differs
  <2> QED
    BY <2>1, <2>2
<1>7. Agree(i)' /\ (Creating(i)' => Creating(i)) /\ thread[i] # "sem"
  BY <1>1, <1>2, <1>3 DEF Agree, Creating, Differs
<1> QED
  BY <1>1, <1>2, <1>3, <1>6, <1>7, ActorStep

LEMMA HandleCreateUp ==
    ASSUME IndInv, UpInv, NEW i \in Actors, HandleCreate(i) PROVE UpInv'
<1> DEFINE c == nb + 1
<1>0. TypeOK /\ AgreeInv /\ PlaceInv /\ TurnInv /\ AbsentInv /\ FamilyInv /\ CreationInv
  BY DEF UpInv, IndInv
<1>1. current = i /\ thread[i] \in {"creating", "forking"} /\ Agree(i)
  BY <1>0, Reading DEF HandleCreate, Decision
<1>2. c \in Actors /\ nb \in Nat /\ c \in Nat /\ \A j \in Actors : j \in Nat
  BY <1>0, CreationFits DEF TypeOK, Actors
<1>3. /\ i \notin Elements(ready) /\ i \notin asleep /\ target[i] = NoPid
      /\ pc[i] # "absent" /\ i < c /\ i # c
  <2>1. i \notin Elements(ready) /\ i \notin asleep /\ target[i] = NoPid /\ pc[i] # "absent"
    BY <1>0, <1>1 DEF PlaceInv
  <2>2. ~(i > nb)
    BY <1>0, <2>1 DEF AgreeInv
  <2> QED
    BY <1>2, <2>1, <2>2
<1>4. /\ pc[c] = "absent" /\ thread[c] = "absent" /\ wire[c] = "nothing" /\ Alone(c)
      /\ c \notin Elements(ready) /\ c \notin asleep /\ target[c] = NoPid
      /\ \A j \in Actors : parent[j] # c
  <2>1. pc[c] = "absent" /\ Agree(c)
    BY <1>0, <1>2 DEF AgreeInv
  <2>2. thread[c] = "absent" /\ wire[c] = "nothing"
    BY <1>0, <1>2, <2>1 DEF Agree, TypeOK, ThreadState, Unread
  <2> QED
    BY <1>0, <1>2, <2>1, <2>2 DEF AbsentInv, PlaceInv
<1>5. /\ wire'[i] = "nothing" /\ pc'[i] = "created" /\ pc'[c] = "born" /\ child'[i] = c
      /\ \A j \in Actors : j # i => wire'[j] = wire[j] /\ child'[j] = child[j]
      /\ \A j \in Actors : j # i /\ j # c => pc'[j] = pc[j]
  BY <1>0, <1>2, <1>3 DEF HandleCreate, TypeOK
<1>6. nb' = c /\ current' = NoPid /\ UNCHANGED <<asleep, target, clientVars, queueVars>>
      /\ ready' = ready \o <<c, i>>
  BY DEF HandleCreate
<1>7. Elements(ready') = Elements(ready) \cup {c, i} /\ Distinct(ready')
  <2>1. ready' = Append(Append(ready, c), i) /\ ready \in Seq(Actors) /\ Distinct(ready)
    BY <1>0, <1>2, <1>6 DEF TypeOK, PlaceInv
  <2>2. /\ Append(ready, c) \in Seq(Actors) /\ Elements(Append(ready, c)) = Elements(ready) \cup {c}
        /\ Distinct(Append(ready, c))
    BY <1>2, <1>4, <2>1, AppendElements
  <2>3. i \notin Elements(Append(ready, c))
    BY <1>3, <2>2
  <2>4. /\ Elements(Append(Append(ready, c), i)) = Elements(Append(ready, c)) \cup {i}
        /\ Distinct(Append(Append(ready, c), i))
    BY <2>2, <2>3, AppendElements
  <2> QED
    BY <2>1, <2>2, <2>4
<1> HIDE DEF c
<1>8. AgreeInv'
  <2> SUFFICES ASSUME NEW j \in Actors PROVE Agree(j)' /\ (pc'[j] = "absent" <=> j > nb')
    BY DEF AgreeInv
  <2>1. CASE j = i
    BY <1>1, <1>2, <1>3, <1>5, <1>6, <2>1 DEF Agree
  <2>2. CASE j = c
    BY <1>2, <1>3, <1>4, <1>5, <1>6, <2>2 DEF Agree
  <2>3. CASE j # i /\ j # c
    <3>1. Agree(j) /\ (pc[j] = "absent" <=> j > nb)
      BY <1>0 DEF AgreeInv
    <3>2. j > nb <=> j > nb'
      BY <1>2, <1>6, <2>3 DEF c
    <3>3. Agree(j)'
      BY <1>5, <1>6, <2>3, <3>1 DEF Agree
    <3> QED
      BY <1>5, <2>3, <3>1, <3>2, <3>3
  <2> QED
    BY <2>1, <2>2, <2>3
<1>9. PlaceInv'
  <2>1. Elements(ready) \subseteq Actors /\ NoPid \notin Actors
    BY <1>0, LineOfActors
  <2> QED
    BY <1>0, <1>1, <1>2, <1>3, <1>4, <1>5, <1>6, <1>7, <2>1 DEF PlaceInv
<1>10. TurnInv'
  <2>1. \A j \in Actors : Alone(j)' <=> Alone(j)
    BY <1>6 DEF Alone
  <2> QED
    BY <1>0, <1>1, <1>3, <1>4, <1>5, <1>6, <2>1 DEF TurnInv
<1>11. FamilyInv' /\ AbsentInv'
  <2>1. Differs(thread, thread', i, thread[i]) /\ thread[i] \in Settled
    BY <1>1, <1>6 DEF Differs, Settled
  <2>2. \A j \in Actors : thread[j] = "sem" => child'[j] = child[j]
    BY <1>1, <1>5
  <2> QED
    BY <1>0, <1>6, <2>1, <2>2, FamilyKept
<1>12. CreationInv'
  <2>1. \A j \in Actors : j # i => (Creating(j)' <=> Creating(j)) /\ child'[j] = child[j]
    BY <1>5, <1>6 DEF Creating
  <2>2. \A j \in Actors : Creating(j) => child[j] # c /\ child[j] <= c
    BY <1>0, <1>2 DEF CreationInv, c
  <2>3. /\ \A k \in Actors : thread'[k] \in {"hook", "connecting"} => k \in registered'
        /\ create_ack' \subseteq registered'
        /\ \A k \in connect_ack' : thread'[k] \notin {"absent", "hook", "connecting"}
    BY <1>0, <1>6 DEF CreationInv
  <2>4. ASSUME NEW j \in Actors, Creating(j)'
        PROVE  /\ child'[j] \in Actors /\ j < child'[j] /\ child'[j] <= nb'
               /\ thread'[child'[j]] = "absent"
               /\ wire'[j] = "reply" => child'[j] \in registered'
               /\ \A k \in Actors : Creating(k)' /\ child'[k] = child'[j] => k = j
    <3>1. CASE j = i
      <4>1. child'[j] = c /\ c \in Actors /\ j < c /\ c <= nb' /\ thread'[c] = "absent" /\ wire'[j] = "nothing"
        BY <1>2, <1>3, <1>4, <1>5, <1>6, <3>1
      <4>2. \A k \in Actors : Creating(k)' /\ child'[k] = c => k = j
        BY <2>1, <2>2, <3>1
      <4> QED
        BY <4>1, <4>2
    <3>2. CASE j # i
      <4>1. Creating(j) /\ child'[j] = child[j] /\ wire'[j] = wire[j]
        BY <1>5, <2>1, <2>4, <3>2
      <4> QED
        BY <1>0, <1>5, <1>6, <2>1, <2>2, <4>1 DEF CreationInv
    <3> QED
      BY <3>1, <3>2
  <2> QED
    BY <2>3, <2>4 DEF CreationInv
<1> QED
  BY <1>8, <1>9, <1>10, <1>11, <1>12 DEF UpInv
----------------------------------------------------------------------------
(* The inductive invariant and what follows from it *)

LEMMA InitUp == Init => UpInv
<1> SUFFICES ASSUME Init PROVE UpInv
  OBVIOUS
<1>0. NbInitial \in Nat /\ NbInitial <= MaxActors /\ \A i \in Actors : i \in Nat /\ i # NoPid
  BY BoundsAssumption DEF Actors, NoPid
<1>1. /\ nb = NbInitial /\ current = NoPid /\ asleep = {}
      /\ \A i \in Actors : /\ thread[i] = IF i <= NbInitial THEN "user" ELSE "absent"
                           /\ pc[i] = IF i <= NbInitial THEN "read" ELSE "absent"
                           /\ parent[i] = NoPid /\ process[i] = i /\ wire[i] = "nothing"
                           /\ target[i] = NoPid
  BY DEF Init
<1>2. Elements(ready) = 1 .. NbInitial /\ Distinct(ready)
  BY DEF Init, Elements, Distinct
<1>3. AgreeInv
  BY <1>0, <1>1 DEF AgreeInv, Agree
<1>4. PlaceInv
  <2>1. \A i \in Actors : i <= NbInitial <=> i \in Elements(ready)
    BY <1>0, <1>2 DEF Actors
  <2>2. current \notin Elements(ready)
    BY <1>0, <1>1, <1>2 DEF NoPid
  <2> QED
    BY <1>0, <1>1, <1>2, <2>1, <2>2 DEF PlaceInv
<1>5. \A i \in Actors : Alone(i)
  BY <1>1 DEF Alone
<1>6. TurnInv /\ AbsentInv
  BY <1>0, <1>1, <1>5 DEF TurnInv, AbsentInv
<1>7. FamilyInv
  BY <1>0, <1>1 DEF FamilyInv, Joined, NoPid
<1>8. CreationInv
  BY <1>0, <1>1 DEF CreationInv, Creating, Init
<1> QED
  BY <1>3, <1>4, <1>6, <1>7, <1>8 DEF UpInv

\* A server that has disappeared does not come back.
LEMMA NeverBack ==
    ASSUME Next, server' = "up" PROVE server = "up"
  BY DEF Next, SimGridThread, ClientThread, CommandThread, Dispatch, AdvanceClock, YieldToParent,
       AwaitConnect, Think, HandleGet, HandleYield, HandleSleep, HandleJoin, HandleCreate,
       RequestRegistration, ReplyCreate, Reply, HandleQuit, ServerDies, ReadFails, ConnectFails,
       SendDecision, ReadReply, StartThread, Fork, SendConnect, PostSemaphore, YieldFirst,
       Disconnect, JoinChildren, ExitProcess, ReuseConnectedSocket, RegisterActor,
       HandleConnect, WriteConnectAck, Exited

LEMMA UpNext ==
    ASSUME IndInv, Next, server' = "up" PROVE UpInv'
<1>1. server = "up"
  BY NeverBack
<1>2. TypeOK /\ UpInv /\ create_ack \subseteq registered
  BY <1>1 DEF IndInv, UpInv, CreationInv
<1>3. ASSUME NEW i \in Actors, ReuseConnectedSocket(i) PROVE UpInv'
  BY <1>2, <1>3, RegisterUp DEF ReuseConnectedSocket
<1>4. ASSUME NEW i \in Actors, RegisterActor(i) PROVE UpInv'
  BY <1>2, <1>4, RegisterUp DEF RegisterActor
<1>5. CASE Exited
  BY <1>2, <1>5, RegisterUp DEF Exited
<1>6. ASSUME NEW i \in Actors, ClientThread(i) PROVE UpInv'
  BY <1>1, <1>2, <1>3, <1>6, SendDecisionUp, ReadReplyUp, StartThreadUp, ForkUp, SendConnectUp,
     PostSemaphoreUp, YieldFirstUp, DisconnectUp, JoinChildrenUp, ExitProcessUp
     DEF ClientThread, ReadFails, ConnectFails
<1>7. ASSUME NEW i \in Actors, CommandThread(i) PROVE UpInv'
  BY <1>2, <1>4, <1>7, HandleConnectUp, WriteConnectAckUp DEF CommandThread
<1>8. CASE SimGridThread
  BY <1>2, <1>8, DispatchUp, AdvanceClockUp, YieldToParentUp, AwaitConnectUp, ThinkUp, HandleGetUp,
     HandleYieldUp, HandleSleepUp, HandleJoinUp, HandleCreateUp, RequestRegistrationUp,
     ReplyCreateUp, ReplyUp, HandleQuitUp DEF SimGridThread
<1>9. ~ServerDies
  BY DEF ServerDies
<1> QED
  BY <1>5, <1>6, <1>7, <1>8, <1>9 DEF Next

\* The inductive invariant: types, the bound on creations and, as long as the
\* server is there, how client threads, connections and simulated actors agree
\* (AgreeInv), where simulated actors are (PlaceInv), who has the SimGrid thread
\* (TurnInv), how threads are related (AbsentInv, FamilyInv), and how far the
\* creation of an actor is (CreationInv).
THEOREM Inductive == Spec => []IndInv
<1>1. Init => IndInv
  BY TypeInit, BoundInit, InitUp DEF IndInv
<1>2. IndInv /\ [Next]_vars => IndInv'
  <2> SUFFICES ASSUME IndInv, [Next]_vars PROVE IndInv'
    OBVIOUS
  <2>1. CASE Next
    BY <2>1, TypeNext, BoundNext, UpNext DEF IndInv
  <2>2. CASE UNCHANGED vars
    <3>1. TypeOK' /\ BoundInv'
      BY <2>2 DEF IndInv, TypeOK, BoundInv, PendingCreations
    <3>2. server' = "up" => UpInv'
      <4>1. server' = "up" => UpInv /\ create_ack \subseteq registered
        BY <2>2 DEF IndInv, UpInv, CreationInv
      <4> QED
        BY <2>2, <4>1, RegisterUp
    <3> QED
      BY <3>1, <3>2 DEF IndInv
  <2> QED
    BY <2>1, <2>2
<1> QED
  BY <1>1, <1>2, PTL DEF Spec

\* The three parties stay in their types, and no more actors are created than
\* there is room for.
THEOREM TypeCorrect == Spec => []TypeOK
<1>1. IndInv => TypeOK
  BY DEF IndInv
<1> QED
  BY <1>1, Inductive, PTL

\* No CONNECT reaches the command thread before it knows the actor: the creator's
\* reply, which lets the new client start, follows the registration.
THEOREM ConnectExpected == Spec => []ConnectIsExpected
<1>1. IndInv => ConnectIsExpected
  BY DEF IndInv, UpInv, CreationInv, ConnectIsExpected
<1> QED
  BY <1>1, Inductive, PTL

\* When the main thread of a process has joined its children, all the threads of
\* the process are over: take the oldest that is not, its parent is not over.
LEMMA ProcessOver ==
    ASSUME TypeOK, FamilyInv, AbsentInv, NEW i \in Actors, process[i] = i,
           thread[i] \in {"after", "gone"}, NEW j \in Actors, process[j] = i, j # i
    PROVE  thread[j] = "gone"
<1> DEFINE S == {k \in Actors : process[k] = i /\ k # i /\ thread[k] # "gone"}
           R == OpToRel(<, Nat)
<1> SUFFICES ASSUME thread[j] # "gone" PROVE FALSE
  OBVIOUS
<1>1. S \subseteq Nat /\ S # {}
  BY DEF Actors
<1>2. IsWellFoundedOn(R, Nat)
  BY NatLessThanWellFounded
<1>3. PICK k \in S : \A l \in S : ~(<<l, k>> \in R)
  <2> HIDE DEF S, R
  <2> QED
    BY <1>1, <1>2, WFMin
<1>4. \A l \in S : ~(l < k)
  BY <1>1, <1>3 DEF OpToRel
<1>5. /\ parent[k] \in Actors /\ parent[k] < k /\ process[parent[k]] = i
      /\ thread[parent[k]] \notin {"after", "gone"}
  BY DEF FamilyInv, Joined
<1> QED
  BY <1>4, <1>5

\* actor.cpp: "This thread should NEVER run concurrently with the new actor's
\* thread": whoever is in user code has the SimGrid thread, or is the child that
\* the one who has it waits for, or is alone in its process.
THEOREM OneThreadRuns == Spec => []MutualExclusion
<1>1. IndInv => MutualExclusion
  <2> SUFFICES ASSUME IndInv, server = "up", NEW i \in Actors, NEW j \in Actors, i # j,
                      process[i] = process[j], InUserCode(i), InUserCode(j)
               PROVE  FALSE
    BY DEF MutualExclusion
  <2>0. TypeOK /\ AgreeInv /\ TurnInv /\ AbsentInv /\ FamilyInv
    BY DEF IndInv, UpInv
  <2>1. ASSUME NEW k \in Actors, thread[k] = "user" PROVE current = k \/ Alone(k)
    <3>1. pc[k] \in {"born", "await_connect", "read"}
      BY <2>0, <2>1 DEF AgreeInv, Agree
    <3> QED
      BY <2>0, <2>1, <3>1 DEF TurnInv, Newborn
  <2>2. ASSUME NEW k \in Actors, thread[k] \in {"hook", "connected"}
        PROVE  /\ parent[k] \in Actors /\ thread[parent[k]] = "sem" /\ child[parent[k]] = k
               /\ current = parent[k]
    <3>1. parent[k] \in Actors /\ thread[parent[k]] = "sem" /\ child[parent[k]] = k
      BY <2>0, <2>2 DEF FamilyInv, Joined
    <3> QED
      BY <2>0, <3>1 DEF TurnInv
  <2>3. ASSUME NEW k \in Actors, NEW l \in Actors, k # l, process[l] = process[k]
        PROVE  thread[k] = "after" => thread[l] = "gone"
    BY <2>0, <2>3, ProcessOver DEF FamilyInv
  <2>4. ~Alone(i) /\ ~Alone(j)
    BY DEF Alone
  <2> QED
    BY <2>1, <2>2, <2>3, <2>4 DEF InUserCode
<1> QED
  BY <1>1, Inductive, PTL

\* The simulated clock advances only when every live client is blocked in a decision
\* that the simulation has to answer, or thinks: an actor that is neither running nor
\* in the line is past reading its decision, and its client waits.
THEOREM ClockStandsStill == Spec => ClockFrozen
<1> DEFINE Waits(i) ==
             \/ pc[i] = "thought"
             \/ /\ thread[i] \in {"waiting", "yielding", "joining", "after", "gone"}
                /\ wire[i] = "nothing"
           Frozen == current = NoPid /\ ready = <<>> /\ asleep' # asleep /\ server' = "up" =>
                       \A i \in 1 .. nb : Waits(i)
<1>1. IndInv /\ [Next]_vars => Frozen
  <2> SUFFICES ASSUME IndInv, Next, current = NoPid, ready = <<>>, asleep' # asleep,
                      server' = "up", NEW i \in 1 .. nb
               PROVE  Waits(i)
    OBVIOUS
  <2>1. server = "up"
    BY NeverBack
  <2>2. TypeOK /\ AgreeInv /\ PlaceInv
    BY <2>1 DEF IndInv, UpInv
  <2>3. i \in Actors /\ i # NoPid /\ ~(i > nb)
    BY <2>2, BoundsAssumption DEF TypeOK, Actors, NoPid
  <2>4. /\ i \notin Elements(ready) /\ current # i
        /\ pc[i] # "absent" /\ Agree(i)
    BY <2>2, <2>3 DEF Elements, AgreeInv
  <2>5. pc[i] \in {"thought", "reply", "over"}
    BY <2>2, <2>3, <2>4 DEF PlaceInv, TypeOK, ControlPoint
  <2> QED
    BY <2>2, <2>3, <2>4, <2>5 DEF Agree, TypeOK, ThreadState, Unread
<1>2. ClockFrozen <=> [][Frozen]_vars
  BY DEF ClockFrozen
<1> QED
  BY <1>1, <1>2, Inductive, PTL DEF Spec
=============================================================================
