---------------------------- MODULE ActorThreads ----------------------------
(***************************************************************************)
(* Actors and the threads that play them.                                  *)
(*                                                                         *)
(* On the server every actor is a simulated actor of SimGrid running the   *)
(* request loop of Actor::operator() (src/rsg/simulation.cpp).  SimGrid    *)
(* runs one of them at a time, and a blocking read of its socket or of an  *)
(* inter-thread queue blocks them all.  On the client side every actor is  *)
(* a thread of a process using librsg.  Actor::create and Actor::fork      *)
(* (src/librsg/actor.cpp) make the client of a new actor.                  *)
(*                                                                         *)
(* Three parties interleave: the SimGrid thread, the command thread, which *)
(* registers new actors and accepts their CONNECT, and the client threads. *)
(* Decisions are abstracted to how they schedule the simulated actor.      *)
(***************************************************************************)
EXTENDS Naturals, Sequences, FiniteSets

CONSTANTS
    NbInitial,     \* initial actors, each in a process of its own
    MaxActors,     \* bound on the number of actors
    MaxDecisions,  \* bound on the decisions of an actor other than quit, and on its mutations
    ThinkTimes,    \* values of RSG_THINK_TIME in an initial process
    ServerMayDie   \* the server process may disappear at any point

ASSUME BoundsAssumption ==
    /\ NbInitial \in Nat \ {0} /\ MaxActors \in Nat /\ NbInitial <= MaxActors
    /\ MaxDecisions \in Nat /\ ServerMayDie \in BOOLEAN
    /\ ThinkTimes \subseteq {"unset", "zero", "positive", "AS_MEASURED_BY_CLIENT"}

VARIABLES
    nb,          \* actors created so far in the simulation: pids 1 .. nb
    \* Client side
    thread,      \* what the client thread of an actor is doing
    parent,      \* the actor that created it, NoPid for an initial actor
    process,     \* the actor whose main() its process runs
    environment, \* RSG_THINK_TIME asks for a think time in its process
    think_time,  \* its decisions come with a positive think time
    budget,      \* decisions it may still take
    wire,        \* its connection: an unread decision, an unread reply, nothing
    server,      \* whether the server process is there
    \* SimGrid thread
    current,     \* the simulated actor that has the thread, NoPid for maestro
    ready,       \* simulated actors to run, in order
    asleep,      \* simulated actors blocked until a later date
    pc,          \* where each simulated actor is in Actor::operator()
    child,       \* the actor whose creation a simulated actor is handling
    target,      \* the actor a simulated actor joins
    \* Inter-thread queues and the registry of the command thread
    requests,    \* ACTOR_CREATE messages
    registered,  \* actors the command thread accepts a CONNECT from
    create_ack,  \* ACTOR_CREATE_ACK messages, by new actor
    connect_ack  \* ACTOR_CONNECTED messages, by new actor

familyVars == <<parent, process, environment>>
clientVars == <<thread, familyVars, think_time, budget>>
simVars == <<nb, current, ready, asleep, pc, child, target>>
queueVars == <<requests, registered, create_ack, connect_ack>>
vars == <<clientVars, wire, server, simVars, queueVars>>

NoPid == 0
Actors == 1 .. MaxActors

Decision == {"get", "yield", "sleep", "join", "join_for", "create", "fork", "quit"}
ThreadState ==
    {"absent", "user", "waiting", "creating", "forking", "sem",
     "hook", "connecting", "accepted", "connected", "posted", "yielding",
     "joining", "after", "gone"}
ControlPoint ==
    {"absent", "born", "await_connect", "read", "reply", "created", "create_wait",
     "thought", "over"}

\* retrieve_rsg_think_time_from_env(): none, the one that is measured or a constant.
ThinkTimeFromEnv(env) == env \notin {"unset", "zero"}

Init ==
    /\ nb = NbInitial
    /\ thread = [i \in Actors |-> IF i <= NbInitial THEN "user" ELSE "absent"]
    /\ parent = [i \in Actors |-> NoPid]
    /\ process = [i \in Actors |-> i]
    /\ budget = [i \in Actors |-> MaxDecisions]
    /\ wire = [i \in Actors |-> "nothing"]
    /\ \E env \in [1 .. NbInitial -> ThinkTimes] :
         environment = [i \in Actors |-> i <= NbInitial /\ ThinkTimeFromEnv(env[i])]
    /\ think_time = environment
    /\ server = "up"
    /\ current = NoPid
    /\ ready = [i \in 1 .. NbInitial |-> i] /\ asleep = {}
    /\ pc = [i \in Actors |-> IF i <= NbInitial THEN "read" ELSE "absent"]
    /\ child = [i \in Actors |-> NoPid]
    /\ target = [i \in Actors |-> NoPid]
    /\ requests = {} /\ registered = {} /\ create_ack = {} /\ connect_ack = {}

----------------------------------------------------------------------------
(* The client threads *)

\* User code runs: between two decisions, before the first one of a process,
\* in the connection hooks of a new thread, after rsg::disconnect().
InUserCode(i) == thread[i] \in {"user", "hook", "connected", "after"}

\* The threads Actor::create() of actor i has started.
ChildThreads(i) == {c \in Actors : parent[c] = i /\ process[c] = process[i]}

\* What the thread waits for after a decision.
WaitState(d) == CASE d = "create" -> "creating" [] d = "fork" -> "forking"
                  [] OTHER -> "waiting"

\* Creations the server has not read yet, to keep within MaxActors.
PendingCreations == Cardinality({j \in Actors : wire[j] \in {"create", "fork"}})

\* Nobody reads what is written to a server that is gone.
Written(d) == IF server = "up" THEN d ELSE "nothing"

\* send_decision(): write the decision, then read the reply.
SendDecision(i, d) ==
    /\ thread[i] = "user" /\ budget[i] > 0
    /\ d \in {"create", "fork"} => nb + PendingCreations < MaxActors
    /\ d \in {"join", "join_for"} => \E c \in Actors : parent[c] = i
    /\ wire' = [wire EXCEPT ![i] = Written(d)]
    /\ thread' = [thread EXCEPT ![i] = WaitState(d)]
    /\ budget' = [budget EXCEPT ![i] = @ - 1]
    /\ UNCHANGED <<familyVars, think_time, server, simVars, queueVars>>

ReadReply(i) ==
    /\ wire[i] = "reply" /\ thread[i] \in {"waiting", "yielding"}
    /\ wire' = [wire EXCEPT ![i] = "nothing"]
    /\ thread' = [thread EXCEPT ![i] = "user"]
    /\ UNCHANGED <<familyVars, think_time, budget, server, simVars, queueVars>>

\* Actor::create(): start the thread of the new actor and wait for it.
StartThread(i) ==
    /\ wire[i] = "reply" /\ thread[i] = "creating"
    /\ wire' = [wire EXCEPT ![i] = "nothing"]
    /\ LET c == child[i]
       IN  /\ thread' = [thread EXCEPT ![i] = "sem", ![c] = "hook"]
           /\ parent' = [parent EXCEPT ![c] = i]
           /\ process' = [process EXCEPT ![c] = process[i]]
           /\ environment' = [environment EXCEPT ![c] = environment[i]]
    /\ UNCHANGED <<think_time, budget, server, simVars, queueVars>>

\* Actor::fork(): both processes go on; the child connects first.
Fork(i) ==
    /\ wire[i] = "reply" /\ thread[i] = "forking"
    /\ wire' = [wire EXCEPT ![i] = "nothing"]
    /\ LET c == child[i]
       IN  /\ thread' = [thread EXCEPT ![i] = "user", ![c] = "connecting"]
           /\ parent' = [parent EXCEPT ![c] = i]
           /\ environment' = [environment EXCEPT ![c] = environment[i]]
    /\ UNCHANGED <<process, think_time, budget, server, simVars, queueVars>>

\* actor_wrapper(): the hook before the connection returns, CONNECT is sent.
SendConnect(i) ==
    /\ thread[i] = "hook"
    /\ thread' = [thread EXCEPT ![i] = "connecting"]
    /\ UNCHANGED <<familyVars, think_time, budget, wire, server, simVars, queueVars>>

\* actor_wrapper(): the hook after the connection returns, the parent goes on.
PostSemaphore(i) ==
    /\ thread[i] = "connected"
    /\ thread' = [thread EXCEPT ![i] = "posted", ![parent[i]] = "user"]
    /\ UNCHANGED <<familyVars, think_time, budget, wire, server, simVars, queueVars>>

\* Mutant: the new thread does not yield before the actor's code.
RunWithoutYield(i) ==
    /\ thread[i] = "posted"
    /\ thread' = [thread EXCEPT ![i] = "user"]
    /\ UNCHANGED <<familyVars, think_time, budget, wire, server, simVars, queueVars>>

\* actor_wrapper(): this_actor::yield() before the actor's code.
YieldFirst(i) ==
    /\ thread[i] = "posted"
    /\ thread' = [thread EXCEPT ![i] = "yielding"]
    /\ wire' = [wire EXCEPT ![i] = Written("yield")]
    /\ UNCHANGED <<familyVars, think_time, budget, server, simVars, queueVars>>

\* ~Connection(): quit has no think time and is not answered; then join the
\* threads started here.
Disconnect(i) ==
    /\ thread[i] = "user"
    /\ thread' = [thread EXCEPT ![i] = "joining"]
    /\ wire' = [wire EXCEPT ![i] = Written("quit")]
    /\ UNCHANGED <<familyVars, think_time, budget, server, simVars, queueVars>>

\* A created thread ends; the main thread of a process continues main().
JoinChildren(i) ==
    /\ thread[i] = "joining"
    /\ \A c \in ChildThreads(i) : thread[c] = "gone"
    /\ thread' = [thread EXCEPT ![i] = IF process[i] = i THEN "after" ELSE "gone"]
    /\ UNCHANGED <<familyVars, think_time, budget, wire, server, simVars, queueVars>>

ExitProcess(i) ==
    /\ thread[i] = "after"
    /\ thread' = [thread EXCEPT ![i] = "gone"]
    /\ UNCHANGED <<familyVars, think_time, budget, wire, server, simVars, queueVars>>

\* execvp() in an initial process without other threads, and the new program calls
\* reuse_connected_socket(): the connection is kept, RSG_THINK_TIME is not read
\* again.  In a process without think time, nothing changes.
ReuseConnectedSocket(i) ==
    /\ thread[i] = "user" /\ i <= NbInitial /\ think_time[i] /\ budget[i] > 0
    /\ \A j \in Actors \ {i} : process[j] = i => thread[j] = "gone"
    /\ think_time' = [think_time EXCEPT ![i] = FALSE]
    /\ budget' = [budget EXCEPT ![i] = @ - 1]
    /\ UNCHANGED <<thread, familyVars, wire, server, simVars, queueVars>>

\* The server is gone and the thread waits for an answer: read_message() throws.
\* User code catches the exception, or actor_wrapper() does, or the process ends.
EndProcess(i) ==
    thread' = [j \in Actors |-> IF process[j] = process[i] THEN "gone" ELSE thread[j]]

ReadFails(i) ==
    /\ server = "gone" /\ wire[i] # "reply"
    /\ thread[i] \in {"waiting", "creating", "forking", "yielding"}
    /\ \/ thread[i] # "yielding" /\ thread' = [thread EXCEPT ![i] = "user"]
       \/ process[i] # i /\ thread' = [thread EXCEPT ![i] = "joining"]
       \/ process[i] = i /\ EndProcess(i)
    /\ UNCHANGED <<familyVars, think_time, budget, wire, server, simVars, queueVars>>

\* rsg::connect() throws.  A created thread lets its parent go on before it throws
\* again, which nobody catches; a forked process is in user code.
ConnectFails(i) ==
    /\ server = "gone" /\ thread[i] \in {"connecting", "accepted"}
    /\ \/ EndProcess(i)
       \/ process[i] = i /\ thread' = [thread EXCEPT ![i] = "after"]
    /\ UNCHANGED <<familyVars, think_time, budget, wire, server, simVars, queueVars>>

ClientThread(i) ==
    \/ ReadFails(i) \/ ConnectFails(i)
    \/ \E d \in Decision \ {"quit"} : SendDecision(i, d)
    \/ ReadReply(i) \/ StartThread(i) \/ Fork(i) \/ SendConnect(i)
    \/ PostSemaphore(i) \/ YieldFirst(i) \/ Disconnect(i) \/ JoinChildren(i)
    \/ ExitProcess(i) \/ ReuseConnectedSocket(i)

----------------------------------------------------------------------------
(* The command thread, for dynamic actors: the ACTOR_CREATE message and the *)
(* CONNECT command of serve().                                              *)

RegisterActor(c) ==
    /\ server = "up" /\ c \in requests
    /\ requests' = requests \ {c}
    /\ registered' = registered \cup {c}
    /\ create_ack' = create_ack \cup {c}
    /\ UNCHANGED <<clientVars, wire, server, simVars, connect_ack>>

\* ACTOR_CONNECTED is pushed before the acknowledgement is written.
HandleConnect(c) ==
    /\ server = "up" /\ thread[c] = "connecting" /\ c \in registered
    /\ connect_ack' = connect_ack \cup {c}
    /\ thread' = [thread EXCEPT ![c] = "accepted"]
    /\ UNCHANGED <<familyVars, think_time, budget, wire, server, simVars, requests,
                   registered, create_ack>>

\* The client reads the acknowledgement, then RSG_THINK_TIME, whatever the think time
\* of its parent.  The new thread runs its second hook; a forked process its program.
WriteConnectAck(c) ==
    /\ server = "up" /\ thread[c] = "accepted"
    /\ thread' = [thread EXCEPT ![c] = IF process[c] = c THEN "user" ELSE "connected"]
    /\ think_time' = [think_time EXCEPT ![c] = environment[c]]
    /\ UNCHANGED <<familyVars, budget, wire, server, simVars, queueVars>>

CommandThread(c) == RegisterActor(c) \/ HandleConnect(c) \/ WriteConnectAck(c)

----------------------------------------------------------------------------
(* The SimGrid thread.  `current` keeps the thread until its simulated     *)
(* actor blocks in the simulation; maestro then takes the next one.        *)

HasThread(i) == server = "up" /\ current = i

Dispatch ==
    /\ server = "up" /\ current = NoPid /\ ready # <<>>
    /\ current' = Head(ready) /\ ready' = Tail(ready)
    /\ UNCHANGED <<nb, asleep, pc, child, target, clientVars, wire, server, queueVars>>

\* Nobody can run at the current date: the clock advances to the next event.
AdvanceClock ==
    /\ server = "up" /\ current = NoPid /\ ready = <<>>
    /\ \E i \in asleep :
         /\ ready' = <<i>> /\ asleep' = asleep \ {i}
         /\ target' = [target EXCEPT ![i] = NoPid]
    /\ UNCHANGED <<nb, current, pc, child, clientVars, wire, server, queueVars>>

\* Mutant: the new simulated actor waits for its client at once.
AwaitAtOnce(i) ==
    /\ HasThread(i) /\ pc[i] = "born"
    /\ pc' = [pc EXCEPT ![i] = "await_connect"]
    /\ UNCHANGED <<current, ready, nb, asleep, child, target, clientVars, wire, server,
                   queueVars>>

\* Mutant: the new simulated actor sleeps instead of yielding.
SleepBeforeParent(i) ==
    /\ HasThread(i) /\ pc[i] = "born"
    /\ pc' = [pc EXCEPT ![i] = "await_connect"]
    /\ asleep' = asleep \cup {i} /\ current' = NoPid
    /\ UNCHANGED <<nb, ready, child, target, clientVars, wire, server, queueVars>>

\* Actor::operator() of a dynamic actor: "Yielding so parent knows our pid."
YieldToParent(i) ==
    /\ HasThread(i) /\ pc[i] = "born"
    /\ pc' = [pc EXCEPT ![i] = "await_connect"]
    /\ ready' = Append(ready, i) /\ current' = NoPid
    /\ UNCHANGED <<nb, asleep, child, target, clientVars, wire, server, queueVars>>

AwaitConnect(i) ==
    /\ HasThread(i) /\ pc[i] = "await_connect" /\ i \in connect_ack
    /\ connect_ack' = connect_ack \ {i}
    /\ pc' = [pc EXCEPT ![i] = "read"]
    /\ UNCHANGED <<nb, current, ready, asleep, child, target, clientVars, wire, server,
                   requests, registered, create_ack>>

\* send_decision() tells the think time, the one measured or the one set in the
\* environment; ~Connection() tells none.
Thinks(i, d) == think_time[i] /\ d # "quit"

\* A decision with a think time: its actor sleeps first.
Think(i) ==
    /\ HasThread(i) /\ pc[i] = "read" /\ wire[i] \in Decision /\ Thinks(i, wire[i])
    /\ pc' = [pc EXCEPT ![i] = "thought"]
    /\ asleep' = asleep \cup {i} /\ current' = NoPid
    /\ UNCHANGED <<nb, ready, child, target, clientVars, wire, server, queueVars>>

\* read_message() and handle_decision() of the actor that has the thread.
Reads(i, d) ==
    /\ HasThread(i) /\ wire[i] = d
    /\ pc[i] = IF Thinks(i, d) THEN "thought" ELSE "read"

\* Answered without leaving the thread, such as Actor::get_name.
HandleGet(i) ==
    /\ Reads(i, "get")
    /\ wire' = [wire EXCEPT ![i] = "reply"]
    /\ pc' = [pc EXCEPT ![i] = "read"]
    /\ UNCHANGED <<nb, current, ready, asleep, child, target, clientVars, server,
                   queueVars>>

HandleYield(i) ==
    /\ Reads(i, "yield")
    /\ wire' = [wire EXCEPT ![i] = "nothing"]
    /\ pc' = [pc EXCEPT ![i] = "reply"]
    /\ ready' = Append(ready, i) /\ current' = NoPid
    /\ UNCHANGED <<nb, asleep, child, target, clientVars, server, queueVars>>

\* sleep_for, execute, and every communication that takes time.
HandleSleep(i) ==
    /\ Reads(i, "sleep")
    /\ wire' = [wire EXCEPT ![i] = "nothing"]
    /\ pc' = [pc EXCEPT ![i] = "reply"]
    /\ asleep' = asleep \cup {i} /\ current' = NoPid
    /\ UNCHANGED <<nb, ready, child, target, clientVars, server, queueVars>>

\* Actor::join of a child: answered at once, with a failure, if it is over; else
\* when it is, or at the timeout if there is one.
HandleJoin(i) ==
    /\ Reads(i, "join") \/ Reads(i, "join_for")
    /\ \E c \in Actors :
         /\ parent[c] = i
         /\ IF pc[c] = "over"
            THEN /\ wire' = [wire EXCEPT ![i] = "reply"]
                 /\ pc' = [pc EXCEPT ![i] = "read"]
                 /\ UNCHANGED <<target, asleep, current>>
            ELSE /\ wire' = [wire EXCEPT ![i] = "nothing"]
                 /\ pc' = [pc EXCEPT ![i] = "reply"]
                 /\ target' = [target EXCEPT ![i] = c]
                 /\ asleep' = IF wire[i] = "join_for" THEN asleep \cup {i} ELSE asleep
                 /\ current' = NoPid
    /\ UNCHANGED <<nb, ready, child, clientVars, server, queueVars>>

\* Mutant: the id of the new actor is not kept for the client.
HandleCreateForgotten(i) ==
    /\ Reads(i, "create") \/ Reads(i, "fork")
    /\ wire' = [wire EXCEPT ![i] = "nothing"]
    /\ nb' = nb + 1
    /\ pc' = [pc EXCEPT ![i] = "created", ![nb + 1] = "born"]
    /\ ready' = ready \o <<nb + 1, i>> /\ current' = NoPid
    /\ UNCHANGED <<child, asleep, target, clientVars, server, queueVars>>

\* s4u::Actor::create: the new simulated actor runs before its creator does.
HandleCreate(i) ==
    /\ Reads(i, "create") \/ Reads(i, "fork")
    /\ wire' = [wire EXCEPT ![i] = "nothing"]
    /\ nb' = nb + 1
    /\ child' = [child EXCEPT ![i] = nb + 1]
    /\ pc' = [pc EXCEPT ![i] = "created", ![nb + 1] = "born"]
    /\ ready' = ready \o <<nb + 1, i>> /\ current' = NoPid
    /\ UNCHANGED <<asleep, target, clientVars, server, queueVars>>

\* Tell the command thread to accept a connection of the new actor ...
RequestRegistration(i) ==
    /\ HasThread(i) /\ pc[i] = "created"
    /\ requests' = requests \cup {child[i]}
    /\ pc' = [pc EXCEPT ![i] = "create_wait"]
    /\ UNCHANGED <<nb, current, ready, asleep, child, target, clientVars, wire, server,
                   registered, create_ack, connect_ack>>

\* Mutant: the client is told before the command thread has answered.
ReplyCreateAtOnce(i) ==
    /\ HasThread(i) /\ pc[i] = "create_wait"
    /\ wire' = [wire EXCEPT ![i] = "reply"]
    /\ pc' = [pc EXCEPT ![i] = "read"]
    /\ UNCHANGED <<nb, current, ready, asleep, child, target, clientVars, server, queueVars>>

\* ... and wait until it does before the client is told.
ReplyCreate(i) ==
    /\ HasThread(i) /\ pc[i] = "create_wait" /\ child[i] \in create_ack
    /\ create_ack' = create_ack \ {child[i]}
    /\ wire' = [wire EXCEPT ![i] = "reply"]
    /\ pc' = [pc EXCEPT ![i] = "read"]
    /\ UNCHANGED <<nb, current, ready, asleep, child, target, clientVars, server,
                   requests, registered, connect_ack>>

\* Back from the simulation: write the reply, then read the next decision.
Reply(i) ==
    /\ HasThread(i) /\ pc[i] = "reply"
    /\ wire' = [wire EXCEPT ![i] = "reply"]
    /\ pc' = [pc EXCEPT ![i] = "read"]
    /\ UNCHANGED <<nb, current, ready, asleep, child, target, clientVars, server, queueVars>>

\* The simulated actor ends and those that join it go on.
HandleQuit(i) ==
    /\ Reads(i, "quit")
    /\ wire' = [wire EXCEPT ![i] = "nothing"]
    /\ pc' = [pc EXCEPT ![i] = "over"]
    /\ LET p == parent[i]
       IN  IF p # NoPid /\ target[p] = i
           THEN /\ ready' = Append(ready, p) /\ asleep' = asleep \ {p}
                /\ target' = [target EXCEPT ![p] = NoPid]
           ELSE UNCHANGED <<ready, asleep, target>>
    /\ current' = NoPid
    /\ UNCHANGED <<nb, child, clientVars, server, queueVars>>

SimGridThread ==
    \/ Dispatch \/ AdvanceClock
    \/ \E i \in Actors :
         \/ YieldToParent(i) \/ AwaitConnect(i) \/ Think(i)
         \/ HandleGet(i) \/ HandleYield(i) \/ HandleSleep(i) \/ HandleJoin(i)
         \/ HandleCreate(i) \/ RequestRegistration(i) \/ ReplyCreate(i) \/ Reply(i)
         \/ HandleQuit(i)

\* The server process ends: an exception, a KILL, a signal.  Replies it has
\* written can still be read.  Think times do not matter any more.
ServerDies ==
    /\ ServerMayDie /\ server = "up"
    /\ server' = "gone"
    /\ wire' = [i \in Actors |-> IF wire[i] = "reply" THEN "reply" ELSE "nothing"]
    /\ current' = NoPid /\ ready' = <<>> /\ asleep' = {}
    /\ pc' = [i \in Actors |-> "absent"] /\ target' = [i \in Actors |-> NoPid]
    /\ requests' = {} /\ registered' = {} /\ create_ack' = {} /\ connect_ack' = {}
    /\ think_time' = [i \in Actors |-> FALSE]
    /\ UNCHANGED <<thread, familyVars, budget, nb, child>>

\* Every client has exited.
Finished == \A i \in Actors : thread[i] \in {"absent", "gone"}
Exited == Finished /\ UNCHANGED vars

Next ==
    \/ SimGridThread \/ ServerDies
    \/ \E i \in Actors : ClientThread(i) \/ CommandThread(i)
    \/ Exited

Spec == Init /\ [][Next]_vars

\* Every thread runs; a program that takes no further decision disconnects.
Fairness ==
    /\ WF_vars(SimGridThread)
    /\ \A i \in Actors : WF_vars(ClientThread(i)) /\ WF_vars(CommandThread(i))

FairSpec == Spec /\ Fairness

----------------------------------------------------------------------------
(* Properties *)

\* Type invariant of the three parties.
TypeOK ==
    /\ nb \in 0 .. MaxActors
    /\ thread \in [Actors -> ThreadState]
    /\ parent \in [Actors -> Actors \cup {NoPid}]
    /\ process \in [Actors -> Actors]
    /\ budget \in [Actors -> 0 .. MaxDecisions]
    /\ wire \in [Actors -> Decision \cup {"reply", "nothing"}]
    /\ environment \in [Actors -> BOOLEAN] /\ think_time \in [Actors -> BOOLEAN]
    /\ server \in {"up", "gone"}
    /\ current \in Actors \cup {NoPid}
    /\ ready \in Seq(Actors) /\ asleep \subseteq Actors
    /\ pc \in [Actors -> ControlPoint]
    /\ child \in [Actors -> Actors \cup {NoPid}]
    /\ target \in [Actors -> Actors \cup {NoPid}]
    /\ requests \subseteq Actors /\ registered \subseteq Actors
    /\ create_ack \subseteq Actors /\ connect_ack \subseteq Actors

\* actor.cpp: "This thread should NEVER run concurrently with the new actor's
\* thread": the threads of one process run user code one at a time, whatever
\* they create, join, think and leave, as long as the server is there.
MutualExclusion ==
    server = "up" => \A i, j \in Actors :
        i # j /\ process[i] = process[j] => ~(InUserCode(i) /\ InUserCode(j))

\* A CONNECT never comes before the command thread knows the actor: it would
\* abort the server.
ConnectIsExpected ==
    server = "up" => \A c \in Actors : thread[c] = "connecting" => c \in registered

\* The simulated clock only advances while every client thread of a live actor is
\* blocked in a decision the simulation has to answer, or its think time: user
\* code, the connection of a new actor and a decision on its way take none.
ClockFrozen ==
    [][current = NoPid /\ ready = <<>> /\ asleep' # asleep /\ server' = "up" =>
         \A i \in 1 .. nb :
             \/ pc[i] = "thought"
             \/ /\ thread[i] \in {"waiting", "yielding", "joining", "after", "gone"}
                /\ wire[i] = "nothing"]_vars

\* Every client leaves: neither the handshake of a new actor nor a join blocks the
\* SimGrid thread for ever, and when the server disappears no thread waits for an
\* answer, a semaphore or another thread for ever.
EverybodyLeaves == <>Finished
=============================================================================
