# Remote SimGrid: a TLA+ verification of the server and its clients

Remote SimGrid (RSG) lets real processes act as the actors of a SimGrid simulation. The
program `rsg` is the server and the command line tools that drive it; `librsg` is linked into
the clients. This directory holds TLA+ models of the parts whose correctness depends on the
order in which threads, processes and messages meet, the TLC configurations that check them
on small instances, and proofs TLAPS checks. Paths are relative to the repository's root.

## 1. Inventory

| Component | State it keeps | Operations | Interacts through |
|---|---|---|---|
| Command thread, `src/rsg/serve.cpp` | `ServerState`, the registered actors and how many are connected, barely connected and dropped sockets, the selector | one loop iteration: `select`, signal, `accept`, commands (add-actor, start, kill, status, connect), dropped sockets, one inter-thread message | TCP with clients; queues with the SimGrid thread; **shares actor sockets** with it |
| Simulation launch and end, `start_simulation`, `maestro` in `src/rsg/simulation.cpp` | the initial actors, the engine | check ids, check hosts, create actors, run | a copy of the map of actors; `SIMULATION_FINISHED`, `SIMULATION_ABORTED` |
| Request loop of an actor, `Actor::operator()`, `handle_decision` | its socket, the shared `RefcountStore` | read a decision, handle it (perhaps block in the simulation), write the acknowledgement | its client's socket; `ACTOR_QUIT`, `ACTOR_CREATE` and its two acknowledgement queues |
| Client threads, `src/librsg/actor.cpp`, `connection.cpp` | a thread-local connection, child threads | `Actor::create`, `fork`, `join`, decisions, disconnection | the actor's socket, a semaphore between parent and child thread |
| Asynchronous communications, `src/librsg/comm.cpp`, `mailbox.cpp`, `RefcountStore` | the store of `s4u::Comm` by address, reception buffers | put/get (asynchronous or not), wait, wait any, test, cancel, destroy | decisions; SimGrid's mailboxes |
| Mutexes, condition variables, `src/librsg/mutex.cpp`, `condition_variable.cpp`, `RefcountStore` | the stores of `s4u::Mutex` (with a `unique_lock`) and `s4u::ConditionVariable` by address | create, lock, try_lock, unlock, three waits, two notifications, destroy | decisions; SimGrid's waiting queues |
| Framing, `src/common/message.hpp`, `tcp_socket.cpp`, `handle_barely_connected_socket_read` | bytes read so far of each connection | read and write a message | TCP |
| Command line tools, `src/rsg/simple_commands.cpp` | none | one command, one answer | TCP; add-actor hands the actor id to a process it starts |
| Think time, `connection.cpp` | per-connection mode, from `RSG_THINK_TIME` | added to each decision, simulated before it is handled | decisions |
| Host, engine, log | none | getters | decisions |

What is hard here, and what makes each part correct:

* **Two threads and the clients.** The command thread gives an actor's socket to the SimGrid
  thread in the middle of handling `CONNECT`, before it has answered and before it has taken
  the socket out of its own structures. A socket must have one owner; the selector must watch
  exactly the sockets the command thread keeps.
* **Order of commands.** `START` and the last `CONNECT` come in any order; `KILL` and `START`
  may be handled in one traversal. The simulation must start once, complete, never after a kill.
* **Failures.** Clients die before, between and after messages, by an orderly close or by a
  reset. The return code must tell.
* **Creation of actors.** The creator's client, the creator, the new actor, its client and the
  command thread shake hands across three processes or threads while the SimGrid thread busy
  waits. It must neither deadlock nor let a client connect too early.
* **Real threads, simulated concurrency.** Threads of one process must run user code one at a
  time, and simulated time must stand still while user code runs.
* **Remote references.** A client names server objects by address. The server must keep what
  clients can name, forget the rest, and deliver the data of a reception exactly once.
* **Blocking.** Actors wait for mutexes, notifications, dates and each other. Nobody may be
  forgotten in a queue, and a wait that is over must have the mutex back.
* **Bytes.** TCP cuts messages anywhere. The command thread reads the commands of many
  connections, and must not mix them. It does wait for a client in the middle of its command.

`PROJECT.json` lists the hazards line by line, with the property that covers each.

## 2. Modules

```
Session <.. ServeSession <-- MCServe (serve_*)   Subsequences <-- CommStore, Synchro
                 |                               ActorThreads <-- MCActorThreads
                 v                               CommStore    <-- MCCommStore
               Serve                             Synchro      <-- MCSynchro
                                                 Channel <.. Framing <-- MCFraming

Theorems: ServeOwnerProofs --> ServeSessionProofs --> ServeSession, ServeProofs --> Serve;
ActorThreadsProofs, CommStoreProofs, SynchroProofs --> SubsequencesProofs --> Subsequences;
FramingProofs --> Framing

<--, --> extends        <.. implements (INSTANCE ... WITH)
```

`Subsequences` has the waiting lines of the simulation: `Only(s, S)` keeps the elements of `s`
that are in `S`, in their order. `SelectSeq` of the standard library does the same, but is
recursive and takes an operator, which the prover cannot see through. `SubsequencesProofs` has the facts
about it that the other proofs cite.

### Serve: the server process

`pc` is the control point of the command thread inside one loop iteration; `state`,
`return_code`, `actor_connections`, `nb_connected_actors`, `barely_connected_sockets` and
`dropped_sockets` are the variables of `serve()` of the same names; `registered` and
`readable` are the two descriptor sets of the selector. `fd` is the descriptor of the server's
end of a connection, `client` the progress of its other end, `inbox` and `ack` the bytes under
way. `sim`, `actor`, `next_pid` and `section` are the SimGrid thread as the command thread sees
it. An exception nobody catches sets `pc` to `"aborted"` and `error` to its reason.

| Code | Actions |
|---|---|
| `select()`, `serve.cpp:339` | `WaitAnyReadable`; `WaitAnyReadableFails` when a closed descriptor is watched |
| signal, `341-367`; accept, `368-376` | `SignalCaught`, `AcceptClient` |
| reading and handling a command, `101-289` | `ReadEof`, `HandleAddActor`, `HandleStart`, `HandleKill`, `HandleStatus`, `HandleConnect`, `HandleUnset` |
| acknowledgement, `288`; filing the socket, `397-409` | `WriteAck`, `Settle` |
| dropped sockets, `414-441` | `ReadDropped`, `EndDropped` |
| messages, `446-496`; end, `499` | `PopNothing`, `PopFinished`, `PopAborted`, `PopActorQuit`, `PopActorCreate`, `CloseAndReturn` |
| SimGrid thread | `StartSimulation`, `MaestroAbort`, `MaestroRun`, `SimulationEnds`, `ActorQuit`, `ActorReadFails`, `ActorFails`, `ActorCreate`, `ActorCreateAck`, `ActorConnected` |
| clients | `ClientConnect`, `SendCommand`, `ReadAck`, `CloseConnection`, `SendQuit`, `SendJunk`, `Die`, `ConnectionLost` |

An iteration is cut where another thread or a client can see a difference; the accesses of a handler
that no one else sees are one step. Decisions that stay inside the SimGrid thread are left out here. A
command is read whole, because the thread stays on a socket until it is: Framing shows what happens to
the pieces. A client of Serve that has begun to send its command therefore sends all of it or dies; one
that lives and stops in the middle would hold up everybody, which is the subject of Framing. The last
`CONNECT` starts the simulation before it is answered, so the actor may already have read the end of its
stream and closed the socket. `WriteAck` then fails the assertion of
`send_all()` (`tcp_socket.cpp:51`), `"ack_failed"`. `actor_sockets` (`serve.cpp:33`) is never filled, so
the shutdown does not close the sockets of actors; the model does the same.

### Session, ServeSession: what the server promises

`Session` is the life cycle those who drive `rsg serve` see, in a page: actors are registered
and numbered from 2, each is connected at most once, the simulation is launched once, when it
has been asked for and everybody is connected, a `KILL` or the news of its end ends the server,
and the return code is 1 exactly if the simulation failed or the server was interrupted.
Threads, queues and sockets are gone. `ServeSession` maps the state of Serve to it: `phase` is
`state`, `actors` the domain of `actor_connections`, `connected` those with a socket,
`simulation` the SimGrid thread being off, on or over, and `failed` that an actor has failed or
maestro found no host, the moment it happens, which the command thread learns later. A
message that is popped too early, twice, or after another that should come first is a step
Session does not have. `Abort` is allowed at any time: what may abort the server is the subject of
`AbortsOnlyOnMisuse`, `BookkeepingHolds` and the violation runs. `BookkeepingHolds` speaks of the
assertions on the registry of actors and on the ids; those on sockets do fail when clients die.

### ActorThreads: actors and the threads that play them

Every actor has a client thread (`thread`), a connection (`wire`) and a simulated actor (`pc`).
`current` is the simulated actor that has the SimGrid thread: it keeps it while it waits for its
client or for the command thread, and gives it up only when it blocks in the simulation.
`ready` and `asleep` are SimGrid's scheduling: external, modelled from how the request loop uses
it. The decisions differ in how they schedule: answered at once, yield, sleep, join with or
without timeout, create a thread, fork a process, quit. The command thread is reduced to
registering new actors and accepting their `CONNECT`; Serve has the rest of it.

`think_time` tells whether the decisions of an actor come with a positive think time: `Think` is
the sleep at the head of `handle_decision`. Each new connection reads it from the environment of its
process (`environment`), which threads share and forked processes copy. A process that mutates
(`execvp`, then `reuse_connected_socket`) has a connection that does not think, but the actors it
creates later do. With `ServerMayDie` the server process may
disappear at any point. What is written to it is lost, replies that are under way still
arrive, and `read_message` and `rsg::connect` throw: user code catches the exception, the wrapper
of a created thread does, or the process ends (`ReadFails`, `ConnectFails`).

### CommStore: asynchronous communications

`comms` is `RefcountStore::comms`, `alive` the addresses in use, `handles` the `rsg::Comm`
objects of each client process with what the client knows. `transfers` and `mailbox` are
SimGrid's side: a put meets a get, the transfer runs and ends, or a timed `wait_for` ends it
for both sides. A handler that blocks is two steps, and its return uses what the code uses: the
iterator found before (`wait_for`) or a second search (`wait_any_for`). Addresses are reused as
soon as an object is freed. Two constants describe the clients: `Careful` ones leave a
communication alone once they know it is over, and `SharingForks` says whether a process may
fork while it has communications. `error` tells the failed assertion.

`remote_ref_count` is always 1, so it is not a variable. `Comm::cancel` is modelled by what its
handler does, which is to call `start()` (`simulation.cpp:228`): SimGrid refuses to start a
communication twice and ends the process.

### Synchro: mutexes and condition variables

`mutexes` and `condition_variables` are the two maps of `RefcountStore`; `objects` are the client's
objects, shared by the threads of a process, and `holds` what each actor has locked in its code.
`owner`, `queue` and `sleeping` are SimGrid's, external: `unlock` gives the mutex to the first that
waits, a notification turns a wait into a `lock` of the mutex it has released, and a timed wait whose
date is reached locks the mutex of its `unique_lock` again. Each decision is a pair: the client's method
(`MutexLock`) and its handler (`HandleMutexLock`). The last answer is `answer`; `notified` is a
history variable, the actors a notification was spent on. Clients are assumed to unlock what they have
locked, to lock mutexes in the order of their addresses, to wait with one mutex only and to
destroy what nobody uses (a test says why, `tests/clients/condvar_notify_all.cpp:52`); the
properties say that this is enough. The handler of `try_lock` is the one in the code, which looks
up another field.

### Channel, Framing: messages over TCP

`Channel` is what a connection promises: whole messages, in order, once, below the size limit. `Framing`
has the bytes: `out` those `send_all` still has, `net` those of the kernel, `info` what has been read of
the current message. A step of `SendAll` or of a reader moves any positive number of bytes. The first
message of a connection is a command, read by the command thread: `readable` are the connections its
`select()` has named and `reading` the one it is at. The loop of the traversal (`serve.cpp:381-411`)
moves on only when the command is whole. After a part of it the same socket is tested against the same
set, which `select()` filled once, and read with a blocking `recv()`, so the thread stays
(`StayOnSocket`); the state kept for half-read commands never outlives a visit (`OneHalfRead`). `over`
is the news of the end of the simulation (`SimulationEnds`), which the command thread takes at the end
of an iteration (`Finish`). The following messages of a connection are read by an actor's own blocking
`read_message`. In the refinement mapping a message is on its way while all of its bytes are, wherever;
it leaves the channel when it is delivered or when its client dies in the middle. The header size and
the base of a byte are parameters; `ToBytes` and `FromBytes` are the two `memcpy`. `Weight` has the
powers of the base, as a constant with an assumption that TLC evaluates, because the prover does not
know `^`.

## 3. Runs

| Run | Instance | Distinct states | Checks |
|---|---|---|---|
| `serve_session` | add-actor, start, kill, two actors, a signal; up to one dynamic actor | 503,000 | `TypeOK`, `ConnectedCount`, `AbortsOnlyOnMisuse`, `OneOwner`, `WatchedAreKept`, `HandedAreRegistered`, `LaunchedOnce`, `KilledIsFinal`, `ImplementsSession` |
| `serve_faults` | add-actor, start, two actors; two of the clients may die anywhere, send wrong ids, hosts or commands without a type | 1,075,000 | `StartsComplete`, `BookkeepingHolds`, `ReturnCodeTellsFailures`, `ImplementsSession` |
| `serve_liveness` | add-actor, start, status, one actor, with fairness | 59,000 | `CommandsAnswered`, `ServerEnds` |
| `actor_threads` | one initial process with any think time, three actors, three decisions each, a server that may disappear, with fairness | 784,000 | `TypeOK`, `MutualExclusion`, `ConnectIsExpected`, `ClockFrozen`, `EverybodyLeaves`, no deadlock |
| `comm_store` | two processes, two addresses, three transfers, two payloads | 1,964,000 | `TypeOK`, `StoreMatchesHandles`, `NamesAreStable`, `ReceivedData`, `AssertionsHold` |
| `synchro` | three actors, two mutexes, one condition variable, with fairness | 19,500 | `TypeOK`, `HeldIsOwned`, `NobodyForgotten`, `CallsSucceed`, `StatusTellsNotification`, `LockSucceeds` |
| `framing` | two connections, two messages each, of no byte, of the largest size and of the limit, the end of the simulation, with fairness | 155,000 | `TypeOK`, `RefusedOnlyAtLimit`, `BlocksOnlyInsideCommand`, `OneHalfRead`, `ImplementsChannel`, `AllDelivered`, `EndNoticed` |

Five more runs check what the repository says and the code does not do; TLC finds each violated:

* `serve_dropped_reset`: a command client that dies without reading its answer resets its
  connection. `recv()` throws before it closes, `fd_before_close()` is still -1, and the closed
  descriptor stays in the selector; the next `select()` ends the server.
* `serve_handover`: the last `CONNECT` starts the simulation before the command thread answers it
  (`serve.cpp:288`). If the actor's process dies in between, the SimGrid thread closes the socket
  first and the answer fails the assertion of `send_all()`: the server aborts where a test expects
  it to return 1. If it dies after the answer and before `serve.cpp:408`, `fd()` is -1 there, the
  closed descriptor stays in the selector, and the next `select()` ends the server (`WatchedAfterHandover`).
* `comm_reuse`: `wait()` after a successful `test()` of a reception fails an assertion of the
  client.
* `comm_fork`: after `Actor::fork()` two processes have an `rsg::Comm` for one entry of the
  store, which the first destructor erases.
* `synchro_try_lock`: the handler of `try_lock` reads the address of the field `mutexunlock`
  (`simulation.cpp:445`), finds no mutex, and the client throws instead of returning.

`framing` also shows where a slow client stops the server: `BlocksOnlyInsideCommand` says that the
command thread waits for a client only when that client has sent a part of its command and not the
rest. With clients that go on sending what they have begun, `AllDelivered` and `EndNoticed` hold.
Both need that assumption: a client that lives and stops in the middle of its command keeps the
command thread in `recv()`, whatever the timeout of its `select()` (`serve.cpp:338`).

**Bounds.** In Serve each socket is one client with one command (a client never sends two), so
the cast of a run decides what can happen: the cast of `serve_session` has every command that changes
the state of the server, with one initial actor and one that an actor creates, or a second `CONNECT`
that finds no id left. `MaxPid` bounds dynamic creation: one is enough for the handshake, its race with
the shutdown, and the order of two `ACTOR_QUIT`. In ActorThreads three actors give a chain (a child that
creates) and siblings, and three decisions let an actor create, wait and join an actor that is over. In
CommStore two addresses force reuse with three transfers. In Synchro three actors let two wait for a
mutex or a notification while a third has it, and two mutexes let `notify_all` wake actors that wait for
different ones. In Framing a byte is a bit and a header has two: sizes 0 to 3, the limit at 3, cut in
every possible way; one message per connection goes through the command thread and one through an actor,
and two connections interleave. `ReuseConnectedSocket`
is taken by the initial process only, and counts as one of its decisions. `CHECK_DEADLOCK FALSE` is set
where the program may stop: the server process ends, clients may simply not call anything, and every
actor may wait for a notification nobody is left to send.

**Fairness.** `serve_liveness` assumes weak fairness of the two threads of the server (the
operating system schedules them; `select()` has a timeout of 200 ms, and an iteration waits for a
client only inside a half-sent command, which Serve has none of) and of a client between its
connection and its answer. It assumes nothing of
clients that have not connected, nor that actors quit. `actor_threads` assumes weak fairness of
the SimGrid thread, of the command thread and of every client thread: user code takes finitely
many decisions and ends. `synchro` assumes weak fairness of what the simulation does to a
blocked actor, and strong fairness of the `unlock` of an actor: its client does not keep a mutex for ever,
though it may do other things, such as waiting with it, in between. Nothing is assumed of
notifications, so an untimed wait may last for ever. `framing` assumes weak fairness of the server's
threads and of `send_all`: a client that has begun a message goes on with it. TCP cannot make it, but
`write_message` (`message.hpp`) does nothing in between.

## 4. Proofs

Every theorem holds for every value of the constants that the assumptions allow: any number of
sockets, actors, processes, addresses, mutexes, messages and transfers, any bounds. Each proof
module has one inductive invariant, a conjunction of named parts that TLC has checked on the
instance of its run, and a lemma for each action. All of it is safety; the assumptions are those stated in the
modules (`SocketsAssumption`, `BoundsAssumption`, `CommAssumption`, `SynchroAssumption`,
`HeaderAssumption`, `FramingAssumption`) and TLC evaluates them in the runs.

| Module | Theorem | States |
|---|---|---|
| `ServeProofs` | `TypeCorrect`, `CountCorrect`, `StartComplete`, `BookkeepingCorrect` | `TypeOK`, `ConnectedCount`, `StartsComplete`, `BookkeepingHolds` always |
| | `LaunchOnce` | `LaunchedOnce`, an action property |
| `ServeSessionProofs` | `SessionImplemented` | Serve implements Session |
| | `ReturnCodeCorrect`, `HandedRegistered` | `ReturnCodeTellsFailures`, `HandedAreRegistered` always |
| | `KillFinal` | `KilledIsFinal`, an action property |
| `ServeOwnerProofs` | `OneOwnerCorrect`, `WatchedKept`, `AbortsRightly` | `OneOwner`, `WatchedAreKept`, `AbortsOnlyOnMisuse` always |
| `ActorThreadsProofs` | `TypeCorrect`, `ConnectExpected`, `OneThreadRuns` | `TypeOK`, `ConnectIsExpected`, `MutualExclusion` always |
| | `ClockStandsStill` | `ClockFrozen`, an action property |
| `CommStoreProofs` | `TypeCorrect`, `StoreExact`, `NamesStable`, `DataReceived`, `AssertionsNeverFail` | `TypeOK`, `StoreMatchesHandles`, `NamesAreStable`, `ReceivedData`, `AssertionsHold` always |
| `SynchroProofs` | `TypeCorrect`, `MutualExclusion`, `CallsAlwaysSucceed`, `NoLostWakeup` | `TypeOK`, `HeldIsOwned`, `CallsSucceed`, `NobodyForgotten` always |
| | `StatusIsRight` | `StatusTellsNotification`, an action property |
| `FramingProofs` | `TypeCorrect`, `RefusalsRight`, `BlocksThereOnly`, `OneCommandHalfRead` | `TypeOK`, `RefusedOnlyAtLimit`, `BlocksOnlyInsideCommand`, `OneHalfRead` always |
| | `ChannelImplemented` | Framing implements Channel |

### Serve

None of the properties is inductive: that the simulation starts complete depends on the counter, the
counter on every connected actor having a socket of its own, that on the traversal (a socket is
handled once, while it is barely connected and has no owner), and the absence of a duplicate id
on what pids SimGrid has given. The parts of `IndInv` are

| Part | Says |
|---|---|
| `TypeOK` | types |
| `LifecycleInv` | while the server accepts or waits the simulation is off; it is finished only when the loop is closing, has returned or has aborted; before the simulation runs the queue to the command thread is empty |
| `RegistryInv` | the registry is finite, its ids are consecutive until the launch, the counter counts its connected actors, and once the simulation runs an unconnected actor has a `connect_ack` queue |
| `SocketInv` | two connected actors never share a socket; a connected actor's socket has an fd, and is still barely connected only while its own CONNECT is being settled; barely connected sockets have an fd |
| `LaunchInv` | what the simulation was launched with is consecutive, registered and connected, and is the whole registry until maestro has started the actors |
| `PidInv` | registered ids are below the next pid; the ids of queued ACTOR_CREATEs are new, below the next pid and distinct |
| `ActorInv` | no actor exists before the simulation runs; acknowledged, running and failing actors are registered and connected |
| `BookkeepingHolds` | the property itself |

and the proof has one step per action, with one per part under it. `LaunchOnce` needs in addition
that a `START` or `CONNECT` that launches, and so fixes the initial actors, finds `sim = "off"`
(`LaunchedStep`: those are the only steps that do).

### Serve implements Session

`SessionInv` adds four parts. `LoopInv`: when the loop of `serve()` ends and what it knows by then.
`OutcomeInv`: how the simulation ended and which messages tell the command thread;
`SIMULATION_ABORTED` comes before `SIMULATION_FINISHED`, and the failure of an actor before the end
of the simulation, so that the return code is right when the loop ends. `CreationInv`: the creation of an
actor, from its message to the answer, holds the SimGrid thread, and its actor has the last pid.
`HandInv`: a connection that is not accepted has left no trace, and the id in an
`ADD_ACTOR` answer on its way is registered. Every action is then a step of Session or
leaves its variables alone, one lemma for each. No fault is excluded: clients may die and send anything.

### Serve: who owns what

`OwnershipInv` adds three parts to `SessionInv`, each needed for one of the three properties.

* `OwnerInv`, the way of a socket, with any failures: barely connected, then either dropped or an actor's,
  and dropped again only once the command thread pops the actor's ACTOR_QUIT. `FiledInv`: filed once,
  and answered while barely connected, unless the answer could not be written and the server is gone.
  `BoundInv`: the socket of an actor is never filed as dropped before the actor has quit.
  `GivenBackInv`: a socket in an ACTOR_QUIT is that of an actor that has quit, and is given back once.
  `OneOwner` follows.
* `NobodyDies`, while the server is up and if no client dies: how far each client is with its one
  command. `WatchInv`: what the command thread keeps is watched and open. `WaitingInv`: a
  client whose command is not read has sent it and waits, or has sent nothing. `ActorClientsInv`: the client
  of an actor that has not quit waits for its answer, is in its request loop, or has sent its quit. So
  nobody reads the end of a stream that should not be there, and `WatchedAreKept` and the first
  half of `AbortsOnlyOnMisuse` follow.
* `WellConfigured`, if no client is misconfigured: an actor id is a token (`TokenInv`). One
  party at a time holds it: the answer of `ADD_ACTOR` being written, its client, the answer to a
  creator, the process it was handed to, the client started with it, or the actor it has become. A `CONNECT`
  uses the token up, so its id is registered and nobody is connected to it. That is the other half.

`TokenInv` speaks of all ids; TLC has checked it for the ids the `serve_*` instances have.

### Actors and client threads

While the server is there, the three views of an actor agree. `AgreeInv` says for each state of the
client thread what is on its connection and where its simulated actor is. `PlaceInv`: a simulated actor
runs, is in the line, or is blocked, in one place. `TurnInv`: an actor that waits for its client, or for
the command thread, has the SimGrid thread. `AbsentInv`, `FamilyInv`: who is whose child and in which
process. `CreationInv`: how far the creation of an actor is, in its creator, the new actor, its client
and the command thread. `BoundInv`: creations under way fit in. `MutualExclusion` follows because a
thread in user code belongs to the simulated actor that has the SimGrid thread, or is the new thread
that this actor's client has started and waits for, or is alone in its process. The main thread of a
process that has joined its children is alone too: of the threads that are not over, take the one with
the least number; its parent, which is older, is over, but no thread outlives its parent. The clock
stands still because an actor that is neither running nor in the line is past reading its decision.

### Communications

`ShapeInv`: the store's reference keeps the object of each entry allocated, which is why a
reused address is never one of a live entry. `MailboxInv`: SimGrid's mailbox holds the transfers that wait,
once each. `NamedInv`: whoever names a transfer names one that exists. `WaitInv`: a blocked client
waits for communications it has handles of. `HandleInv`, while no process shares communications: a
handle is the only one of its address, and tells no more than what has happened. The
properties about careful clients, and those about clients that share nothing, keep those premises.

### Mutexes and condition variables

`StoreInv`: client and server know the same objects. `CallInv`: what the call an actor is blocked in says of
it. `OwnerInv`: whose a mutex is and why. `QueueInv`, `SleepInv`: a waiting line holds exactly the
actors whose call says so, once each, so that an unlock, a notification or a timeout moves one
actor and loses none.

### Framing

A header tells one size only (`BytesTellSize`): if two sizes had the same bytes, take the first shift after
which they are equal; one byte before, quotient and remainder are equal too. `StreamInv`: the bytes
on their way, read or not, are the beginning of one message, the whole of it while its
client lives. `SizeInv`: a size that is read is within the limit, or its message refused. `ReadInv`: the
connections to be read have something, the one being read has something or a part of its command
read, and of the others nothing is read. Moving bytes from one place to the next leaves
their sequence alone (`Kept`), so the channel does not move; a message is delivered when its
header and as many bytes as it tells are there (`Arrives`), and by `CarriedIs` no proper beginning of
a message is taken for a message.

### Only model-checked

Liveness (`CommandsAnswered`, `ServerEnds`, `EverybodyLeaves`, `LockSucceeds`, `AllDelivered`, `EndNoticed`) and
the absence of deadlock: fairness and ENABLED are out of the prover's reach. Every safety property
of a passing run is a theorem.

## 5. Not modelled

* Reading the environment (but for `RSG_THINK_TIME`), argument parsing, `execvp` and `daemon`: I/O.
  The `rsg kill` that a failing `add-actor` or a client without actor id runs is the `KILL` client of Serve.
* Serialization (generated code), logging, and the getters of `Host`, `Engine`, `Actor` and `Mailbox`:
  no state. A getter is one decision that is answered at once, `HandleGet` of ActorThreads.
* `SIGPIPE` on a second write to a reset connection. `FD_CLR(-1)` and `FD_SET` beyond `FD_SETSIZE`,
  undefined behaviour, is taken to have no effect and not to happen.
* After `Actor::fork()` the child keeps a descriptor of its parent's connection: Serve has one
  process per connection. `comm_fork` shows what shared handles do to the store; mutexes and
  condition variables share its flaw and are not checked for it again.
* Host failures (`HostFailureException`), which need a platform with failing hosts.
* `Comm::cancel` has no document that says what it promises, and neither has the exception the other
  side of a timed-out communication gets: both are in CommStore (`CommCancel`,
  `"uncaught_exception"`) without a property of their own.

## 6. Plan

1. Done: Serve, Session and its refinement, ActorThreads with think time and the loss
   of the server, CommStore, Synchro, Framing and its refinement; the proofs of section 4.
2. Nothing is left to prove of the safety properties the runs check. Of use next: a mailbox store
   with several mailboxes, and properties of `Comm::cancel` once a document says what it promises.
