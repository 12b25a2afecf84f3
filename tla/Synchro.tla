------------------------------- MODULE Synchro -------------------------------
(***************************************************************************)
(* Mutexes and condition variables.                                        *)
(*                                                                         *)
(* The threads of a client process, an actor each, share rsg::Mutex and    *)
(* rsg::ConditionVariable objects that name s4u objects of the server by   *)
(* their address.  The server keeps those in RefcountStore::mutexes and    *)
(* RefcountStore::condition_variables, a mutex with a std::unique_lock     *)
(* that wait, wait_until and wait_for give to SimGrid, from create() until *)
(* the destructor of the client's object sends a refcount decrease.        *)
(*                                                                         *)
(* A decision, its handler and its acknowledgement are one step unless the *)
(* handler blocks in the simulation; then the return is a step of its own, *)
(* and other actors run in between.  remote_ref_count is left out: it      *)
(* starts at 1 and nothing increments it.  Objects of a process are not    *)
(* shared with a forked one (see CommStore for what that does).            *)
(***************************************************************************)
EXTENDS Naturals, Sequences, Subsequences

CONSTANTS
    Actors,      \* the actors of the process
    Mutexes,     \* addresses the allocator gives to s4u::Mutex objects
    Conditions,  \* addresses the allocator gives to s4u::ConditionVariable objects
    NoActor      \* the owner of a mutex that is free

\* An unset address field of a Decision.
NoObject == 0

ASSUME SynchroAssumption ==
    /\ Mutexes \subseteq Nat \ {NoObject} /\ Conditions \subseteq Nat \ {NoObject}
    /\ NoActor \notin Actors

VARIABLES
    mutexes,              \* RefcountStore::mutexes
    condition_variables,  \* RefcountStore::condition_variables
    owner,      \* SimGrid: by mutex, the actor it belongs to
    queue,      \* SimGrid: by mutex, the actors blocked in lock()
    sleeping,   \* SimGrid: by condition variable, the actors blocked in a wait
    call,       \* by actor, the decision its simulated actor is blocked in
    objects,    \* addresses of the rsg::Mutex and rsg::ConditionVariable objects
    holds,      \* by actor, the mutexes its client code has locked
    answer,     \* what the acknowledgement of the last step tells, if anything
    notified,   \* history: actors a notification has picked in their current wait
    error       \* what ended the server

simgrid == <<owner, queue, sleeping>>
store == <<mutexes, condition_variables>>
vars == <<mutexes, condition_variables, owner, queue, sleeping, call, objects,
          holds, answer, notified, error>>

NoCall == [op |-> "none", mutex |-> NoObject, cv |-> NoObject, timed |-> FALSE]
Call == [op : {"none", "lock", "wait", "timedout", "relock"},
         mutex : Mutexes \cup {NoObject}, cv : Conditions \cup {NoObject},
         timed : BOOLEAN]
Answer == {"none", "true", "false", "timeout", "no_timeout", "exception",
           "try_lock_exception"}
Error == {"none", "not_owner", "dangling_lock"}

Init ==
    /\ mutexes = {} /\ condition_variables = {}
    /\ owner = [m \in Mutexes |-> NoActor]
    /\ queue = [m \in Mutexes |-> <<>>]
    /\ sleeping = [c \in Conditions |-> <<>>]
    /\ call = [a \in Actors |-> NoCall]
    /\ objects = [mutex |-> {}, cv |-> {}]
    /\ holds = [a \in Actors |-> {}]
    /\ answer = "none"
    /\ notified = {} /\ error = "none"

Running(a) == error = "none" /\ call[a].op = "none"
Reply(r) == answer' = r

\* The address is not in the store: success is false, the client throws.
Unknown == Reply("exception") /\ UNCHANGED <<simgrid, call, holds, notified, error>>

\* SimGrid asserts that the actor owns the mutex: the server ends.
NotOwner ==
    /\ error' = "not_owner" /\ Reply("none")
    /\ UNCHANGED <<simgrid, call, holds, notified>>

----------------------------------------------------------------------------
(* SimGrid: a mutex is given to those who wait for it in their order.       *)

\* MutexImpl::lock() by the actors of s, in this order, for the mutex m.
Granted(m, s) == IF owner[m] = NoActor /\ s # <<>> THEN Head(s) ELSE owner[m]
Queued(m, s) == IF owner[m] = NoActor /\ s # <<>> THEN Tail(s) ELSE queue[m] \o s

LockBy(m, a) ==
    /\ owner' = [owner EXCEPT ![m] = Granted(m, <<a>>)]
    /\ queue' = [queue EXCEPT ![m] = Queued(m, <<a>>)]

\* Mutant: the mutex is free again and nobody is woken up.
ReleaseToNobody(m) == owner' = [owner EXCEPT ![m] = NoActor] /\ UNCHANGED queue

\* MutexImpl::unlock(): the first that waits owns the mutex from now on.
Release(m) ==
    /\ owner' = [owner EXCEPT ![m] = IF queue[m] = <<>> THEN NoActor ELSE Head(queue[m])]
    /\ queue' = [queue EXCEPT ![m] = IF @ = <<>> THEN <<>> ELSE Tail(@)]

\* ConditionVariableImpl::signal(), for the first n that sleep: the wait of each
\* becomes a lock() of the mutex it has released.
Signal(c, n) ==
    LET woken == SubSeq(sleeping[c], 1, n)
        For(m) == Only(woken, {a \in Actors : call[a].mutex = m})
    IN  /\ sleeping' = [sleeping EXCEPT ![c] = SubSeq(@, n + 1, Len(@))]
        /\ owner' = [m \in Mutexes |-> Granted(m, For(m))]
        /\ queue' = [m \in Mutexes |-> Queued(m, For(m))]
        /\ call' = [a \in Actors |-> IF a \in Elements(woken)
                                     THEN [call[a] EXCEPT !.op = "lock"] ELSE call[a]]
        /\ notified' = notified \cup Elements(woken)

----------------------------------------------------------------------------
(* Mutex decisions *)

HandleMutexCreate(m) == m \notin mutexes /\ mutexes' = mutexes \cup {m}

MutexCreate(a) ==
    /\ Running(a)
    /\ \E m \in Mutexes :
         /\ HandleMutexCreate(m)
         /\ objects' = [objects EXCEPT !.mutex = @ \cup {m}]
    /\ Reply("none")
    /\ UNCHANGED <<condition_variables, simgrid, call, holds, notified, error>>

\* Mutant: only those that have locked it are thought to use a mutex.
NotHeld(m) == \A a \in Actors : m \notin holds[a]

\* A client destroys a mutex when no actor of its own uses it.
Unused(m) == \A a \in Actors : m \notin holds[a] /\ call[a].mutex # m

\* The store has the only reference: the s4u::Mutex is destroyed.
HandleMutexRefcountDecrease(m) ==
    /\ mutexes' = mutexes \ {m}
    /\ owner' = [owner EXCEPT ![m] = NoActor]
    /\ queue' = [queue EXCEPT ![m] = <<>>]

\* ~Mutex().  The answer is not looked at.
MutexRefcountDecrease(a, m) ==
    /\ Running(a) /\ m \in objects.mutex /\ Unused(m)
    /\ objects' = [objects EXCEPT !.mutex = @ \ {m}]
    /\ HandleMutexRefcountDecrease(m)
    /\ Reply("none")
    /\ UNCHANGED <<condition_variables, sleeping, call, holds, notified, error>>

\* Mutant: the handler tries to lock and acknowledges at once.
MutexLockTries(a, m) ==
    /\ owner' = [owner EXCEPT ![m] = Granted(m, <<a>>)]
    /\ holds' = [holds EXCEPT ![a] = @ \cup {m}]
    /\ Reply("none")
    /\ UNCHANGED <<queue, sleeping, call, notified, error>>

HandleMutexLock(a, m) ==
    IF m \notin mutexes THEN Unknown
    ELSE /\ LockBy(m, a)
         /\ call' = [call EXCEPT ![a] = [NoCall EXCEPT !.op = "lock", !.mutex = m]]
         /\ Reply("none") /\ UNCHANGED <<sleeping, holds, notified, error>>

\* Clients lock mutexes in the order of their addresses, and none twice.
MutexLock(a, m) ==
    /\ Running(a) /\ m \in objects.mutex /\ \A k \in holds[a] : k < m
    /\ HandleMutexLock(a, m)
    /\ UNCHANGED <<store, objects>>

HandleMutexUnlock(a, m) ==
    IF m \notin mutexes THEN Unknown
    ELSE IF owner[m] # a
    THEN NotOwner
    ELSE /\ Release(m)
         /\ holds' = [holds EXCEPT ![a] = @ \ {m}]
         /\ Reply("none")
         /\ UNCHANGED <<sleeping, call, notified, error>>

\* Clients unlock what they have locked.
MutexUnlock(a, m) ==
    /\ Running(a) /\ m \in holds[a]
    /\ HandleMutexUnlock(a, m)
    /\ UNCHANGED <<store, objects>>

\* The handler of try_lock reads the address of the field mutexunlock, which is
\* not the one the client has set.
AddressTried(m) == NoObject

HandleMutexTryLock(a, m) ==
    LET k == AddressTried(m)
    IN  IF k \notin mutexes
        THEN Reply("try_lock_exception") /\ UNCHANGED <<owner, holds>>
        ELSE IF owner[k] = NoActor
        THEN /\ owner' = [owner EXCEPT ![k] = a]
             /\ holds' = [holds EXCEPT ![a] = @ \cup {m}]
             /\ Reply("true")
        ELSE Reply("false") /\ UNCHANGED <<owner, holds>>

MutexTryLock(a, m) ==
    /\ Running(a) /\ m \in objects.mutex \ holds[a]
    /\ HandleMutexTryLock(a, m)
    /\ UNCHANGED <<store, queue, sleeping, call, objects, notified, error>>

----------------------------------------------------------------------------
(* Condition variable decisions *)

\* Mutant: the condition variable is inserted among the mutexes.
StoredAmongMutexes(c) ==
    /\ c \notin mutexes /\ mutexes' = mutexes \cup {c}
    /\ UNCHANGED condition_variables

HandleConditionVariableCreate(c) ==
    /\ c \notin condition_variables
    /\ condition_variables' = condition_variables \cup {c}
    /\ UNCHANGED mutexes

ConditionVariableCreate(a) ==
    /\ Running(a)
    /\ \E c \in Conditions :
         /\ HandleConditionVariableCreate(c)
         /\ objects' = [objects EXCEPT !.cv = @ \cup {c}]
    /\ Reply("none")
    /\ UNCHANGED <<simgrid, call, holds, notified, error>>

HandleConditionVariableRefcountDecrease(c) ==
    /\ condition_variables' = condition_variables \ {c}
    /\ sleeping' = [sleeping EXCEPT ![c] = <<>>]

\* ~ConditionVariable(), when no actor waits on it any more.
ConditionVariableRefcountDecrease(a, c) ==
    /\ Running(a) /\ c \in objects.cv
    /\ \A b \in Actors : call[b].cv # c
    /\ objects' = [objects EXCEPT !.cv = @ \ {c}]
    /\ HandleConditionVariableRefcountDecrease(c)
    /\ Reply("none")
    /\ UNCHANGED <<mutexes, owner, queue, call, holds, notified, error>>

\* The handlers of the three waits: the mutex is released and the actor sleeps.
HandleConditionVariableWait(a, c, m, timed) ==
    IF c \notin condition_variables \/ m \notin mutexes THEN Unknown
    ELSE IF owner[m] # a
    THEN NotOwner
    ELSE /\ Release(m)
         /\ sleeping' = [sleeping EXCEPT ![c] = Append(@, a)]
         /\ call' = [call EXCEPT ![a] = [op |-> "wait", mutex |-> m,
                                         cv |-> c, timed |-> timed]]
         /\ holds' = [holds EXCEPT ![a] = {}]
         /\ Reply("none") /\ UNCHANGED <<notified, error>>

\* wait, and wait_until or wait_for when timed.  Clients hold no other mutex.
ConditionVariableWait(a, c, m, timed) ==
    /\ Running(a) /\ c \in objects.cv /\ holds[a] = {m}
    /\ HandleConditionVariableWait(a, c, m, timed)
    /\ UNCHANGED <<store, objects>>

\* The handler of a notification, of the first n that sleep.
Notify(a, c, n) ==
    /\ Running(a) /\ c \in objects.cv
    /\ IF c \notin condition_variables THEN Unknown
       ELSE Signal(c, n) /\ Reply("none") /\ UNCHANGED <<holds, error>>
    /\ UNCHANGED <<store, objects>>

ConditionVariableNotifyOne(a, c) == Notify(a, c, IF sleeping[c] = <<>> THEN 0 ELSE 1)
ConditionVariableNotifyAll(a, c) == Notify(a, c, Len(sleeping[c]))

----------------------------------------------------------------------------
(* What happens to a blocked actor *)

\* The date of a timed wait is reached: nobody notifies the actor any more.
TimeoutReached(a) ==
    /\ error = "none" /\ call[a].op = "wait" /\ call[a].timed
    /\ sleeping' = [sleeping EXCEPT ![call[a].cv] = Only(@, Actors \ {a})]
    /\ call' = [call EXCEPT ![a].op = "timedout"]
    /\ Reply("none")
    /\ UNCHANGED <<store, owner, queue, objects, holds, notified, error>>

\* s4u wait_for() then locks the mutex of the unique_lock, which the store owns.
Relock(a) ==
    /\ error = "none" /\ call[a].op = "timedout"
    /\ LET m == call[a].mutex
       IN  IF m \notin mutexes
           THEN error' = "dangling_lock" /\ UNCHANGED <<owner, queue, call>>
           ELSE /\ LockBy(m, a)
                /\ call' = [call EXCEPT ![a].op = "relock"]
                /\ error' = error
    /\ Reply("none")
    /\ UNCHANGED <<store, sleeping, objects, holds, notified>>

\* Mutant: the two values of the status are exchanged.
StatusSwapped(op) == IF op = "relock" THEN "no_timeout" ELSE "timeout"

\* The status goes through two conversions: std to protocol buffer, and back.
Status(op) == IF op = "relock" THEN "timeout" ELSE "no_timeout"

\* Mutant: the acknowledgement is sent as soon as the wait is over.
EndOfWait(a) == call[a].op \in {"lock", "relock"}

\* The blocking simcall is answered when the mutex belongs to the actor.
Acquired(a) == call[a].op \in {"lock", "relock"} /\ owner[call[a].mutex] = a

Returns(a) ==
    /\ error = "none" /\ Acquired(a)
    /\ holds' = [holds EXCEPT ![a] = @ \cup {call[a].mutex}]
    /\ Reply(IF call[a].timed THEN Status(call[a].op) ELSE "none")
    /\ call' = [call EXCEPT ![a] = NoCall]
    /\ notified' = notified \ {a}
    /\ UNCHANGED <<store, simgrid, objects, error>>

Decision(a) ==
    \/ MutexCreate(a) \/ ConditionVariableCreate(a)
    \/ \E m \in Mutexes :
         \/ MutexRefcountDecrease(a, m) \/ MutexLock(a, m)
         \/ MutexUnlock(a, m) \/ MutexTryLock(a, m)
    \/ \E c \in Conditions :
         \/ ConditionVariableRefcountDecrease(a, c)
         \/ \E m \in Mutexes, timed \in BOOLEAN : ConditionVariableWait(a, c, m, timed)
         \/ ConditionVariableNotifyOne(a, c) \/ ConditionVariableNotifyAll(a, c)

Resumes(a) == TimeoutReached(a) \/ Relock(a) \/ Returns(a)

Next == \E a \in Actors : Decision(a) \/ Resumes(a)

Spec == Init /\ [][Next]_vars

\* The simulation goes on: a reached date is acted on and an answer is sent.  A
\* client does not keep a mutex for ever, whatever else it calls meanwhile.
Fairness ==
    \A a \in Actors :
        /\ WF_vars(Resumes(a))
        /\ \A m \in Mutexes : SF_vars(MutexUnlock(a, m))

FairSpec == Spec /\ Fairness

----------------------------------------------------------------------------
(* Properties *)

\* Type invariant of the stores, the simulation and the clients.
TypeOK ==
    /\ mutexes \subseteq Mutexes /\ condition_variables \subseteq Conditions
    /\ owner \in [Mutexes -> Actors \cup {NoActor}]
    /\ queue \in [Mutexes -> Seq(Actors)] /\ sleeping \in [Conditions -> Seq(Actors)]
    /\ call \in [Actors -> Call]
    /\ objects \in [mutex : SUBSET Mutexes, cv : SUBSET Conditions]
    /\ holds \in [Actors -> SUBSET Mutexes]
    /\ answer \in Answer
    /\ notified \subseteq Actors /\ error \in Error

\* Mutual exclusion as clients see it: what an actor has locked, by lock() or by
\* any way out of a wait, belongs to it, so no two actors have locked one mutex.
HeldIsOwned == \A a \in Actors : \A m \in holds[a] : owner[m] = a

\* The queues of SimGrid an actor is in.
Places(a) == [kind : {"queue"}, at : {m \in Mutexes : a \in Elements(queue[m])}]
    \cup [kind : {"sleeping"}, at : {c \in Conditions : a \in Elements(sleeping[c])}]

\* Nobody is forgotten.  A blocked actor is in the one queue, of objects still
\* in the store, that will wake it up, and whoever waits for a mutex waits for
\* an actor that has it.
NobodyForgotten ==
    /\ \A a \in Actors :
         /\ call[a].op \in {"lock", "relock"} /\ ~Acquired(a) =>
              /\ Places(a) = {[kind |-> "queue", at |-> call[a].mutex]}
              /\ call[a].mutex \in mutexes
         /\ call[a].op = "wait" =>
              /\ Places(a) = {[kind |-> "sleeping", at |-> call[a].cv]}
              /\ call[a].cv \in condition_variables /\ call[a].mutex \in mutexes
         /\ call[a].op \in {"none", "timedout"} => Places(a) = {}
    /\ \A m \in Mutexes : owner[m] = NoActor => queue[m] = <<>>

\* An actor that uses its own objects and unlocks what it has locked gets no
\* exception (but of try_lock) and never ends the server.
CallsSucceed == error = "none" /\ answer # "exception"

\* The status of a timed wait tells whether a notification was spent on the
\* actor, also when the timeout and the notification race.
StatusTellsNotification ==
    [][\A a \in Actors :
         call[a].timed /\ call'[a].op = "none" =>
             (answer' = "no_timeout" <=> a \in notified)]_vars

\* Whoever waits for a mutex gets it, and a timed wait returns.
LockSucceeds ==
    \A a \in Actors :
        call[a].op \in {"lock", "relock"} \/ call[a].timed ~> call[a].op = "none"

(* What the repository says of try_lock and the code does not do. *)

\* mutex.cpp: "Acquire the mutex if it's free, and return false (without
\* blocking) if not".  The call never returns.
TryLockReturns == answer # "try_lock_exception"
=============================================================================
