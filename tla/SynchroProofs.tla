--------------------------- MODULE SynchroProofs ---------------------------
(***************************************************************************)
(* Proofs about mutexes and condition variables, for every set of actors   *)
(* and addresses: TypeOK, HeldIsOwned, NobodyForgotten, CallsSucceed and   *)
(* StatusTellsNotification.                                                *)
(*                                                                         *)
(* The inductive invariant says who is in which waiting line: exactly the  *)
(* actors whose call says so, each of them once, and that an actor owns a  *)
(* mutex only because it has locked it or because its call is about to     *)
(* return.                                                                 *)
(***************************************************************************)
EXTENDS Synchro, SubsequencesProofs

Locking == {"lock", "relock"}

\* Clients and server know the same objects, and no call has failed so far.
StoreInv ==
    /\ objects.mutex = mutexes /\ objects.cv = condition_variables
    /\ \A a \in Actors : holds[a] \subseteq mutexes
    /\ CallsSucceed

\* What the call an actor is blocked in says of it.
CallInv ==
    \A a \in Actors :
        /\ call[a].op = "none" => call[a] = NoCall
        /\ call[a].op # "none" => call[a].mutex \in mutexes
        /\ call[a].op = "wait" => call[a].cv \in condition_variables
        /\ call[a].op \in {"wait", "timedout"} => holds[a] = {}
        /\ a \in notified => call[a].op = "lock"
        /\ call[a].timed => (call[a].op = "lock" => a \in notified)

\* Whose a mutex is, and why.
OwnerInv ==
    /\ HeldIsOwned
    /\ \A m \in Mutexes :
         /\ owner[m] # NoActor =>
              \/ m \in holds[owner[m]]
              \/ call[owner[m]].op \in Locking /\ call[owner[m]].mutex = m
         /\ owner[m] = NoActor => queue[m] = <<>>

\* Who is in the line of a mutex, and that nobody is in it twice.
QueueInv ==
    \A m \in Mutexes :
        /\ Distinct(queue[m])
        /\ Elements(queue[m]) = {a \in Actors : /\ call[a].op \in Locking
                                                /\ call[a].mutex = m /\ owner[m] # a}

\* Who sleeps on a condition variable, and that nobody does twice.
SleepInv ==
    \A c \in Conditions :
        /\ Distinct(sleeping[c])
        /\ Elements(sleeping[c]) = {a \in Actors : call[a].op = "wait" /\ call[a].cv = c}

IndInv == TypeOK /\ StoreInv /\ CallInv /\ OwnerInv /\ QueueInv /\ SleepInv

USE DEF simgrid, store, vars, Reply

----------------------------------------------------------------------------
(* SimGrid *)

\* Lock requests of the actors of s, who wait for m in no way yet: they are in
\* its line, except the one that gets the mutex if it was free.
LEMMA GrantedQueued ==
    ASSUME TypeOK, NEW m \in Mutexes, NEW s \in Seq(Actors),
           Distinct(s), Distinct(queue[m]),
           Elements(s) \cap Elements(queue[m]) = {},
           owner[m] \notin Elements(s) \cup Elements(queue[m]),
           owner[m] = NoActor => queue[m] = <<>>
    PROVE  /\ Granted(m, s) \in Actors \cup {NoActor}
           /\ Queued(m, s) \in Seq(Actors) /\ Distinct(Queued(m, s))
           /\ Elements(Queued(m, s))
                = (Elements(queue[m]) \cup Elements(s)) \ {Granted(m, s)}
           /\ Granted(m, s) = NoActor => Queued(m, s) = <<>>
           /\ owner[m] # NoActor => Granted(m, s) = owner[m]
           /\ owner[m] = NoActor => Granted(m, s) \in Elements(s) \cup {NoActor}
<1>1. queue[m] \in Seq(Actors) /\ owner[m] \in Actors \cup {NoActor}
  BY DEF TypeOK
<1>2. Elements(<<>>) = {} /\ Distinct(<<>>)
  BY DEF Elements, Distinct
<1>3. CASE owner[m] = NoActor /\ s # <<>>
  <2>1. Granted(m, s) = Head(s) /\ Queued(m, s) = Tail(s)
    BY <1>3 DEF Granted, Queued
  <2>2. Head(s) \in Actors /\ NoActor \notin Actors
    BY SynchroAssumption, <1>3, HeadTailElements
  <2> QED
    BY <1>2, <1>3, <2>1, <2>2, HeadTailElements
<1>4. CASE owner[m] = NoActor /\ s = <<>>
  <2>1. Granted(m, s) = NoActor /\ Queued(m, s) = queue[m] \o <<>> /\ queue[m] = <<>>
    BY <1>4 DEF Granted, Queued
  <2>2. Queued(m, s) = <<>>
    BY <2>1
  <2> QED
    BY <1>2, <1>4, <2>1, <2>2
<1>5. CASE owner[m] # NoActor
  <2>1. Granted(m, s) = owner[m] /\ Queued(m, s) = queue[m] \o s
    BY <1>5 DEF Granted, Queued
  <2> QED
    BY <1>1, <1>5, <2>1, ConcatElements
<1> QED
  BY <1>3, <1>4, <1>5

\* A lock request of one actor.
LEMMA LockByFacts ==
    ASSUME IndInv, NEW a \in Actors, NEW m \in Mutexes, LockBy(m, a),
           call[a].op \notin Locking, owner[m] # a
    PROVE  /\ owner' \in [Mutexes -> Actors \cup {NoActor}]
           /\ queue' \in [Mutexes -> Seq(Actors)]
           /\ \A k \in Mutexes : k # m => owner'[k] = owner[k] /\ queue'[k] = queue[k]
           /\ Distinct(queue'[m])
           /\ Elements(queue'[m]) = (Elements(queue[m]) \cup {a}) \ {owner'[m]}
           /\ owner'[m] # NoActor
           /\ owner[m] # NoActor => owner'[m] = owner[m]
           /\ owner[m] = NoActor => owner'[m] = a
<1> DEFINE s == <<a>>
<1>1. s \in Seq(Actors) /\ Distinct(s) /\ Elements(s) = {a} /\ s # <<>> /\ Head(s) = a
  BY SingleElements
<1>2. a \notin Elements(queue[m]) /\ owner[m] \notin Elements(queue[m])
  BY DEF IndInv, QueueInv
<1>3. Distinct(queue[m]) /\ (owner[m] = NoActor => queue[m] = <<>>)
  BY DEF IndInv, QueueInv, OwnerInv
<1>4. TypeOK
  BY DEF IndInv
<1>5. /\ owner' = [owner EXCEPT ![m] = Granted(m, s)]
      /\ queue' = [queue EXCEPT ![m] = Queued(m, s)]
  BY DEF LockBy
<1>6. Granted(m, s) = IF owner[m] = NoActor THEN a ELSE owner[m]
  BY <1>1 DEF Granted
<1> HIDE DEF s
<1>7. /\ Granted(m, s) \in Actors \cup {NoActor}
      /\ Queued(m, s) \in Seq(Actors) /\ Distinct(Queued(m, s))
      /\ Elements(Queued(m, s))
           = (Elements(queue[m]) \cup Elements(s)) \ {Granted(m, s)}
  BY <1>1, <1>2, <1>3, <1>4, GrantedQueued
<1> QED
  BY <1>1, <1>4, <1>5, <1>6, <1>7 DEF TypeOK

\* A mutex is released: the first in its line has it now.
LEMMA ReleaseFacts ==
    ASSUME IndInv, NEW m \in Mutexes, Release(m)
    PROVE  /\ owner' \in [Mutexes -> Actors \cup {NoActor}]
           /\ queue' \in [Mutexes -> Seq(Actors)]
           /\ \A k \in Mutexes : k # m => owner'[k] = owner[k] /\ queue'[k] = queue[k]
           /\ Distinct(queue'[m])
           /\ Elements(queue'[m]) = Elements(queue[m]) \ {owner'[m]}
           /\ owner'[m] = NoActor => queue'[m] = <<>>
           /\ owner'[m] # NoActor => owner'[m] \in Elements(queue[m])
<1>1. /\ queue \in [Mutexes -> Seq(Actors)] /\ Distinct(queue[m])
      /\ owner \in [Mutexes -> Actors \cup {NoActor}]
  BY DEF IndInv, TypeOK, QueueInv
<1>2. CASE queue[m] = <<>>
  <2>1. Elements(<<>>) = {} /\ Distinct(<<>>)
    BY DEF Elements, Distinct
  <2> QED
    BY <1>1, <1>2, <2>1 DEF Release
<1>3. CASE queue[m] # <<>>
  <2> DEFINE q == queue[m]
  <2>1. owner' = [owner EXCEPT ![m] = Head(q)] /\ queue' = [queue EXCEPT ![m] = Tail(q)]
    BY <1>3 DEF Release
  <2>2. q \in Seq(Actors) /\ q # <<>> /\ Distinct(q)
    BY <1>1, <1>3
  <2> HIDE DEF q
  <2>3. /\ Head(q) \in Actors /\ Tail(q) \in Seq(Actors) /\ Distinct(Tail(q))
        /\ Elements(q) = {Head(q)} \cup Elements(Tail(q))
        /\ Head(q) \notin Elements(Tail(q))
    BY <2>2, HeadTailElements
  <2> QED
    BY SynchroAssumption, <1>1, <2>1, <2>3 DEF q
<1> QED
  BY <1>2, <1>3

----------------------------------------------------------------------------
(* What the handlers do to a state of the invariant: the addresses clients  *)
(* send are in the store, and they own what they unlock.                    *)

\* lock() asks for a mutex the actor neither has nor waits for.
LEMMA LockFacts ==
    ASSUME IndInv, NEW a \in Actors, NEW m \in Mutexes, MutexLock(a, m)
    PROVE  /\ m \in mutexes /\ call[a] = NoCall /\ owner[m] # a /\ LockBy(m, a)
           /\ call' = [call EXCEPT ![a] = [NoCall EXCEPT !.op = "lock", !.mutex = m]]
           /\ answer' = "none"
           /\ UNCHANGED <<store, sleeping, objects, holds, notified, error>>
<1>1. m \in mutexes /\ call[a] = NoCall
  BY DEF IndInv, StoreInv, CallInv, MutexLock, Running
<1>2. m \notin holds[a]
  BY SynchroAssumption DEF MutexLock
<1>3. owner[m] # a
  BY SynchroAssumption, <1>1, <1>2 DEF IndInv, OwnerInv, NoCall, Locking
<1> QED
  BY <1>1, <1>3 DEF MutexLock, HandleMutexLock

\* unlock() releases a mutex of the actor.
LEMMA UnlockFacts ==
    ASSUME IndInv, NEW a \in Actors, NEW m \in Mutexes, MutexUnlock(a, m)
    PROVE  /\ owner[m] = a /\ call[a] = NoCall /\ Release(m)
           /\ holds' = [holds EXCEPT ![a] = @ \ {m}]
           /\ answer' = "none"
           /\ UNCHANGED <<store, sleeping, call, objects, notified, error>>
<1>1. m \in mutexes /\ owner[m] = a /\ call[a] = NoCall
  BY DEF IndInv, StoreInv, OwnerInv, HeldIsOwned, CallInv, MutexUnlock, Running
<1> QED
  BY <1>1 DEF MutexUnlock, HandleMutexUnlock

\* try_lock() changes nothing but the answer.
LEMMA TryLockFacts ==
    ASSUME IndInv, NEW a \in Actors, NEW m \in Mutexes, MutexTryLock(a, m)
    PROVE  /\ answer' = "try_lock_exception"
           /\ UNCHANGED <<store, simgrid, call, objects, holds, notified, error>>
<1>1. NoObject \notin mutexes
  BY SynchroAssumption DEF IndInv, TypeOK, NoObject
<1> QED
  BY <1>1 DEF MutexTryLock, HandleMutexTryLock, AddressTried

\* wait() releases the only mutex of the actor, which goes to sleep.
LEMMA WaitFacts ==
    ASSUME IndInv, NEW a \in Actors, NEW c \in Conditions, NEW m \in Mutexes,
           NEW timed \in BOOLEAN, ConditionVariableWait(a, c, m, timed)
    PROVE  /\ c \in condition_variables /\ m \in mutexes
           /\ owner[m] = a /\ call[a] = NoCall /\ holds[a] = {m} /\ Release(m)
           /\ sleeping' = [sleeping EXCEPT ![c] = Append(@, a)]
           /\ call' = [call EXCEPT ![a] = [op |-> "wait", mutex |-> m,
                                           cv |-> c, timed |-> timed]]
           /\ holds' = [holds EXCEPT ![a] = {}]
           /\ answer' = "none"
           /\ UNCHANGED <<store, objects, notified, error>>
<1>1. /\ m \in mutexes /\ c \in condition_variables /\ owner[m] = a /\ call[a] = NoCall
      /\ holds[a] = {m}
  BY DEF IndInv, StoreInv, OwnerInv, HeldIsOwned, CallInv, ConditionVariableWait, Running
<1> QED
  BY <1>1 DEF ConditionVariableWait, HandleConditionVariableWait

\* Both notifications find the condition variable and signal some of its sleepers.
LEMMA NotifyFacts ==
    ASSUME IndInv, NEW a \in Actors, NEW c \in Conditions,
           ConditionVariableNotifyOne(a, c) \/ ConditionVariableNotifyAll(a, c)
    PROVE  /\ \E n \in 0 .. Len(sleeping[c]) : Signal(c, n)
           /\ answer' = "none"
           /\ UNCHANGED <<store, objects, holds, error>>
<1>1. sleeping[c] \in Seq(Actors)
  BY DEF IndInv, TypeOK
<1>2. \E n \in 0 .. Len(sleeping[c]) : Notify(a, c, n)
  <2>1. CASE ConditionVariableNotifyOne(a, c)
    <3>1. (IF sleeping[c] = <<>> THEN 0 ELSE 1) \in 0 .. Len(sleeping[c])
      BY <1>1
    <3> QED
      BY <2>1, <3>1 DEF ConditionVariableNotifyOne
  <2>2. CASE ConditionVariableNotifyAll(a, c)
    <3>1. Len(sleeping[c]) \in 0 .. Len(sleeping[c])
      BY <1>1
    <3> QED
      BY <2>2, <3>1 DEF ConditionVariableNotifyAll
  <2> QED
    BY <2>1, <2>2
<1>3. PICK n \in 0 .. Len(sleeping[c]) : Notify(a, c, n)
  BY <1>2
<1>4. c \in condition_variables
  BY <1>3 DEF Notify, IndInv, StoreInv
<1> QED
  BY <1>3, <1>4 DEF Notify

\* After its timeout an actor locks a mutex that is still in the store.
LEMMA RelockFacts ==
    ASSUME IndInv, NEW a \in Actors, Relock(a)
    PROVE  /\ call[a].op = "timedout" /\ call[a].mutex \in mutexes
           /\ owner[call[a].mutex] # a /\ LockBy(call[a].mutex, a)
           /\ call' = [call EXCEPT ![a].op = "relock"]
           /\ answer' = "none"
           /\ UNCHANGED <<store, sleeping, objects, holds, notified, error>>
<1>1. call[a].op = "timedout" /\ call[a].mutex \in mutexes /\ holds[a] = {}
  BY DEF IndInv, CallInv, Relock
<1>2. call[a].mutex \in Mutexes
  BY <1>1 DEF IndInv, TypeOK
<1>3. owner[call[a].mutex] # a
  BY SynchroAssumption, <1>1, <1>2 DEF IndInv, OwnerInv, Locking
<1> QED
  BY <1>1, <1>3 DEF Relock

\* A notification wakes up a set W of sleepers; each joins the line of the mutex
\* it has released, or has it at once.
LEMMA SignalFacts ==
    ASSUME IndInv, NEW c \in Conditions, NEW n \in 0 .. Len(sleeping[c]), Signal(c, n)
    PROVE  \E W \in SUBSET Actors :
             /\ \A a \in W : call[a].op = "wait" /\ call[a].cv = c
             /\ sleeping' \in [Conditions -> Seq(Actors)]
             /\ \A d \in Conditions : d # c => sleeping'[d] = sleeping[d]
             /\ Distinct(sleeping'[c])
             /\ Elements(sleeping'[c]) = Elements(sleeping[c]) \ W
             /\ owner' \in [Mutexes -> Actors \cup {NoActor}]
             /\ queue' \in [Mutexes -> Seq(Actors)]
             /\ \A m \in Mutexes :
                  /\ Distinct(queue'[m])
                  /\ Elements(queue'[m])
                       = (Elements(queue[m]) \cup {a \in W : call[a].mutex = m})
                            \ {owner'[m]}
                  /\ owner'[m] = NoActor => queue'[m] = <<>>
                  /\ owner[m] # NoActor => owner'[m] = owner[m]
                  /\ owner[m] = NoActor =>
                       owner'[m] \in {a \in W : call[a].mutex = m} \cup {NoActor}
             /\ call' = [a \in Actors |-> IF a \in W THEN [call[a] EXCEPT !.op = "lock"]
                                          ELSE call[a]]
             /\ notified' = notified \cup W
<1> DEFINE woken == SubSeq(sleeping[c], 1, n)
           rest == SubSeq(sleeping[c], n + 1, Len(sleeping[c]))
           W == Elements(woken)
           By(m) == {a \in Actors : call[a].mutex = m}
<1>1. sleeping \in [Conditions -> Seq(Actors)] /\ sleeping[c] \in Seq(Actors)
  BY DEF IndInv, TypeOK
<1>2. /\ Distinct(sleeping[c])
      /\ Elements(sleeping[c]) = {a \in Actors : call[a].op = "wait" /\ call[a].cv = c}
  BY DEF IndInv, SleepInv
<1>3. /\ sleeping' = [sleeping EXCEPT ![c] = rest]
      /\ owner' = [m \in Mutexes |-> Granted(m, Only(woken, By(m)))]
      /\ queue' = [m \in Mutexes |-> Queued(m, Only(woken, By(m)))]
      /\ call' = [a \in Actors |-> IF a \in W THEN [call[a] EXCEPT !.op = "lock"]
                                   ELSE call[a]]
      /\ notified' = notified \cup W
  BY DEF Signal
<1>4. /\ woken \in Seq(Actors) /\ rest \in Seq(Actors)
      /\ Elements(sleeping[c]) = Elements(woken) \cup Elements(rest)
      /\ Distinct(woken) /\ Distinct(rest)
      /\ Elements(woken) \cap Elements(rest) = {}
  BY <1>1, <1>2, SubSeqElements
<1> HIDE DEF woken, rest
<1>5. W \in SUBSET Actors /\ \A a \in W : call[a].op = "wait" /\ call[a].cv = c
  BY <1>2, <1>4
<1>6. /\ sleeping' \in [Conditions -> Seq(Actors)]
      /\ \A d \in Conditions : d # c => sleeping'[d] = sleeping[d]
      /\ Distinct(sleeping'[c])
      /\ Elements(sleeping'[c]) = Elements(sleeping[c]) \ W
  BY <1>1, <1>3, <1>4
<1>7. ASSUME NEW m \in Mutexes
      PROVE  /\ Granted(m, Only(woken, By(m))) \in Actors \cup {NoActor}
             /\ Queued(m, Only(woken, By(m))) \in Seq(Actors)
             /\ Distinct(queue'[m])
             /\ Elements(queue'[m])
                  = (Elements(queue[m]) \cup {a \in W : call[a].mutex = m}) \ {owner'[m]}
             /\ owner'[m] = NoActor => queue'[m] = <<>>
             /\ owner[m] # NoActor => owner'[m] = owner[m]
             /\ owner[m] = NoActor =>
                  owner'[m] \in {a \in W : call[a].mutex = m} \cup {NoActor}
  <2> DEFINE s == Only(woken, By(m))
  <2>1. s \in Seq(Actors) /\ Elements(s) = W \cap By(m) /\ Distinct(s)
    BY <1>4, OnlyProperties
  <2>2. Elements(s) = {a \in W : call[a].mutex = m}
    BY <1>5, <2>1
  <2>3. owner'[m] = Granted(m, s) /\ queue'[m] = Queued(m, s)
    BY <1>3
  <2> HIDE DEF s, W
  <2>4. Elements(s) \cap Elements(queue[m]) = {} /\ owner[m] \notin Elements(queue[m])
    BY <1>5, <2>2 DEF IndInv, QueueInv, Locking
  <2>5. owner[m] \notin Elements(s)
    <3> SUFFICES ASSUME owner[m] \in Elements(s) PROVE FALSE
      OBVIOUS
    <3>1. owner[m] \in Actors /\ call[owner[m]].op = "wait"
      BY <1>5, <2>2
    <3>2. holds[owner[m]] = {}
      BY <3>1 DEF IndInv, CallInv
    <3> QED
      BY SynchroAssumption, <3>1, <3>2 DEF IndInv, OwnerInv, Locking
  <2>6. TypeOK /\ Distinct(queue[m]) /\ (owner[m] = NoActor => queue[m] = <<>>)
    BY DEF IndInv, QueueInv, OwnerInv
  <2>7. /\ Granted(m, s) \in Actors \cup {NoActor}
        /\ Queued(m, s) \in Seq(Actors) /\ Distinct(Queued(m, s))
        /\ Elements(Queued(m, s))
             = (Elements(queue[m]) \cup Elements(s)) \ {Granted(m, s)}
        /\ Granted(m, s) = NoActor => Queued(m, s) = <<>>
        /\ owner[m] # NoActor => Granted(m, s) = owner[m]
        /\ owner[m] = NoActor => Granted(m, s) \in Elements(s) \cup {NoActor}
    BY <2>1, <2>4, <2>5, <2>6, GrantedQueued
  <2>8. s \in Seq(Actors) /\ s = Only(woken, By(m))
    BY <2>1 DEF s
  <2> QED
    BY <2>2, <2>3, <2>7, <2>8
<1> HIDE DEF By, W
<1>8. /\ owner' \in [Mutexes -> Actors \cup {NoActor}]
      /\ queue' \in [Mutexes -> Seq(Actors)]
  BY <1>3, <1>7
<1> QED
  BY <1>3, <1>5, <1>6, <1>7, <1>8

\* The actor whose wait times out is taken out of the line of sleepers.
LEMMA TimeoutFacts ==
    ASSUME IndInv, NEW a \in Actors, TimeoutReached(a)
    PROVE  /\ call[a].op = "wait" /\ call[a].cv \in Conditions
           /\ sleeping' \in [Conditions -> Seq(Actors)]
           /\ \A d \in Conditions : d # call[a].cv => sleeping'[d] = sleeping[d]
           /\ Distinct(sleeping'[call[a].cv])
           /\ Elements(sleeping'[call[a].cv]) = Elements(sleeping[call[a].cv]) \ {a}
           /\ call' = [call EXCEPT ![a].op = "timedout"]
           /\ answer' = "none"
           /\ UNCHANGED <<store, owner, queue, objects, holds, notified, error>>
<1> DEFINE c == call[a].cv
           s == Only(sleeping[c], Actors \ {a})
<1>1. call[a].op = "wait" /\ c \in Conditions
  BY DEF IndInv, TypeOK, CallInv, TimeoutReached
<1>2. /\ sleeping \in [Conditions -> Seq(Actors)] /\ Distinct(sleeping[c])
      /\ Elements(sleeping[c]) \subseteq Actors
  BY <1>1 DEF IndInv, TypeOK, SleepInv
<1>3. /\ s \in Seq(Actors) /\ Distinct(s)
      /\ Elements(s) = Elements(sleeping[c]) \cap (Actors \ {a})
  <2>1. sleeping[c] \in Seq(Actors)
    BY <1>1, <1>2
  <2> HIDE DEF c
  <2> QED
    BY <1>2, <2>1, OnlyProperties
<1>4. sleeping' = [sleeping EXCEPT ![c] = s]
  BY DEF TimeoutReached
<1> HIDE DEF s
<1> QED
  BY <1>1, <1>2, <1>3, <1>4 DEF TimeoutReached

----------------------------------------------------------------------------
(* Every step keeps the invariant *)

\* A blocked actor gets to another stage of its call.
LEMMA CallTypes ==
    /\ NoCall \in Call
    /\ \A r \in Call, o \in {"lock", "timedout", "relock"} :
         [r EXCEPT !.op = o] \in Call
  BY DEF NoCall, Call

\* What a new stage leaves alone: the other actors, and what the call is about.
LEMMA StageFacts ==
    ASSUME call \in [Actors -> Call], NEW a \in Actors, NEW o,
           call' = [call EXCEPT ![a].op = o]
    PROVE  /\ \A b \in Actors : b # a => call'[b] = call[b]
           /\ call'[a].op = o /\ call'[a].mutex = call[a].mutex
           /\ call'[a].cv = call[a].cv /\ call'[a].timed = call[a].timed
  BY DEF Call

\* The same for all that a notification wakes up.
LEMMA WokenFacts ==
    ASSUME call \in [Actors -> Call], NEW W \in SUBSET Actors,
           call' = [a \in Actors |-> IF a \in W THEN [call[a] EXCEPT !.op = "lock"]
                                     ELSE call[a]]
    PROVE  /\ \A b \in Actors : b \notin W => call'[b] = call[b]
           /\ \A b \in W : /\ call'[b].op = "lock" /\ call'[b].mutex = call[b].mutex
                           /\ call'[b].cv = call[b].cv /\ call'[b].timed = call[b].timed
  BY DEF Call

\* Every step keeps the types.
LEMMA TypeStep ==
    ASSUME IndInv, NEW a \in Actors, Decision(a) \/ Resumes(a) PROVE TypeOK'
<1>0. TypeOK
  BY DEF IndInv
<1> USE DEF TypeOK, Answer, Error
<1>1. CASE MutexCreate(a)
  BY <1>0, <1>1 DEF MutexCreate, HandleMutexCreate
<1>2. CASE ConditionVariableCreate(a)
  BY <1>0, <1>2 DEF ConditionVariableCreate, HandleConditionVariableCreate
<1>3. ASSUME NEW m \in Mutexes, MutexRefcountDecrease(a, m) PROVE TypeOK'
  <2>1. <<>> \in Seq(Actors)
    OBVIOUS
  <2>2. queue' \in [Mutexes -> Seq(Actors)]
    BY <1>0, <1>3, <2>1 DEF MutexRefcountDecrease, HandleMutexRefcountDecrease
  <2>3. objects' \in [mutex : SUBSET Mutexes, cv : SUBSET Conditions]
    BY <1>0, <1>3 DEF MutexRefcountDecrease
  <2>4. owner' \in [Mutexes -> Actors \cup {NoActor}]
    BY <1>0, <1>3 DEF MutexRefcountDecrease, HandleMutexRefcountDecrease
  <2> QED
    BY <1>0, <1>3, <2>2, <2>3, <2>4
    DEF MutexRefcountDecrease, HandleMutexRefcountDecrease
<1>4. ASSUME NEW m \in Mutexes, MutexLock(a, m) PROVE TypeOK'
  <2>1. [NoCall EXCEPT !.op = "lock", !.mutex = m] \in Call
    BY DEF NoCall, Call
  <2>2. call[a].op \notin Locking
    <3>1. call[a] = NoCall
      BY <1>4, LockFacts
    <3> QED
      BY <3>1 DEF NoCall, Locking
  <2>3. /\ owner' \in [Mutexes -> Actors \cup {NoActor}]
        /\ queue' \in [Mutexes -> Seq(Actors)]
    BY <1>4, <2>2, LockFacts, LockByFacts
  <2>4. call' \in [Actors -> Call]
    <3>1. call' = [call EXCEPT ![a] = [NoCall EXCEPT !.op = "lock", !.mutex = m]]
      BY <1>4, LockFacts
    <3> QED
      BY <1>0, <2>1, <3>1
  <2>5. answer' = "none" /\ UNCHANGED <<store, sleeping, objects, holds, notified, error>>
    BY <1>4, LockFacts
  <2> QED
    BY <1>0, <2>3, <2>4, <2>5
<1>5. ASSUME NEW m \in Mutexes, MutexUnlock(a, m) PROVE TypeOK'
  <2>1. /\ owner' \in [Mutexes -> Actors \cup {NoActor}]
        /\ queue' \in [Mutexes -> Seq(Actors)]
    BY <1>5, UnlockFacts, ReleaseFacts
  <2>2. /\ holds' = [holds EXCEPT ![a] = @ \ {m}] /\ answer' = "none"
        /\ UNCHANGED <<store, sleeping, call, objects, notified, error>>
    BY <1>5, UnlockFacts
  <2>3. holds' \in [Actors -> SUBSET Mutexes]
    BY <1>0, <2>2
  <2> QED
    BY <1>0, <2>1, <2>2, <2>3
<1>6. ASSUME NEW m \in Mutexes, MutexTryLock(a, m) PROVE TypeOK'
  BY <1>0, <1>6, TryLockFacts
<1>7. ASSUME NEW c \in Conditions, ConditionVariableRefcountDecrease(a, c) PROVE TypeOK'
  <2>1. <<>> \in Seq(Actors)
    OBVIOUS
  <2>2. sleeping' \in [Conditions -> Seq(Actors)]
    BY <1>0, <1>7, <2>1 DEF ConditionVariableRefcountDecrease,
    HandleConditionVariableRefcountDecrease
  <2>3. objects' \in [mutex : SUBSET Mutexes, cv : SUBSET Conditions]
    BY <1>0, <1>7 DEF ConditionVariableRefcountDecrease
  <2> QED
    BY <1>0, <1>7, <2>2, <2>3 DEF ConditionVariableRefcountDecrease,
    HandleConditionVariableRefcountDecrease
<1>8. ASSUME NEW c \in Conditions, NEW m \in Mutexes, NEW timed \in BOOLEAN,
             ConditionVariableWait(a, c, m, timed)
      PROVE  TypeOK'
  <2>1. /\ owner' \in [Mutexes -> Actors \cup {NoActor}]
        /\ queue' \in [Mutexes -> Seq(Actors)]
    BY <1>8, WaitFacts, ReleaseFacts
  <2>2. [op |-> "wait", mutex |-> m, cv |-> c, timed |-> timed] \in Call
    BY DEF Call
  <2>3. Append(sleeping[c], a) \in Seq(Actors)
    BY <1>0
  <2>4. /\ sleeping' = [sleeping EXCEPT ![c] = Append(@, a)]
        /\ call' = [call EXCEPT ![a] = [op |-> "wait", mutex |-> m,
                                        cv |-> c, timed |-> timed]]
        /\ holds' = [holds EXCEPT ![a] = {}] /\ answer' = "none"
        /\ UNCHANGED <<store, objects, notified, error>>
    BY <1>8, WaitFacts
  <2>5. sleeping' \in [Conditions -> Seq(Actors)]
    BY <1>0, <2>3, <2>4
  <2>6. call' \in [Actors -> Call] /\ holds' \in [Actors -> SUBSET Mutexes]
    BY <1>0, <2>2, <2>4
  <2> QED
    BY <1>0, <2>1, <2>4, <2>5, <2>6
<1>9. ASSUME NEW c \in Conditions,
             ConditionVariableNotifyOne(a, c) \/ ConditionVariableNotifyAll(a, c)
      PROVE  TypeOK'
  <2>1. /\ answer' = "none" /\ UNCHANGED <<store, objects, holds, error>>
        /\ \E n \in 0 .. Len(sleeping[c]) : Signal(c, n)
    BY <1>9, NotifyFacts
  <2>2. \E W \in SUBSET Actors :
          /\ sleeping' \in [Conditions -> Seq(Actors)]
          /\ owner' \in [Mutexes -> Actors \cup {NoActor}]
          /\ queue' \in [Mutexes -> Seq(Actors)]
          /\ call' = [b \in Actors |-> IF b \in W THEN [call[b] EXCEPT !.op = "lock"]
                                       ELSE call[b]]
          /\ notified' = notified \cup W
    BY <2>1, SignalFacts
  <2>3. \A b \in Actors : call[b] \in Call /\ [call[b] EXCEPT !.op = "lock"] \in Call
    BY <1>0, CallTypes
  <2> QED
    BY <1>0, <2>1, <2>2, <2>3
<1>10. CASE TimeoutReached(a)
  <2>1. [call[a] EXCEPT !.op = "timedout"] \in Call
    BY <1>0, CallTypes
  <2> QED
    BY <1>0, <1>10, <2>1, TimeoutFacts
<1>11. CASE Relock(a)
  <2>1. call' \in [Actors -> Call]
    <3>1. call' = [call EXCEPT ![a].op = "relock"]
      BY <1>11, RelockFacts
    <3> QED
      BY <1>0, <3>1, CallTypes
  <2>2. call[a].op \notin Locking /\ call[a].mutex \in Mutexes
    BY <1>0, <1>11, RelockFacts DEF Locking
  <2>3. /\ owner' \in [Mutexes -> Actors \cup {NoActor}]
        /\ queue' \in [Mutexes -> Seq(Actors)]
    BY <1>11, <2>2, RelockFacts, LockByFacts
  <2>4. answer' = "none" /\ UNCHANGED <<store, sleeping, objects, holds, notified, error>>
    BY <1>11, RelockFacts
  <2> QED
    BY <1>0, <2>1, <2>3, <2>4
<1>12. CASE Returns(a)
  <2>1. NoCall \in Call
    BY CallTypes
  <2>2. call[a].mutex \in Mutexes
    BY <1>12 DEF IndInv, CallInv, Returns, Acquired
  <2> QED
    BY <1>0, <1>12, <2>1, <2>2 DEF Returns, Status
<1> QED
  BY <1>1, <1>2, <1>3, <1>4, <1>5, <1>6, <1>7, <1>8, <1>9, <1>10, <1>11, <1>12
  DEF Decision, Resumes

\* Every step keeps clients and server agreeing on the objects, and succeeds.
LEMMA StoreStep ==
    ASSUME IndInv, NEW a \in Actors, Decision(a) \/ Resumes(a) PROVE StoreInv'
<1>0. TypeOK /\ StoreInv
  BY DEF IndInv
<1> USE DEF TypeOK, StoreInv, CallsSucceed
<1>1. CASE MutexCreate(a)
  BY <1>0, <1>1 DEF MutexCreate, HandleMutexCreate
<1>2. CASE ConditionVariableCreate(a)
  BY <1>0, <1>2 DEF ConditionVariableCreate, HandleConditionVariableCreate
<1>3. ASSUME NEW m \in Mutexes, MutexRefcountDecrease(a, m) PROVE StoreInv'
  BY <1>0, <1>3 DEF MutexRefcountDecrease, HandleMutexRefcountDecrease, Unused
<1>4. ASSUME NEW m \in Mutexes, MutexLock(a, m) PROVE StoreInv'
  BY <1>0, <1>4, LockFacts
<1>5. ASSUME NEW m \in Mutexes, MutexUnlock(a, m) PROVE StoreInv'
  <2>1. /\ holds' = [holds EXCEPT ![a] = @ \ {m}] /\ answer' = "none"
        /\ UNCHANGED <<store, objects, error>>
    BY <1>5, UnlockFacts
  <2> QED
    BY <1>0, <2>1
<1>6. ASSUME NEW m \in Mutexes, MutexTryLock(a, m) PROVE StoreInv'
  BY <1>0, <1>6, TryLockFacts
<1>7. ASSUME NEW c \in Conditions, ConditionVariableRefcountDecrease(a, c) PROVE StoreInv'
  BY <1>0, <1>7 DEF ConditionVariableRefcountDecrease,
  HandleConditionVariableRefcountDecrease
<1>8. ASSUME NEW c \in Conditions, NEW m \in Mutexes, NEW timed \in BOOLEAN,
             ConditionVariableWait(a, c, m, timed)
      PROVE  StoreInv'
  <2>1. /\ holds' = [holds EXCEPT ![a] = {}] /\ answer' = "none"
        /\ UNCHANGED <<store, objects, error>>
    BY <1>8, WaitFacts
  <2> QED
    BY <1>0, <2>1
<1>9. ASSUME NEW c \in Conditions,
             ConditionVariableNotifyOne(a, c) \/ ConditionVariableNotifyAll(a, c)
      PROVE  StoreInv'
  BY <1>0, <1>9, NotifyFacts
<1>10. CASE TimeoutReached(a)
  BY <1>0, <1>10, TimeoutFacts
<1>11. CASE Relock(a)
  BY <1>0, <1>11, RelockFacts
<1>12. CASE Returns(a)
  <2>1. call[a].mutex \in mutexes
    BY <1>12 DEF IndInv, CallInv, Returns, Acquired
  <2> QED
    BY <1>0, <1>12, <2>1 DEF Returns, Status
<1> QED
  BY <1>1, <1>2, <1>3, <1>4, <1>5, <1>6, <1>7, <1>8, <1>9, <1>10, <1>11, <1>12
  DEF Decision, Resumes

\* Every step keeps what calls say of their actors.
LEMMA CallStep ==
    ASSUME IndInv, NEW a \in Actors, Decision(a) \/ Resumes(a) PROVE CallInv'
<1>0. TypeOK /\ CallInv
  BY DEF IndInv
<1> USE DEF CallInv
<1>1. CASE MutexCreate(a)
  BY <1>0, <1>1 DEF MutexCreate, HandleMutexCreate
<1>2. CASE ConditionVariableCreate(a)
  BY <1>0, <1>2 DEF ConditionVariableCreate, HandleConditionVariableCreate
<1>3. ASSUME NEW m \in Mutexes, MutexRefcountDecrease(a, m) PROVE CallInv'
  BY <1>0, <1>3 DEF MutexRefcountDecrease, HandleMutexRefcountDecrease, Unused
<1>4. ASSUME NEW m \in Mutexes, MutexLock(a, m) PROVE CallInv'
  <2>1. /\ m \in mutexes /\ call[a] = NoCall
        /\ call' = [call EXCEPT ![a] = [NoCall EXCEPT !.op = "lock", !.mutex = m]]
        /\ UNCHANGED <<store, sleeping, objects, holds, notified, error>>
    BY <1>4, LockFacts
  <2>2. /\ call'[a].op = "lock" /\ call'[a].mutex = m /\ call'[a].timed = FALSE
        /\ \A b \in Actors : b # a => call'[b] = call[b]
    BY <1>0, <2>1 DEF TypeOK, NoCall
  <2> QED
    BY <1>0, <2>1, <2>2
<1>5. ASSUME NEW m \in Mutexes, MutexUnlock(a, m) PROVE CallInv'
  <2>1. /\ call[a] = NoCall /\ holds' = [holds EXCEPT ![a] = @ \ {m}]
        /\ UNCHANGED <<store, call, notified>>
    BY <1>5, UnlockFacts
  <2>2. call[a].op = "none"
    BY <2>1 DEF NoCall
  <2> QED
    BY <1>0, <2>1, <2>2 DEF TypeOK
<1>6. ASSUME NEW m \in Mutexes, MutexTryLock(a, m) PROVE CallInv'
  BY <1>0, <1>6, TryLockFacts
<1>7. ASSUME NEW c \in Conditions, ConditionVariableRefcountDecrease(a, c) PROVE CallInv'
  BY <1>0, <1>7 DEF ConditionVariableRefcountDecrease,
  HandleConditionVariableRefcountDecrease
<1>8. ASSUME NEW c \in Conditions, NEW m \in Mutexes, NEW timed \in BOOLEAN,
             ConditionVariableWait(a, c, m, timed)
      PROVE  CallInv'
  <2>1. /\ c \in condition_variables /\ m \in mutexes /\ call[a] = NoCall
        /\ call' = [call EXCEPT ![a] = [op |-> "wait", mutex |-> m,
                                        cv |-> c, timed |-> timed]]
        /\ holds' = [holds EXCEPT ![a] = {}] /\ UNCHANGED <<store, notified>>
    BY <1>8, WaitFacts
  <2>2. /\ call'[a].op = "wait" /\ call'[a].mutex = m /\ call'[a].cv = c
        /\ \A b \in Actors : b # a => call'[b] = call[b]
    BY <1>0, <2>1 DEF TypeOK
  <2>3. holds'[a] = {} /\ \A b \in Actors : b # a => holds'[b] = holds[b]
    BY <1>0, <2>1 DEF TypeOK
  <2>4. a \notin notified
    BY <1>0, <2>1 DEF NoCall
  <2> QED
    BY <1>0, <2>1, <2>2, <2>3, <2>4
<1>9. ASSUME NEW c \in Conditions,
             ConditionVariableNotifyOne(a, c) \/ ConditionVariableNotifyAll(a, c)
      PROVE  CallInv'
  <2>1. /\ UNCHANGED <<store, holds>> /\ \E n \in 0 .. Len(sleeping[c]) : Signal(c, n)
    BY <1>9, NotifyFacts
  <2>2. PICK W \in SUBSET Actors :
          /\ \A b \in W : call[b].op = "wait" /\ call[b].cv = c
          /\ call' = [b \in Actors |-> IF b \in W THEN [call[b] EXCEPT !.op = "lock"]
                                       ELSE call[b]]
          /\ notified' = notified \cup W
    BY <2>1, SignalFacts
  <2>3. /\ \A b \in Actors : b \notin W => call'[b] = call[b]
        /\ \A b \in W : /\ call'[b].op = "lock" /\ call'[b].mutex = call[b].mutex
                        /\ call'[b].cv = call[b].cv /\ call'[b].timed = call[b].timed
    BY <1>0, <2>2, WokenFacts DEF TypeOK
  <2> QED
    BY <1>0, <2>1, <2>2, <2>3
<1>10. CASE TimeoutReached(a)
  <2>1. /\ call[a].op = "wait" /\ call' = [call EXCEPT ![a].op = "timedout"]
        /\ UNCHANGED <<store, holds, notified>>
    BY <1>10, TimeoutFacts
  <2>2. /\ \A b \in Actors : b # a => call'[b] = call[b]
        /\ call'[a].op = "timedout" /\ call'[a].mutex = call[a].mutex
        /\ call'[a].timed = call[a].timed
    BY <1>0, <2>1, StageFacts DEF TypeOK
  <2> QED
    BY <1>0, <2>1, <2>2
<1>11. CASE Relock(a)
  <2>1. /\ call[a].op = "timedout" /\ call' = [call EXCEPT ![a].op = "relock"]
        /\ UNCHANGED <<store, holds, notified>>
    BY <1>11, RelockFacts
  <2>2. /\ \A b \in Actors : b # a => call'[b] = call[b]
        /\ call'[a].op = "relock" /\ call'[a].mutex = call[a].mutex
        /\ call'[a].timed = call[a].timed
    BY <1>0, <2>1, StageFacts DEF TypeOK
  <2> QED
    BY <1>0, <2>1, <2>2
<1>12. CASE Returns(a)
  <2>1. /\ call' = [call EXCEPT ![a] = NoCall] /\ notified' = notified \ {a}
        /\ holds' = [holds EXCEPT ![a] = @ \cup {call[a].mutex}] /\ UNCHANGED store
    BY <1>12 DEF Returns
  <2>2. NoCall.op = "none" /\ NoCall.timed = FALSE
    BY DEF NoCall
  <2> QED
    BY <1>0, <2>1, <2>2 DEF TypeOK
<1> QED
  BY <1>1, <1>2, <1>3, <1>4, <1>5, <1>6, <1>7, <1>8, <1>9, <1>10, <1>11, <1>12
  DEF Decision, Resumes

\* Every step keeps the line of sleepers of each condition variable.
LEMMA SleepStep ==
    ASSUME IndInv, NEW a \in Actors, Decision(a) \/ Resumes(a) PROVE SleepInv'
<1>0. TypeOK /\ CallInv /\ SleepInv
  BY DEF IndInv
<1> USE DEF SleepInv
<1>1. ASSUME UNCHANGED <<sleeping, call>> PROVE SleepInv'
  BY <1>0, <1>1
<1>2. ASSUME UNCHANGED sleeping, \A b \in Actors : b # a => call'[b] = call[b],
             call[a].op # "wait", call'[a].op # "wait"
      PROVE  SleepInv'
  BY <1>0, <1>2
<1>3. CASE MutexCreate(a)
  BY <1>1, <1>3 DEF MutexCreate
<1>4. CASE ConditionVariableCreate(a)
  BY <1>1, <1>4 DEF ConditionVariableCreate
<1>5. ASSUME NEW m \in Mutexes, MutexRefcountDecrease(a, m) PROVE SleepInv'
  BY <1>1, <1>5 DEF MutexRefcountDecrease
<1>6. ASSUME NEW m \in Mutexes, MutexLock(a, m) PROVE SleepInv'
  <2>1. /\ call[a] = NoCall /\ UNCHANGED sleeping
        /\ call' = [call EXCEPT ![a] = [NoCall EXCEPT !.op = "lock", !.mutex = m]]
    BY <1>6, LockFacts
  <2>2. /\ call[a].op = "none" /\ call'[a].op = "lock"
        /\ \A b \in Actors : b # a => call'[b] = call[b]
    BY <1>0, <2>1 DEF TypeOK, NoCall
  <2> QED
    BY <1>2, <2>1, <2>2
<1>7. ASSUME NEW m \in Mutexes, MutexUnlock(a, m) PROVE SleepInv'
  BY <1>1, <1>7, UnlockFacts
<1>8. ASSUME NEW m \in Mutexes, MutexTryLock(a, m) PROVE SleepInv'
  BY <1>1, <1>8, TryLockFacts
<1>9. ASSUME NEW c \in Conditions, ConditionVariableRefcountDecrease(a, c) PROVE SleepInv'
  <2>1. /\ UNCHANGED call /\ sleeping' = [sleeping EXCEPT ![c] = <<>>]
        /\ \A b \in Actors : call[b].cv # c
    BY <1>9 DEF ConditionVariableRefcountDecrease, HandleConditionVariableRefcountDecrease
  <2>2. Elements(<<>>) = {} /\ Distinct(<<>>)
    BY DEF Elements, Distinct
  <2> QED
    BY <1>0, <2>1, <2>2 DEF TypeOK
<1>10. ASSUME NEW c \in Conditions, NEW m \in Mutexes, NEW timed \in BOOLEAN,
              ConditionVariableWait(a, c, m, timed)
       PROVE  SleepInv'
  <2>1. /\ call[a] = NoCall /\ sleeping' = [sleeping EXCEPT ![c] = Append(@, a)]
        /\ call' = [call EXCEPT ![a] = [op |-> "wait", mutex |-> m,
                                        cv |-> c, timed |-> timed]]
    BY <1>10, WaitFacts
  <2>2. /\ call[a].op = "none" /\ call'[a].op = "wait" /\ call'[a].cv = c
        /\ \A b \in Actors : b # a => call'[b] = call[b]
    BY <1>0, <2>1 DEF TypeOK, NoCall
  <2> DEFINE s == sleeping[c]
  <2>3. s \in Seq(Actors) /\ Distinct(s) /\ a \notin Elements(s)
    BY <1>0, <2>2 DEF TypeOK
  <2>4. sleeping' = [sleeping EXCEPT ![c] = s \o <<a>>]
    <3>1. Append(s, a) = s \o <<a>>
      BY <2>3
    <3> QED
      BY <2>1, <3>1
  <2> HIDE DEF s
  <2>5. Distinct(s \o <<a>>) /\ Elements(s \o <<a>>) = Elements(s) \cup {a}
    <3> DEFINE t == <<a>>
    <3>1. t \in Seq(Actors) /\ Elements(t) = {a} /\ Distinct(t)
      BY SingleElements
    <3> HIDE DEF t
    <3>2. Distinct(s \o t) /\ Elements(s \o t) = Elements(s) \cup {a}
      BY <2>3, <3>1, ConcatElements
    <3> QED
      BY <3>2 DEF t
  <2> QED
    BY <1>0, <2>2, <2>4, <2>5 DEF TypeOK, s
<1>11. ASSUME NEW c \in Conditions,
              ConditionVariableNotifyOne(a, c) \/ ConditionVariableNotifyAll(a, c)
       PROVE  SleepInv'
  <2>1. \E n \in 0 .. Len(sleeping[c]) : Signal(c, n)
    BY <1>11, NotifyFacts
  <2>2. PICK W \in SUBSET Actors :
          /\ \A b \in W : call[b].op = "wait" /\ call[b].cv = c
          /\ \A d \in Conditions : d # c => sleeping'[d] = sleeping[d]
          /\ Distinct(sleeping'[c]) /\ Elements(sleeping'[c]) = Elements(sleeping[c]) \ W
          /\ call' = [b \in Actors |-> IF b \in W THEN [call[b] EXCEPT !.op = "lock"]
                                       ELSE call[b]]
    BY <2>1, SignalFacts
  <2>3. /\ \A b \in Actors : b \notin W => call'[b] = call[b]
        /\ \A b \in W : call'[b].op = "lock"
    BY <1>0, <2>2, WokenFacts DEF TypeOK
  <2> QED
    BY <1>0, <2>2, <2>3
<1>12. CASE TimeoutReached(a)
  <2> DEFINE c == call[a].cv
  <2>1. /\ call[a].op = "wait" /\ c \in Conditions
        /\ \A d \in Conditions : d # c => sleeping'[d] = sleeping[d]
        /\ Distinct(sleeping'[c]) /\ Elements(sleeping'[c]) = Elements(sleeping[c]) \ {a}
        /\ call' = [call EXCEPT ![a].op = "timedout"]
    BY <1>12, TimeoutFacts
  <2>2. /\ \A b \in Actors : b # a => call'[b] = call[b]
        /\ call'[a].op = "timedout"
    BY <1>0, <2>1, StageFacts DEF TypeOK
  <2> QED
    BY <1>0, <2>1, <2>2
<1>13. CASE Relock(a)
  <2>1. /\ call[a].op = "timedout" /\ call' = [call EXCEPT ![a].op = "relock"]
        /\ UNCHANGED sleeping
    BY <1>13, RelockFacts
  <2>2. /\ \A b \in Actors : b # a => call'[b] = call[b]
        /\ call'[a].op = "relock"
    BY <1>0, <2>1, StageFacts DEF TypeOK
  <2> QED
    BY <1>2, <2>1, <2>2
<1>14. CASE Returns(a)
  <2>1. /\ call' = [call EXCEPT ![a] = NoCall] /\ UNCHANGED sleeping
        /\ call[a].op \in {"lock", "relock"}
    BY <1>14 DEF Returns, Acquired
  <2>2. NoCall.op = "none"
    BY DEF NoCall
  <2> QED
    BY <1>0, <1>2, <2>1, <2>2 DEF TypeOK
<1> QED
  BY <1>3, <1>4, <1>5, <1>6, <1>7, <1>8, <1>9, <1>10, <1>11, <1>12, <1>13, <1>14
  DEF Decision, Resumes

\* A lock request keeps the lines of the mutexes, whichever call makes it.
LEMMA LockEffect ==
    ASSUME IndInv, NEW a \in Actors, NEW m \in Mutexes, LockBy(m, a), owner[m] # a,
           call[a].op \notin Locking, call'[a].op \in Locking, call'[a].mutex = m,
           \A b \in Actors : b # a => call'[b] = call[b],
           UNCHANGED holds
    PROVE  QueueInv' /\ OwnerInv'
<1>0. TypeOK /\ QueueInv /\ OwnerInv
  BY DEF IndInv
<1>1. /\ owner' \in [Mutexes -> Actors \cup {NoActor}]
      /\ \A k \in Mutexes : k # m => owner'[k] = owner[k] /\ queue'[k] = queue[k]
      /\ Distinct(queue'[m])
      /\ Elements(queue'[m]) = (Elements(queue[m]) \cup {a}) \ {owner'[m]}
      /\ owner'[m] # NoActor
      /\ owner[m] # NoActor => owner'[m] = owner[m]
      /\ owner[m] = NoActor => owner'[m] = a
  BY LockByFacts
<1>2. QueueInv'
  <2> SUFFICES ASSUME NEW k \in Mutexes
               PROVE  /\ Distinct(queue'[k])
                      /\ Elements(queue'[k]) =
                           {b \in Actors : /\ call'[b].op \in Locking
                                           /\ call'[b].mutex = k /\ owner'[k] # b}
    BY DEF QueueInv
  <2>1. /\ Distinct(queue[k])
        /\ Elements(queue[k]) = {b \in Actors : /\ call[b].op \in Locking
                                                /\ call[b].mutex = k /\ owner[k] # b}
    BY <1>0 DEF QueueInv
  <2>2. CASE k = m
    <3>1. owner[m] = NoActor => Elements(queue[m]) = {}
      BY <1>0 DEF OwnerInv, Elements
    <3>2. owner[m] = NoActor => \A b \in Actors : call[b].op \in Locking => call[b].mutex # m
      BY <2>1, <2>2, <3>1, SynchroAssumption
    <3> QED
      BY <1>1, <2>1, <2>2, <3>1, <3>2
  <2>3. CASE k # m
    <3>1. queue'[k] = queue[k] /\ owner'[k] = owner[k]
      BY <1>1, <2>3
    <3> QED
      BY <2>1, <2>3, <3>1
  <2> QED
    BY <2>2, <2>3
<1>3. OwnerInv'
  <2>1. HeldIsOwned'
    <3> SUFFICES ASSUME NEW b \in Actors, NEW k \in holds[b] PROVE owner'[k] = b
      BY DEF HeldIsOwned
    <3>1. k \in Mutexes /\ owner[k] = b
      BY <1>0 DEF TypeOK, OwnerInv, HeldIsOwned
    <3> QED
      BY <1>1, <3>1, SynchroAssumption
  <2>2. ASSUME NEW k \in Mutexes, owner'[k] # NoActor
        PROVE  \/ k \in holds'[owner'[k]]
               \/ call'[owner'[k]].op \in Locking /\ call'[owner'[k]].mutex = k
    <3>1. CASE owner'[k] = a
      BY <1>0, <1>1, <2>2, <3>1 DEF OwnerInv
    <3>2. CASE owner'[k] # a
      <4>1. owner'[k] = owner[k] /\ owner[k] \in Actors
        BY <1>0, <1>1, <2>2, <3>2 DEF TypeOK
      <4> QED
        BY <1>0, <2>2, <3>2, <4>1 DEF OwnerInv
    <3> QED
      BY <3>1, <3>2
  <2>3. ASSUME NEW k \in Mutexes, owner'[k] = NoActor PROVE queue'[k] = <<>>
    BY <1>0, <1>1, <2>3 DEF OwnerInv
  <2> QED
    BY <2>1, <2>2, <2>3 DEF OwnerInv
<1> QED
  BY <1>2, <1>3

\* A release keeps them too, of unlock() and of a wait.
LEMMA ReleaseEffect ==
    ASSUME IndInv, NEW a \in Actors, NEW m \in Mutexes, Release(m), owner[m] = a,
           call[a].op \notin Locking, call'[a].op \notin Locking,
           \A b \in Actors : b # a => call'[b] = call[b] /\ holds'[b] = holds[b],
           holds'[a] = holds[a] \ {m}
    PROVE  QueueInv' /\ OwnerInv'
<1>0. TypeOK /\ QueueInv /\ OwnerInv
  BY DEF IndInv
<1>1. /\ owner' \in [Mutexes -> Actors \cup {NoActor}]
      /\ \A k \in Mutexes : k # m => owner'[k] = owner[k] /\ queue'[k] = queue[k]
      /\ Distinct(queue'[m])
      /\ Elements(queue'[m]) = Elements(queue[m]) \ {owner'[m]}
      /\ owner'[m] = NoActor => queue'[m] = <<>>
      /\ owner'[m] # NoActor => owner'[m] \in Elements(queue[m])
  BY ReleaseFacts
<1>2. QueueInv'
  <2> SUFFICES ASSUME NEW k \in Mutexes
               PROVE  /\ Distinct(queue'[k])
                      /\ Elements(queue'[k]) =
                           {b \in Actors : /\ call'[b].op \in Locking
                                           /\ call'[b].mutex = k /\ owner'[k] # b}
    BY DEF QueueInv
  <2>1. /\ Distinct(queue[k])
        /\ Elements(queue[k]) = {b \in Actors : /\ call[b].op \in Locking
                                                /\ call[b].mutex = k /\ owner[k] # b}
    BY <1>0 DEF QueueInv
  <2>2. CASE k = m
    BY <1>1, <2>1, <2>2
  <2>3. CASE k # m
    <3>1. queue'[k] = queue[k] /\ owner'[k] = owner[k]
      BY <1>1, <2>3
    <3> QED
      BY <2>1, <3>1
  <2> QED
    BY <2>2, <2>3
<1>3. OwnerInv'
  <2>1. HeldIsOwned'
    <3> SUFFICES ASSUME NEW b \in Actors, NEW k \in holds'[b] PROVE owner'[k] = b
      BY DEF HeldIsOwned
    <3>1. k \in Mutexes /\ owner[k] = b /\ k # m
      BY <1>0 DEF TypeOK, OwnerInv, HeldIsOwned
    <3> QED
      BY <1>1, <3>1
  <2>2. ASSUME NEW k \in Mutexes, owner'[k] # NoActor
        PROVE  \/ k \in holds'[owner'[k]]
               \/ call'[owner'[k]].op \in Locking /\ call'[owner'[k]].mutex = k
    <3>1. CASE k = m
      <4>1. /\ owner'[k] \in Actors /\ owner'[k] # a
            /\ call[owner'[k]].op \in Locking /\ call[owner'[k]].mutex = k
        BY <1>0, <1>1, <2>2, <3>1 DEF QueueInv
      <4> QED
        BY <4>1
    <3>2. CASE k # m
      <4>1. owner'[k] = owner[k] /\ owner[k] \in Actors
        BY <1>0, <1>1, <2>2, <3>2 DEF TypeOK
      <4> QED
        BY <1>0, <2>2, <3>2, <4>1 DEF OwnerInv
    <3> QED
      BY <3>1, <3>2
  <2>3. ASSUME NEW k \in Mutexes, owner'[k] = NoActor PROVE queue'[k] = <<>>
    BY <1>0, <1>1, <2>3 DEF OwnerInv
  <2> QED
    BY <2>1, <2>2, <2>3 DEF OwnerInv
<1> QED
  BY <1>2, <1>3

\* Every step keeps whose each mutex is, and who is in its line.
LEMMA MutexStep ==
    ASSUME IndInv, NEW a \in Actors, Decision(a) \/ Resumes(a)
    PROVE  QueueInv' /\ OwnerInv'
<1>0. TypeOK /\ QueueInv /\ OwnerInv /\ CallInv
  BY DEF IndInv
<1>1. ASSUME UNCHANGED <<owner, queue, call, holds>> PROVE QueueInv' /\ OwnerInv'
  BY <1>0, <1>1 DEF QueueInv, OwnerInv, HeldIsOwned
<1>2. CASE MutexCreate(a)
  BY <1>1, <1>2 DEF MutexCreate
<1>3. CASE ConditionVariableCreate(a)
  BY <1>1, <1>3 DEF ConditionVariableCreate
<1>4. ASSUME NEW m \in Mutexes, MutexRefcountDecrease(a, m) PROVE QueueInv' /\ OwnerInv'
  <2>1. /\ owner' = [owner EXCEPT ![m] = NoActor] /\ queue' = [queue EXCEPT ![m] = <<>>]
        /\ UNCHANGED <<call, holds>>
        /\ \A b \in Actors : m \notin holds[b] /\ call[b].mutex # m
    BY <1>4 DEF MutexRefcountDecrease, HandleMutexRefcountDecrease, Unused
  <2>2. Elements(<<>>) = {} /\ Distinct(<<>>)
    BY DEF Elements, Distinct
  <2>3. /\ owner'[m] = NoActor /\ queue'[m] = <<>>
        /\ \A k \in Mutexes : k # m => owner'[k] = owner[k] /\ queue'[k] = queue[k]
    BY <1>0, <2>1 DEF TypeOK
  <2>4. QueueInv'
    BY <1>0, <2>1, <2>2, <2>3 DEF QueueInv
  <2>5. HeldIsOwned'
    BY <1>0, <2>1, <2>3 DEF OwnerInv, HeldIsOwned, TypeOK
  <2> QED
    BY <1>0, <2>1, <2>3, <2>4, <2>5 DEF OwnerInv
<1>5. ASSUME NEW m \in Mutexes, MutexLock(a, m) PROVE QueueInv' /\ OwnerInv'
  <2>1. /\ call[a] = NoCall /\ owner[m] # a /\ LockBy(m, a) /\ UNCHANGED holds
        /\ call' = [call EXCEPT ![a] = [NoCall EXCEPT !.op = "lock", !.mutex = m]]
    BY <1>5, LockFacts
  <2>2. /\ call[a].op \notin Locking /\ call'[a].op \in Locking /\ call'[a].mutex = m
        /\ \A b \in Actors : b # a => call'[b] = call[b]
    BY <1>0, <2>1 DEF TypeOK, NoCall, Locking
  <2> QED
    BY <2>1, <2>2, LockEffect
<1>6. ASSUME NEW m \in Mutexes, MutexUnlock(a, m) PROVE QueueInv' /\ OwnerInv'
  <2>1. /\ owner[m] = a /\ call[a] = NoCall /\ Release(m) /\ UNCHANGED call
        /\ holds' = [holds EXCEPT ![a] = @ \ {m}]
    BY <1>6, UnlockFacts
  <2>2. /\ call[a].op \notin Locking
        /\ \A b \in Actors : b # a => holds'[b] = holds[b]
        /\ holds'[a] = holds[a] \ {m}
    BY <1>0, <2>1 DEF TypeOK, NoCall, Locking
  <2> QED
    BY <2>1, <2>2, ReleaseEffect
<1>7. ASSUME NEW m \in Mutexes, MutexTryLock(a, m) PROVE QueueInv' /\ OwnerInv'
  BY <1>1, <1>7, TryLockFacts
<1>8. ASSUME NEW c \in Conditions, ConditionVariableRefcountDecrease(a, c)
      PROVE  QueueInv' /\ OwnerInv'
  BY <1>1, <1>8 DEF ConditionVariableRefcountDecrease
<1>9. ASSUME NEW c \in Conditions, NEW m \in Mutexes, NEW timed \in BOOLEAN,
             ConditionVariableWait(a, c, m, timed)
      PROVE  QueueInv' /\ OwnerInv'
  <2>1. /\ owner[m] = a /\ call[a] = NoCall /\ holds[a] = {m} /\ Release(m)
        /\ call' = [call EXCEPT ![a] = [op |-> "wait", mutex |-> m,
                                        cv |-> c, timed |-> timed]]
        /\ holds' = [holds EXCEPT ![a] = {}]
    BY <1>9, WaitFacts
  <2>2. /\ call[a].op \notin Locking /\ call'[a].op \notin Locking
        /\ \A b \in Actors : b # a => call'[b] = call[b]
    BY <1>0, <2>1 DEF TypeOK, NoCall, Locking
  <2>3. /\ \A b \in Actors : b # a => holds'[b] = holds[b]
        /\ holds'[a] = holds[a] \ {m}
    BY <1>0, <2>1 DEF TypeOK
  <2> QED
    BY <2>1, <2>2, <2>3, ReleaseEffect
<1>10. ASSUME NEW c \in Conditions,
              ConditionVariableNotifyOne(a, c) \/ ConditionVariableNotifyAll(a, c)
       PROVE  QueueInv' /\ OwnerInv'
  <2>1. UNCHANGED holds /\ \E n \in 0 .. Len(sleeping[c]) : Signal(c, n)
    BY <1>10, NotifyFacts
  <2>2. PICK W \in SUBSET Actors :
          /\ \A b \in W : call[b].op = "wait" /\ call[b].cv = c
          /\ \A m \in Mutexes :
               /\ Distinct(queue'[m])
               /\ Elements(queue'[m])
                    = (Elements(queue[m]) \cup {b \in W : call[b].mutex = m}) \ {owner'[m]}
               /\ owner'[m] = NoActor => queue'[m] = <<>>
               /\ owner[m] # NoActor => owner'[m] = owner[m]
               /\ owner[m] = NoActor =>
                    owner'[m] \in {b \in W : call[b].mutex = m} \cup {NoActor}
          /\ call' = [b \in Actors |-> IF b \in W THEN [call[b] EXCEPT !.op = "lock"]
                                       ELSE call[b]]
    BY <2>1, SignalFacts
  <2>3. /\ \A b \in Actors : b \notin W => call'[b] = call[b]
        /\ \A b \in W : call'[b].op = "lock" /\ call'[b].mutex = call[b].mutex
    BY <1>0, <2>2, WokenFacts DEF TypeOK
  <2>4. QueueInv'
    <3> SUFFICES ASSUME NEW m \in Mutexes
                 PROVE  Elements(queue'[m]) =
                          {b \in Actors : /\ call'[b].op \in Locking
                                          /\ call'[b].mutex = m /\ owner'[m] # b}
      BY <2>2 DEF QueueInv
    <3>1. Elements(queue[m]) = {b \in Actors : /\ call[b].op \in Locking
                                               /\ call[b].mutex = m /\ owner[m] # b}
      BY <1>0 DEF QueueInv
    <3>2. owner[m] = NoActor => Elements(queue[m]) = {}
      BY <1>0 DEF OwnerInv, Elements
    <3>3. \A b \in W : call[b].op \notin Locking /\ call'[b].op \in Locking
      BY <2>2, <2>3 DEF Locking
    <3>4. CASE owner[m] = NoActor
      <4>1. \A b \in Actors : call[b].op \in Locking => call[b].mutex # m
        BY <3>1, <3>2, <3>4, SynchroAssumption
      <4>2. Elements(queue'[m]) = {b \in W : call[b].mutex = m} \ {owner'[m]}
        BY <2>2, <3>2, <3>4
      <4>3. ASSUME NEW b \in Actors
            PROVE  call'[b].op \in Locking /\ call'[b].mutex = m
                     <=> b \in W /\ call[b].mutex = m
        BY <2>3, <3>3, <4>1
      <4> QED
        BY <4>2, <4>3
    <3>5. CASE owner[m] # NoActor
      <4>1. owner'[m] = owner[m]
        BY <2>2, <3>5
      <4>2. owner[m] \notin {b \in W : call[b].mutex = m}
        <5>1. ASSUME owner[m] \in W PROVE FALSE
          <6>1. call[owner[m]].op = "wait" /\ holds[owner[m]] = {}
            BY <1>0, <2>2, <5>1 DEF CallInv
          <6> QED
            BY <1>0, <3>5, <6>1 DEF OwnerInv, Locking
        <5> QED
          BY <5>1
      <4>3. Elements(queue'[m])
              = (Elements(queue[m]) \cup {b \in W : call[b].mutex = m}) \ {owner[m]}
        BY <2>2, <4>1
      <4> QED
        BY <2>2, <2>3, <3>1, <3>3, <4>1, <4>2, <4>3
    <3> QED
      BY <3>4, <3>5
  <2>5. HeldIsOwned'
    <3> SUFFICES ASSUME NEW b \in Actors, NEW k \in holds[b] PROVE owner'[k] = b
      BY <2>1 DEF HeldIsOwned
    <3>1. k \in Mutexes /\ owner[k] = b
      BY <1>0 DEF TypeOK, OwnerInv, HeldIsOwned
    <3> QED
      BY <2>2, <3>1, SynchroAssumption
  <2>6. ASSUME NEW k \in Mutexes, owner'[k] # NoActor
        PROVE  \/ k \in holds'[owner'[k]]
               \/ call'[owner'[k]].op \in Locking /\ call'[owner'[k]].mutex = k
    <3>1. CASE owner[k] = NoActor
      BY <2>2, <2>3, <2>6, <3>1 DEF Locking
    <3>2. CASE owner[k] # NoActor
      <4>1. owner'[k] = owner[k] /\ owner[k] \in Actors
        BY <1>0, <2>2, <3>2 DEF TypeOK
      <4> QED
        BY <1>0, <2>1, <2>2, <2>3, <3>2, <4>1 DEF OwnerInv, Locking
    <3> QED
      BY <3>1, <3>2
  <2> QED
    BY <2>2, <2>4, <2>5, <2>6 DEF OwnerInv
<1>11. CASE TimeoutReached(a)
  <2>1. /\ call[a].op = "wait" /\ call' = [call EXCEPT ![a].op = "timedout"]
        /\ UNCHANGED <<owner, queue, holds>>
    BY <1>11, TimeoutFacts
  <2>2. /\ \A b \in Actors : b # a => call'[b] = call[b]
        /\ call'[a].op = "timedout"
    BY <1>0, <2>1, StageFacts DEF TypeOK
  <2>3. \A b \in Actors : call'[b].op \in Locking <=> call[b].op \in Locking
    BY <2>1, <2>2 DEF Locking
  <2>4. \A b \in Actors : call'[b].op \in Locking => call'[b] = call[b]
    BY <2>2 DEF Locking
  <2>5. QueueInv'
    BY <1>0, <2>1, <2>3, <2>4 DEF QueueInv
  <2>6. HeldIsOwned'
    BY <1>0, <2>1 DEF OwnerInv, HeldIsOwned
  <2>7. \A k \in Mutexes : owner[k] \in Actors \cup {NoActor}
    BY <1>0 DEF TypeOK
  <2> QED
    BY <1>0, <2>1, <2>3, <2>4, <2>5, <2>6, <2>7 DEF OwnerInv
<1>12. CASE Relock(a)
  <2> DEFINE m == call[a].mutex
  <2>1. /\ call[a].op = "timedout" /\ m \in mutexes /\ owner[m] # a /\ LockBy(m, a)
        /\ UNCHANGED holds /\ call' = [call EXCEPT ![a].op = "relock"]
    BY <1>12, RelockFacts
  <2>2. /\ \A b \in Actors : b # a => call'[b] = call[b]
        /\ call'[a].op = "relock" /\ call'[a].mutex = m
    BY <1>0, <2>1, StageFacts DEF TypeOK
  <2>3. m \in Mutexes /\ call[a].op \notin Locking /\ call'[a].op \in Locking
    BY <1>0, <2>1, <2>2 DEF TypeOK, Locking
  <2> HIDE DEF m
  <2> QED
    BY <2>1, <2>2, <2>3, LockEffect
<1>13. CASE Returns(a)
  <2> DEFINE m == call[a].mutex
  <2>1. /\ call[a].op \in Locking /\ owner[m] = a /\ UNCHANGED <<owner, queue>>
        /\ call' = [call EXCEPT ![a] = NoCall]
        /\ holds' = [holds EXCEPT ![a] = @ \cup {m}]
    BY <1>13 DEF Returns, Acquired, Locking
  <2>2. /\ \A b \in Actors : b # a => call'[b] = call[b] /\ holds'[b] = holds[b]
        /\ call'[a].op \notin Locking /\ holds'[a] = holds[a] \cup {m}
    BY <1>0, <2>1 DEF TypeOK, NoCall, Locking
  <2>3. QueueInv'
    BY <1>0, <2>1, <2>2 DEF QueueInv
  <2>4. HeldIsOwned'
    BY <1>0, <2>1, <2>2 DEF OwnerInv, HeldIsOwned
  <2>5. ASSUME NEW k \in Mutexes, owner[k] # NoActor
        PROVE  \/ k \in holds'[owner[k]]
               \/ call'[owner[k]].op \in Locking /\ call'[owner[k]].mutex = k
    <3>1. owner[k] \in Actors
      BY <1>0, <2>5 DEF TypeOK
    <3> QED
      BY <1>0, <2>2, <2>5, <3>1 DEF OwnerInv
  <2> QED
    BY <1>0, <2>1, <2>3, <2>4, <2>5 DEF OwnerInv
<1> QED
  BY <1>2, <1>3, <1>4, <1>5, <1>6, <1>7, <1>8, <1>9, <1>10, <1>11, <1>12, <1>13
  DEF Decision, Resumes

----------------------------------------------------------------------------
(* Theorems *)

\* The invariant is inductive: the initial state satisfies it and no decision or
\* return of an actor breaks it.
THEOREM Inductive == Spec => []IndInv
<1>1. Init => IndInv
  <2> SUFFICES ASSUME Init PROVE IndInv
    OBVIOUS
  <2>1. Elements(<<>>) = {} /\ Distinct(<<>>) /\ <<>> \in Seq(Actors)
    BY DEF Elements, Distinct
  <2>2. TypeOK
    BY <2>1, CallTypes DEF Init, TypeOK, Answer, Error
  <2>3. NoCall.op = "none" /\ NoCall.timed = FALSE
    BY DEF NoCall
  <2>4. StoreInv /\ CallInv
    BY <2>3 DEF Init, StoreInv, CallsSucceed, CallInv
  <2>5. OwnerInv /\ QueueInv /\ SleepInv
    BY <2>1, <2>3 DEF Init, OwnerInv, HeldIsOwned, QueueInv, SleepInv, Locking
  <2> QED
    BY <2>2, <2>4, <2>5 DEF IndInv
<1>2. IndInv /\ [Next]_vars => IndInv'
  <2> SUFFICES ASSUME IndInv, [Next]_vars PROVE IndInv'
    OBVIOUS
  <2>1. CASE Next
    BY <2>1, TypeStep, StoreStep, CallStep, SleepStep, MutexStep DEF Next, IndInv
  <2>2. CASE UNCHANGED vars
    BY <2>2 DEF IndInv, TypeOK, StoreInv, CallsSucceed, CallInv, OwnerInv, HeldIsOwned,
    QueueInv, SleepInv
  <2> QED
    BY <2>1, <2>2
<1> QED
  BY <1>1, <1>2, PTL DEF Spec

\* The stores, SimGrid's lines and the clients' objects have their types.
THEOREM TypeCorrect == Spec => []TypeOK
<1>1. IndInv => TypeOK
  BY DEF IndInv
<1> QED
  BY <1>1, Inductive, PTL

\* Mutual exclusion: what a client has locked, by lock() or by any way out of a
\* wait, belongs to its actor in the simulation.
THEOREM MutualExclusion == Spec => []HeldIsOwned
<1>1. IndInv => HeldIsOwned
  BY DEF IndInv, OwnerInv
<1> QED
  BY <1>1, Inductive, PTL

\* Clients that use their own objects get no exception (but of try_lock), and no
\* wait ends the server on a mutex that is gone.
THEOREM CallsAlwaysSucceed == Spec => []CallsSucceed
<1>1. IndInv => CallsSucceed
  BY DEF IndInv, StoreInv
<1> QED
  BY <1>1, Inductive, PTL

\* A blocked actor is in the line that will wake it up and in no other one, and
\* nobody waits for a mutex that is free.
THEOREM NoLostWakeup == Spec => []NobodyForgotten
<1>1. ASSUME IndInv PROVE NobodyForgotten
  <2>0. TypeOK /\ CallInv /\ OwnerInv /\ QueueInv /\ SleepInv
    BY <1>1 DEF IndInv
  <2>1. ASSUME NEW a \in Actors, call[a].op \in Locking, owner[call[a].mutex] # a
        PROVE  /\ Places(a) = {[kind |-> "queue", at |-> call[a].mutex]}
               /\ call[a].mutex \in mutexes
    <3>1. call[a].mutex \in mutexes /\ call[a].mutex \in Mutexes /\ call[a].op # "wait"
      BY <2>0, <2>1 DEF TypeOK, CallInv, Locking
    <3>2. {m \in Mutexes : a \in Elements(queue[m])} = {call[a].mutex}
      BY <2>0, <2>1, <3>1 DEF QueueInv
    <3>3. {c \in Conditions : a \in Elements(sleeping[c])} = {}
      BY <2>0, <3>1 DEF SleepInv
    <3> QED
      BY <3>1, <3>2, <3>3 DEF Places
  <2>2. ASSUME NEW a \in Actors, call[a].op = "wait"
        PROVE  /\ Places(a) = {[kind |-> "sleeping", at |-> call[a].cv]}
               /\ call[a].cv \in condition_variables /\ call[a].mutex \in mutexes
    <3>1. /\ call[a].cv \in condition_variables /\ call[a].cv \in Conditions
          /\ call[a].mutex \in mutexes /\ call[a].op \notin Locking
      BY <2>0, <2>2 DEF TypeOK, CallInv, Locking
    <3>2. {m \in Mutexes : a \in Elements(queue[m])} = {}
      BY <2>0, <3>1 DEF QueueInv
    <3>3. {c \in Conditions : a \in Elements(sleeping[c])} = {call[a].cv}
      BY <2>0, <2>2, <3>1 DEF SleepInv
    <3> QED
      BY <3>1, <3>2, <3>3 DEF Places
  <2>3. ASSUME NEW a \in Actors, call[a].op \in {"none", "timedout"} PROVE Places(a) = {}
    <3>1. {m \in Mutexes : a \in Elements(queue[m])} = {}
      BY <2>0, <2>3 DEF QueueInv, Locking
    <3>2. {c \in Conditions : a \in Elements(sleeping[c])} = {}
      BY <2>0, <2>3 DEF SleepInv
    <3> QED
      BY <3>1, <3>2 DEF Places
  <2>4. \A m \in Mutexes : owner[m] = NoActor => queue[m] = <<>>
    BY <2>0 DEF OwnerInv
  <2> QED
    BY <2>1, <2>2, <2>3, <2>4 DEF NobodyForgotten, Acquired, Locking
<1> QED
  BY <1>1, Inductive, PTL

\* No decision, of the actor itself or of another one, ends a call.
LEMMA DecisionCalls ==
    ASSUME IndInv, NEW a \in Actors, NEW b \in Actors, Decision(b)
    PROVE  call'[a] = call[a] \/ call'[a].op \in {"lock", "wait"}
<1>0. TypeOK
  BY DEF IndInv
<1>1. ASSUME MutexCreate(b) \/ ConditionVariableCreate(b) PROVE UNCHANGED call
  BY <1>1 DEF MutexCreate, ConditionVariableCreate
<1>2. ASSUME NEW m \in Mutexes, MutexLock(b, m)
      PROVE  call'[a] = call[a] \/ call'[a].op = "lock"
  <2>1. call' = [call EXCEPT ![b] = [NoCall EXCEPT !.op = "lock", !.mutex = m]]
    BY <1>2, LockFacts
  <2> QED
    BY <1>0, <2>1 DEF TypeOK, NoCall
<1>3. ASSUME NEW m \in Mutexes,
             MutexRefcountDecrease(b, m) \/ MutexUnlock(b, m) \/ MutexTryLock(b, m)
      PROVE  UNCHANGED call
  BY <1>3, UnlockFacts DEF MutexRefcountDecrease, MutexTryLock
<1>4. ASSUME NEW c \in Conditions, ConditionVariableRefcountDecrease(b, c)
      PROVE  UNCHANGED call
  BY <1>4 DEF ConditionVariableRefcountDecrease
<1>5. ASSUME NEW c \in Conditions, NEW m \in Mutexes, NEW timed \in BOOLEAN,
             ConditionVariableWait(b, c, m, timed)
      PROVE  call'[a] = call[a] \/ call'[a].op = "wait"
  <2>1. call' = [call EXCEPT ![b] = [op |-> "wait", mutex |-> m,
                                     cv |-> c, timed |-> timed]]
    BY <1>5, WaitFacts
  <2> QED
    BY <1>0, <2>1 DEF TypeOK
<1>6. ASSUME NEW c \in Conditions,
             ConditionVariableNotifyOne(b, c) \/ ConditionVariableNotifyAll(b, c)
      PROVE  call'[a] = call[a] \/ call'[a].op = "lock"
  <2>1. \E n \in 0 .. Len(sleeping[c]) : Signal(c, n)
    BY <1>6, NotifyFacts
  <2>2. PICK W \in SUBSET Actors :
          call' = [d \in Actors |-> IF d \in W THEN [call[d] EXCEPT !.op = "lock"]
                                    ELSE call[d]]
    BY <2>1, SignalFacts
  <2> QED
    BY <1>0, <2>2, WokenFacts DEF TypeOK
<1> QED
  BY <1>1, <1>2, <1>3, <1>4, <1>5, <1>6 DEF Decision

\* The status a timed wait returns is no_timeout exactly if a notification was
\* spent on the actor, also when the timeout and the notification race.
THEOREM StatusIsRight == Spec => StatusTellsNotification
<1> DEFINE Right == \A a \in Actors :
                      call[a].timed /\ call'[a].op = "none" =>
                        (answer' = "no_timeout" <=> a \in notified)
<1>1. ASSUME IndInv, Next PROVE Right
  <2> SUFFICES ASSUME NEW a \in Actors, call[a].timed, call'[a].op = "none"
               PROVE  answer' = "no_timeout" <=> a \in notified
    OBVIOUS
  <2>0. TypeOK /\ CallInv
    BY <1>1 DEF IndInv
  <2>1. call[a].op # "none"
    BY <2>0 DEF CallInv, NoCall
  <2>2. PICK b \in Actors : Decision(b) \/ Resumes(b)
    BY <1>1 DEF Next
  <2>3. Returns(a)
    <3>1. ASSUME ~Returns(b) PROVE call'[a].op # "none"
      <4>1. CASE Decision(b)
        <5>1. call'[a] = call[a] \/ call'[a].op \in {"lock", "wait"}
          BY <1>1, <4>1, DecisionCalls
        <5> QED
          BY <2>1, <5>1
      <4>2. CASE TimeoutReached(b)
        <5>1. call' = [call EXCEPT ![b].op = "timedout"]
          BY <4>2 DEF TimeoutReached
        <5>2. call'[a] = call[a] \/ call'[a].op = "timedout"
          BY <2>0, <5>1, StageFacts DEF TypeOK
        <5> QED
          BY <2>1, <5>2
      <4>3. CASE Relock(b)
        <5>1. call' = [call EXCEPT ![b].op = "relock"]
          BY <1>1, <4>3, RelockFacts
        <5>2. call'[a] = call[a] \/ call'[a].op = "relock"
          BY <2>0, <5>1, StageFacts DEF TypeOK
        <5> QED
          BY <2>1, <5>2
      <4> QED
        BY <2>2, <3>1, <4>1, <4>2, <4>3 DEF Resumes
    <3>2. CASE Returns(b)
      BY <2>0, <2>1, <3>2 DEF Returns, TypeOK
    <3> QED
      BY <3>1, <3>2
  <2>4. answer' = Status(call[a].op) /\ call[a].op \in {"lock", "relock"}
    BY <2>3 DEF Returns, Acquired
  <2> QED
    BY <2>0, <2>4 DEF Status, CallInv
<1>2. IndInv /\ [Next]_vars => [Right]_vars
  BY <1>1
<1> QED
  BY <1>2, Inductive, PTL DEF Spec, StatusTellsNotification
=============================================================================
