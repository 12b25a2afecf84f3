------------------------------ MODULE CommStore ------------------------------
(***************************************************************************)
(* Asynchronous communications and the store that keeps them alive.        *)
(*                                                                         *)
(* A client names an s4u::Comm of the server by its address.  The server   *)
(* keeps it in RefcountStore::comms (src/rsg/simulation.hpp) from          *)
(* put_async / get_async until the destructor of the client's rsg::Comm    *)
(* sends a CommRefcountDecrease, and there keeps the buffer of a reception *)
(* until wait_for, wait_any_for or test has transferred its content.       *)
(*                                                                         *)
(* A decision, its handler and its acknowledgement are one step unless the *)
(* handler blocks in the simulation; then the return is another step, and  *)
(* any other actor may have used the store in between.  There is one       *)
(* mailbox.  The remote_ref_count of an entry is left out: it starts at 1  *)
(* and nothing increments it, so the first decrease erases the entry.      *)
(***************************************************************************)
EXTENDS Naturals, Sequences, Subsequences

CONSTANTS
    Actors,         \* client processes, one actor each
    InitialActors,  \* those that exist from the start; others are forked
    Addresses,      \* addresses the allocator gives to s4u::Comm objects
    Payloads,       \* contents of the messages clients send
    EmptyPayload,   \* zero bytes: such a message, or an acknowledgement without data
    NoPayload,      \* nothing was sent, or received, yet
    MaxTransfers,   \* bound on the number of transfers
    Careful,        \* clients leave a communication they know is over alone
    SharingForks    \* a process may fork while it has communications

NoAddress == 0

ASSUME CommAssumption ==
    /\ InitialActors \subseteq Actors
    /\ NoAddress \notin Addresses
    /\ NoPayload \notin Payloads
    /\ MaxTransfers \in Nat /\ Careful \in BOOLEAN /\ SharingForks \in BOOLEAN

VARIABLES
    comms,      \* RefcountStore::comms
    alive,      \* addresses of the s4u::Comm objects that are allocated
    transfers,  \* SimGrid's communications, a rendezvous of a put and a get each
    mailbox,    \* those that wait for their other side
    handles,    \* by actor, the rsg::Comm objects of its process
    call,       \* by actor, the decision its simulated actor is blocked in
    error       \* the failed assertion or the exception nobody catches

vars == <<comms, alive, transfers, mailbox, handles, call, error>>

Ids == 1 .. MaxTransfers
Entry == [transfer : Ids, buffer : BOOLEAN]
Handle == [dir : {"send", "recv"}, transfer : Ids,
           status : {"pending", "over", "failed"},
           dest : Payloads \cup {NoPayload}]
Transfer == [payload : Payloads \cup {NoPayload},
             state : {"waiting", "running", "done", "timeout"}]
Error == {"none", "already_exists", "unknown_comm", "dangling_iterator",
          "inconsistency", "no_data", "uncaught_exception", "start_asserts"}

Empty == [a \in {} |-> {}]
Put(f, a, v) == [b \in DOMAIN f \cup {a} |-> IF b = a THEN v ELSE f[b]]
Remove(f, a) == [b \in DOMAIN f \ {a} |-> f[b]]

NoCall == [op |-> "none", waits |-> Empty, timed |-> FALSE]
Absent == [op |-> "absent", waits |-> Empty, timed |-> FALSE]

Init ==
    /\ comms = Empty /\ alive = {} /\ transfers = <<>> /\ mailbox = <<>>
    /\ handles = [p \in Actors |-> Empty]
    /\ call = [p \in Actors |-> IF p \in InitialActors THEN NoCall ELSE Absent]
    /\ error = "none"

Running(p) == error = "none" /\ call[p].op = "none"

----------------------------------------------------------------------------
(* SimGrid: a put meets the first get of the mailbox and conversely.        *)

FirstIs(payloads) == mailbox # <<>> /\ transfers[Head(mailbox)].payload \in payloads

\* The transfer the next put, or the next get, is going to be a side of.
PutTransfer == IF FirstIs({NoPayload}) THEN Head(mailbox) ELSE Len(transfers) + 1
GetTransfer == IF FirstIs(Payloads) THEN Head(mailbox) ELSE Len(transfers) + 1

\* Meet the transfer at the head of the mailbox, or wait for the other side.
Rendezvous(t, payload) ==
    /\ t \in Ids
    /\ IF t \in DOMAIN transfers
       THEN /\ transfers' = [transfers EXCEPT ![t] = [payload |-> payload,
                                                      state |-> "running"]]
            /\ mailbox' = Tail(mailbox)
       ELSE /\ transfers' = Append(transfers, [payload |-> payload,
                                               state |-> "waiting"])
            /\ mailbox' = Append(mailbox, t)

IPut(d) == Rendezvous(PutTransfer, d)
IGet == Rendezvous(GetTransfer, IF GetTransfer \in DOMAIN transfers
                                THEN transfers[GetTransfer].payload ELSE NoPayload)

TransferEnds(t) ==
    /\ error = "none" /\ transfers[t].state = "running"
    /\ transfers' = [transfers EXCEPT ![t].state = "done"]
    /\ UNCHANGED <<comms, alive, mailbox, handles, call, error>>

\* The timeout of a wait_for ends the communication for both of its sides.
TimeoutReached(p) ==
    /\ error = "none" /\ call[p].op = "wait" /\ call[p].timed
    /\ \E a \in DOMAIN call[p].waits :
         LET t == call[p].waits[a]
         IN  /\ transfers[t].state \in {"waiting", "running"}
             /\ transfers' = [transfers EXCEPT ![t].state = "timeout"]
             /\ mailbox' = Only(mailbox, Ids \ {t})
    /\ UNCHANGED <<comms, alive, handles, call, error>>

Ended(t) == transfers[t].state \in {"done", "timeout"}

----------------------------------------------------------------------------
(* Mailbox decisions *)

\* Mutant: the reference of the store is not counted.
AddRefForgotten(a) == UNCHANGED alive

\* intrusive_ptr_add_ref(): the object outlives the handler.
AddRef(a) == alive' = alive \cup {a}

\* Insert the new s4u::Comm, of address a, in the store.
StoreComm(a, t, buffer) ==
    /\ comms' = Put(comms, a, [transfer |-> t, buffer |-> buffer])
    /\ AddRef(a)
    /\ error' = IF a \in DOMAIN comms THEN "already_exists" ELSE error

HandlePutAsync(a, d) == IPut(d) /\ StoreComm(a, PutTransfer, FALSE)
HandleGetAsync(a) == IGet /\ StoreComm(a, GetTransfer, TRUE)

\* The client makes an rsg::Comm of the address it is told.
NewComm(p, a, dir, t) ==
    handles' = [handles EXCEPT ![p] = Put(@, a,
        [dir |-> dir, transfer |-> t, status |-> "pending", dest |-> NoPayload])]

MailboxPutAsync(p, d) ==
    /\ Running(p)
    /\ \E a \in Addresses \ alive :
         HandlePutAsync(a, d) /\ NewComm(p, a, "send", PutTransfer)
    /\ UNCHANGED call

MailboxGetAsync(p) ==
    /\ Running(p)
    /\ \E a \in Addresses \ alive :
         HandleGetAsync(a) /\ NewComm(p, a, "recv", GetTransfer)
    /\ UNCHANGED call

\* Put and get block, and have no entry in the store.
Block(p, op, waits, timed) ==
    call' = [call EXCEPT ![p] = [op |-> op, waits |-> waits, timed |-> timed]]

MailboxPut(p, d) ==
    /\ Running(p) /\ IPut(d)
    /\ Block(p, "put", [a \in {NoAddress} |-> PutTransfer], FALSE)
    /\ UNCHANGED <<comms, alive, handles, error>>

MailboxGet(p) ==
    /\ Running(p) /\ IGet
    /\ Block(p, "get", [a \in {NoAddress} |-> GetTransfer], FALSE)
    /\ UNCHANGED <<comms, alive, handles, error>>

\* No handler of put and get catches the TimeoutException of the other side.
MailboxReturns(p) ==
    /\ error = "none" /\ call[p].op \in {"put", "get"}
    /\ Ended(call[p].waits[NoAddress])
    /\ IF transfers[call[p].waits[NoAddress]].state = "timeout"
       THEN error' = "uncaught_exception" /\ UNCHANGED call
       ELSE error' = error /\ call' = [call EXCEPT ![p] = NoCall]
    /\ UNCHANGED <<comms, alive, transfers, mailbox, handles>>

----------------------------------------------------------------------------
(* Communication decisions *)

\* The communications a client calls a method of.
Usable(p) == {a \in DOMAIN handles[p] : Careful => handles[p][a].status = "pending"}

Unknown == error' = "unknown_comm" /\ UNCHANGED call

CommWaitFor(p, a, timed) ==
    /\ Running(p) /\ a \in Usable(p)
    /\ IF a \notin DOMAIN comms THEN Unknown
       ELSE /\ Block(p, "wait", [b \in {a} |-> comms[a].transfer], timed)
            /\ error' = error
    /\ UNCHANGED <<comms, alive, transfers, mailbox, handles>>

CommWaitAnyFor(p, A, timed) ==
    /\ Running(p) /\ A \subseteq Usable(p) /\ A # {}
    /\ IF ~(A \subseteq DOMAIN comms) THEN Unknown
       ELSE /\ Block(p, "wait_any", [a \in A |-> comms[a].transfer], timed)
            /\ error' = error
    /\ UNCHANGED <<comms, alive, transfers, mailbox, handles>>

\* The data in the acknowledgement; the reception buffer gives it once.
Data(a) == IF comms[a].buffer THEN transfers[comms[a].transfer].payload ELSE EmptyPayload

TransferData(a) == comms' = [comms EXCEPT ![a].buffer = FALSE]

\* wait_for and wait_any_for of the client want data for a reception.
ReadData(p, a) ==
    IF handles[p][a].dir = "recv" /\ Data(a) = EmptyPayload
    THEN error' = "no_data" /\ UNCHANGED handles
    ELSE /\ handles' = [handles EXCEPT ![p][a].status = "over",
                            ![p][a].dest = IF handles[p][a].dir = "recv"
                                           THEN Data(a) ELSE @]
         /\ error' = error

\* Back from comm->wait_for(): the iterator found before it is used again.  It
\* dangles once its entry is erased.  Insertions of others may rehash the map, which
\* formally invalidates the iterator too, but not in the libraries the program is
\* built with: this is left out.
CommWaitForReturns(p) ==
    /\ error = "none" /\ call[p].op = "wait"
    /\ \E a \in DOMAIN call[p].waits :
         LET t == call[p].waits[a]
         IN  /\ Ended(t)
             /\ IF transfers[t].state = "timeout"
                THEN /\ handles' = [handles EXCEPT ![p][a].status = "failed"]
                     /\ UNCHANGED <<comms, error>>
                ELSE IF a \notin DOMAIN comms \/ comms[a].transfer # t
                THEN error' = "dangling_iterator" /\ UNCHANGED <<comms, handles>>
                ELSE TransferData(a) /\ ReadData(p, a)
    /\ call' = [call EXCEPT ![p] = NoCall]
    /\ UNCHANGED <<alive, transfers, mailbox>>

\* Back from wait_any_for(): the store is searched again, which must succeed.
CommWaitAnyForReturns(p) ==
    /\ error = "none" /\ call[p].op = "wait_any"
    /\ \E a \in DOMAIN call[p].waits :
         /\ Ended(call[p].waits[a])
         /\ IF transfers[call[p].waits[a]].state = "timeout"
            THEN error' = "uncaught_exception" /\ UNCHANGED <<comms, handles>>
            ELSE IF a \notin DOMAIN comms
            THEN error' = "inconsistency" /\ UNCHANGED <<comms, handles>>
            ELSE TransferData(a) /\ ReadData(p, a)
    /\ call' = [call EXCEPT ![p] = NoCall]
    /\ UNCHANGED <<alive, transfers, mailbox>>

\* finished_index is -1: the communications go on.
CommWaitAnyForTimeout(p) ==
    /\ error = "none" /\ call[p].op = "wait_any" /\ call[p].timed
    /\ \A a \in DOMAIN call[p].waits : ~Ended(call[p].waits[a])
    /\ call' = [call EXCEPT ![p] = NoCall]
    /\ UNCHANGED <<comms, alive, transfers, mailbox, handles, error>>

\* Mutant: test() tells the end and transfers no data.
CommTestWithoutData(p, a) ==
    /\ Running(p) /\ a \in Usable(p) /\ a \in DOMAIN comms
    /\ transfers[comms[a].transfer].state = "done"
    /\ handles' = [handles EXCEPT ![p][a].status = "over"]
    /\ UNCHANGED <<comms, alive, transfers, mailbox, call, error>>

\* Mutant: the client copies the data without looking at its size.
CommTestUnchecked(p, a) ==
    /\ Running(p) /\ a \in Usable(p) /\ a \in DOMAIN comms
    /\ transfers[comms[a].transfer].state = "done"
    /\ TransferData(a)
    /\ handles' = [handles EXCEPT ![p][a].status = "over", ![p][a].dest = Data(a)]
    /\ UNCHANGED <<alive, transfers, mailbox, call, error>>

\* test() of the client copies the data if there is any, and does not insist.
Tested(p, a) ==
    handles' = [handles EXCEPT ![p][a].status = "over",
                               ![p][a].dest = IF Data(a) = EmptyPayload THEN @ ELSE Data(a)]

\* The handler of test catches no exception.
CommTest(p, a) ==
    /\ Running(p) /\ a \in Usable(p)
    /\ IF a \notin DOMAIN comms THEN error' = "unknown_comm" /\ UNCHANGED <<comms, handles>>
       ELSE IF transfers[comms[a].transfer].state = "timeout"
       THEN error' = "uncaught_exception" /\ UNCHANGED <<comms, handles>>
       ELSE IF transfers[comms[a].transfer].state = "done"
       THEN TransferData(a) /\ Tested(p, a) /\ error' = error
       ELSE UNCHANGED <<comms, handles, error>>
    /\ UNCHANGED <<alive, transfers, mailbox, call>>

\* The handler of cancel starts the communication, which is started already.
CommCancel(p, a) ==
    /\ Running(p) /\ a \in Usable(p)
    /\ error' = IF a \in DOMAIN comms THEN "start_asserts" ELSE "unknown_comm"
    /\ UNCHANGED <<comms, alive, transfers, mailbox, handles, call>>

\* Mutant: the entry of an unfinished communication stays in the store.
EraseFinished(a) ==
    IF a \in DOMAIN comms /\ Ended(comms[a].transfer)
    THEN comms' = Remove(comms, a) /\ alive' = alive \ {a}
    ELSE UNCHANGED <<comms, alive>>

\* intrusive_ptr_release() and erase(), if the store has the communication.
\* SimGrid goes on with the transfer.
Erase(a) ==
    IF a \in DOMAIN comms THEN comms' = Remove(comms, a) /\ alive' = alive \ {a}
    ELSE UNCHANGED <<comms, alive>>

\* ~Comm() of the client: CommRefcountDecrease, whose answer is not looked at.
CommRefcountDecrease(p, a) ==
    /\ Running(p) /\ a \in DOMAIN handles[p]
    /\ handles' = [handles EXCEPT ![p] = Remove(@, a)]
    /\ Erase(a)
    /\ UNCHANGED <<transfers, mailbox, call, error>>

\* Actor::fork(): the new process has a copy of every rsg::Comm of its parent.
Fork(p, q) ==
    /\ Running(p) /\ call[q].op = "absent"
    /\ SharingForks \/ DOMAIN handles[p] = {}
    /\ handles' = [handles EXCEPT ![q] = handles[p]]
    /\ call' = [call EXCEPT ![q] = NoCall]
    /\ UNCHANGED <<comms, alive, transfers, mailbox, error>>

Decision(p) ==
    \/ \E d \in Payloads : MailboxPutAsync(p, d) \/ MailboxPut(p, d)
    \/ MailboxGetAsync(p) \/ MailboxGet(p)
    \/ \E a \in Usable(p) :
         \/ \E timed \in BOOLEAN : CommWaitFor(p, a, timed)
         \/ CommTest(p, a) \/ CommCancel(p, a)
    \/ \E A \in SUBSET Usable(p), timed \in BOOLEAN : CommWaitAnyFor(p, A, timed)
    \/ \E a \in DOMAIN handles[p] : CommRefcountDecrease(p, a)
    \/ \E q \in Actors : Fork(p, q)

Return(p) ==
    \/ MailboxReturns(p) \/ CommWaitForReturns(p)
    \/ CommWaitAnyForReturns(p) \/ CommWaitAnyForTimeout(p)

Next ==
    \/ \E p \in Actors : Decision(p) \/ Return(p) \/ TimeoutReached(p)
    \/ \E t \in DOMAIN transfers : TransferEnds(t)

Spec == Init /\ [][Next]_vars

----------------------------------------------------------------------------
(* Properties *)

\* Type invariant of the store, the simulation and the clients.
TypeOK ==
    /\ DOMAIN comms \subseteq Addresses
    /\ \A a \in DOMAIN comms : comms[a] \in Entry
    /\ alive \subseteq Addresses
    /\ transfers \in Seq(Transfer) /\ mailbox \in Seq(Ids)
    /\ \A p \in Actors : /\ DOMAIN handles[p] \subseteq Addresses
                         /\ \A a \in DOMAIN handles[p] : handles[p][a] \in Handle
    /\ error \in Error

\* No two processes share a communication, and no message is empty.
NoSharing == ~SharingForks
NoEmptyMessage == EmptyPayload \notin Payloads

\* The server keeps exactly the communications some client can name: it neither
\* forgets one a client still uses nor keeps one for ever.
StoreMatchesHandles ==
    NoSharing => DOMAIN comms = UNION {DOMAIN handles[p] : p \in Actors}

\* A name means the same on both sides, although addresses are reused.
NamesAreStable ==
    NoSharing => \A p \in Actors : \A a \in DOMAIN handles[p] :
                  a \in DOMAIN comms => comms[a].transfer = handles[p][a].transfer

\* The content of a message is in the reception buffer until the client has it,
\* and a client that knows the reception is over has it, by whichever of
\* wait_for, wait_any_for and test it learnt it.
ReceivedData ==
    NoSharing /\ NoEmptyMessage /\ error = "none" =>
        \A p \in Actors : \A a \in DOMAIN handles[p] :
            LET h == handles[p][a]
            IN  h.dir = "recv" =>
                  /\ h.dest = NoPayload <=> comms[a].buffer
                  /\ h.status = "over" => h.dest = transfers[h.transfer].payload

\* While processes share no communication and clients are careful, what they do
\* never makes an address unknown, ambiguous or dangling, and
\* every reception of a message that is not empty gets its data.
AssertionsHold ==
    NoSharing /\ Careful =>
        /\ error \notin {"already_exists", "unknown_comm", "dangling_iterator",
                         "inconsistency"}
        /\ NoEmptyMessage => error # "no_data"

(* What the repository says of the communications and the code does not do. *)

\* comm.cpp asserts that the acknowledgement of a wait on a reception has data.
WaitAckHasData == error # "no_data"

\* simulation.cpp asserts that a communication it has waited for is in the store.
StoreConsistent == error # "inconsistency"
=============================================================================
