------------------------------- MODULE Framing -------------------------------
(***************************************************************************)
(* Messages over TCP connections, byte by byte.                            *)
(*                                                                         *)
(* A message is a header, its size in native byte order, and its content   *)
(* (src/common/message.hpp).  The socket takes and gives any number of     *)
(* bytes at a time (src/common/network/tcp_socket.cpp).  The server reads  *)
(* the first message of a connection, a command, in its command thread,    *)
(* which serves all such connections: select() names those that have       *)
(* something, and each of these is read until its command is whole         *)
(* (handle_barely_connected_socket_read() and the loop around it, in       *)
(* src/rsg/serve.cpp).  The following messages are read by a thread of the *)
(* connection's own, with read_message().                                  *)
(*                                                                         *)
(* ::recv() blocks: the command thread waits for a client in the middle of *)
(* its command, and neither serves the others nor notices the end of the   *)
(* simulation, which the SimGrid thread tells it.                          *)
(*                                                                         *)
(* A client writes a message when the one before has been answered.  The   *)
(* answers travel the other way through the same write_message() and       *)
(* read_message(), and are left out.                                       *)
(***************************************************************************)
EXTENDS Naturals, Sequences, FiniteSetsExt

CONSTANTS
    Streams,         \* connections
    NoStream,        \* the command thread reads from none
    Messages,        \* what protocol buffers serialize, sequences of bytes
    Base,            \* number of values of a byte
    HeaderSize,      \* bytes of a header
    Weight,          \* what a unit of each byte of a header is worth, and of one more
    MaxContentSize,  \* max_content_size
    MaxMessages      \* bound on the number of messages of a stream

Bytes == 0 .. Base - 1

\* The numbers a header can tell.
Sizes == 0 .. Weight[HeaderSize + 1] - 1

\* Weights are the powers of the base, the least significant byte first.
ASSUME HeaderAssumption ==
    /\ Base \in Nat \ {0, 1} /\ HeaderSize \in Nat \ {0}
    /\ Weight \in [1 .. HeaderSize + 1 -> Nat] /\ Weight[1] = 1
    /\ \A i \in 1 .. HeaderSize : Weight[i + 1] = Base * Weight[i]

\* Protocol buffers serialize no more than the header can tell.
ASSUME FramingAssumption ==
    /\ NoStream \notin Streams
    /\ MaxContentSize \in Nat /\ MaxMessages \in Nat
    /\ Messages \subseteq Seq(Bytes) /\ \A m \in Messages : Len(m) \in Sizes

VARIABLES
    out,        \* by stream, bytes send_all() still has to give to the kernel
    net,        \* by stream, bytes the kernel has
    up,         \* by stream, whether its client lives
    info,       \* by stream, what is read of the current message
    phase,      \* by stream, who reads it, or how that ended
    delivered,  \* by stream, the messages given to their handler
    readable,   \* command thread: connections select() has named, to be read
    reading,    \* command thread: connection whose bytes it reads
    over,       \* the simulation has ended, and SimGrid's thread has said so
    error       \* how the server ended

sockets == <<out, net, up>>
vars == <<out, net, up, info, phase, delivered, readable, reading, over, error>>

NothingRead == [header |-> <<>>, content |-> <<>>]

Init ==
    /\ out = [s \in Streams |-> <<>>] /\ net = [s \in Streams |-> <<>>]
    /\ up = [s \in Streams |-> TRUE]
    /\ info = [s \in Streams |-> NothingRead]
    /\ phase = [s \in Streams |-> "command"]
    /\ delivered = [s \in Streams |-> <<>>]
    /\ readable = {} /\ reading = NoStream /\ over = FALSE /\ error = "none"

\* Bytes of the current message, wherever they are.
InFlight(s) == info[s].header \o info[s].content \o net[s] \o out[s]

----------------------------------------------------------------------------
(* Clients *)

\* memcpy() of an unsigned integer to bytes, and back.
ToBytes(n) == [i \in 1 .. HeaderSize |-> (n \div Weight[i]) % Base]
FromBytes(h) == CHOOSE n \in Sizes : ToBytes(n) = h

WriteMessage(s, m) ==
    /\ error = "none" /\ up[s] /\ phase[s] \in {"command", "actor"}
    /\ InFlight(s) = <<>> /\ Len(delivered[s]) < MaxMessages
    /\ out' = [out EXCEPT ![s] = ToBytes(Len(m)) \o m]
    /\ UNCHANGED <<net, up, info, phase, delivered, readable, reading, over, error>>

\* One iteration of send_all().
SendAll(s) ==
    /\ \E n \in 1 .. Len(out[s]) :
         /\ net' = [net EXCEPT ![s] = @ \o SubSeq(out[s], 1, n)]
         /\ out' = [out EXCEPT ![s] = SubSeq(@, n + 1, Len(@))]
    /\ UNCHANGED <<up, info, phase, delivered, readable, reading, over, error>>

\* What the kernel has still arrives.
ClientDies(s) ==
    /\ up[s]
    /\ up' = [up EXCEPT ![s] = FALSE]
    /\ out' = [out EXCEPT ![s] = <<>>]
    /\ UNCHANGED <<net, info, phase, delivered, readable, reading, over, error>>

----------------------------------------------------------------------------
(* Server *)

\* SimGrid's thread: the last actor has finished, or one has failed.
SimulationEnds ==
    /\ error = "none" /\ ~over /\ \E s \in Streams : phase[s] # "command"
    /\ over' = TRUE
    /\ UNCHANGED <<sockets, info, phase, delivered, readable, reading, error>>

\* Mutant: the connections that have sent no command are waited for.
LastCommandRead == over /\ \A s \in Streams : phase[s] # "command"

EndIsTold == over

\* At the end of an iteration: the message of the end is popped.
Finish ==
    /\ error = "none" /\ reading = NoStream /\ readable = {} /\ EndIsTold
    /\ error' = "finished"
    /\ UNCHANGED <<sockets, info, phase, delivered, readable, reading, over>>

\* Mutant: every connection is read, whether there is something or not.
AnyConnection(s) == phase[s] = "command"

Selected(s) == phase[s] = "command" /\ (net[s] # <<>> \/ ~up[s])

\* select() by the command thread, when every connection named before is read
\* and it has found no message of the end.
WaitAnyReadable ==
    /\ error = "none" /\ reading = NoStream /\ readable = {} /\ ~EndIsTold
    /\ readable' = {s \in Streams : Selected(s)}
    /\ UNCHANGED <<sockets, info, phase, delivered, reading, over, error>>

HandleSocket(s) ==
    /\ error = "none" /\ reading = NoStream /\ s \in readable
    /\ reading' = s /\ readable' = readable \ {s}
    /\ UNCHANGED <<sockets, info, phase, delivered, over, error>>

\* A thread is in ::recv() on the connection.
InRecv(s) == error = "none" /\ (reading = s \/ (phase[s] = "actor" /\ ~over))

\* Mutant: the part of a header that comes later is put first.
HeaderSwapped(h, bytes) == bytes \o h

\* recv() writes behind the bytes of the header that are there.
AddToHeader(h, bytes) == h \o bytes

HeaderRead(h) == Len(h) = HeaderSize

\* ::recv() of at most max bytes takes any positive number of those that are there.
Takes(s, max) == 1 .. Min({max, Len(net[s])})

Recv(s, n) == net' = [net EXCEPT ![s] = SubSeq(@, n + 1, Len(@))]

\* The command thread turns to the next connection.  A thread that is in
\* read_message() has no part in it.
LeaveSocket(s) == reading' = IF reading = s THEN NoStream ELSE reading

\* Mutant: it serves the other connections before it reads this one again.
NextSocket(s) == LeaveSocket(s)

\* After a part of a message: the iterator stays on the connection, which
\* select() has named, so ::recv() is called on it again.
StayOnSocket(s) == UNCHANGED reading

\* Mutant: the information of a connection survives its command.
InfoKept(s, i) == i

\* The information on a message is deleted with the message.
InfoDeleted(s, i) == NothingRead

\* i is the information on the whole message.
Deliver(s, i) ==
    /\ delivered' = [delivered EXCEPT ![s] = Append(@, i.content)]
    /\ info' = [info EXCEPT ![s] = InfoDeleted(s, i)]
    /\ phase' = [phase EXCEPT ![s] = "actor"]
    /\ LeaveSocket(s)
    /\ UNCHANGED error

\* An exception: it ends the server in the command thread, and else the actor.
Fail(s, why) ==
    /\ phase' = [phase EXCEPT ![s] = why]
    /\ error' = IF phase[s] = "command" THEN why ELSE error
    /\ LeaveSocket(s)
    /\ UNCHANGED delivered

\* Mutant: the limit is one byte lower.
SizeBelowLimit(n) == n + 1 < MaxContentSize

SizeAccepted(n) == n < MaxContentSize

\* Mutant: another recv() is made for a content of zero bytes.
ContentNever(n) == FALSE

\* No recv() is made for a content of zero bytes.
ContentIsEmpty(n) == n = 0

\* The first recv() on a message.  When it completes the header, the content is
\* read next, whether any of it is there or not.
RecvHeader(s) ==
    /\ InRecv(s) /\ ~HeaderRead(info[s].header)
    /\ \E n \in Takes(s, HeaderSize - Len(info[s].header)) :
         LET i == [info[s] EXCEPT !.header = AddToHeader(@, SubSeq(net[s], 1, n))]
         IN  /\ Recv(s, n)
             /\ IF ~HeaderRead(i.header)
                THEN /\ info' = [info EXCEPT ![s] = i]
                     /\ StayOnSocket(s) /\ UNCHANGED <<phase, delivered, error>>
                ELSE IF ~SizeAccepted(FromBytes(i.header))
                THEN info' = [info EXCEPT ![s] = i] /\ Fail(s, "refused")
                ELSE IF ContentIsEmpty(FromBytes(i.header)) THEN Deliver(s, i)
                ELSE /\ info' = [info EXCEPT ![s] = i]
                     /\ UNCHANGED <<phase, delivered, reading, error>>
    /\ UNCHANGED <<out, up, readable, over>>

RecvContent(s) ==
    /\ InRecv(s) /\ HeaderRead(info[s].header)
    /\ LET content_size == FromBytes(info[s].header)
       IN  \E n \in Takes(s, content_size - Len(info[s].content)) :
             LET i == [info[s] EXCEPT !.content = @ \o SubSeq(net[s], 1, n)]
             IN  /\ Recv(s, n)
                 /\ IF Len(i.content) = content_size THEN Deliver(s, i)
                    ELSE /\ info' = [info EXCEPT ![s] = i]
                         /\ StayOnSocket(s) /\ UNCHANGED <<phase, delivered, error>>
    /\ UNCHANGED <<out, up, readable, over>>

\* ::recv() gives 0: "Connection lost".
ConnectionLost(s) ==
    /\ InRecv(s) /\ net[s] = <<>> /\ ~up[s]
    /\ Fail(s, "lost")
    /\ UNCHANGED <<sockets, info, readable, over>>

ReadStream(s) == RecvHeader(s) \/ RecvContent(s) \/ ConnectionLost(s)

CommandThread ==
    \/ WaitAnyReadable \/ Finish
    \/ \E s \in Streams : HandleSocket(s) \/ (reading = s /\ ReadStream(s))

ActorReads(s) == phase[s] = "actor" /\ ReadStream(s)

Next ==
    \/ CommandThread \/ SimulationEnds
    \/ \E s \in Streams : ActorReads(s) \/ SendAll(s) \/ ClientDies(s)
    \/ \E s \in Streams, m \in Messages : WriteMessage(s, m)

Spec == Init /\ [][Next]_vars

\* The threads of the server run, and a client that lives goes on sending what it
\* has begun to send.
FairSpec ==
    /\ Spec /\ WF_vars(CommandThread)
    /\ \A s \in Streams : WF_vars(ActorReads(s)) /\ WF_vars(SendAll(s))

----------------------------------------------------------------------------
(* Properties *)

\* Type invariant; what is read is the beginning of a message.
TypeOK ==
    /\ out \in [Streams -> Seq(Bytes)] /\ net \in [Streams -> Seq(Bytes)]
    /\ up \in [Streams -> BOOLEAN]
    /\ \A s \in Streams :
         /\ info[s] \in [header : Seq(Bytes), content : Seq(Bytes)]
         /\ Len(info[s].header) <= HeaderSize
         /\ info[s].content # <<>> => /\ HeaderRead(info[s].header)
                                      /\ Len(info[s].content) < FromBytes(info[s].header)
    /\ phase \in [Streams -> {"command", "actor", "refused", "lost"}]
    /\ delivered \in [Streams -> Seq(Messages)]
    /\ readable \subseteq Streams /\ reading \in Streams \cup {NoStream}
    /\ over \in BOOLEAN /\ error \in {"none", "refused", "lost", "finished"}

\* A message is refused for its size only when that size reaches the limit,
\* however its bytes and those of other connections came in.
RefusedOnlyAtLimit ==
    \A s \in Streams :
        phase[s] = "refused" =>
            FromBytes(info[s].header) >= MaxContentSize
            /\ (up[s] => Len(InFlight(s)) = HeaderSize + FromBytes(info[s].header))

\* The command thread waits for one client, to the cost of every other, only when
\* that client has sent a part of its command and not the rest.
BlocksOnlyInsideCommand ==
    \A s \in Streams :
        reading = s /\ net[s] = <<>> /\ up[s] => info[s].header # <<>>

\* Of all the connections, one at most has a command that is read in part, the
\* one that is being read: whatever the arrivals, no command is left half read
\* while those of others are handled.
OneHalfRead ==
    \A s \in Streams : phase[s] = "command" /\ info[s] # NothingRead => reading = s

\* The abstract channel: a message is on its way while all of its bytes are.
Flying(s) ==
    LET bytes == InFlight(s)
        header == SubSeq(bytes, 1, HeaderSize)
    IN  IF Len(bytes) >= HeaderSize
           /\ Len(bytes) = HeaderSize + FromBytes(header)
        THEN <<SubSeq(bytes, HeaderSize + 1, Len(bytes))>>
        ELSE <<>>

Abstract == INSTANCE Channel WITH Limit <- MaxContentSize,
                                  flying <- [s \in Streams |-> Flying(s)]

\* Any splitting of the bytes gives the messages that were written, whole, in
\* order and once.
ImplementsChannel == Abstract!Spec

\* What a client writes reaches its handler, unless a client dies or its message
\* is refused.
AllDelivered ==
    \A s \in Streams :
        InFlight(s) # <<>> ~>
            InFlight(s) = <<>> \/ ~up[s] \/ phase[s] = "refused" \/ error # "none"

\* The command thread notices the end of the simulation, for which its select() has
\* a timeout: the connections delay it by the rest of a command, never for ever.
EndNoticed == over ~> error # "none"
=============================================================================
