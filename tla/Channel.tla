------------------------------- MODULE Channel -------------------------------
(***************************************************************************)
(* What write_message() and read_message() promise: a connection carries   *)
(* whole messages, in their order, once, unchanged, and only up to the     *)
(* maximal size.  What a client that dies had on its way may be lost.      *)
(***************************************************************************)
EXTENDS Naturals, Sequences

CONSTANTS
    Streams,    \* connections
    Messages,   \* serialized messages
    Limit       \* number of bytes no message that is delivered reaches

VARIABLES
    flying,     \* by stream, the messages that are sent and not delivered
    delivered   \* by stream, the messages given to their handler

vars == <<flying, delivered>>

Init ==
    /\ flying = [s \in Streams |-> <<>>]
    /\ delivered = [s \in Streams |-> <<>>]

Send(s, m) ==
    /\ flying' = [flying EXCEPT ![s] = Append(@, m)]
    /\ UNCHANGED delivered

Deliver(s) ==
    /\ flying[s] # <<>> /\ Len(Head(flying[s])) < Limit
    /\ delivered' = [delivered EXCEPT ![s] = Append(@, Head(flying[s]))]
    /\ flying' = [flying EXCEPT ![s] = Tail(@)]

\* The end of what is on its way, the whole of it at worst, does not arrive.
Lose(s) ==
    /\ \E n \in 0 .. Len(flying[s]) : flying' = [flying EXCEPT ![s] = SubSeq(@, 1, n)]
    /\ UNCHANGED delivered

Next == \E s \in Streams : (\E m \in Messages : Send(s, m)) \/ Deliver(s) \/ Lose(s)

Spec == Init /\ [][Next]_vars
=============================================================================
