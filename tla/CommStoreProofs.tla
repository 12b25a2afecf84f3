-------------------------- MODULE CommStoreProofs --------------------------
(***************************************************************************)
(* Proofs about asynchronous communications, for every set of processes,   *)
(* addresses and messages: TypeOK, StoreMatchesHandles, NamesAreStable,    *)
(* ReceivedData and AssertionsHold.                                        *)
(*                                                                         *)
(* The inductive invariant relates the four places that know a             *)
(* communication: the client's handle, the call it is blocked in, the      *)
(* entry of the store and SimGrid's transfer.                              *)
(***************************************************************************)
EXTENDS CommStore, SubsequencesProofs

\* Entries, handles and calls are functions, and the store holds the reference
\* that keeps the object of each entry allocated.
ShapeInv ==
    /\ comms \in [DOMAIN comms -> Entry] /\ alive = DOMAIN comms
    /\ DOMAIN handles = Actors /\ handles = [p \in Actors |-> handles[p]]
    /\ \A p \in Actors : handles[p] \in [DOMAIN handles[p] -> Handle]
    /\ DOMAIN call = Actors /\ call = [p \in Actors |-> call[p]]

\* SimGrid: the transfers in the mailbox wait, each once; those that run or are
\* done have a message.
MailboxInv ==
    /\ transfers \in Seq(Transfer) /\ mailbox \in Seq(Ids)
    /\ DOMAIN transfers \subseteq Ids
    /\ Distinct(mailbox)
    /\ \A t \in Elements(mailbox) :
         t \in DOMAIN transfers /\ transfers[t].state = "waiting"
    /\ \A t \in DOMAIN transfers :
         transfers[t].state \in {"running", "done"} => transfers[t].payload \in Payloads

\* Whoever names a transfer names one that exists.
NamedInv ==
    /\ \A a \in DOMAIN comms : comms[a].transfer \in DOMAIN transfers
    /\ \A p \in Actors :
         /\ \A a \in DOMAIN handles[p] : handles[p][a].transfer \in DOMAIN transfers
         /\ \A a \in DOMAIN call[p].waits : call[p].waits[a] \in DOMAIN transfers

\* A blocked client waits for communications it has handles of.
WaitInv ==
    \A p \in Actors : call[p].op \in {"wait", "wait_any"} =>
        \A a \in DOMAIN call[p].waits :
            /\ a \in DOMAIN handles[p]
            /\ Careful => handles[p][a].status = "pending"
            /\ NoSharing => call[p].waits[a] = handles[p][a].transfer

\* While processes share no communication, each handle is the only one of its
\* address and tells no more than what has happened to its transfer.
HandleInv ==
    NoSharing =>
        /\ \A p, q \in Actors : p # q => DOMAIN handles[p] \cap DOMAIN handles[q] = {}
        /\ \A p \in Actors : call[p].op = "absent" => DOMAIN handles[p] = {}
        /\ \A p \in Actors : \A a \in DOMAIN handles[p] :
             LET h == handles[p][a]
             IN  /\ h.status = "pending" => h.dest = NoPayload
                 /\ h.status = "over" => transfers[h.transfer].state = "done"
                 /\ h.status = "failed" => transfers[h.transfer].state = "timeout"

ClientInv ==
    /\ TypeOK /\ ShapeInv /\ NamedInv /\ WaitInv /\ HandleInv
    /\ StoreMatchesHandles /\ NamesAreStable /\ ReceivedData /\ AssertionsHold

IndInv == MailboxInv /\ ClientInv

USE DEF vars

----------------------------------------------------------------------------
(* SimGrid *)

\* Transfers are only added, and one that has ended does not change any more.
Progress ==
    /\ DOMAIN transfers \subseteq DOMAIN transfers'
    /\ \A t \in DOMAIN transfers : Ended(t) => transfers'[t] = transfers[t]

\* Both outcomes of a rendezvous: the first of the mailbox is met, or a new
\* transfer waits in it.
LEMMA RendezvousFacts ==
    ASSUME MailboxInv, NEW t, NEW d \in Payloads \cup {NoPayload}, Rendezvous(t, d),
           t \in DOMAIN transfers => mailbox # <<>> /\ t = Head(mailbox) /\ d \in Payloads,
           t \notin DOMAIN transfers => t = Len(transfers) + 1
    PROVE  MailboxInv' /\ Progress /\ t \in DOMAIN transfers' /\ t \in Ids
<1>0. t \in Ids
  BY DEF Rendezvous
<1>1. CASE t \in DOMAIN transfers
  <2> DEFINE r == [payload |-> d, state |-> "running"]
  <2>1. /\ transfers' = [transfers EXCEPT ![t] = r] /\ mailbox' = Tail(mailbox)
        /\ mailbox # <<>> /\ t = Head(mailbox) /\ d \in Payloads
    BY <1>1 DEF Rendezvous
  <2>2. r \in Transfer
    BY DEF Transfer
  <2>3. /\ Elements(mailbox) = {t} \cup Elements(Tail(mailbox)) /\ Tail(mailbox) \in Seq(Ids)
        /\ t \notin Elements(Tail(mailbox)) /\ Distinct(Tail(mailbox))
    BY <2>1, HeadTailElements DEF MailboxInv
  <2>4. transfers[t].state = "waiting"
    BY <2>3 DEF MailboxInv
  <2>5. /\ transfers' \in Seq(Transfer) /\ DOMAIN transfers' = DOMAIN transfers
        /\ transfers'[t] = r /\ \A u \in DOMAIN transfers : u # t => transfers'[u] = transfers[u]
    BY <1>1, <2>1, <2>2 DEF MailboxInv
  <2>6. r.state = "running" /\ r.payload \in Payloads
    BY <2>1
  <2> HIDE DEF r
  <2>7. MailboxInv'
    BY <2>1, <2>3, <2>5, <2>6 DEF MailboxInv
  <2>8. Progress
    BY <2>4, <2>5 DEF Progress, Ended
  <2> QED
    BY <1>0, <1>1, <2>5, <2>7, <2>8
<1>2. CASE t \notin DOMAIN transfers
  <2> DEFINE r == [payload |-> d, state |-> "waiting"]
  <2>1. /\ transfers' = Append(transfers, r) /\ mailbox' = Append(mailbox, t)
        /\ t = Len(transfers) + 1
    BY <1>2 DEF Rendezvous
  <2>2. r \in Transfer /\ r.state = "waiting"
    BY DEF Transfer
  <2> HIDE DEF r
  <2>3. /\ transfers' \in Seq(Transfer) /\ DOMAIN transfers' = DOMAIN transfers \cup {t}
        /\ transfers'[t] = r /\ \A u \in DOMAIN transfers : transfers'[u] = transfers[u]
    BY <2>1, <2>2 DEF MailboxInv
  <2>4. t \notin Elements(mailbox)
    BY <1>2 DEF MailboxInv
  <2>5. /\ mailbox' \in Seq(Ids) /\ Distinct(mailbox')
        /\ Elements(mailbox') = Elements(mailbox) \cup {t}
    <3> DEFINE s == <<t>>
    <3>1. s \in Seq(Ids) /\ Elements(s) = {t} /\ Distinct(s)
      BY <1>0, SingleElements
    <3>2. mailbox' = mailbox \o s /\ mailbox \in Seq(Ids)
      BY <1>0, <2>1 DEF MailboxInv
    <3> HIDE DEF s
    <3> QED
      BY <2>4, <3>1, <3>2, ConcatElements DEF MailboxInv
  <2>6. MailboxInv'
    BY <1>0, <1>2, <2>2, <2>3, <2>5 DEF MailboxInv
  <2>7. Progress
    BY <2>3 DEF Progress
  <2> QED
    BY <1>0, <2>3, <2>6, <2>7
<1> QED
  BY <1>1, <1>2

\* A put meets a get, or waits.
LEMMA PutFacts ==
    ASSUME MailboxInv, NEW d \in Payloads, IPut(d)
    PROVE  MailboxInv' /\ Progress /\ PutTransfer \in DOMAIN transfers' /\ PutTransfer \in Ids
<1>1. Len(transfers) + 1 \notin DOMAIN transfers
  BY DEF MailboxInv
<1>2. PutTransfer \in DOMAIN transfers => mailbox # <<>> /\ PutTransfer = Head(mailbox)
  BY <1>1 DEF PutTransfer, FirstIs
<1>3. PutTransfer \notin DOMAIN transfers => PutTransfer = Len(transfers) + 1
  <2>1. ASSUME mailbox # <<>> PROVE Head(mailbox) \in DOMAIN transfers
    BY <2>1, HeadTailElements DEF MailboxInv
  <2> QED
    BY <2>1 DEF PutTransfer, FirstIs
<1> QED
  BY <1>2, <1>3, RendezvousFacts DEF IPut

\* A get meets a put, whose message it leaves in the transfer, or waits.
LEMMA GetFacts ==
    ASSUME MailboxInv, IGet
    PROVE  MailboxInv' /\ Progress /\ GetTransfer \in DOMAIN transfers' /\ GetTransfer \in Ids
<1> DEFINE d == IF GetTransfer \in DOMAIN transfers THEN transfers[GetTransfer].payload
                ELSE NoPayload
<1>1. Len(transfers) + 1 \notin DOMAIN transfers
  BY DEF MailboxInv
<1>2. GetTransfer \in DOMAIN transfers =>
        mailbox # <<>> /\ GetTransfer = Head(mailbox) /\ d \in Payloads
  BY <1>1 DEF GetTransfer, FirstIs
<1>3. GetTransfer \notin DOMAIN transfers => GetTransfer = Len(transfers) + 1
  <2>1. ASSUME mailbox # <<>> PROVE Head(mailbox) \in DOMAIN transfers
    BY <2>1, HeadTailElements DEF MailboxInv
  <2> QED
    BY <2>1 DEF GetTransfer, FirstIs
<1>4. d \in Payloads \cup {NoPayload} /\ Rendezvous(GetTransfer, d)
  BY <1>2 DEF IGet
<1> HIDE DEF d
<1> QED
  BY <1>2, <1>3, <1>4, RendezvousFacts

\* A transfer ends, or is ended by a timeout.
LEMMA EndFacts ==
    ASSUME MailboxInv, NEW t \in DOMAIN transfers, NEW s \in {"done", "timeout"},
           transfers' = [transfers EXCEPT ![t].state = s],
           \/ s = "done" /\ transfers[t].state = "running" /\ UNCHANGED mailbox
           \/ s = "timeout" /\ ~Ended(t) /\ mailbox' = Only(mailbox, Ids \ {t})
    PROVE  MailboxInv' /\ Progress
<1>1. transfers[t] \in Transfer /\ t \in Ids
  BY DEF MailboxInv
<1>2. /\ transfers' \in Seq(Transfer) /\ DOMAIN transfers' = DOMAIN transfers
      /\ transfers'[t].state = s /\ transfers'[t].payload = transfers[t].payload
      /\ \A u \in DOMAIN transfers : u # t => transfers'[u] = transfers[u]
  <2> DEFINE r == [transfers[t] EXCEPT !.state = s]
  <2>1. r \in Transfer /\ r.state = s /\ r.payload = transfers[t].payload
    BY <1>1 DEF Transfer
  <2>2. transfers' = [transfers EXCEPT ![t] = r]
    OBVIOUS
  <2> HIDE DEF r
  <2> QED
    BY <2>1, <2>2 DEF MailboxInv
<1>3. mailbox' \in Seq(Ids) /\ Distinct(mailbox') /\ Elements(mailbox') = Elements(mailbox) \ {t}
  <2>1. CASE s = "done"
    BY <2>1 DEF MailboxInv
  <2>2. CASE s = "timeout"
    <3>1. mailbox' = Only(mailbox, Ids \ {t}) /\ Elements(mailbox) \subseteq Ids
      BY <2>2 DEF MailboxInv
    <3>2. mailbox \in Seq(Ids) /\ Distinct(mailbox)
      BY DEF MailboxInv
    <3> QED
      BY <3>1, <3>2, OnlyProperties
  <2> QED
    BY <2>1, <2>2
<1>4. MailboxInv'
  BY <1>2, <1>3 DEF MailboxInv
<1>5. Progress
  BY <1>2 DEF Progress, Ended
<1> QED
  BY <1>4, <1>5

----------------------------------------------------------------------------
(* What the decisions do to handles, entries and calls, by kind of effect   *)

\* A call a client may block in.
GoodCall(p, c) ==
    /\ c.op # "absent"
    /\ \A a \in DOMAIN c.waits : c.waits[a] \in DOMAIN transfers'
    /\ c.op \in {"wait", "wait_any"} =>
         \A a \in DOMAIN c.waits :
            /\ a \in DOMAIN handles[p]
            /\ Careful => handles[p][a].status = "pending"
            /\ NoSharing => c.waits[a] = handles[p][a].transfer

\* Back in the client code.
LEMMA NoCallGood ==
    ASSUME NEW p PROVE GoodCall(p, NoCall)
  BY DEF GoodCall, NoCall, Empty

\* A call begins or ends, or SimGrid goes on, and that is all.
LEMMA CallEffect ==
    ASSUME IndInv, MailboxInv', Progress, UNCHANGED <<comms, alive, handles>>,
           error = "none", error' \in Error, AssertionsHold', NEW p, NEW c,
           call' = call \/ (call' = [call EXCEPT ![p] = c] /\ GoodCall(p, c))
    PROVE  ClientInv'
<1>0. ClientInv
  BY DEF IndInv
<1>1. \A q \in Actors : call'[q] = call[q] \/ (q = p /\ call'[q] = c /\ GoodCall(p, c))
  <2>1. CASE call' = call
    BY <2>1
  <2>2. CASE call' = [call EXCEPT ![p] = c] /\ GoodCall(p, c)
    <3>1. \A q \in Actors : IF q = p THEN call'[q] = c ELSE call'[q] = call[q]
      BY <1>0, <2>2 DEF ClientInv, ShapeInv
    <3> QED
      BY <2>2, <3>1
  <2> QED
    BY <2>1, <2>2
<1>2. TypeOK' /\ ShapeInv'
  BY <1>0 DEF ClientInv, ShapeInv, TypeOK, MailboxInv
<1>3. NamedInv'
  BY <1>0, <1>1 DEF ClientInv, NamedInv, Progress, GoodCall
<1>4. WaitInv'
  BY <1>0, <1>1 DEF ClientInv, WaitInv, GoodCall
<1>5. \A q \in Actors : \A a \in DOMAIN handles[q] :
        Ended(handles[q][a].transfer) =>
          transfers'[handles[q][a].transfer] = transfers[handles[q][a].transfer]
  BY <1>0 DEF ClientInv, NamedInv, Progress
<1>6. HandleInv'
  BY <1>0, <1>1, <1>5 DEF ClientInv, HandleInv, Ended, GoodCall
<1>7. StoreMatchesHandles' /\ NamesAreStable'
  BY <1>0 DEF ClientInv, StoreMatchesHandles, NamesAreStable
<1>8. ReceivedData'
  BY <1>0, <1>5 DEF ClientInv, HandleInv, ReceivedData, Ended
<1> QED
  BY <1>2, <1>3, <1>4, <1>6, <1>7, <1>8 DEF ClientInv

\* The store has exactly the addresses of the handles.
LEMMA StoreMatches ==
    ASSUME NoSharing, StoreMatchesHandles
    PROVE  \A a : a \in DOMAIN comms <=> \E p \in Actors : a \in DOMAIN handles[p]
  BY DEF StoreMatchesHandles

\* A new communication: its address is nobody's yet.
LEMMA NewEffect ==
    ASSUME IndInv, MailboxInv', Progress, error = "none", UNCHANGED call,
           NEW p \in Actors, call[p].op # "absent", NEW a \in Addresses \ alive,
           NEW t \in Ids, t \in DOMAIN transfers', NEW dir \in {"send", "recv"},
           StoreComm(a, t, dir = "recv"), NewComm(p, a, dir, t)
    PROVE  ClientInv'
<1>0. ClientInv
  BY DEF IndInv
<1> DEFINE e == [transfer |-> t, buffer |-> dir = "recv"]
           h == [dir |-> dir, transfer |-> t, status |-> "pending", dest |-> NoPayload]
<1>1. e \in Entry /\ e.transfer = t /\ e.buffer = (dir = "recv")
  BY DEF Entry
<1>2. /\ h \in Handle /\ h.transfer = t /\ h.dir = dir
      /\ h.status = "pending" /\ h.dest = NoPayload
  BY DEF Handle
<1>3. a \notin DOMAIN comms /\ a \in Addresses
  BY <1>0 DEF ClientInv, ShapeInv
<1>4. /\ comms' = Put(comms, a, e) /\ alive' = alive \cup {a} /\ error' = error
      /\ handles' = [handles EXCEPT ![p] = Put(handles[p], a, h)]
  BY <1>3 DEF StoreComm, AddRef, NewComm
<1> HIDE DEF e, h
<1>5. /\ DOMAIN comms' = DOMAIN comms \cup {a} /\ comms'[a] = e
      /\ \A b \in DOMAIN comms : comms'[b] = comms[b]
      /\ comms' \in [DOMAIN comms' -> Entry]
  BY <1>0, <1>1, <1>3, <1>4 DEF ClientInv, ShapeInv, Put
<1>6. /\ DOMAIN handles' = Actors /\ handles' = [q \in Actors |-> handles'[q]]
      /\ \A q \in Actors : q # p => handles'[q] = handles[q]
      /\ DOMAIN handles'[p] = DOMAIN handles[p] \cup {a} /\ handles'[p][a] = h
      /\ \A b \in DOMAIN handles[p] : b # a => handles'[p][b] = handles[p][b]
      /\ handles'[p] \in [DOMAIN handles'[p] -> Handle]
  BY <1>0, <1>2, <1>4 DEF ClientInv, ShapeInv, Put
<1>7. TypeOK'
  BY <1>0, <1>3, <1>4, <1>5, <1>6 DEF ClientInv, ShapeInv, TypeOK, MailboxInv, Error
<1>8. ShapeInv'
  BY <1>0, <1>4, <1>5, <1>6 DEF ClientInv, ShapeInv
<1>9. NamedInv'
  BY <1>0, <1>1, <1>2, <1>5, <1>6 DEF ClientInv, NamedInv, Progress
<1>10. NoSharing => \A q \in Actors : a \notin DOMAIN handles[q]
  BY <1>0, <1>3, StoreMatches DEF ClientInv
<1>11. WaitInv'
  BY <1>0, <1>2, <1>5, <1>6, <1>10 DEF ClientInv, WaitInv
<1>12. HandleInv'
  <2> SUFFICES ASSUME NoSharing
               PROVE  /\ \A q, r \in Actors :
                           q # r => DOMAIN handles'[q] \cap DOMAIN handles'[r] = {}
                      /\ \A q \in Actors : call[q].op = "absent" => DOMAIN handles'[q] = {}
                      /\ \A q \in Actors : \A b \in DOMAIN handles'[q] :
                           LET g == handles'[q][b]
                           IN  /\ g.status = "pending" => g.dest = NoPayload
                               /\ g.status = "over" => transfers'[g.transfer].state = "done"
                               /\ g.status = "failed" =>
                                    transfers'[g.transfer].state = "timeout"
    BY DEF HandleInv, NoSharing
  <2>1. \A q, r \in Actors : q # r => DOMAIN handles'[q] \cap DOMAIN handles'[r] = {}
    BY <1>0, <1>6, <1>10 DEF ClientInv, HandleInv
  <2>2. \A q \in Actors : \A b \in DOMAIN handles[q] :
          /\ handles[q][b].transfer \in DOMAIN transfers
          /\ Ended(handles[q][b].transfer) =>
               transfers'[handles[q][b].transfer] = transfers[handles[q][b].transfer]
    BY <1>0 DEF ClientInv, NamedInv, Progress
  <2>3. \A q \in Actors : call[q].op = "absent" => DOMAIN handles[q] = {} /\ q # p
    BY <1>0 DEF ClientInv, HandleInv
  <2> QED
    BY <1>0, <1>2, <1>6, <2>1, <2>2, <2>3 DEF ClientInv, HandleInv, Ended
<1>13. StoreMatchesHandles'
  <2> SUFFICES ASSUME NoSharing
               PROVE  DOMAIN comms' = UNION {DOMAIN handles'[q] : q \in Actors}
    BY DEF StoreMatchesHandles, NoSharing
  <2>1. \A b : b \in DOMAIN comms <=> \E q \in Actors : b \in DOMAIN handles[q]
    BY <1>0, StoreMatches DEF ClientInv
  <2>2. \A b : b \in DOMAIN comms' <=> \E q \in Actors : b \in DOMAIN handles'[q]
    BY <1>5, <1>6, <2>1
  <2> QED
    BY <2>2
<1>14. NamesAreStable'
  BY <1>0, <1>1, <1>2, <1>3, <1>5, <1>6, <1>10 DEF ClientInv, NamesAreStable
<1>15. ReceivedData'
  <2> SUFFICES ASSUME NoSharing, NoEmptyMessage, NEW q \in Actors,
                      NEW b \in DOMAIN handles'[q], handles'[q][b].dir = "recv"
               PROVE  /\ handles'[q][b].dest = NoPayload <=> comms'[b].buffer
                      /\ handles'[q][b].status = "over" =>
                           handles'[q][b].dest = transfers'[handles'[q][b].transfer].payload
    BY DEF ReceivedData, NoSharing, NoEmptyMessage
  <2>1. CASE q = p /\ b = a
    BY <1>1, <1>2, <1>5, <1>6, <2>1
  <2>2. CASE q # p \/ b # a
    <3>1. b \in DOMAIN handles[q] /\ handles'[q][b] = handles[q][b] /\ b # a
      BY <1>6, <1>10, <2>2
    <3>2. b \in DOMAIN comms /\ comms'[b] = comms[b]
      BY <1>0, <1>5, <3>1, StoreMatches DEF ClientInv
    <3>3. /\ handles[q][b].transfer \in DOMAIN transfers
          /\ handles[q][b].status = "over" => transfers[handles[q][b].transfer].state = "done"
      BY <1>0, <3>1 DEF ClientInv, NamedInv, HandleInv
    <3> QED
      BY <1>0, <1>4, <3>1, <3>2, <3>3 DEF ClientInv, ReceivedData, Progress, Ended
  <2> QED
    BY <2>1, <2>2
<1>16. AssertionsHold'
  BY <1>0, <1>4 DEF ClientInv, AssertionsHold, NoSharing, NoEmptyMessage
<1> QED
  BY <1>7, <1>8, <1>9, <1>11, <1>12, <1>13, <1>14, <1>15, <1>16 DEF ClientInv

\* One field of one handle changes: what stays the same.
LEMMA HandleUpdate ==
    ASSUME ShapeInv, NEW p \in Actors, NEW a \in DOMAIN handles[p], NEW g \in Handle,
           handles' = [handles EXCEPT ![p][a] = g]
    PROVE  /\ DOMAIN handles' = Actors /\ handles' = [q \in Actors |-> handles'[q]]
           /\ \A q \in Actors : DOMAIN handles'[q] = DOMAIN handles[q]
           /\ \A q \in Actors : handles'[q] \in [DOMAIN handles[q] -> Handle]
           /\ handles'[p][a] = g
           /\ \A q \in Actors : \A b \in DOMAIN handles[q] :
                q # p \/ b # a => handles'[q][b] = handles[q][b]
<1> DEFINE f == [handles[p] EXCEPT ![a] = g]
<1>1. /\ DOMAIN f = DOMAIN handles[p] /\ f[a] = g /\ f \in [DOMAIN handles[p] -> Handle]
      /\ \A b \in DOMAIN handles[p] : b # a => f[b] = handles[p][b]
  BY DEF ShapeInv
<1>2. handles' = [handles EXCEPT ![p] = f]
  OBVIOUS
<1> HIDE DEF f
<1>3. /\ DOMAIN handles' = Actors /\ handles' = [q \in Actors |-> handles'[q]]
      /\ handles'[p] = f /\ \A q \in Actors : q # p => handles'[q] = handles[q]
  BY <1>2 DEF ShapeInv
<1> QED
  BY <1>1, <1>3 DEF ShapeInv

\* The reception buffer of an entry is used up.
LEMMA BufferUpdate ==
    ASSUME ShapeInv, NEW a \in DOMAIN comms, TransferData(a)
    PROVE  /\ DOMAIN comms' = DOMAIN comms /\ comms' \in [DOMAIN comms -> Entry]
           /\ comms'[a].buffer = FALSE
           /\ \A b \in DOMAIN comms : comms'[b].transfer = comms[b].transfer
           /\ \A b \in DOMAIN comms : b # a => comms'[b] = comms[b]
<1> DEFINE e == [comms[a] EXCEPT !.buffer = FALSE]
<1>1. comms[a] \in Entry
  BY DEF ShapeInv
<1>2. e \in Entry /\ e.buffer = FALSE /\ e.transfer = comms[a].transfer
  BY <1>1 DEF Entry
<1>3. comms' = [comms EXCEPT ![a] = e]
  BY DEF TransferData
<1> HIDE DEF e
<1> QED
  BY <1>2, <1>3 DEF ShapeInv

\* The value of a handle that is told an end s and has a destination d.
Settled(p, a, s, d) == [handles[p][a] EXCEPT !.status = s, !.dest = d]

\* Only its status and its destination are new.
LEMMA SettledFacts ==
    ASSUME ShapeInv, NEW p \in Actors, NEW a \in DOMAIN handles[p],
           NEW s \in {"over", "failed"}, NEW d \in Payloads \cup {NoPayload}
    PROVE  /\ Settled(p, a, s, d) \in Handle
           /\ Settled(p, a, s, d).status = s /\ Settled(p, a, s, d).dest = d
           /\ Settled(p, a, s, d).dir = handles[p][a].dir
           /\ Settled(p, a, s, d).transfer = handles[p][a].transfer
<1>1. handles[p][a] \in Handle
  BY DEF ShapeInv
<1> QED
  BY <1>1 DEF Settled, Handle

\* A client is told the end of a communication by wait_for, wait_any_for or
\* test: the handle it updates, unless the assertion on the data fails.
LEMMA OverFacts ==
    ASSUME IndInv, NEW p \in Actors, NEW a \in DOMAIN handles[p], a \in DOMAIN comms,
           ReadData(p, a) \/ (Tested(p, a) /\ error' = error)
    PROVE  \/ /\ UNCHANGED handles /\ error' = "no_data"
              /\ handles[p][a].dir = "recv" /\ Data(a) = EmptyPayload
           \/ /\ error' = error
              /\ \E d \in Payloads \cup {NoPayload} :
                   /\ handles' = [handles EXCEPT ![p][a] = Settled(p, a, "over", d)]
                   /\ handles[p][a].dir = "recv" =>
                        d = IF Data(a) = EmptyPayload THEN handles[p][a].dest ELSE Data(a)
<1>0. ShapeInv /\ TypeOK /\ NamedInv /\ MailboxInv
  BY DEF IndInv, ClientInv
<1>1. handles[p][a] \in Handle /\ handles[p][a].dest \in Payloads \cup {NoPayload}
  BY <1>0 DEF ShapeInv, Handle
<1>2. Data(a) = EmptyPayload \/ Data(a) \in Payloads \cup {NoPayload}
  <2>1. transfers[comms[a].transfer] \in Transfer
    BY <1>0 DEF NamedInv, MailboxInv
  <2> QED
    BY <2>1 DEF Data, Transfer
<1>3. CASE Tested(p, a) /\ error' = error
  <2> DEFINE d == IF Data(a) = EmptyPayload THEN handles[p][a].dest ELSE Data(a)
  <2>1. d \in Payloads \cup {NoPayload}
    BY <1>1, <1>2
  <2>2. handles' = [handles EXCEPT ![p][a] = Settled(p, a, "over", d)]
    BY <1>1, <1>3 DEF Tested, Settled, Handle
  <2> QED
    BY <1>3, <2>1, <2>2
<1>4. CASE ReadData(p, a)
  <2>1. CASE handles[p][a].dir = "recv" /\ Data(a) = EmptyPayload
    BY <1>4, <2>1 DEF ReadData
  <2>2. CASE ~(handles[p][a].dir = "recv" /\ Data(a) = EmptyPayload)
    <3> DEFINE d == IF handles[p][a].dir = "recv" THEN Data(a) ELSE handles[p][a].dest
    <3>1. d \in Payloads \cup {NoPayload}
      BY <1>1, <1>2, <2>2
    <3>2. handles' = [handles EXCEPT ![p][a] = Settled(p, a, "over", d)] /\ error' = error
      BY <1>1, <1>4, <2>2 DEF ReadData, Settled, Handle
    <3> QED
      BY <2>2, <3>1, <3>2
  <2> QED
    BY <2>1, <2>2
<1> QED
  BY <1>3, <1>4

\* A handle is settled, and its client is back from whatever it was blocked in.
LEMMA SettleEffect ==
    ASSUME IndInv, NEW p \in Actors, NEW a \in DOMAIN handles[p],
           NEW s \in {"over", "failed"}, NEW d \in Payloads \cup {NoPayload},
           handles' = [handles EXCEPT ![p][a] = Settled(p, a, s, d)],
           DOMAIN comms' = DOMAIN comms, comms' \in [DOMAIN comms -> Entry],
           \A b \in DOMAIN comms : comms'[b].transfer = comms[b].transfer,
           \A b \in DOMAIN comms : b # a => comms'[b] = comms[b],
           UNCHANGED <<alive, transfers, mailbox, error>>,
           call' = call \/ call' = [call EXCEPT ![p] = NoCall],
           call[p].op \in {"wait", "wait_any"} => call' = [call EXCEPT ![p] = NoCall],
           NoSharing => /\ s = "over" => transfers[handles[p][a].transfer].state = "done"
                        /\ s = "failed" => transfers[handles[p][a].transfer].state = "timeout",
           NoSharing /\ NoEmptyMessage /\ error = "none" /\ handles[p][a].dir = "recv" =>
             /\ d = NoPayload <=> comms'[a].buffer
             /\ s = "over" => d = transfers[handles[p][a].transfer].payload
    PROVE  ClientInv'
<1>0. /\ ShapeInv /\ TypeOK /\ NamedInv /\ WaitInv /\ HandleInv /\ StoreMatchesHandles
      /\ NamesAreStable /\ ReceivedData /\ AssertionsHold
  BY DEF IndInv, ClientInv
<1> DEFINE g == Settled(p, a, s, d)
<1>1. /\ g \in Handle /\ g.status = s /\ g.dest = d
      /\ g.dir = handles[p][a].dir /\ g.transfer = handles[p][a].transfer
  BY <1>0, SettledFacts
<1> HIDE DEF g
<1>2. /\ DOMAIN handles' = Actors /\ handles' = [q \in Actors |-> handles'[q]]
      /\ \A q \in Actors : DOMAIN handles'[q] = DOMAIN handles[q]
      /\ \A q \in Actors : handles'[q] \in [DOMAIN handles[q] -> Handle]
      /\ handles'[p][a] = g
      /\ \A q \in Actors : \A b \in DOMAIN handles[q] :
           q # p \/ b # a => handles'[q][b] = handles[q][b]
  <2>1. handles' = [handles EXCEPT ![p][a] = g]
    BY DEF g
  <2>2. ShapeInv /\ g \in Handle
    BY <1>0, <1>1
  <2> QED
    BY ONLY <2>1, <2>2, p \in Actors, a \in DOMAIN handles[p], HandleUpdate
<1>3. \A q \in Actors : \A b \in DOMAIN handles[q] :
        /\ handles'[q][b].transfer = handles[q][b].transfer
        /\ handles'[q][b].dir = handles[q][b].dir
  BY <1>1, <1>2
<1>4. /\ DOMAIN call' = Actors /\ call' = [q \in Actors |-> call'[q]]
      /\ \A q \in Actors : call'[q] = call[q] \/ (q = p /\ call'[q] = NoCall)
      /\ call[p].op \in {"wait", "wait_any"} => call'[p] = NoCall
  BY <1>0 DEF ShapeInv
<1>5. NoCall.op = "none" /\ DOMAIN NoCall.waits = {}
  BY DEF NoCall, Empty
<1>6. TypeOK'
  BY <1>0, <1>2 DEF TypeOK, ShapeInv, Error
<1>7. ShapeInv'
  BY <1>0, <1>2, <1>4 DEF ShapeInv
<1>8. NamedInv'
  BY <1>0, <1>2, <1>3, <1>4, <1>5 DEF NamedInv
<1>9. WaitInv'
  BY <1>0, <1>2, <1>3, <1>4, <1>5 DEF WaitInv, NoSharing
<1>10. HandleInv'
  BY <1>0, <1>1, <1>2, <1>3, <1>4, <1>5 DEF HandleInv, NoSharing
<1>11. StoreMatchesHandles'
  BY <1>0, <1>2 DEF StoreMatchesHandles, NoSharing
<1>12. NamesAreStable'
  BY <1>0, <1>2, <1>3 DEF NamesAreStable, NoSharing
<1>13. ReceivedData'
  <2> SUFFICES ASSUME NoSharing, NoEmptyMessage, error = "none", NEW q \in Actors,
                      NEW b \in DOMAIN handles'[q], handles'[q][b].dir = "recv"
               PROVE  /\ handles'[q][b].dest = NoPayload <=> comms'[b].buffer
                      /\ handles'[q][b].status = "over" =>
                           handles'[q][b].dest = transfers'[handles'[q][b].transfer].payload
    BY DEF ReceivedData, NoSharing, NoEmptyMessage
  <2>1. CASE q = p /\ b = a
    BY <1>1, <1>2, <2>1
  <2>2. CASE q # p \/ b # a
    <3>1. b \in DOMAIN handles[q] /\ handles'[q][b] = handles[q][b] /\ b # a
      BY <1>0, <1>2, <2>2 DEF HandleInv
    <3>2. b \in DOMAIN comms /\ comms'[b] = comms[b]
      BY <1>0, <3>1, StoreMatches
    <3> QED
      BY <1>0, <3>1, <3>2 DEF ReceivedData
  <2> QED
    BY <2>1, <2>2
<1>14. AssertionsHold'
  BY <1>0 DEF AssertionsHold, NoSharing, NoEmptyMessage
<1> QED
  BY <1>6, <1>7, <1>8, <1>9, <1>10, <1>11, <1>12, <1>13, <1>14 DEF ClientInv

\* A client is told the end of a transfer that is done.
LEMMA OverEffect ==
    ASSUME IndInv, NEW p \in Actors, NEW a \in DOMAIN handles[p], a \in DOMAIN comms,
           TransferData(a), ReadData(p, a) \/ (Tested(p, a) /\ error' = error),
           error = "none", UNCHANGED <<alive, transfers, mailbox>>,
           call' = call \/ call' = [call EXCEPT ![p] = NoCall],
           call[p].op \in {"wait", "wait_any"} => call' = [call EXCEPT ![p] = NoCall],
           NoSharing => transfers[handles[p][a].transfer].state = "done",
           Careful => handles[p][a].status = "pending"
    PROVE  ClientInv'
<1>0. /\ ShapeInv /\ TypeOK /\ NamedInv /\ WaitInv /\ HandleInv /\ StoreMatchesHandles
      /\ NamesAreStable /\ ReceivedData /\ AssertionsHold /\ MailboxInv
  BY DEF IndInv, ClientInv
<1> DEFINE h == handles[p][a]
<1>1. /\ DOMAIN comms' = DOMAIN comms /\ comms' \in [DOMAIN comms -> Entry]
      /\ comms'[a].buffer = FALSE
      /\ \A b \in DOMAIN comms : comms'[b].transfer = comms[b].transfer
      /\ \A b \in DOMAIN comms : b # a => comms'[b] = comms[b]
  BY <1>0, BufferUpdate
<1>2. ASSUME NoSharing, NoEmptyMessage, h.dir = "recv"
      PROVE  /\ comms[a].transfer = h.transfer /\ h.transfer \in DOMAIN transfers
             /\ transfers[h.transfer].payload \in Payloads
             /\ transfers[h.transfer].payload # EmptyPayload
             /\ Data(a) = EmptyPayload <=> ~comms[a].buffer
             /\ h.dest = NoPayload <=> comms[a].buffer
  <2>1. comms[a].transfer = h.transfer /\ h.transfer \in DOMAIN transfers
    BY <1>0, <1>2 DEF NamesAreStable, NamedInv
  <2>2. transfers[h.transfer].payload \in Payloads
    BY <1>0, <1>2, <2>1 DEF MailboxInv
  <2>3. transfers[h.transfer].payload # EmptyPayload
    BY <1>2, <2>2 DEF NoEmptyMessage
  <2>4. h.dest = NoPayload <=> comms[a].buffer
    BY <1>0, <1>2 DEF ReceivedData
  <2>5. Data(a) = EmptyPayload <=> ~comms[a].buffer
    BY <2>1, <2>3 DEF Data
  <2> QED
    BY <2>1, <2>2, <2>3, <2>4, <2>5
<1>3. CASE /\ UNCHANGED handles /\ error' = "no_data"
           /\ h.dir = "recv" /\ Data(a) = EmptyPayload
  <2>1. ASSUME NoSharing, Careful, NoEmptyMessage PROVE FALSE
    <3>1. h.status = "pending" /\ h.dest = NoPayload
      BY <1>0, <2>1 DEF HandleInv
    <3> QED
      BY <1>2, <1>3, <2>1, <3>1
  <2>2. TypeOK'
    BY <1>0, <1>1, <1>3 DEF TypeOK, Error
  <2>3. /\ DOMAIN call' = Actors /\ call' = [q \in Actors |-> call'[q]]
        /\ \A q \in Actors : call'[q] = call[q] \/ (q = p /\ call'[q] = NoCall)
    BY <1>0 DEF ShapeInv
  <2>4. NoCall.op = "none" /\ DOMAIN NoCall.waits = {}
    BY DEF NoCall, Empty
  <2>5. ShapeInv'
    BY <1>0, <1>1, <1>3, <2>3 DEF ShapeInv
  <2>6. NamedInv' /\ WaitInv'
    BY <1>0, <1>1, <1>3, <2>3, <2>4 DEF NamedInv, WaitInv, NoSharing
  <2>7. HandleInv' /\ StoreMatchesHandles' /\ NamesAreStable'
    BY <1>0, <1>1, <1>3, <2>3, <2>4
    DEF HandleInv, StoreMatchesHandles, NamesAreStable, NoSharing
  <2>8. ReceivedData'
    BY <1>3 DEF ReceivedData
  <2>9. AssertionsHold'
    BY <1>3, <2>1 DEF AssertionsHold, NoSharing, NoEmptyMessage
  <2> QED
    BY <2>2, <2>5, <2>6, <2>7, <2>8, <2>9 DEF ClientInv
<1>4. ASSUME error' = error, NEW d \in Payloads \cup {NoPayload},
             handles' = [handles EXCEPT ![p][a] = Settled(p, a, "over", d)],
             h.dir = "recv" => d = IF Data(a) = EmptyPayload THEN h.dest ELSE Data(a)
      PROVE  ClientInv'
  <2>1. ASSUME NoSharing, NoEmptyMessage, h.dir = "recv"
        PROVE  d # NoPayload /\ d = transfers[h.transfer].payload
    <3>1. CASE comms[a].buffer
      <4>1. d = transfers[h.transfer].payload /\ d \in Payloads
        BY <1>2, <1>4, <2>1, <3>1 DEF Data
      <4> QED
        BY <4>1, CommAssumption
    <3>2. CASE ~comms[a].buffer
      <4>1. d = h.dest /\ d # NoPayload
        BY <1>2, <1>4, <2>1, <3>2
      <4>2. h \in Handle /\ h.status # "pending" /\ h.status # "failed"
        BY <1>0, <2>1, <4>1 DEF HandleInv, ShapeInv
      <4>3. h.status = "over"
        BY <4>2 DEF Handle
      <4> QED
        BY <1>0, <2>1, <4>1, <4>3 DEF ReceivedData
    <3> QED
      BY <3>1, <3>2
  <2>2. NoSharing /\ NoEmptyMessage /\ error = "none" /\ h.dir = "recv" =>
          /\ d = NoPayload <=> comms'[a].buffer
          /\ "over" = "over" => d = transfers[h.transfer].payload
    BY <1>1, <2>1
  <2> QED
    BY <1>1, <1>4, <2>2, SettleEffect
<1> QED
  BY <1>3, <1>4, OverFacts

\* The communication has timed out: the handle fails, the store keeps the entry.
LEMMA FailedEffect ==
    ASSUME IndInv, NEW p \in Actors, NEW a \in DOMAIN handles[p],
           handles' = [handles EXCEPT ![p][a].status = "failed"],
           error = "none", UNCHANGED <<comms, alive, transfers, mailbox, error>>,
           call' = [call EXCEPT ![p] = NoCall],
           NoSharing => transfers[handles[p][a].transfer].state = "timeout"
    PROVE  ClientInv'
<1>0. ShapeInv /\ ReceivedData
  BY DEF IndInv, ClientInv
<1> DEFINE d == handles[p][a].dest
<1>1. handles[p][a] \in Handle /\ d \in Payloads \cup {NoPayload}
  BY <1>0 DEF ShapeInv, Handle
<1>2. handles' = [handles EXCEPT ![p][a] = Settled(p, a, "failed", d)]
  BY <1>1 DEF Settled, Handle
<1>3. NoSharing /\ NoEmptyMessage /\ error = "none" /\ handles[p][a].dir = "recv" =>
        /\ d = NoPayload <=> comms'[a].buffer
        /\ "failed" = "over" => d = transfers[handles[p][a].transfer].payload
  BY <1>0 DEF ReceivedData
<1>4. DOMAIN comms' = DOMAIN comms /\ comms' \in [DOMAIN comms -> Entry]
  BY <1>0 DEF ShapeInv
<1> HIDE DEF d
<1> QED
  BY <1>1, <1>2, <1>3, <1>4, SettleEffect

\* The destructor of a handle erases the entry of its address.
LEMMA RemoveEffect ==
    ASSUME IndInv, NEW p \in Actors, NEW a \in DOMAIN handles[p],
           CommRefcountDecrease(p, a)
    PROVE  ClientInv'
<1>0. /\ ShapeInv /\ TypeOK /\ NamedInv /\ WaitInv /\ HandleInv /\ StoreMatchesHandles
      /\ NamesAreStable /\ ReceivedData /\ AssertionsHold
  BY DEF IndInv, ClientInv
<1>1. /\ error = "none" /\ call[p].op = "none" /\ UNCHANGED <<transfers, mailbox, call, error>>
      /\ handles' = [handles EXCEPT ![p] = Remove(handles[p], a)] /\ Erase(a)
  BY DEF CommRefcountDecrease, Running
<1>2. /\ DOMAIN handles' = Actors /\ handles' = [q \in Actors |-> handles'[q]]
      /\ \A q \in Actors : q # p => handles'[q] = handles[q]
      /\ DOMAIN handles'[p] = DOMAIN handles[p] \ {a}
      /\ \A b \in DOMAIN handles'[p] : handles'[p][b] = handles[p][b]
      /\ handles'[p] \in [DOMAIN handles'[p] -> Handle]
  BY <1>0, <1>1 DEF ShapeInv, Remove
<1>3. /\ DOMAIN comms' = DOMAIN comms \ {a} /\ alive' = alive \ {a}
      /\ \A b \in DOMAIN comms' : comms'[b] = comms[b]
      /\ comms' \in [DOMAIN comms' -> Entry]
  BY <1>0, <1>1 DEF ShapeInv, Erase, Remove
<1>4. TypeOK'
  BY <1>0, <1>1, <1>2, <1>3 DEF TypeOK, ShapeInv
<1>5. ShapeInv'
  BY <1>0, <1>1, <1>2, <1>3 DEF ShapeInv
<1>6. NamedInv' /\ WaitInv'
  BY <1>0, <1>1, <1>2, <1>3 DEF NamedInv, WaitInv, NoSharing
<1>7. HandleInv'
  BY <1>0, <1>1, <1>2 DEF HandleInv, NoSharing
<1>8. NoSharing => \A q \in Actors : q # p => a \notin DOMAIN handles[q]
  BY <1>0 DEF HandleInv
<1>9. StoreMatchesHandles'
  <2> SUFFICES ASSUME NoSharing
               PROVE  DOMAIN comms' = UNION {DOMAIN handles'[q] : q \in Actors}
    BY DEF StoreMatchesHandles, NoSharing
  <2>1. \A b : b \in DOMAIN comms <=> \E q \in Actors : b \in DOMAIN handles[q]
    BY <1>0, StoreMatches
  <2>2. \A b : b \in DOMAIN comms' <=> \E q \in Actors : b \in DOMAIN handles'[q]
    BY <1>2, <1>3, <1>8, <2>1
  <2> QED
    BY <2>2
<1>10. NamesAreStable'
  BY <1>0, <1>2, <1>3 DEF NamesAreStable, NoSharing
<1>11. ReceivedData'
  <2> SUFFICES ASSUME NoSharing, NoEmptyMessage, NEW q \in Actors,
                      NEW b \in DOMAIN handles'[q], handles'[q][b].dir = "recv"
               PROVE  /\ handles'[q][b].dest = NoPayload <=> comms'[b].buffer
                      /\ handles'[q][b].status = "over" =>
                           handles'[q][b].dest = transfers'[handles'[q][b].transfer].payload
    BY DEF ReceivedData, NoSharing, NoEmptyMessage
  <2>1. b \in DOMAIN handles[q] /\ handles'[q][b] = handles[q][b] /\ b # a
    BY <1>2, <1>8
  <2>2. b \in DOMAIN comms /\ comms'[b] = comms[b]
    BY <1>0, <1>3, <2>1, StoreMatches
  <2> QED
    BY <1>0, <1>1, <2>1, <2>2 DEF ReceivedData
<1>12. AssertionsHold'
  BY <1>0, <1>1 DEF AssertionsHold, NoSharing, NoEmptyMessage
<1> QED
  BY <1>4, <1>5, <1>6, <1>7, <1>9, <1>10, <1>11, <1>12 DEF ClientInv

\* A fork copies the handles of the parent.
LEMMA ForkEffect ==
    ASSUME IndInv, NEW p \in Actors, NEW q \in Actors, Fork(p, q)
    PROVE  ClientInv'
<1>0. /\ ShapeInv /\ TypeOK /\ NamedInv /\ WaitInv /\ HandleInv /\ StoreMatchesHandles
      /\ NamesAreStable /\ ReceivedData /\ AssertionsHold
  BY DEF IndInv, ClientInv
<1>1. /\ error = "none" /\ UNCHANGED <<comms, alive, transfers, mailbox, error>>
      /\ call[q].op = "absent"
      /\ handles' = [handles EXCEPT ![q] = handles[p]]
      /\ call' = [call EXCEPT ![q] = NoCall]
      /\ NoSharing => DOMAIN handles[p] = {} /\ DOMAIN handles[q] = {}
  BY <1>0 DEF Fork, Running, NoSharing, HandleInv
<1>2. /\ DOMAIN handles' = Actors /\ handles' = [r \in Actors |-> handles'[r]]
      /\ handles'[q] = handles[p] /\ \A r \in Actors : r # q => handles'[r] = handles[r]
  BY <1>0, <1>1 DEF ShapeInv
<1>3. /\ DOMAIN call' = Actors /\ call' = [r \in Actors |-> call'[r]]
      /\ call'[q] = NoCall /\ \A r \in Actors : r # q => call'[r] = call[r]
  BY <1>0, <1>1 DEF ShapeInv
<1>4. NoCall.op = "none" /\ DOMAIN NoCall.waits = {}
  BY DEF NoCall, Empty
<1>5. NoSharing => \A r \in Actors : /\ DOMAIN handles'[r] = DOMAIN handles[r]
                                     /\ DOMAIN handles[r] # {} => handles'[r] = handles[r]
  BY <1>1, <1>2
<1>6. TypeOK' /\ ShapeInv'
  BY <1>0, <1>1, <1>2, <1>3 DEF TypeOK, ShapeInv
<1>7. NamedInv' /\ WaitInv'
  BY <1>0, <1>1, <1>2, <1>3, <1>4 DEF NamedInv, WaitInv, NoSharing
<1>8. HandleInv'
  BY <1>0, <1>1, <1>3, <1>4, <1>5 DEF HandleInv, NoSharing
<1>9. StoreMatchesHandles'
  <2> SUFFICES ASSUME NoSharing
               PROVE  DOMAIN comms' = UNION {DOMAIN handles'[r] : r \in Actors}
    BY DEF StoreMatchesHandles, NoSharing
  <2>1. \A b : b \in DOMAIN comms <=> \E r \in Actors : b \in DOMAIN handles[r]
    BY <1>0, StoreMatches
  <2>2. \A b : b \in DOMAIN comms' <=> \E r \in Actors : b \in DOMAIN handles'[r]
    BY <1>1, <1>5, <2>1
  <2> QED
    BY <2>2
<1>10. NamesAreStable'
  BY <1>0, <1>1, <1>5 DEF NamesAreStable, NoSharing
<1>11. ReceivedData'
  BY <1>0, <1>1, <1>5 DEF ReceivedData, NoSharing, NoEmptyMessage
<1>12. AssertionsHold'
  BY <1>0, <1>1 DEF AssertionsHold, NoSharing, NoEmptyMessage
<1> QED
  BY <1>6, <1>7, <1>8, <1>9, <1>10, <1>11, <1>12 DEF ClientInv

----------------------------------------------------------------------------
(* Every step keeps the invariant *)

\* What may go wrong without a failed assertion of the store.
LEMMA AssertionsOf ==
    ASSUME IndInv, error = "none",
           error' \in {"none", "uncaught_exception", "start_asserts"}
    PROVE  AssertionsHold' /\ error' \in Error
  BY DEF AssertionsHold, NoSharing, NoEmptyMessage, Error

\* A client that shares nothing names what the store has.
LEMMA UsableKnown ==
    ASSUME IndInv, NoSharing, NEW p \in Actors, NEW a \in DOMAIN handles[p]
    PROVE  a \in DOMAIN comms /\ comms[a].transfer = handles[p][a].transfer
<1>1. a \in DOMAIN comms
  BY StoreMatches DEF IndInv, ClientInv
<1> QED
  BY <1>1 DEF IndInv, ClientInv, NamesAreStable

\* Nothing that SimGrid does is seen when transfers and mailbox stay the same.
LEMMA NoProgress ==
    ASSUME IndInv, UNCHANGED <<transfers, mailbox>>
    PROVE  MailboxInv' /\ Progress
  BY DEF IndInv, MailboxInv, Progress

\* The decisions of a client.
LEMMA DecisionStep ==
    ASSUME IndInv, NEW p \in Actors, Decision(p) PROVE IndInv'
<1>0. MailboxInv /\ ClientInv
  BY DEF IndInv
<1>1. ASSUME NEW d \in Payloads, MailboxPutAsync(p, d) PROVE IndInv'
  <2>1. PICK a \in Addresses \ alive :
          HandlePutAsync(a, d) /\ NewComm(p, a, "send", PutTransfer)
    BY <1>1 DEF MailboxPutAsync
  <2>2. /\ error = "none" /\ UNCHANGED call /\ call[p].op # "absent"
        /\ IPut(d) /\ StoreComm(a, PutTransfer, FALSE)
    BY <1>1, <2>1 DEF MailboxPutAsync, HandlePutAsync, Running
  <2>3. /\ MailboxInv' /\ Progress /\ PutTransfer \in DOMAIN transfers'
        /\ PutTransfer \in Ids
    BY <1>0, <2>2, PutFacts
  <2>4. StoreComm(a, PutTransfer, "send" = "recv")
    BY <2>2
  <2>5. ClientInv'
    BY <2>1, <2>2, <2>3, <2>4, NewEffect
  <2> QED
    BY <2>3, <2>5 DEF IndInv
<1>2. ASSUME NEW d \in Payloads, MailboxPut(p, d) PROVE IndInv'
  <2> DEFINE c == [op |-> "put", waits |-> [a \in {NoAddress} |-> PutTransfer],
                   timed |-> FALSE]
  <2>1. /\ error = "none" /\ IPut(d) /\ UNCHANGED <<comms, alive, handles, error>>
        /\ call' = [call EXCEPT ![p] = c]
    BY <1>2 DEF MailboxPut, Running, Block
  <2>2. MailboxInv' /\ Progress /\ PutTransfer \in DOMAIN transfers'
    BY <1>0, <2>1, PutFacts
  <2>3. GoodCall(p, c)
    BY <2>2 DEF GoodCall
  <2> HIDE DEF c
  <2>4. ClientInv'
    BY <2>1, <2>2, <2>3, AssertionsOf, CallEffect
  <2> QED
    BY <2>2, <2>4 DEF IndInv
<1>3. CASE MailboxGetAsync(p)
  <2>1. PICK a \in Addresses \ alive :
          HandleGetAsync(a) /\ NewComm(p, a, "recv", GetTransfer)
    BY <1>3 DEF MailboxGetAsync
  <2>2. /\ error = "none" /\ UNCHANGED call /\ call[p].op # "absent"
        /\ IGet /\ StoreComm(a, GetTransfer, TRUE)
    BY <1>3, <2>1 DEF MailboxGetAsync, HandleGetAsync, Running
  <2>3. /\ MailboxInv' /\ Progress /\ GetTransfer \in DOMAIN transfers'
        /\ GetTransfer \in Ids
    BY <1>0, <2>2, GetFacts
  <2>4. StoreComm(a, GetTransfer, "recv" = "recv")
    BY <2>2
  <2>5. ClientInv'
    BY <2>1, <2>2, <2>3, <2>4, NewEffect
  <2> QED
    BY <2>3, <2>5 DEF IndInv
<1>4. CASE MailboxGet(p)
  <2> DEFINE c == [op |-> "get", waits |-> [a \in {NoAddress} |-> GetTransfer],
                   timed |-> FALSE]
  <2>1. /\ error = "none" /\ IGet /\ UNCHANGED <<comms, alive, handles, error>>
        /\ call' = [call EXCEPT ![p] = c]
    BY <1>4 DEF MailboxGet, Running, Block
  <2>2. MailboxInv' /\ Progress /\ GetTransfer \in DOMAIN transfers'
    BY <1>0, <2>1, GetFacts
  <2>3. GoodCall(p, c)
    BY <2>2 DEF GoodCall
  <2> HIDE DEF c
  <2>4. ClientInv'
    BY <2>1, <2>2, <2>3, AssertionsOf, CallEffect
  <2> QED
    BY <2>2, <2>4 DEF IndInv
<1>5. ASSUME NEW A \in SUBSET Usable(p), NEW timed \in BOOLEAN,
             NEW op \in {"wait", "wait_any"}, Running(p),
             IF ~(A \subseteq DOMAIN comms) THEN Unknown
             ELSE Block(p, op, [a \in A |-> comms[a].transfer], timed) /\ error' = error,
             UNCHANGED <<comms, alive, transfers, mailbox, handles>>
      PROVE  IndInv'
  <2>1. MailboxInv' /\ Progress
    BY <1>5, NoProgress
  <2>2. \A a \in A : a \in DOMAIN handles[p] /\ (Careful => handles[p][a].status = "pending")
    BY DEF Usable
  <2>3. CASE ~(A \subseteq DOMAIN comms)
    <3>1. error = "none" /\ error' = "unknown_comm" /\ UNCHANGED call
      BY <1>5, <2>3 DEF Running, Unknown
    <3>2. ~NoSharing
      BY <2>2, <2>3, UsableKnown
    <3>3. error' \in Error /\ AssertionsHold'
      BY <3>1, <3>2 DEF Error, AssertionsHold, NoSharing
    <3>4. ClientInv'
      BY <1>5, <2>1, <3>1, <3>3, CallEffect
    <3> QED
      BY <2>1, <3>4 DEF IndInv
  <2>4. CASE A \subseteq DOMAIN comms
    <3> DEFINE w == [a \in A |-> comms[a].transfer]
               c == [op |-> op, waits |-> w, timed |-> timed]
    <3>1. error = "none" /\ error' = error /\ call' = [call EXCEPT ![p] = c]
      BY <1>5, <2>4 DEF Running, Block
    <3>2. \A a \in A : w[a] \in DOMAIN transfers'
      BY <1>0, <1>5, <2>4 DEF ClientInv, NamedInv
    <3>3. NoSharing => \A a \in A : w[a] = handles[p][a].transfer
      BY <2>2, UsableKnown
    <3>4. c.op = op /\ c.waits = w /\ DOMAIN w = A
      OBVIOUS
    <3> HIDE DEF w, c
    <3>5. GoodCall(p, c)
      BY <2>2, <3>2, <3>3, <3>4 DEF GoodCall
    <3>6. ClientInv'
      BY <1>5, <2>1, <3>1, <3>5, AssertionsOf, CallEffect
    <3> QED
      BY <2>1, <3>6 DEF IndInv
  <2> QED
    BY <2>3, <2>4
<1>6. ASSUME NEW a \in Usable(p), NEW timed \in BOOLEAN, CommWaitFor(p, a, timed)
      PROVE  IndInv'
  <2> DEFINE A == {a}
  <2>1. /\ A \in SUBSET Usable(p) /\ Running(p) /\ "wait" \in {"wait", "wait_any"}
        /\ IF ~(A \subseteq DOMAIN comms) THEN Unknown
           ELSE Block(p, "wait", [b \in A |-> comms[b].transfer], timed) /\ error' = error
        /\ UNCHANGED <<comms, alive, transfers, mailbox, handles>>
    <3>1. [b \in {a} |-> comms[a].transfer] = [b \in A |-> comms[b].transfer]
      OBVIOUS
    <3> QED
      BY <1>6, <3>1 DEF CommWaitFor
  <2> HIDE DEF A
  <2> QED
    BY <1>5, <2>1
<1>7. ASSUME NEW A \in SUBSET Usable(p), NEW timed \in BOOLEAN, CommWaitAnyFor(p, A, timed)
      PROVE  IndInv'
  <2>1. /\ Running(p) /\ "wait_any" \in {"wait", "wait_any"}
        /\ IF ~(A \subseteq DOMAIN comms) THEN Unknown
           ELSE Block(p, "wait_any", [b \in A |-> comms[b].transfer], timed) /\ error' = error
        /\ UNCHANGED <<comms, alive, transfers, mailbox, handles>>
    BY <1>7 DEF CommWaitAnyFor
  <2> QED
    BY <1>5, <2>1
<1>8. ASSUME NEW a \in Usable(p), CommTest(p, a) PROVE IndInv'
  <2>0. /\ error = "none" /\ call[p].op = "none" /\ UNCHANGED <<alive, transfers, mailbox, call>>
        /\ a \in DOMAIN handles[p] /\ (Careful => handles[p][a].status = "pending")
    BY <1>8 DEF CommTest, Running, Usable
  <2>1. MailboxInv' /\ Progress
    BY <2>0, NoProgress
  <2>2. CASE a \notin DOMAIN comms
    <3>1. error' = "unknown_comm" /\ UNCHANGED <<comms, handles>>
      BY <1>8, <2>2 DEF CommTest
    <3>2. error' \in Error /\ AssertionsHold'
      BY <2>0, <2>2, <3>1, UsableKnown DEF Error, AssertionsHold, NoSharing
    <3>3. ClientInv'
      BY <2>0, <2>1, <3>1, <3>2, CallEffect
    <3> QED
      BY <2>1, <3>3 DEF IndInv
  <2>3. CASE a \in DOMAIN comms /\ transfers[comms[a].transfer].state # "done"
    <3>1. error' \in {"none", "uncaught_exception"} /\ UNCHANGED <<comms, handles>>
      BY <1>8, <2>0, <2>3 DEF CommTest
    <3>2. error' \in Error /\ AssertionsHold'
      BY <2>0, <3>1, AssertionsOf
    <3>3. ClientInv'
      BY <2>0, <2>1, <3>1, <3>2, CallEffect
    <3> QED
      BY <2>1, <3>3 DEF IndInv
  <2>4. CASE a \in DOMAIN comms /\ transfers[comms[a].transfer].state = "done"
    <3>1. TransferData(a) /\ Tested(p, a) /\ error' = error
      BY <1>8, <2>4 DEF CommTest
    <3>2. NoSharing => transfers[handles[p][a].transfer].state = "done"
      BY <2>0, <2>4, UsableKnown
    <3>3. ClientInv'
      BY <2>0, <2>4, <3>1, <3>2, OverEffect
    <3> QED
      BY <2>1, <3>3 DEF IndInv
  <2> QED
    BY <2>2, <2>3, <2>4
<1>9. ASSUME NEW a \in Usable(p), CommCancel(p, a) PROVE IndInv'
  <2>0. /\ error = "none" /\ UNCHANGED <<comms, alive, transfers, mailbox, handles, call>>
        /\ error' = (IF a \in DOMAIN comms THEN "start_asserts" ELSE "unknown_comm")
        /\ a \in DOMAIN handles[p]
    BY <1>9 DEF CommCancel, Running, Usable
  <2>1. MailboxInv' /\ Progress
    BY <2>0, NoProgress
  <2>2. error' \in Error /\ AssertionsHold'
    BY <2>0, UsableKnown DEF Error, AssertionsHold, NoSharing
  <2>3. ClientInv'
    BY <2>0, <2>1, <2>2, CallEffect
  <2> QED
    BY <2>1, <2>3 DEF IndInv
<1>10. ASSUME NEW a \in DOMAIN handles[p], CommRefcountDecrease(p, a) PROVE IndInv'
  <2>1. MailboxInv'
    BY <1>10, NoProgress DEF CommRefcountDecrease
  <2> QED
    BY <1>10, <2>1, RemoveEffect DEF IndInv
<1>11. ASSUME NEW q \in Actors, Fork(p, q) PROVE IndInv'
  <2>1. MailboxInv'
    BY <1>11, NoProgress DEF Fork
  <2> QED
    BY <1>11, <2>1, ForkEffect DEF IndInv
<1> QED
  BY <1>1, <1>2, <1>3, <1>4, <1>6, <1>7, <1>8, <1>9, <1>10, <1>11 DEF Decision

\* The decisions that block come back.
LEMMA ReturnStep ==
    ASSUME IndInv, NEW p \in Actors, Return(p) PROVE IndInv'
<1>0. MailboxInv /\ ClientInv /\ NamedInv /\ WaitInv
  BY DEF IndInv, ClientInv
<1>1. CASE MailboxReturns(p)
  <2>1. /\ error = "none" /\ UNCHANGED <<comms, alive, transfers, mailbox, handles>>
        /\ error' \in {"none", "uncaught_exception"}
        /\ call' = call \/ call' = [call EXCEPT ![p] = NoCall]
    BY <1>1 DEF MailboxReturns
  <2>2. MailboxInv' /\ Progress
    BY <2>1, NoProgress
  <2>3. error' \in Error /\ AssertionsHold'
    BY <2>1, AssertionsOf
  <2>4. ClientInv'
    BY <2>1, <2>2, <2>3, NoCallGood, CallEffect
  <2> QED
    BY <2>2, <2>4 DEF IndInv
<1>2. ASSUME NEW a \in DOMAIN call[p].waits, call[p].op \in {"wait", "wait_any"}
      PROVE  /\ a \in DOMAIN handles[p] /\ (Careful => handles[p][a].status = "pending")
             /\ NoSharing => /\ call[p].waits[a] = handles[p][a].transfer
                             /\ a \in DOMAIN comms
                             /\ comms[a].transfer = call[p].waits[a]
  BY <1>0, <1>2, UsableKnown DEF WaitInv
<1>3. CASE CommWaitForReturns(p)
  <2>1. /\ error = "none" /\ call[p].op = "wait" /\ UNCHANGED <<alive, transfers, mailbox>>
        /\ call' = [call EXCEPT ![p] = NoCall]
    BY <1>3 DEF CommWaitForReturns
  <2> DEFINE Back(a) ==
        LET t == call[p].waits[a]
        IN  /\ Ended(t)
            /\ IF transfers[t].state = "timeout"
               THEN /\ handles' = [handles EXCEPT ![p][a].status = "failed"]
                    /\ UNCHANGED <<comms, error>>
               ELSE IF a \notin DOMAIN comms \/ comms[a].transfer # t
               THEN error' = "dangling_iterator" /\ UNCHANGED <<comms, handles>>
               ELSE TransferData(a) /\ ReadData(p, a)
  <2>2. PICK a \in DOMAIN call[p].waits : Back(a)
    BY <1>3 DEF CommWaitForReturns
  <2>3. /\ a \in DOMAIN handles[p] /\ (Careful => handles[p][a].status = "pending")
        /\ NoSharing => /\ call[p].waits[a] = handles[p][a].transfer
                        /\ a \in DOMAIN comms
                        /\ comms[a].transfer = call[p].waits[a]
    BY <1>2, <2>1
  <2>4. MailboxInv' /\ Progress
    BY <2>1, NoProgress
  <2>5. CASE transfers[call[p].waits[a]].state = "timeout"
    <3>1. /\ handles' = [handles EXCEPT ![p][a].status = "failed"]
          /\ UNCHANGED <<comms, error>>
      BY <2>2, <2>5
    <3>2. ClientInv'
      BY <2>1, <2>3, <2>5, <3>1, FailedEffect
    <3> QED
      BY <2>4, <3>2 DEF IndInv
  <2>6. CASE /\ transfers[call[p].waits[a]].state # "timeout"
             /\ a \notin DOMAIN comms \/ comms[a].transfer # call[p].waits[a]
    <3>1. error' = "dangling_iterator" /\ UNCHANGED <<comms, handles>> /\ ~NoSharing
      BY <2>2, <2>3, <2>6
    <3>2. error' \in Error /\ AssertionsHold'
      BY <3>1 DEF Error, AssertionsHold, NoSharing
    <3>3. ClientInv'
      BY <2>1, <2>4, <3>1, <3>2, NoCallGood, CallEffect
    <3> QED
      BY <2>4, <3>3 DEF IndInv
  <2>7. CASE /\ transfers[call[p].waits[a]].state # "timeout"
             /\ a \in DOMAIN comms /\ comms[a].transfer = call[p].waits[a]
    <3>1. TransferData(a) /\ ReadData(p, a) /\ Ended(call[p].waits[a])
      BY <2>2, <2>7
    <3>2. NoSharing => transfers[handles[p][a].transfer].state = "done"
      BY <2>3, <2>7, <3>1 DEF Ended
    <3>3. ClientInv'
      BY <2>1, <2>3, <2>7, <3>1, <3>2, OverEffect
    <3> QED
      BY <2>4, <3>3 DEF IndInv
  <2> QED
    BY <2>5, <2>6, <2>7
<1>4. CASE CommWaitAnyForReturns(p)
  <2>1. /\ error = "none" /\ call[p].op = "wait_any" /\ UNCHANGED <<alive, transfers, mailbox>>
        /\ call' = [call EXCEPT ![p] = NoCall]
    BY <1>4 DEF CommWaitAnyForReturns
  <2> DEFINE Back(a) ==
        /\ Ended(call[p].waits[a])
        /\ IF transfers[call[p].waits[a]].state = "timeout"
           THEN error' = "uncaught_exception" /\ UNCHANGED <<comms, handles>>
           ELSE IF a \notin DOMAIN comms
           THEN error' = "inconsistency" /\ UNCHANGED <<comms, handles>>
           ELSE TransferData(a) /\ ReadData(p, a)
  <2>2. PICK a \in DOMAIN call[p].waits : Back(a)
    BY <1>4 DEF CommWaitAnyForReturns
  <2>3. /\ a \in DOMAIN handles[p] /\ (Careful => handles[p][a].status = "pending")
        /\ NoSharing => /\ call[p].waits[a] = handles[p][a].transfer
                        /\ a \in DOMAIN comms
                        /\ comms[a].transfer = call[p].waits[a]
    BY <1>2, <2>1
  <2>4. MailboxInv' /\ Progress
    BY <2>1, NoProgress
  <2>5. CASE transfers[call[p].waits[a]].state = "timeout" \/ a \notin DOMAIN comms
    <3>1. /\ UNCHANGED <<comms, handles>>
          /\ error' \in {"uncaught_exception", "inconsistency"}
          /\ error' = "inconsistency" => ~NoSharing
      BY <2>2, <2>3, <2>5
    <3>2. error' \in Error /\ AssertionsHold'
      BY <3>1 DEF Error, AssertionsHold, NoSharing
    <3>3. ClientInv'
      BY <2>1, <2>4, <3>1, <3>2, NoCallGood, CallEffect
    <3> QED
      BY <2>4, <3>3 DEF IndInv
  <2>6. CASE transfers[call[p].waits[a]].state # "timeout" /\ a \in DOMAIN comms
    <3>1. TransferData(a) /\ ReadData(p, a) /\ Ended(call[p].waits[a])
      BY <2>2, <2>6
    <3>2. NoSharing => transfers[handles[p][a].transfer].state = "done"
      BY <2>3, <2>6, <3>1 DEF Ended
    <3>3. ClientInv'
      BY <2>1, <2>3, <2>6, <3>1, <3>2, OverEffect
    <3> QED
      BY <2>4, <3>3 DEF IndInv
  <2> QED
    BY <2>5, <2>6
<1>5. CASE CommWaitAnyForTimeout(p)
  <2>1. /\ error = "none" /\ UNCHANGED <<comms, alive, transfers, mailbox, handles, error>>
        /\ call' = [call EXCEPT ![p] = NoCall]
    BY <1>5 DEF CommWaitAnyForTimeout
  <2>2. MailboxInv' /\ Progress
    BY <2>1, NoProgress
  <2>3. error' \in Error /\ AssertionsHold'
    BY <2>1, AssertionsOf
  <2>4. ClientInv'
    BY <2>1, <2>2, <2>3, NoCallGood, CallEffect
  <2> QED
    BY <2>2, <2>4 DEF IndInv
<1> QED
  BY <1>1, <1>3, <1>4, <1>5 DEF Return

\* SimGrid ends a transfer: it is done, or its time is over.
LEMMA EndStep ==
    ASSUME IndInv, error = "none", UNCHANGED <<comms, alive, handles, call, error>>,
           NEW t \in DOMAIN transfers, NEW s \in {"done", "timeout"},
           transfers' = [transfers EXCEPT ![t].state = s],
           \/ s = "done" /\ transfers[t].state = "running" /\ UNCHANGED mailbox
           \/ s = "timeout" /\ ~Ended(t) /\ mailbox' = Only(mailbox, Ids \ {t})
    PROVE  IndInv'
<1>1. MailboxInv' /\ Progress
  BY EndFacts DEF IndInv
<1>2. error' \in Error /\ AssertionsHold'
  BY AssertionsOf
<1>3. ClientInv'
  BY <1>1, <1>2, CallEffect
<1> QED
  BY <1>1, <1>3 DEF IndInv

\* The timeout of a wait_for.
LEMMA TimeoutStep ==
    ASSUME IndInv, NEW p \in Actors, TimeoutReached(p) PROVE IndInv'
<1>1. PICK a \in DOMAIN call[p].waits :
        /\ transfers[call[p].waits[a]].state \in {"waiting", "running"}
        /\ transfers' = [transfers EXCEPT ![call[p].waits[a]].state = "timeout"]
        /\ mailbox' = Only(mailbox, Ids \ {call[p].waits[a]})
  BY DEF TimeoutReached
<1>2. call[p].waits[a] \in DOMAIN transfers
  BY DEF IndInv, ClientInv, NamedInv
<1>3. error = "none" /\ UNCHANGED <<comms, alive, handles, call, error>>
  BY DEF TimeoutReached
<1>4. ~Ended(call[p].waits[a])
  BY <1>1 DEF Ended
<1> QED
  BY <1>1, <1>2, <1>3, <1>4, EndStep

----------------------------------------------------------------------------
(* Theorems *)

\* The invariant holds before any client has done anything.
LEMMA InitInv ==
    ASSUME Init PROVE IndInv
<1>1. /\ comms = Empty /\ alive = {} /\ transfers = <<>> /\ mailbox = <<>>
      /\ handles = [p \in Actors |-> Empty] /\ error = "none"
      /\ DOMAIN call = Actors /\ call = [p \in Actors |-> call[p]]
      /\ \A p \in Actors : call[p] = NoCall \/ call[p] = Absent
  BY DEF Init
<1>2. DOMAIN Empty = {} /\ \A S : Empty \in [{} -> S]
  BY DEF Empty
<1>3. /\ NoCall.op = "none" /\ DOMAIN NoCall.waits = {}
      /\ Absent.op = "absent" /\ DOMAIN Absent.waits = {}
  BY DEF NoCall, Absent, Empty
<1>4. MailboxInv
  BY <1>1 DEF MailboxInv, Distinct, Elements
<1>5. TypeOK /\ ShapeInv
  BY <1>1, <1>2 DEF TypeOK, ShapeInv, Error
<1>6. NamedInv /\ WaitInv /\ HandleInv
  BY <1>1, <1>2, <1>3 DEF NamedInv, WaitInv, HandleInv
<1>7. StoreMatchesHandles /\ NamesAreStable /\ ReceivedData /\ AssertionsHold
  BY <1>1, <1>2 DEF StoreMatchesHandles, NamesAreStable, ReceivedData, AssertionsHold
<1> QED
  BY <1>4, <1>5, <1>6, <1>7 DEF IndInv, ClientInv

\* Whatever does not change the variables keeps the invariant.
LEMMA StutterInv ==
    ASSUME IndInv, UNCHANGED vars PROVE IndInv'
  BY DEF IndInv, MailboxInv, ClientInv, TypeOK, ShapeInv, NamedInv, WaitInv, HandleInv,
         StoreMatchesHandles, NamesAreStable, ReceivedData, AssertionsHold,
         NoSharing, NoEmptyMessage

\* Handles, calls, entries of RefcountStore::comms and transfers of SimGrid stay
\* in the relation IndInv states, whatever the clients do and in any order.
THEOREM Inductive == Spec => []IndInv
<1>1. Init => IndInv
  BY InitInv
<1>2. IndInv /\ [Next]_vars => IndInv'
  <2> SUFFICES ASSUME IndInv, [Next]_vars PROVE IndInv'
    OBVIOUS
  <2>1. ASSUME NEW p \in Actors, Decision(p) PROVE IndInv'
    BY <2>1, DecisionStep
  <2>2. ASSUME NEW p \in Actors, Return(p) PROVE IndInv'
    BY <2>2, ReturnStep
  <2>3. ASSUME NEW p \in Actors, TimeoutReached(p) PROVE IndInv'
    BY <2>3, TimeoutStep
  <2>4. ASSUME NEW t \in DOMAIN transfers, TransferEnds(t) PROVE IndInv'
    BY <2>4, EndStep DEF TransferEnds
  <2>5. CASE UNCHANGED vars
    BY <2>5, StutterInv
  <2> QED
    BY <2>1, <2>2, <2>3, <2>4, <2>5 DEF Next
<1> QED
  BY <1>1, <1>2, PTL DEF Spec

\* Entries, handles and transfers keep their types.
THEOREM TypeCorrect == Spec => []TypeOK
<1>1. IndInv => TypeOK
  BY DEF IndInv, ClientInv
<1> QED
  BY <1>1, Inductive, PTL

\* RefcountStore::comms has an entry for every rsg::Comm of a client and for
\* nothing else, while no process shares one by a fork.
THEOREM StoreExact == Spec => []StoreMatchesHandles
<1>1. IndInv => StoreMatchesHandles
  BY DEF IndInv, ClientInv
<1> QED
  BY <1>1, Inductive, PTL

\* An address names the same communication for the client and for the server,
\* although the allocator of the server reuses the addresses of erased ones.
THEOREM NamesStable == Spec => []NamesAreStable
<1>1. IndInv => NamesAreStable
  BY DEF IndInv, ClientInv
<1> QED
  BY <1>1, Inductive, PTL

\* The reception buffer has the message until the client has it, and a client
\* that knows a reception is over has its message.
THEOREM DataReceived == Spec => []ReceivedData
<1>1. IndInv => ReceivedData
  BY DEF IndInv, ClientInv
<1> QED
  BY <1>1, Inductive, PTL

\* No assertion of the handlers and of rsg::Comm about names and data fails for
\* clients that are careful and share nothing.
THEOREM AssertionsNeverFail == Spec => []AssertionsHold
<1>1. IndInv => AssertionsHold
  BY DEF IndInv, ClientInv
<1> QED
  BY <1>1, Inductive, PTL
=============================================================================
