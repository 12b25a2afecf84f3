---------------------------- MODULE FramingProofs ----------------------------
(***************************************************************************)
(* Proofs about Framing, for any connections, messages, bytes, header size *)
(* and limit.  The argument: memcpy() of a size can be undone, so that     *)
(* a header tells one size only; the bytes on their way, read or not, are  *)
(* the beginning of one message; so what is read in pieces is the header   *)
(* that was written and then the content, and no beginning of a message is *)
(* a message.                                                              *)
(***************************************************************************)
EXTENDS Framing, SequenceTheorems, WellFoundedInduction, TLAPS

----------------------------------------------------------------------------
(* Headers *)

\* What the right shift of an integer and the bits it drops are.
LEMMA DivMod ==
    \A d \in Nat \ {0}, n \in Nat :
        /\ n \div d \in Nat /\ n % d \in Nat /\ n % d < d
        /\ n = d * (n \div d) + (n % d)
  OBVIOUS

\* The quotient is the only number with a remainder below the divisor.
LEMMA QuotientUnique ==
    ASSUME NEW n \in Nat, NEW d \in Nat \ {0}, NEW q \in Nat, NEW r \in Nat,
           n = d * q + r, r < d
    PROVE  n \div d = q
<1>1. n \div d \in Nat /\ n % d \in Nat /\ n % d < d /\ n = d * (n \div d) + (n % d)
  BY DivMod, Zenon
<1>2. ASSUME NEW x \in Nat, NEW y \in Nat, x < y PROVE d * x + d <= d * y
  <2>1. x + 1 <= y
    BY <1>2
  <2>2. d * (x + 1) <= d * y
    BY <2>1
  <2> QED
    BY <2>2
<1> QED
  BY <1>1, <1>2

\* Shifting right by one more byte.
LEMMA ShiftOnce ==
    ASSUME NEW n \in Nat, NEW b \in Nat \ {0}, NEW w \in Nat \ {0}
    PROVE  n \div (b * w) = (n \div w) \div b
<1> DEFINE x == n \div w  r == n % w  q == x \div b  y == x % b
<1>1. x \in Nat /\ r \in Nat /\ r < w /\ n = w * x + r
  BY DivMod
<1> HIDE DEF x, r
<1>2. q \in Nat /\ y \in Nat /\ y < b /\ x = b * q + y
  BY <1>1, DivMod
<1> HIDE DEF q, y
<1>3. n = w * (b * q + y) + r
  BY <1>1, <1>2
<1>4. w * (b * q + y) = (b * w) * q + w * y
  BY <1>2
<1>5. w * y + r \in Nat /\ w * y + r < b * w
  <2>1. y + 1 <= b
    BY <1>2
  <2>2. w * (y + 1) <= w * b
    BY <1>2, <2>1
  <2>3. w * y + w <= b * w
    BY <1>2, <2>2
  <2> QED
    BY <1>1, <1>2, <2>3
<1>6. b * w \in Nat \ {0} /\ n = (b * w) * q + (w * y + r)
  BY <1>1, <1>2, <1>3, <1>4
<1> QED
  BY <1>2, <1>5, <1>6, QuotientUnique DEF q, x

\* Induction over the bytes of a header: a set of numbers has a least one.
LEMMA LeastNumber ==
    ASSUME NEW T, T \subseteq Nat, T # {}
    PROVE  \E k \in T : \A l \in T : ~(l < k)
<1> DEFINE R == OpToRel(<, Nat)
<1>1. PICK k \in T : \A l \in T : ~(<<l, k>> \in R)
  <2>1. IsWellFoundedOn(R, Nat)
    BY NatLessThanWellFounded
  <2> HIDE DEF R
  <2> QED
    BY <2>1, WFMin
<1> QED
  BY <1>1 DEF OpToRel

\* A byte of a header counts, the last one too.
LEMMA WeightPositive == \A i \in 1 .. HeaderSize + 1 : Weight[i] \in Nat \ {0}
<1> DEFINE T == {i \in 1 .. HeaderSize + 1 : Weight[i] = 0}
<1> SUFFICES ASSUME T # {} PROVE FALSE
  BY HeaderAssumption
<1>1. PICK k \in T : \A l \in T : ~(l < k)
  <2>1. T \subseteq Nat
    BY HeaderAssumption
  <2> HIDE DEF T
  <2> QED
    BY <2>1, LeastNumber
<1>2. k # 1 /\ k - 1 \in 1 .. HeaderSize /\ Weight[k - 1] \in Nat
  BY HeaderAssumption
<1>3. Weight[k] = Base * Weight[k - 1]
  <2>1. (k - 1) + 1 = k
    BY <1>2
  <2> QED
    BY <1>2, <2>1, HeaderAssumption
<1>4. Weight[k - 1] # 0
  <2>1. k - 1 \notin T /\ k - 1 \in 1 .. HeaderSize + 1
    BY <1>1, <1>2, HeaderAssumption
  <2> QED
    BY <2>1
<1> QED
  BY <1>2, <1>3, <1>4, HeaderAssumption

\* What memcpy() writes it reads back: a size is told by its bytes.  If two
\* sizes had the same bytes, take the first shift after which they are the same:
\* one byte before, quotient and byte are the same too.
LEMMA BytesTellSize ==
    ASSUME NEW m \in Sizes, NEW n \in Sizes, ToBytes(m) = ToBytes(n) PROVE m = n
<1> DEFINE Top == HeaderSize + 1
           T == {i \in 1 .. Top : m \div Weight[i] = n \div Weight[i]}
<1>0. m \in Nat /\ n \in Nat /\ Top \in Nat /\ HeaderSize \in Nat \ {0}
  BY HeaderAssumption DEF Sizes
<1>1. Top \in T
  <2>1. /\ Weight[Top] \in Nat \ {0} /\ m < Weight[Top] /\ n < Weight[Top]
    BY <1>0, WeightPositive DEF Sizes
  <2>2. m \div Weight[Top] = 0 /\ n \div Weight[Top] = 0
    BY <1>0, <2>1, QuotientUnique
  <2> QED
    BY <1>0, <2>2
<1>2. T \subseteq Nat /\ T # {}
  BY <1>0, <1>1
<1> HIDE DEF T
<1>3. PICK k \in T : \A l \in T : ~(l < k)
  BY <1>2, LeastNumber
<1>4. k \in 1 .. Top /\ m \div Weight[k] = n \div Weight[k]
  BY DEF T
<1>5. CASE k = 1
  <2>1. Weight[1] = 1 /\ m = 1 * m + 0 /\ n = 1 * n + 0
    BY <1>0, HeaderAssumption
  <2>2. m \div 1 = m /\ n \div 1 = n
    BY <1>0, <2>1, QuotientUnique
  <2> QED
    BY <1>4, <1>5, <2>1, <2>2
<1>6. CASE k # 1
  <2> DEFINE j == k - 1  w == Weight[j]
  <2>1. j \in 1 .. HeaderSize /\ j \in 1 .. Top /\ j < k /\ j + 1 = k
    BY <1>0, <1>4, <1>6
  <2>2. w \in Nat \ {0} /\ Weight[k] = Base * w /\ Base \in Nat \ {0}
    BY <2>1, WeightPositive, HeaderAssumption
  <2>3. (m \div w) % Base = (n \div w) % Base
    <3>1. ToBytes(m)[j] = ToBytes(n)[j]
      OBVIOUS
    <3> QED
      BY <2>1, <3>1 DEF ToBytes
  <2> HIDE DEF w
  <2>4. (m \div w) \div Base = (n \div w) \div Base
    <3>1. m \div (Base * w) = n \div (Base * w)
      BY <1>4, <2>2
    <3>2. m \div (Base * w) = (m \div w) \div Base /\ n \div (Base * w) = (n \div w) \div Base
      BY <1>0, <2>2, ShiftOnce, Zenon
    <3> QED
      BY <3>1, <3>2, Zenon
  <2>5. m \div w \in Nat /\ n \div w \in Nat
    BY <1>0, <2>2, DivMod
  <2>6. m \div w = n \div w
    <3> DEFINE x == m \div w  y == n \div w
    <3>1. x \in Nat /\ y \in Nat /\ x % Base = y % Base /\ x \div Base = y \div Base
      BY <2>3, <2>4, <2>5
    <3> HIDE DEF x, y
    <3>2. x = Base * (x \div Base) + (x % Base) /\ y = Base * (y \div Base) + (y % Base)
      BY <2>2, <3>1, DivMod
    <3>3. x = y
      BY <3>1, <3>2
    <3> QED
      BY <3>3 DEF x, y
  <2>7. j \in T
    BY <2>1, <2>6 DEF T, w
  <2> QED
    BY <1>3, <2>1, <2>7
<1> QED
  BY <1>5, <1>6

\* A header is HeaderSize bytes and tells the size it was made for.
LEMMA HeaderTells ==
    ASSUME NEW n \in Sizes
    PROVE  /\ ToBytes(n) \in Seq(Bytes) /\ Len(ToBytes(n)) = HeaderSize
           /\ FromBytes(ToBytes(n)) = n
<1>1. \A i \in 1 .. HeaderSize : (n \div Weight[i]) % Base \in Bytes
  <2> TAKE i \in 1 .. HeaderSize
  <2>1. Weight[i] \in Nat \ {0} /\ n \in Nat /\ Base \in Nat \ {0}
    BY WeightPositive, HeaderAssumption DEF Sizes
  <2>2. n \div Weight[i] \in Nat
    BY <2>1, DivMod
  <2> QED
    BY <2>1, <2>2, DivMod DEF Bytes
<1>2. ToBytes(n) \in [1 .. HeaderSize -> Bytes] /\ HeaderSize \in Nat
  BY <1>1, HeaderAssumption DEF ToBytes
<1>3. FromBytes(ToBytes(n)) \in Sizes /\ ToBytes(FromBytes(ToBytes(n))) = ToBytes(n)
  BY DEF FromBytes
<1>4. FromBytes(ToBytes(n)) = n
  BY <1>3, BytesTellSize
<1> QED
  BY <1>2, <1>4

----------------------------------------------------------------------------
(* The inductive invariant *)

\* The bytes write_message() makes of a message.
Frame(m) == ToBytes(Len(m)) \o m

\* b is the beginning of f.
Begins(b, f) == Len(b) <= Len(f) /\ \A k \in 1 .. Len(b) : b[k] = f[k]

\* The bytes on their way are those of one message, and all of them while its
\* client lives.
StreamInv ==
    \A s \in Streams : InFlight(s) # <<>> =>
        \E m \in Messages : /\ Begins(InFlight(s), Frame(m))
                            /\ up[s] => Len(InFlight(s)) = Len(Frame(m))

\* What has been read of a message: a size that is there is accepted or refused.
Info == [header : Seq(Bytes), content : Seq(Bytes)]

SizeOK(i, ph) ==
    /\ ph = "refused" => HeaderRead(i.header)
    /\ HeaderRead(i.header) =>
         /\ ph \in {"command", "actor"} => FromBytes(i.header) \in 1 .. MaxContentSize - 1
         /\ ph = "refused" => FromBytes(i.header) >= MaxContentSize

SizeInv ==
    /\ info \in [Streams -> Info]
    /\ \A s \in Streams : SizeOK(info[s], phase[s])

\* The command thread turns to connections that have something for it, and stays on
\* one until its command is whole; of the others it has read nothing.
Something(s) == net[s] # <<>> \/ ~up[s]

ReadInv ==
    /\ \A s \in readable : phase[s] = "command" /\ reading # s /\ Something(s)
    /\ \A s \in Streams : reading = s =>
         /\ phase[s] = "command"
         /\ Something(s) \/ info[s].header # <<>>
    /\ \A s \in Streams : phase[s] = "command" /\ reading # s => info[s] = NothingRead

IndInv == TypeOK /\ StreamInv /\ SizeInv /\ ReadInv

USE DEF sockets, vars

----------------------------------------------------------------------------
(* Bytes that move *)

\* Concatenation and the two parts of a sequence, under names the provers do not
\* look into.
Cat(x, y) == x \o y
First(y, n) == SubSeq(y, 1, n)
Rest(y, n) == SubSeq(y, n + 1, Len(y))

\* The bytes of two sequences, one behind the other.
LEMMA CatType ==
    \A x, y \in Seq(Bytes) :
        Cat(x, y) \in Seq(Bytes) /\ Len(Cat(x, y)) = Len(x) + Len(y) /\ Len(x) \in Nat
  BY DEF Cat

\* Bytes may be put together in any order of steps.
LEMMA Associative == \A x, y, z \in Seq(Bytes) : Cat(Cat(x, y), z) = Cat(x, Cat(y, z))
  BY DEF Cat

\* Nothing adds nothing.
LEMMA CatEmpty == \A x \in Seq(Bytes) : Cat(x, <<>>) = x /\ Cat(<<>>, x) = x
  BY ConcatEmptySeq DEF Cat

\* The first n bytes of y are moved to the end of x.
LEMMA Cut ==
    ASSUME NEW A, NEW x \in Seq(A), NEW y \in Seq(A), NEW n \in 1 .. Len(y)
    PROVE  /\ First(y, n) \in Seq(A) /\ Len(First(y, n)) = n
           /\ Rest(y, n) \in Seq(A) /\ Len(Rest(y, n)) = Len(y) - n
           /\ Cat(Cat(x, First(y, n)), Rest(y, n)) = Cat(x, y)
<1> DEFINE p == SubSeq(y, 1, n)
           r == SubSeq(y, n + 1, Len(y))
<1>0. Len(y) \in Nat /\ n \in Nat /\ \A i \in 1 .. Len(y) : y[i] \in A
  BY ElementOfSeq
<1>1. p \in Seq(A) /\ Len(p) = n /\ \A i \in 1 .. n : p[i] = y[i]
  <2>1. \A i \in 1 .. n : y[i] \in A
    BY <1>0
  <2>2. /\ p \in Seq(A) /\ Len(p) = (IF 1 <= n THEN n - 1 + 1 ELSE 0)
        /\ \A i \in 1 .. n - 1 + 1 : p[i] = y[1 + i - 1]
    BY <1>0, <2>1, SubSeqProperties
  <2> QED
    BY <1>0, <2>2
<1>2. r \in Seq(A) /\ Len(r) = Len(y) - n /\ \A i \in 1 .. Len(y) - n : r[i] = y[n + i]
  <2>1. \A i \in n + 1 .. Len(y) : y[i] \in A
    BY <1>0
  <2>2. /\ r \in Seq(A) /\ Len(r) = (IF n + 1 <= Len(y) THEN Len(y) - (n + 1) + 1 ELSE 0)
        /\ \A i \in 1 .. Len(y) - (n + 1) + 1 : r[i] = y[n + 1 + i - 1]
    BY <1>0, <2>1, SubSeqProperties
  <2> QED
    BY <1>0, <2>2
<1> HIDE DEF p, r
<1>3. p \o r = y
  <2>1. /\ p \o r \in Seq(A) /\ Len(p \o r) = Len(p) + Len(r)
        /\ \A i \in 1 .. Len(p) + Len(r) : (p \o r)[i] = IF i <= Len(p) THEN p[i] ELSE r[i - Len(p)]
    BY <1>1, <1>2, ConcatProperties
  <2>2. ASSUME NEW i \in 1 .. Len(y) PROVE (p \o r)[i] = y[i]
    <3>1. CASE i <= n
      BY <1>0, <1>1, <1>2, <2>1, <3>1
    <3>2. CASE ~(i <= n)
      <4>1. i - n \in 1 .. Len(y) - n /\ n + (i - n) = i
        BY <1>0, <3>2
      <4> QED
        BY <1>0, <1>1, <1>2, <2>1, <3>2, <4>1
    <3> QED
      BY <3>1, <3>2
  <2>3. Len(p \o r) = Len(y)
    BY <1>0, <1>1, <1>2, <2>1
  <2> QED
    BY <2>1, <2>2, <2>3, SeqEqual
<1>4. (x \o p) \o r = x \o (p \o r)
  <2>1. x \in Seq(A) /\ p \in Seq(A) /\ r \in Seq(A)
    BY <1>1, <1>2
  <2> QED
    BY ONLY <2>1, SMT
<1> QED
  BY <1>1, <1>2, <1>3, <1>4 DEF p, r, Cat, First, Rest

\* What is read of a message tells its size, and is the message when it is as
\* long; then nothing is left.
LEMMA FrameParts ==
    ASSUME NEW m \in Messages, NEW h \in Seq(Bytes), NEW c \in Seq(Bytes), NEW r \in Seq(Bytes),
           Begins(Cat(Cat(h, c), r), Frame(m)), Len(h) = HeaderSize
    PROVE  /\ h = ToBytes(Len(m)) /\ FromBytes(h) = Len(m) /\ Len(c) <= Len(m)
           /\ Len(c) = Len(m) => c = m /\ r = <<>>
           /\ Len(Cat(Cat(h, c), r)) = HeaderSize + Len(c) + Len(r)
<1> USE DEF Cat
<1> DEFINE b == (h \o c) \o r  t == ToBytes(Len(m))  f == Frame(m)
<1>0. /\ m \in Seq(Bytes) /\ Len(m) \in Sizes /\ HeaderSize \in Nat
      /\ Len(c) \in Nat /\ Len(r) \in Nat /\ Len(m) \in Nat
  BY FramingAssumption, HeaderAssumption
<1>1. t \in Seq(Bytes) /\ Len(t) = HeaderSize /\ FromBytes(t) = Len(m)
  BY <1>0, HeaderTells
<1> HIDE DEF t
<1>2. /\ f \in Seq(Bytes) /\ Len(f) = HeaderSize + Len(m)
      /\ \A k \in 1 .. HeaderSize + Len(m) : f[k] = IF k <= HeaderSize THEN t[k] ELSE m[k - HeaderSize]
  <2>1. f = t \o m
    BY DEF Frame, t
  <2> HIDE DEF f
  <2>2. /\ t \o m \in Seq(Bytes) /\ Len(t \o m) = Len(t) + Len(m)
        /\ \A k \in 1 .. Len(t) + Len(m) : (t \o m)[k] = IF k <= Len(t) THEN t[k] ELSE m[k - Len(t)]
    BY <1>0, <1>1, ConcatProperties
  <2> QED
    BY <1>0, <1>1, <2>1, <2>2
<1>3. /\ h \o c \in Seq(Bytes) /\ Len(h \o c) = HeaderSize + Len(c)
      /\ \A k \in 1 .. HeaderSize + Len(c) :
           (h \o c)[k] = IF k <= HeaderSize THEN h[k] ELSE c[k - HeaderSize]
  BY ConcatProperties
<1>4. /\ b \in Seq(Bytes) /\ Len(b) = HeaderSize + Len(c) + Len(r)
      /\ \A k \in 1 .. HeaderSize + Len(c) : b[k] = (h \o c)[k]
  <2>1. /\ b \in Seq(Bytes) /\ Len(b) = Len(h \o c) + Len(r)
        /\ \A k \in 1 .. Len(h \o c) + Len(r) :
             b[k] = IF k <= Len(h \o c) THEN (h \o c)[k] ELSE r[k - Len(h \o c)]
    BY <1>3, ConcatProperties
  <2> QED
    BY <1>0, <1>3, <2>1
<1>5. Len(b) <= Len(f) /\ \A k \in 1 .. Len(b) : b[k] = f[k]
  BY DEF Begins
<1> HIDE DEF b, f
<1>6. \A k \in 1 .. HeaderSize : h[k] = t[k]
  <2> TAKE k \in 1 .. HeaderSize
  <2>1. k \in 1 .. HeaderSize + Len(c) /\ k \in 1 .. Len(b) /\ k \in 1 .. HeaderSize + Len(m) /\ k <= HeaderSize
    BY <1>0, <1>4
  <2> QED
    BY <1>2, <1>3, <1>4, <1>5, <2>1
<1>7. h = t
  BY <1>1, <1>6, SeqEqual
<1>8. Len(c) <= Len(m) /\ Len(c) + Len(r) <= Len(m)
  BY <1>0, <1>2, <1>4, <1>5
<1>9. ASSUME Len(c) = Len(m) PROVE c = m /\ r = <<>>
  <2>1. \A k \in 1 .. Len(c) : c[k] = m[k]
    <3> TAKE k \in 1 .. Len(c)
    <3> DEFINE j == HeaderSize + k
    <3>1. /\ j \in 1 .. HeaderSize + Len(c) /\ j \in 1 .. Len(b) /\ j \in 1 .. HeaderSize + Len(m)
          /\ ~(j <= HeaderSize) /\ j - HeaderSize = k
      BY <1>0, <1>4, <1>9
    <3> HIDE DEF j
    <3> QED
      BY <1>2, <1>3, <1>4, <1>5, <3>1
  <2>2. Len(r) = 0
    BY <1>0, <1>8, <1>9
  <2> QED
    BY <1>0, <1>9, <2>1, <2>2, SeqEqual, EmptySeq
<1> QED
  BY <1>1, <1>4, <1>7, <1>8, <1>9 DEF t, b

\* The four places where bytes of a message are.
LEMMA Parts ==
    ASSUME TypeOK, SizeInv, NEW s \in Streams
    PROVE  /\ info[s] \in Info /\ net[s] \in Seq(Bytes) /\ out[s] \in Seq(Bytes)
           /\ info[s].header \in Seq(Bytes) /\ info[s].content \in Seq(Bytes)
           /\ info[s] = [header |-> info[s].header, content |-> info[s].content]
           /\ InFlight(s) \in Seq(Bytes)
           /\ InFlight(s) = Cat(Cat(Cat(info[s].header, info[s].content), net[s]), out[s])
           /\ Len(InFlight(s)) =
                Len(info[s].header) + Len(info[s].content) + Len(net[s]) + Len(out[s])
<1> DEFINE h == info[s].header  c == info[s].content  x == net[s]  y == out[s]
<1>1. info[s] \in Info /\ x \in Seq(Bytes) /\ y \in Seq(Bytes)
  BY DEF TypeOK, SizeInv
<1>2. h \in Seq(Bytes) /\ c \in Seq(Bytes) /\ info[s] = [header |-> h, content |-> c]
  BY <1>1 DEF Info
<1>3. InFlight(s) = Cat(Cat(Cat(h, c), x), y)
  BY DEF InFlight, Cat
<1> HIDE DEF h, c, x, y
<1>4. /\ Cat(Cat(Cat(h, c), x), y) \in Seq(Bytes)
      /\ Len(Cat(Cat(Cat(h, c), x), y)) = Len(h) + Len(c) + Len(x) + Len(y)
  <2>1. Cat(h, c) \in Seq(Bytes) /\ Len(Cat(h, c)) = Len(h) + Len(c)
    BY <1>2, CatType, Associative
  <2>2. Cat(Cat(h, c), x) \in Seq(Bytes) /\ Len(Cat(Cat(h, c), x)) = Len(h) + Len(c) + Len(x)
    BY <1>1, <2>1, CatType, Associative
  <2> QED
    BY <1>1, <2>2, CatType, Associative
<1> QED
  BY <1>1, <1>2, <1>3, <1>4 DEF h, c, x, y

\* No byte is on its way when there is none in any place.
LEMMA NoBytes ==
    ASSUME TypeOK, SizeInv, NEW s \in Streams
    PROVE  InFlight(s) = <<>> <=>
             /\ info[s].header = <<>> /\ info[s].content = <<>>
             /\ net[s] = <<>> /\ out[s] = <<>>
<1> DEFINE h == info[s].header  c == info[s].content  x == net[s]  y == out[s]  b == InFlight(s)
<1>1. /\ h \in Seq(Bytes) /\ c \in Seq(Bytes) /\ x \in Seq(Bytes) /\ y \in Seq(Bytes)
      /\ b \in Seq(Bytes) /\ Len(b) = Len(h) + Len(c) + Len(x) + Len(y)
  BY Parts
<1> HIDE DEF h, c, x, y, b
<1>2. \A z \in Seq(Bytes) : Len(z) \in Nat /\ (z = <<>> <=> Len(z) = 0)
  BY EmptySeq
<1>3. b = <<>> <=> h = <<>> /\ c = <<>> /\ x = <<>> /\ y = <<>>
  BY <1>1, <1>2
<1> QED
  BY <1>3 DEF h, c, x, y, b

\* ::recv() gives some of the bytes that are there, and no more than asked for.
LEMMA RecvTakes ==
    ASSUME NEW a \in Nat, NEW b \in Nat, NEW n \in 1 .. Min({a, b})
    PROVE  n \in 1 .. a /\ n \in 1 .. b
<1>1. \E x \in {a, b} : \A y \in {a, b} : x <= y
  <2>1. CASE a <= b
    BY <2>1
  <2>2. CASE ~(a <= b)
    BY <2>2
  <2> QED
    BY <2>1, <2>2
<1>2. Min({a, b}) \in {a, b} /\ \A y \in {a, b} : Min({a, b}) <= y
  BY <1>1 DEF Min
<1> HIDE DEF Min
<1> QED
  BY <1>2

\* A recv() on the header, with the bytes it takes.
LEMMA HeaderStep ==
    ASSUME TypeOK, SizeInv, NEW s \in Streams, RecvHeader(s)
    PROVE  \E n \in 1 .. Len(net[s]) :
             LET h == Cat(info[s].header, First(net[s], n))
                 i == [header |-> h, content |-> <<>>]
             IN  /\ info[s].content = <<>> /\ n <= HeaderSize - Len(info[s].header)
                 /\ net' = [net EXCEPT ![s] = Rest(net[s], n)]
                 /\ out' = out /\ up' = up /\ readable' = readable /\ over' = over
                 /\ \/ /\ ~HeaderRead(h) /\ info' = [info EXCEPT ![s] = i]
                       /\ reading' = reading /\ phase' = phase /\ delivered' = delivered /\ error' = error
                    \/ /\ HeaderRead(h) /\ ~SizeAccepted(FromBytes(h))
                       /\ info' = [info EXCEPT ![s] = i] /\ Fail(s, "refused")
                    \/ /\ HeaderRead(h) /\ SizeAccepted(FromBytes(h)) /\ FromBytes(h) = 0
                       /\ Deliver(s, i)
                    \/ /\ HeaderRead(h) /\ SizeAccepted(FromBytes(h)) /\ FromBytes(h) # 0
                       /\ info' = [info EXCEPT ![s] = i]
                       /\ phase' = phase /\ delivered' = delivered /\ reading' = reading /\ error' = error
<1>1. /\ info[s] = [header |-> info[s].header, content |-> <<>>]
      /\ Len(info[s].header) \in Nat /\ HeaderSize - Len(info[s].header) \in Nat
      /\ Len(net[s]) \in Nat /\ info[s].content = <<>>
  <2>1. ~HeaderRead(info[s].header)
    BY DEF RecvHeader
  <2>2. info[s].content = <<>> /\ Len(info[s].header) <= HeaderSize /\ HeaderSize \in Nat
    BY <2>1, HeaderAssumption DEF TypeOK
  <2>3. Len(info[s].header) \in Nat /\ Len(net[s]) \in Nat
    BY Parts
  <2>4. info[s] = [header |-> info[s].header, content |-> info[s].content]
    BY Parts
  <2>5. info[s] = [header |-> info[s].header, content |-> <<>>]
    BY <2>2, <2>4
  <2>6. HeaderSize - Len(info[s].header) \in Nat
    BY <2>2, <2>3
  <2> QED
    BY <2>2, <2>3, <2>5, <2>6
<1>2. PICK n \in 1 .. Min({HeaderSize - Len(info[s].header), Len(net[s])}) :
        LET p == SubSeq(net[s], 1, n)
            i == [info[s] EXCEPT !.header = AddToHeader(@, p)]
        IN  /\ net' = [net EXCEPT ![s] = SubSeq(@, n + 1, Len(@))]
            /\ IF ~HeaderRead(i.header)
               THEN /\ info' = [info EXCEPT ![s] = i]
                    /\ StayOnSocket(s) /\ UNCHANGED <<phase, delivered, error>>
               ELSE IF ~SizeAccepted(FromBytes(i.header))
               THEN info' = [info EXCEPT ![s] = i] /\ Fail(s, "refused")
               ELSE IF ContentIsEmpty(FromBytes(i.header)) THEN Deliver(s, i)
               ELSE /\ info' = [info EXCEPT ![s] = i]
                    /\ UNCHANGED <<phase, delivered, reading, error>>
  BY DEF RecvHeader, Recv, Takes
<1>3. n \in 1 .. HeaderSize - Len(info[s].header) /\ n \in 1 .. Len(net[s])
  BY <1>1, RecvTakes
<1> DEFINE p == SubSeq(net[s], 1, n)
           h == info[s].header \o p
           i == [header |-> h, content |-> <<>>]
<1>4. [info[s] EXCEPT !.header = AddToHeader(@, p)] = i /\ i.header = h
  <2>1. \A x : \A y : [[header |-> x, content |-> <<>>] EXCEPT !.header = y] =
                      [header |-> y, content |-> <<>>]
    OBVIOUS
  <2>2. [info[s] EXCEPT !.header = h] = i
    BY <1>1, <2>1
  <2> QED
    BY <2>2 DEF AddToHeader
<1>5. /\ net' = [net EXCEPT ![s] = SubSeq(net[s], n + 1, Len(net[s]))]
      /\ IF ~HeaderRead(h)
         THEN /\ info' = [info EXCEPT ![s] = i]
              /\ StayOnSocket(s) /\ UNCHANGED <<phase, delivered, error>>
         ELSE IF ~SizeAccepted(FromBytes(h))
         THEN info' = [info EXCEPT ![s] = i] /\ Fail(s, "refused")
         ELSE IF ContentIsEmpty(FromBytes(h)) THEN Deliver(s, i)
         ELSE /\ info' = [info EXCEPT ![s] = i]
              /\ UNCHANGED <<phase, delivered, reading, error>>
  <2>1. net \in [Streams -> Seq(Bytes)]
    BY DEF TypeOK
  <2> QED
    BY <1>2, <1>4, <2>1
<1>6. out' = out /\ up' = up /\ readable' = readable /\ over' = over
  BY DEF RecvHeader
<1> HIDE DEF p, h, i
<1>7. \/ /\ ~HeaderRead(h) /\ info' = [info EXCEPT ![s] = i]
         /\ reading' = reading /\ phase' = phase /\ delivered' = delivered /\ error' = error
      \/ /\ HeaderRead(h) /\ ~SizeAccepted(FromBytes(h))
         /\ info' = [info EXCEPT ![s] = i] /\ Fail(s, "refused")
      \/ /\ HeaderRead(h) /\ SizeAccepted(FromBytes(h)) /\ FromBytes(h) = 0
         /\ Deliver(s, i)
      \/ /\ HeaderRead(h) /\ SizeAccepted(FromBytes(h)) /\ FromBytes(h) # 0
         /\ info' = [info EXCEPT ![s] = i]
         /\ phase' = phase /\ delivered' = delivered /\ reading' = reading /\ error' = error
  BY <1>5, Zenon DEF ContentIsEmpty, StayOnSocket
<1>8. n <= HeaderSize - Len(info[s].header)
  BY <1>3
<1> QED
  BY <1>1, <1>3, <1>5, <1>6, <1>7, <1>8 DEF p, h, i, Cat, First, Rest

\* A recv() on the content, with the bytes it takes.
LEMMA ContentStep ==
    ASSUME TypeOK, SizeInv, NEW s \in Streams, RecvContent(s), FromBytes(info[s].header) \in Nat
    PROVE  \E n \in 1 .. Len(net[s]) :
             LET size == FromBytes(info[s].header)
                 c == Cat(info[s].content, First(net[s], n))
                 i == [header |-> info[s].header, content |-> c]
             IN  /\ HeaderRead(info[s].header) /\ n <= size - Len(info[s].content)
                 /\ net' = [net EXCEPT ![s] = Rest(net[s], n)]
                 /\ out' = out /\ up' = up /\ readable' = readable /\ over' = over
                 /\ \/ Len(c) = size /\ Deliver(s, i)
                    \/ /\ Len(c) # size /\ info' = [info EXCEPT ![s] = i]
                       /\ reading' = reading /\ phase' = phase /\ delivered' = delivered /\ error' = error
<1> DEFINE size == FromBytes(info[s].header)
<1>1. info[s] \in Info /\ Len(info[s].content) \in Nat /\ Len(net[s]) \in Nat
  <2>1. info[s] \in Info /\ info[s].content \in Seq(Bytes) /\ net[s] \in Seq(Bytes)
    BY Parts, Zenon
  <2> QED
    BY <2>1
<1>2. PICK n \in 1 .. Min({size - Len(info[s].content), Len(net[s])}) :
        LET p == SubSeq(net[s], 1, n)
            i == [info[s] EXCEPT !.content = @ \o p]
        IN  /\ net' = [net EXCEPT ![s] = SubSeq(@, n + 1, Len(@))]
            /\ IF Len(i.content) = size THEN Deliver(s, i)
               ELSE /\ info' = [info EXCEPT ![s] = i]
                    /\ StayOnSocket(s) /\ UNCHANGED <<phase, delivered, error>>
  BY DEF RecvContent, Recv, Takes
<1>3. HeaderRead(info[s].header) /\ out' = out /\ up' = up /\ readable' = readable /\ over' = over
  BY DEF RecvContent
<1>4. size - Len(info[s].content) \in Nat
  <2>1. info[s].content # <<>> => Len(info[s].content) < size
    BY DEF TypeOK
  <2>2. info[s].content = <<>> => Len(info[s].content) = 0
    BY Parts, EmptySeq
  <2> HIDE DEF size
  <2>3. size \in Nat
    BY DEF size
  <2> QED
    BY <1>1, <2>1, <2>2, <2>3
<1> HIDE DEF size
<1>5. n \in 1 .. size - Len(info[s].content) /\ n \in 1 .. Len(net[s])
  BY <1>1, <1>4, RecvTakes
<1> DEFINE p == SubSeq(net[s], 1, n)
           c == info[s].content \o p
           i == [header |-> info[s].header, content |-> c]
<1>6. [info[s] EXCEPT !.content = @ \o p] = i /\ i.content = c
  <2>1. \A r \in Info : \A z : [r EXCEPT !.content = z] = [header |-> r.header, content |-> z]
    BY DEF Info
  <2>2. [info[s] EXCEPT !.content = c] = i
    BY <1>1, <2>1, Zenon
  <2> QED
    BY <2>2
<1>7. /\ net' = [net EXCEPT ![s] = SubSeq(net[s], n + 1, Len(net[s]))]
      /\ IF Len(c) = size THEN Deliver(s, i)
         ELSE /\ info' = [info EXCEPT ![s] = i]
              /\ StayOnSocket(s) /\ UNCHANGED <<phase, delivered, error>>
  <2>1. net \in [Streams -> Seq(Bytes)]
    BY DEF TypeOK
  <2> QED
    BY <1>2, <1>6, <2>1
<1> HIDE DEF p, c, i
<1>8. \/ Len(c) = size /\ Deliver(s, i)
      \/ /\ Len(c) # size /\ info' = [info EXCEPT ![s] = i]
         /\ reading' = reading /\ phase' = phase /\ delivered' = delivered /\ error' = error
  BY <1>7, Zenon DEF StayOnSocket
<1>9. n <= size - Len(info[s].content)
  BY <1>5
<1> QED
  BY <1>3, <1>5, <1>7, <1>8, <1>9 DEF p, c, i, size, Cat, First, Rest

----------------------------------------------------------------------------
(* What a step does to the bytes on their way *)

\* They stay as they are, wherever they are now.
Kept == delivered' = delivered /\ \A t \in Streams : InFlight(t)' = InFlight(t)

\* A message is there whole, its handler has it, and nothing of it is left.
Arrives(s, m) ==
    /\ InFlight(s) = Frame(m) /\ InFlight(s)' = <<>> /\ Len(m) < MaxContentSize
    /\ \A t \in Streams \ {s} : InFlight(t)' = InFlight(t)
    /\ delivered' = [delivered EXCEPT ![s] = Append(@, m)]

\* A step on one connection changes nothing of the others.
LEMMA Elsewhere ==
    ASSUME TypeOK, SizeInv, NEW s \in Streams, NEW t \in Streams \ {s},
           out' = out \/ \E x : out' = [out EXCEPT ![s] = x],
           net' = net \/ \E x : net' = [net EXCEPT ![s] = x],
           info' = info \/ \E x : info' = [info EXCEPT ![s] = x]
    PROVE  InFlight(t)' = InFlight(t) /\ info'[t] = info[t] /\ net'[t] = net[t] /\ out'[t] = out[t]
<1>1. out'[t] = out[t] /\ net'[t] = net[t] /\ info'[t] = info[t]
  BY DEF TypeOK, SizeInv
<1> QED
  BY <1>1 DEF InFlight

\* Bytes of a message are the beginning of the whole.
LEMMA Prefix ==
    ASSUME NEW x \in Seq(Bytes), NEW y \in Seq(Bytes), NEW f, Len(f) \in Nat, Begins(x \o y, f)
    PROVE  Begins(x, f)
<1>1. /\ Len(x \o y) = Len(x) + Len(y) /\ Len(x) \in Nat /\ Len(y) \in Nat
      /\ \A k \in 1 .. Len(x) + Len(y) : (x \o y)[k] = IF k <= Len(x) THEN x[k] ELSE y[k - Len(x)]
  BY ConcatProperties
<1>2. Len(x \o y) <= Len(f) /\ \A k \in 1 .. Len(x \o y) : (x \o y)[k] = f[k]
  BY DEF Begins
<1>3. \A k \in 1 .. Len(x) : x[k] = f[k]
  <2> TAKE k \in 1 .. Len(x)
  <2>1. k \in 1 .. Len(x) + Len(y) /\ k \in 1 .. Len(x \o y) /\ k <= Len(x)
    BY <1>1
  <2> QED
    BY <1>1, <1>2, <2>1
<1> QED
  BY <1>1, <1>2, <1>3 DEF Begins

\* The beginning of a message that is as long as the message is the message.
LEMMA Whole ==
    ASSUME NEW m \in Messages, NEW b \in Seq(Bytes), Begins(b, Frame(m)), Len(b) = Len(Frame(m))
    PROVE  b = Frame(m)
<1>1. Frame(m) \in Seq(Bytes)
  <2>1. m \in Seq(Bytes) /\ Len(m) \in Sizes
    BY FramingAssumption
  <2>2. ToBytes(Len(m)) \in Seq(Bytes)
    BY <2>1, HeaderTells
  <2> QED
    BY <2>1, <2>2, ConcatProperties DEF Frame
<1>2. \A k \in 1 .. Len(b) : b[k] = Frame(m)[k]
  BY DEF Begins
<1> QED
  BY <1>1, <1>2, SeqEqual

\* The size of what is sent for a message.
LEMMA FrameSize ==
    ASSUME NEW m \in Messages
    PROVE  /\ m \in Seq(Bytes) /\ Len(m) \in Nat /\ Frame(m) \in Seq(Bytes)
           /\ Len(Frame(m)) = HeaderSize + Len(m) /\ Begins(Frame(m), Frame(m))
<1>1. m \in Seq(Bytes) /\ Len(m) \in Sizes /\ Len(m) \in Nat
  BY FramingAssumption
<1>2. ToBytes(Len(m)) \in Seq(Bytes) /\ Len(ToBytes(Len(m))) = HeaderSize
  BY <1>1, HeaderTells
<1>3. Frame(m) \in Seq(Bytes) /\ Len(Frame(m)) = HeaderSize + Len(m)
  BY <1>1, <1>2, ConcatProperties DEF Frame
<1> QED
  BY <1>1, <1>3, HeaderAssumption DEF Begins

\* The bytes of a header or of a content that are read are where they were among
\* the bytes on their way.
LEMMA HeaderBytes ==
    ASSUME NEW h \in Seq(Bytes), NEW y \in Seq(Bytes), NEW o \in Seq(Bytes), NEW n \in 1 .. Len(y)
    PROVE  LET g == Cat(h, First(y, n))
               r == Rest(y, n)
           IN  /\ r \in Seq(Bytes) /\ g \in Seq(Bytes) /\ Cat(r, o) \in Seq(Bytes)
               /\ Len(g) = Len(h) + n
               /\ Cat(Cat(Cat(h, <<>>), y), o) = Cat(Cat(Cat(g, <<>>), r), o)
               /\ Cat(Cat(Cat(h, <<>>), y), o) = Cat(Cat(g, <<>>), Cat(r, o))
<1> DEFINE p == First(y, n)  g == Cat(h, p)  r == Rest(y, n)
<1>1. p \in Seq(Bytes) /\ Len(p) = n /\ r \in Seq(Bytes) /\ Cat(g, r) = Cat(h, y)
  BY Cut
<1> HIDE DEF p, r
<1>2. g \in Seq(Bytes) /\ Len(g) = Len(h) + n /\ Cat(r, o) \in Seq(Bytes)
  BY ONLY <1>1, CatType DEF g
<1>3. Cat(h, <<>>) = h /\ Cat(g, <<>>) = g
  BY <1>2, CatEmpty
<1> HIDE DEF g
<1>4. Cat(Cat(g, r), o) = Cat(g, Cat(r, o))
  BY <1>1, <1>2, CatType, Associative
<1> QED
  BY <1>1, <1>2, <1>3, <1>4 DEF g, p, r

\* The same for the content, behind a header that is read.
LEMMA ContentBytes ==
    ASSUME NEW h \in Seq(Bytes), NEW c \in Seq(Bytes), NEW y \in Seq(Bytes), NEW o \in Seq(Bytes),
           NEW n \in 1 .. Len(y)
    PROVE  LET d == Cat(c, First(y, n))
               r == Rest(y, n)
           IN  /\ r \in Seq(Bytes) /\ d \in Seq(Bytes) /\ Cat(r, o) \in Seq(Bytes)
               /\ Len(d) = Len(c) + n
               /\ Cat(Cat(Cat(h, c), y), o) = Cat(Cat(Cat(h, d), r), o)
               /\ Cat(Cat(Cat(h, c), y), o) = Cat(Cat(h, d), Cat(r, o))
<1> DEFINE p == First(y, n)  d == Cat(c, p)  r == Rest(y, n)  x == Cat(h, c)
<1>1. x \in Seq(Bytes)
  BY CatType
<1>2. p \in Seq(Bytes) /\ Len(p) = n /\ r \in Seq(Bytes) /\ Cat(Cat(x, p), r) = Cat(x, y)
  <2> HIDE DEF x
  <2> QED
    BY <1>1, Cut
<1> HIDE DEF p, r
<1>3. /\ d \in Seq(Bytes) /\ Len(d) = Len(c) + n /\ Cat(r, o) \in Seq(Bytes)
      /\ Cat(x, p) = Cat(h, d)
  <2>1. d \in Seq(Bytes) /\ Len(d) = Len(c) + n /\ Cat(r, o) \in Seq(Bytes)
    BY ONLY <1>2, CatType DEF d
  <2> QED
    BY <1>2, <2>1, Associative
<1>4. Cat(h, d) \in Seq(Bytes)
  BY <1>3, CatType, Associative
<1> HIDE DEF d, x
<1>5. Cat(Cat(Cat(h, d), r), o) = Cat(Cat(h, d), Cat(r, o))
  BY <1>2, <1>4, CatType, Associative
<1> QED
  BY <1>2, <1>3, <1>5 DEF d, p, r, x

\* A message that is sent moves from the client to the kernel.
LEMMA SentBytes ==
    ASSUME NEW x \in Seq(Bytes), NEW y \in Seq(Bytes), NEW o \in Seq(Bytes), NEW n \in 1 .. Len(o)
    PROVE  /\ Cat(y, First(o, n)) \in Seq(Bytes) /\ Cat(y, First(o, n)) # <<>>
           /\ Rest(o, n) \in Seq(Bytes)
           /\ Cat(Cat(x, y), o) = Cat(Cat(x, Cat(y, First(o, n))), Rest(o, n))
<1> DEFINE p == First(o, n)  r == Rest(o, n)  z == Cat(x, y)
<1>1. z \in Seq(Bytes) /\ n # 0 /\ n \in Nat /\ Len(y) \in Nat
  BY CatType
<1>2. p \in Seq(Bytes) /\ Len(p) = n /\ r \in Seq(Bytes) /\ Cat(Cat(z, p), r) = Cat(z, o)
  <2> HIDE DEF z
  <2> QED
    BY <1>1, Cut
<1> HIDE DEF p, r
<1>3. Cat(y, p) \in Seq(Bytes) /\ Cat(z, p) = Cat(x, Cat(y, p)) /\ Len(Cat(y, p)) = Len(y) + n
  <2>1. Cat(y, p) \in Seq(Bytes) /\ Len(Cat(y, p)) = Len(y) + n
    BY ONLY <1>2, CatType
  <2> QED
    BY <1>2, <2>1, Associative
<1>4. Cat(y, p) # <<>>
  <2>1. Len(Cat(y, p)) # 0
    BY <1>1, <1>3
  <2> QED
    BY <2>1
<1> QED
  BY <1>2, <1>3, <1>4 DEF p, r

\* How the server ends.
Errors == {"none", "refused", "lost", "finished"}

\* The information of a connection after a step, and types.
InfoOK(i) ==
    /\ i \in Info /\ Len(i.header) <= HeaderSize
    /\ i.content # <<>> => HeaderRead(i.header) /\ Len(i.content) < FromBytes(i.header)

\* A step that leaves good information on one connection keeps the types.
LEMMA NewInfo ==
    ASSUME TypeOK, SizeInv, NEW s \in Streams, NEW i, NEW ph \in {"command", "actor", "refused", "lost"},
           InfoOK(i), SizeOK(i, ph),
           info' = [info EXCEPT ![s] = i], phase' = [phase EXCEPT ![s] = ph],
           out' \in [Streams -> Seq(Bytes)], net' \in [Streams -> Seq(Bytes)], up' \in [Streams -> BOOLEAN],
           delivered' \in [Streams -> Seq(Messages)], readable' \subseteq Streams,
           reading' \in Streams \cup {NoStream}, over' \in BOOLEAN /\ error' \in Errors
    PROVE  TypeOK' /\ SizeInv'
<1>1. /\ info \in [Streams -> Info] /\ \A t \in Streams : InfoOK(info[t]) /\ SizeOK(info[t], phase[t])
      /\ phase \in [Streams -> {"command", "actor", "refused", "lost"}]
  <2>1. info \in [Streams -> Info]
    BY DEF SizeInv
  <2>2. \A t \in Streams : InfoOK(info[t])
    BY <2>1 DEF TypeOK, InfoOK, Info
  <2> QED
    BY <2>1, <2>2 DEF SizeInv, TypeOK
<1>2. i \in Info
  BY DEF InfoOK
<1>3. /\ info' \in [Streams -> Info] /\ phase' \in [Streams -> {"command", "actor", "refused", "lost"}]
      /\ \A t \in Streams : InfoOK(info'[t]) /\ SizeOK(info'[t], phase'[t])
  BY <1>1, <1>2
<1>4. SizeInv'
  BY <1>3 DEF SizeInv, SizeOK, HeaderRead, FromBytes, ToBytes
<1>5. \A t \in Streams : /\ info'[t] \in [header : Seq(Bytes), content : Seq(Bytes)]
                         /\ Len(info'[t].header) <= HeaderSize
                         /\ info'[t].content # <<>> =>
                              /\ HeaderRead(info'[t].header)
                              /\ Len(info'[t].content) < FromBytes(info'[t].header)
  BY <1>3 DEF InfoOK, Info
<1>6. TypeOK'
  BY <1>3, <1>5 DEF TypeOK, Errors
<1> QED
  BY <1>4, <1>6

\* What stays as it was, or arrives, is one message on each connection.
LEMMA StreamKept ==
    ASSUME StreamInv, up' = up, NEW s \in Streams, Kept \/ \E m \in Messages : Arrives(s, m)
    PROVE  StreamInv'
<1> SUFFICES ASSUME NEW t \in Streams, InFlight(t)' # <<>>
             PROVE  \E m \in Messages : /\ Begins(InFlight(t)', Frame(m))
                                        /\ up[t] => Len(InFlight(t)') = Len(Frame(m))
  BY DEF StreamInv
<1>1. InFlight(t)' = InFlight(t)
  BY DEF Kept, Arrives
<1> QED
  BY <1>1 DEF StreamInv

\* A connection that is read is not waiting to be read.
LEMMA ReadKept ==
    ASSUME TypeOK, SizeInv, ReadInv, NEW s \in Streams, InRecv(s), readable' = readable, up' = up,
           net' = net \/ \E x : net' = [net EXCEPT ![s] = x],
           info' = info \/ \E x : info' = [info EXCEPT ![s] = x],
           phase' = phase \/ \E x : phase' = [phase EXCEPT ![s] = x],
           \/ LeaveSocket(s) /\ phase'[s] # "command"
           \/ reading' = reading /\ phase' = phase /\ info'[s].header # <<>>
    PROVE  ReadInv'
<1>1. \A t \in Streams \ {s} : net'[t] = net[t] /\ info'[t] = info[t] /\ phase'[t] = phase[t]
  BY DEF TypeOK, SizeInv
<1>2. s \notin readable /\ readable \subseteq Streams
  BY DEF ReadInv, InRecv, TypeOK
<1>3. reading' \in {reading, NoStream} /\ NoStream \notin Streams
  BY FramingAssumption DEF LeaveSocket
<1>4. \A t \in readable' : phase'[t] = "command" /\ reading' # t /\ (net'[t] # <<>> \/ ~up'[t])
  BY <1>1, <1>2, <1>3 DEF ReadInv, Something
<1>5. ASSUME NEW t \in Streams, reading' = t
      PROVE  /\ phase'[t] = "command"
             /\ (net'[t] # <<>> \/ ~up'[t]) \/ info'[t].header # <<>>
  <2>1. reading = t
    BY <1>3, <1>5
  <2>2. CASE t # s
    BY <1>1, <2>1, <2>2 DEF ReadInv, Something
  <2>3. CASE t = s
    <3>1. ~LeaveSocket(s)
      BY <1>3, <1>5, <2>1, <2>3 DEF LeaveSocket
    <3> QED
      BY <2>1, <2>3, <3>1 DEF ReadInv
  <2> QED
    BY <2>2, <2>3
<1>6. ASSUME NEW t \in Streams, phase'[t] = "command", reading' # t PROVE info'[t] = NothingRead
  <2>1. CASE t # s
    <3>1. reading # t
      BY <1>6, <2>1 DEF LeaveSocket
    <3> QED
      BY <1>1, <1>6, <2>1, <3>1 DEF ReadInv
  <2>2. CASE t = s
    BY <1>6, <2>2 DEF InRecv
  <2> QED
    BY <2>1, <2>2
<1> QED
  BY <1>4, <1>5, <1>6 DEF ReadInv, Something

----------------------------------------------------------------------------
(* Steps of the server that read *)

\* The last bytes of a message are read: its handler has the message.
LEMMA DeliverEffect ==
    ASSUME IndInv, NEW s \in Streams, NEW i, NEW m \in Messages, NEW r \in Seq(Bytes), InRecv(s),
           i.content = m, InFlight(s) = Frame(m), Len(m) < MaxContentSize, Cat(r, out[s]) = <<>>,
           net' = [net EXCEPT ![s] = r], out' = out, up' = up, readable' = readable, over' = over,
           Deliver(s, i)
    PROVE  IndInv' /\ Arrives(s, m)
<1>0. TypeOK /\ StreamInv /\ SizeInv /\ ReadInv /\ HeaderSize \in Nat \ {0}
  BY HeaderAssumption DEF IndInv
<1>1. /\ delivered' = [delivered EXCEPT ![s] = Append(@, m)]
      /\ info' = [info EXCEPT ![s] = NothingRead]
      /\ phase' = [phase EXCEPT ![s] = "actor"] /\ LeaveSocket(s) /\ error' = error
  BY DEF Deliver, InfoDeleted
<1>2. /\ NothingRead.header = <<>> /\ NothingRead.content = <<>> /\ InfoOK(NothingRead)
      /\ SizeOK(NothingRead, "actor")
  <2>1. NothingRead \in Info /\ Len(<<>>) = 0 /\ ~HeaderRead(<<>>)
    BY <1>0 DEF NothingRead, Info, HeaderRead
  <2>2. NothingRead.header = <<>> /\ NothingRead.content = <<>>
    BY DEF NothingRead
  <2>3. InfoOK(NothingRead)
    BY <1>0, <2>1, <2>2 DEF InfoOK
  <2>4. SizeOK(NothingRead, "actor")
    BY <2>1, <2>2 DEF SizeOK
  <2> QED
    BY <2>2, <2>3, <2>4
<1>3. InFlight(s)' = <<>>
  <2>1. net'[s] = r /\ out'[s] = out[s] /\ info'[s] = NothingRead
    BY <1>0, <1>1 DEF TypeOK, SizeInv
  <2>2. InFlight(s)' = Cat(Cat(Cat(<<>>, <<>>), r), out[s])
    BY <1>2, <2>1 DEF InFlight, Cat
  <2>3. Cat(Cat(<<>>, <<>>), r) = r
    <3>1. <<>> \in Seq(Bytes)
      OBVIOUS
    <3>2. Cat(<<>>, <<>>) = <<>> /\ Cat(<<>>, r) = r
      BY <3>1, CatEmpty
    <3> QED
      BY <3>2
  <2> QED
    BY <2>2, <2>3
<1>4. \A t \in Streams \ {s} : InFlight(t)' = InFlight(t)
  BY <1>0, <1>1, Elsewhere
<1>5. Arrives(s, m)
  BY <1>1, <1>3, <1>4 DEF Arrives
<1>6. TypeOK' /\ SizeInv'
  <2>1. /\ delivered' \in [Streams -> Seq(Messages)] /\ readable' \subseteq Streams
        /\ reading' \in Streams \cup {NoStream} /\ over' \in BOOLEAN /\ error' \in Errors
    BY <1>0, <1>1 DEF TypeOK, Errors, LeaveSocket
  <2>2. net' \in [Streams -> Seq(Bytes)] /\ out' \in [Streams -> Seq(Bytes)] /\ up' \in [Streams -> BOOLEAN]
    BY <1>0 DEF TypeOK
  <2> QED
    BY <1>0, <1>1, <1>2, <2>1, <2>2, NewInfo
<1>7. StreamInv'
  BY <1>0, <1>5, StreamKept
<1>8. ReadInv'
  <2>1. phase'[s] # "command"
    BY <1>0, <1>1 DEF TypeOK
  <2> QED
    BY <1>0, <1>1, <2>1, ReadKept
<1> QED
  BY <1>5, <1>6, <1>7, <1>8 DEF IndInv

\* A recv() on the header completes no more than the header, and the message if
\* that has no content.
LEMMA HeaderEffect ==
    ASSUME IndInv, NEW s \in Streams, RecvHeader(s)
    PROVE  IndInv' /\ (Kept \/ \E m \in Messages : Arrives(s, m))
<1>0. TypeOK /\ StreamInv /\ SizeInv /\ ReadInv /\ InRecv(s)
  BY DEF IndInv, RecvHeader
<1> DEFINE g == info[s].header  y == net[s]  o == out[s]
<1>1. g \in Seq(Bytes) /\ y \in Seq(Bytes) /\ o \in Seq(Bytes) /\ Len(g) \in Nat /\ HeaderSize \in Nat \ {0}
  <2>1. g \in Seq(Bytes) /\ y \in Seq(Bytes) /\ o \in Seq(Bytes)
    BY <1>0, Parts
  <2> QED
    BY <2>1, HeaderAssumption
<1>2. PICK n \in 1 .. Len(y) :
        LET h == Cat(g, First(y, n))
            i == [header |-> h, content |-> <<>>]
        IN  /\ info[s].content = <<>> /\ n <= HeaderSize - Len(g)
            /\ net' = [net EXCEPT ![s] = Rest(y, n)]
            /\ out' = out /\ up' = up /\ readable' = readable /\ over' = over
            /\ \/ /\ ~HeaderRead(h) /\ info' = [info EXCEPT ![s] = i]
                  /\ reading' = reading /\ phase' = phase /\ delivered' = delivered /\ error' = error
               \/ /\ HeaderRead(h) /\ ~SizeAccepted(FromBytes(h))
                  /\ info' = [info EXCEPT ![s] = i] /\ Fail(s, "refused")
               \/ /\ HeaderRead(h) /\ SizeAccepted(FromBytes(h)) /\ FromBytes(h) = 0
                  /\ Deliver(s, i)
               \/ /\ HeaderRead(h) /\ SizeAccepted(FromBytes(h)) /\ FromBytes(h) # 0
                  /\ info' = [info EXCEPT ![s] = i]
                  /\ phase' = phase /\ delivered' = delivered /\ reading' = reading /\ error' = error
  BY <1>0, HeaderStep
<1> DEFINE h == Cat(g, First(y, n))
           r == Rest(y, n)
           i == [header |-> h, content |-> <<>>]
<1>3. /\ r \in Seq(Bytes) /\ h \in Seq(Bytes) /\ Cat(r, o) \in Seq(Bytes) /\ Len(h) = Len(g) + n
      /\ Cat(Cat(Cat(g, <<>>), y), o) = Cat(Cat(Cat(h, <<>>), r), o)
      /\ Cat(Cat(Cat(g, <<>>), y), o) = Cat(Cat(h, <<>>), Cat(r, o))
  <2> HIDE DEF g, y, o
  <2> QED
    BY <1>1, HeaderBytes
<1>4. InFlight(s) = Cat(Cat(Cat(g, <<>>), y), o)
  <2>1. InFlight(s) = Cat(Cat(Cat(g, info[s].content), y), o)
    BY <1>0, Parts
  <2> QED
    BY <1>2, <2>1
<1>5. net' = [net EXCEPT ![s] = r] /\ out' = out /\ up' = up /\ readable' = readable /\ over' = over
  BY <1>2
<1>6. \/ /\ ~HeaderRead(h) /\ info' = [info EXCEPT ![s] = i]
         /\ reading' = reading /\ phase' = phase /\ delivered' = delivered /\ error' = error
      \/ /\ HeaderRead(h) /\ ~SizeAccepted(FromBytes(h))
         /\ info' = [info EXCEPT ![s] = i] /\ Fail(s, "refused")
      \/ /\ HeaderRead(h) /\ SizeAccepted(FromBytes(h)) /\ FromBytes(h) = 0
         /\ Deliver(s, i)
      \/ /\ HeaderRead(h) /\ SizeAccepted(FromBytes(h)) /\ FromBytes(h) # 0
         /\ info' = [info EXCEPT ![s] = i]
         /\ phase' = phase /\ delivered' = delivered /\ reading' = reading /\ error' = error
  BY <1>2
<1>7. Len(h) <= HeaderSize
  BY <1>1, <1>2, <1>3
<1>8. y # <<>> /\ InFlight(s) # <<>>
  <2>1. y # <<>>
    BY <1>1, <1>2
  <2> QED
    BY <1>0, <2>1, NoBytes
<1> HIDE DEF g, y, o, h, r
<1>9. PICK m \in Messages : Begins(InFlight(s), Frame(m))
  BY <1>0, <1>8 DEF StreamInv
<1>10. ASSUME Len(h) = HeaderSize
       PROVE  /\ FromBytes(h) = Len(m) /\ Len(m) \in Nat
              /\ Len(m) = 0 => m = <<>> /\ Cat(r, o) = <<>> /\ InFlight(s) = Frame(m)
  <2>1. <<>> \in Seq(Bytes) /\ Len(<<>>) = 0 /\ Begins(Cat(Cat(h, <<>>), Cat(r, o)), Frame(m))
    BY <1>3, <1>4, <1>9, EmptySeq
  <2>2. /\ FromBytes(h) = Len(m) /\ (Len(<<>>) = Len(m) => <<>> = m /\ Cat(r, o) = <<>>)
        /\ Len(Cat(Cat(h, <<>>), Cat(r, o))) = HeaderSize + Len(<<>>) + Len(Cat(r, o))
    <3> DEFINE c == <<>>  x == Cat(r, o)
    <3>1. c \in Seq(Bytes) /\ x \in Seq(Bytes) /\ Begins(Cat(Cat(h, c), x), Frame(m))
      BY <1>3, <2>1
    <3> HIDE DEF c, x
    <3>2. /\ FromBytes(h) = Len(m) /\ (Len(c) = Len(m) => c = m /\ x = <<>>)
          /\ Len(Cat(Cat(h, c), x)) = HeaderSize + Len(c) + Len(x)
      BY <1>3, <1>10, <3>1, FrameParts
    <3> QED
      BY <3>2 DEF c, x
  <2>3. Len(m) = 0 => m = <<>> /\ Cat(r, o) = <<>>
    BY <2>1, <2>2
  <2>4. Len(m) \in Nat /\ Len(Frame(m)) = HeaderSize + Len(m)
    BY FrameSize
  <2>5. ASSUME Len(m) = 0 PROVE InFlight(s) = Frame(m)
    <3>1. Len(InFlight(s)) = Len(Frame(m))
      BY <1>1, <1>3, <1>4, <2>1, <2>2, <2>3, <2>4, <2>5
    <3> QED
      BY <1>0, <1>9, <3>1, Parts, Whole
  <2> QED
    BY <2>2, <2>3, <2>4, <2>5
<1>11. InfoOK(i) /\ i.header = h /\ i.content = <<>>
  BY <1>3, <1>7, EmptySeq DEF InfoOK, Info
<1>12. net' \in [Streams -> Seq(Bytes)] /\ out' \in [Streams -> Seq(Bytes)] /\ up' \in [Streams -> BOOLEAN]
  BY <1>0, <1>3, <1>5 DEF TypeOK
<1>13. phase[s] \in {"command", "actor"} /\ phase = [phase EXCEPT ![s] = phase[s]]
  BY <1>0 DEF InRecv, ReadInv, TypeOK
<1>14. ASSUME info' = [info EXCEPT ![s] = i], delivered' = delivered PROVE Kept
  <2>1. InFlight(s)' = InFlight(s)
    <3>1. net'[s] = r /\ out'[s] = o /\ info'[s] = i
      BY <1>0, <1>5, <1>14 DEF TypeOK, SizeInv, o
    <3>2. InFlight(s)' = Cat(Cat(Cat(h, <<>>), r), o)
      BY <1>11, <3>1 DEF InFlight, Cat
    <3> QED
      BY <1>3, <1>4, <3>2
  <2>2. ASSUME NEW t \in Streams \ {s} PROVE InFlight(t)' = InFlight(t)
    BY <1>0, <1>5, <1>14, Elsewhere
  <2> QED
    BY <1>14, <2>1, <2>2 DEF Kept
<1>15. CASE /\ ~HeaderRead(h) /\ info' = [info EXCEPT ![s] = i]
            /\ reading' = reading /\ phase' = phase /\ delivered' = delivered /\ error' = error
  <2>1. Kept
    BY <1>14, <1>15
  <2>2. SizeOK(i, phase[s])
    BY <1>11, <1>13, <1>15 DEF SizeOK
  <2>3. TypeOK' /\ SizeInv'
    <3> HIDE DEF i
    <3>1. /\ delivered' \in [Streams -> Seq(Messages)] /\ readable' \subseteq Streams
          /\ reading' \in Streams \cup {NoStream} /\ over' \in BOOLEAN /\ error' \in Errors
      BY <1>0, <1>5, <1>15 DEF TypeOK, Errors, LeaveSocket
    <3>2. phase' = [phase EXCEPT ![s] = phase[s]] /\ info' = [info EXCEPT ![s] = i]
      BY <1>13, <1>15
    <3> QED
      BY <1>0, <1>11, <1>12, <1>13, <2>2, <3>1, <3>2, NewInfo
  <2>4. StreamInv' /\ ReadInv'
    <3> HIDE DEF i
    <3>1. StreamInv'
      BY <1>0, <1>5, <2>1, StreamKept
    <3>2. info'[s].header # <<>>
      <4>1. info'[s] = i
        BY <1>0, <1>15 DEF SizeInv
      <4>2. Len(h) # 0
        BY <1>1, <1>3
      <4> QED
        BY <1>11, <4>1, <4>2
    <3>3. ReadInv'
      BY <1>0, <1>5, <1>15, <3>2, ReadKept
    <3> QED
      BY <3>1, <3>3
  <2> QED
    BY <2>1, <2>3, <2>4 DEF IndInv
<1>16. CASE /\ HeaderRead(h) /\ ~SizeAccepted(FromBytes(h))
            /\ info' = [info EXCEPT ![s] = i] /\ Fail(s, "refused")
  <2>0. /\ phase' = [phase EXCEPT ![s] = "refused"] /\ LeaveSocket(s) /\ delivered' = delivered
        /\ error' \in {error, "refused"}
    BY <1>16 DEF Fail
  <2>1. Kept
    BY <1>14, <1>16, <2>0
  <2>2. SizeOK(i, "refused")
    <3>1. FromBytes(h) >= MaxContentSize
      BY <1>10, <1>16, FramingAssumption DEF HeaderRead, SizeAccepted
    <3> QED
      BY <1>11, <1>16, <3>1 DEF SizeOK
  <2>3. TypeOK' /\ SizeInv'
    <3> HIDE DEF i
    <3>1. /\ delivered' \in [Streams -> Seq(Messages)] /\ readable' \subseteq Streams
          /\ reading' \in Streams \cup {NoStream} /\ over' \in BOOLEAN /\ error' \in Errors
      BY <1>0, <1>5, <2>0 DEF TypeOK, Errors, LeaveSocket
    <3>2. info' = [info EXCEPT ![s] = i]
      BY <1>16
    <3> QED
      BY <1>0, <1>11, <1>12, <2>0, <2>2, <3>1, <3>2, NewInfo
  <2>4. StreamInv' /\ ReadInv'
    <3> HIDE DEF i
    <3>1. StreamInv'
      BY <1>0, <1>5, <2>1, StreamKept
    <3>2. phase'[s] # "command"
      BY <1>0, <2>0 DEF TypeOK
    <3>3. ReadInv'
      BY <1>0, <1>5, <1>16, <2>0, <3>2, ReadKept
    <3> QED
      BY <3>1, <3>3
  <2> QED
    BY <2>1, <2>3, <2>4 DEF IndInv
<1>17. CASE /\ HeaderRead(h) /\ SizeAccepted(FromBytes(h)) /\ FromBytes(h) # 0
            /\ info' = [info EXCEPT ![s] = i]
            /\ phase' = phase /\ delivered' = delivered /\ reading' = reading /\ error' = error
  <2>1. Kept
    BY <1>14, <1>17
  <2>2. SizeOK(i, phase[s])
    <3>1. FromBytes(h) \in 1 .. MaxContentSize - 1
      BY <1>10, <1>17, FramingAssumption DEF HeaderRead, SizeAccepted
    <3> QED
      BY <1>11, <1>13, <1>17, <3>1 DEF SizeOK
  <2>3. TypeOK' /\ SizeInv'
    <3> HIDE DEF i
    <3>1. /\ delivered' \in [Streams -> Seq(Messages)] /\ readable' \subseteq Streams
          /\ reading' \in Streams \cup {NoStream} /\ over' \in BOOLEAN /\ error' \in Errors
      BY <1>0, <1>5, <1>17 DEF TypeOK, Errors
    <3>2. phase' = [phase EXCEPT ![s] = phase[s]] /\ info' = [info EXCEPT ![s] = i]
      BY <1>13, <1>17
    <3> QED
      BY <1>0, <1>11, <1>12, <1>13, <2>2, <3>1, <3>2, NewInfo
  <2>4. StreamInv' /\ ReadInv'
    <3>1. info'[s] = i
      BY <1>0, <1>17 DEF SizeInv
    <3>2. info'[s].header # <<>>
      <4>1. Len(h) # 0
        BY <1>1, <1>3
      <4> QED
        BY <1>11, <3>1, <4>1
    <3> HIDE DEF i
    <3>3. StreamInv'
      BY <1>0, <1>5, <2>1, StreamKept
    <3>4. ReadInv'
      BY <1>0, <1>5, <1>17, <3>2, ReadKept
    <3> QED
      BY <3>3, <3>4
  <2> QED
    BY <2>1, <2>3, <2>4 DEF IndInv
<1>18. CASE HeaderRead(h) /\ SizeAccepted(FromBytes(h)) /\ FromBytes(h) = 0 /\ Deliver(s, i)
  <2>1. m = <<>> /\ Cat(r, o) = <<>> /\ InFlight(s) = Frame(m) /\ Len(m) < MaxContentSize
    BY <1>10, <1>18, FramingAssumption DEF HeaderRead, SizeAccepted
  <2>2. i.content = m
    BY <1>11, <2>1
  <2> HIDE DEF i
  <2> QED
    BY <1>0, <1>3, <1>5, <1>18, <2>1, <2>2, DeliverEffect DEF o
<1> QED
  BY <1>6, <1>15, <1>16, <1>17, <1>18

\* A header that is read tells the size of the message on its way.
LEMMA SizeTold ==
    ASSUME TypeOK, StreamInv, SizeInv, NEW s \in Streams, HeaderRead(info[s].header)
    PROVE  \E m \in Messages :
             /\ FromBytes(info[s].header) = Len(m) /\ Len(m) \in Nat
             /\ Begins(InFlight(s), Frame(m))
             /\ up[s] => Len(InFlight(s)) = Len(Frame(m))
<1> DEFINE h == info[s].header  c == info[s].content  y == net[s]  o == out[s]
<1>1. /\ h \in Seq(Bytes) /\ c \in Seq(Bytes) /\ y \in Seq(Bytes) /\ o \in Seq(Bytes)
      /\ InFlight(s) = Cat(Cat(Cat(h, c), y), o)
  BY Parts
<1>2. Len(h) = HeaderSize
  BY DEF HeaderRead
<1>3. InFlight(s) # <<>>
  <2>1. h # <<>>
    BY <1>1, <1>2, HeaderAssumption
  <2> QED
    BY <2>1, NoBytes
<1>4. PICK m \in Messages : /\ Begins(InFlight(s), Frame(m))
                            /\ up[s] => Len(InFlight(s)) = Len(Frame(m))
  BY <1>3 DEF StreamInv
<1> HIDE DEF h, c, y, o
<1>5. Cat(y, o) \in Seq(Bytes) /\ Cat(Cat(Cat(h, c), y), o) = Cat(Cat(h, c), Cat(y, o))
  <2>1. Cat(h, c) \in Seq(Bytes) /\ Cat(y, o) \in Seq(Bytes)
    BY ONLY <1>1, CatType
  <2> QED
    BY <1>1, <2>1, Associative
<1>6. Begins(Cat(Cat(h, c), Cat(y, o)), Frame(m))
  BY <1>1, <1>4, <1>5
<1>7. FromBytes(h) = Len(m)
  BY <1>1, <1>2, <1>5, <1>6, FrameParts
<1>8. Len(m) \in Nat
  BY FrameSize
<1> QED
  BY <1>4, <1>7, <1>8 DEF h

\* A recv() on the content leaves the message there, or completes it.
LEMMA ContentEffect ==
    ASSUME IndInv, NEW s \in Streams, RecvContent(s)
    PROVE  IndInv' /\ (Kept \/ \E m \in Messages : Arrives(s, m))
<1>0. TypeOK /\ StreamInv /\ SizeInv /\ ReadInv /\ InRecv(s) /\ HeaderRead(info[s].header)
  BY DEF IndInv, RecvContent
<1> DEFINE h == info[s].header  g == info[s].content  y == net[s]  o == out[s]  size == FromBytes(h)
<1>1. h \in Seq(Bytes) /\ g \in Seq(Bytes) /\ y \in Seq(Bytes) /\ o \in Seq(Bytes)
  BY <1>0, Parts
<1>2. PICK m \in Messages : size = Len(m) /\ Len(m) \in Nat /\ Begins(InFlight(s), Frame(m))
  BY <1>0, SizeTold
<1>3. PICK n \in 1 .. Len(y) :
        LET c == Cat(g, First(y, n))
            i == [header |-> h, content |-> c]
        IN  /\ HeaderRead(h) /\ n <= size - Len(g)
            /\ net' = [net EXCEPT ![s] = Rest(y, n)]
            /\ out' = out /\ up' = up /\ readable' = readable /\ over' = over
            /\ \/ Len(c) = size /\ Deliver(s, i)
               \/ /\ Len(c) # size /\ info' = [info EXCEPT ![s] = i]
                  /\ reading' = reading /\ phase' = phase /\ delivered' = delivered /\ error' = error
  BY <1>0, <1>2, ContentStep
<1> DEFINE c == Cat(g, First(y, n))
           r == Rest(y, n)
           i == [header |-> h, content |-> c]
<1>4. InFlight(s) = Cat(Cat(Cat(h, g), y), o)
  BY <1>0, Parts
<1>5. /\ r \in Seq(Bytes) /\ c \in Seq(Bytes) /\ Cat(r, o) \in Seq(Bytes) /\ Len(c) = Len(g) + n
      /\ Cat(Cat(Cat(h, g), y), o) = Cat(Cat(Cat(h, c), r), o)
      /\ Cat(Cat(Cat(h, g), y), o) = Cat(Cat(h, c), Cat(r, o))
  <2> HIDE DEF h, g, y, o
  <2> QED
    BY <1>1, ContentBytes
<1>6. net' = [net EXCEPT ![s] = r] /\ out' = out /\ up' = up /\ readable' = readable /\ over' = over
  BY <1>3
<1>7. \/ Len(c) = size /\ Deliver(s, i)
      \/ /\ Len(c) # size /\ info' = [info EXCEPT ![s] = i]
         /\ reading' = reading /\ phase' = phase /\ delivered' = delivered /\ error' = error
  BY <1>3
<1>8. Len(c) <= size /\ Len(c) \in Nat
  <2> HIDE DEF size, g, y, c
  <2>1. Len(g) \in Nat /\ n \in Nat /\ size \in Nat /\ n <= size - Len(g)
    BY <1>1, <1>2, <1>3
  <2> QED
    BY <1>5, <2>1
<1>9. phase[s] \in {"command", "actor"} /\ phase = [phase EXCEPT ![s] = phase[s]]
  BY <1>0 DEF InRecv, ReadInv, TypeOK
<1>10. size \in 1 .. MaxContentSize - 1
  BY <1>0, <1>9 DEF SizeInv, SizeOK
<1>11. SizeOK(info[s], phase[s]) /\ Len(h) <= HeaderSize
  BY <1>0 DEF SizeInv, TypeOK
<1>12. Len(h) = HeaderSize
  BY <1>0 DEF HeaderRead
<1> HIDE DEF h, g, y, o, c, r, size
<1>13. i.header = h /\ i.content = c
  OBVIOUS
<1>14. CASE Len(c) = size /\ Deliver(s, i)
  <2>1. c = m /\ Cat(r, o) = <<>> /\ Len(InFlight(s)) = HeaderSize + Len(c) + Len(Cat(r, o))
    <3> DEFINE x == Cat(r, o)
    <3>1. x \in Seq(Bytes) /\ Begins(Cat(Cat(h, c), x), Frame(m)) /\ InFlight(s) = Cat(Cat(h, c), x)
      BY <1>2, <1>4, <1>5
    <3> HIDE DEF x
    <3>2. /\ Len(c) = Len(m) => c = m /\ x = <<>>
          /\ Len(Cat(Cat(h, c), x)) = HeaderSize + Len(c) + Len(x)
      BY <1>1, <1>5, <1>12, <3>1, FrameParts
    <3> QED
      BY <1>2, <1>14, <3>1, <3>2 DEF x
  <2>2. InFlight(s) = Frame(m)
    <3>1. Len(Frame(m)) = HeaderSize + Len(m) /\ HeaderSize \in Nat
      BY FrameSize, HeaderAssumption
    <3>2. Len(InFlight(s)) = Len(Frame(m))
      BY <1>2, <2>1, <3>1
    <3> QED
      BY <1>0, <1>2, <3>2, Parts, Whole
  <2>3. Len(m) < MaxContentSize
    BY <1>2, <1>10, FramingAssumption
  <2>4. i.content = m
    BY <1>13, <2>1
  <2> HIDE DEF i
  <2> QED
    BY <1>0, <1>5, <1>6, <1>14, <2>1, <2>2, <2>3, <2>4, DeliverEffect DEF o
<1>15. CASE /\ Len(c) # size /\ info' = [info EXCEPT ![s] = i]
            /\ reading' = reading /\ phase' = phase /\ delivered' = delivered /\ error' = error
  <2>1. Kept
    <3>1. net'[s] = r /\ out'[s] = o /\ info'[s] = i
      BY <1>0, <1>6, <1>15 DEF TypeOK, SizeInv, o
    <3>2. InFlight(s)' = Cat(Cat(Cat(h, c), r), o)
      BY <1>13, <3>1 DEF InFlight, Cat
    <3>3. InFlight(s)' = InFlight(s)
      BY <1>4, <1>5, <3>2
    <3>4. ASSUME NEW t \in Streams \ {s} PROVE InFlight(t)' = InFlight(t)
      BY <1>0, <1>6, <1>15, Elsewhere
    <3> QED
      BY <1>15, <3>3, <3>4 DEF Kept
  <2>2. InfoOK(i)
    <3>1. i \in Info
      BY <1>1, <1>5 DEF Info
    <3>2. Len(c) < FromBytes(h)
      BY <1>2, <1>8, <1>15 DEF size
    <3> QED
      BY <1>0, <1>11, <1>13, <3>1, <3>2 DEF InfoOK, h
  <2>3. SizeOK(i, phase[s])
    BY <1>11, <1>13 DEF SizeOK, h
  <2>4. TypeOK' /\ SizeInv'
    <3> HIDE DEF i
    <3>1. /\ delivered' \in [Streams -> Seq(Messages)] /\ readable' \subseteq Streams
          /\ reading' \in Streams \cup {NoStream} /\ over' \in BOOLEAN /\ error' \in Errors
      BY <1>0, <1>6, <1>15 DEF TypeOK, Errors, LeaveSocket
    <3>2. phase' = [phase EXCEPT ![s] = phase[s]] /\ info' = [info EXCEPT ![s] = i]
      BY <1>9, <1>15
    <3>3. net' \in [Streams -> Seq(Bytes)] /\ out' \in [Streams -> Seq(Bytes)] /\ up' \in [Streams -> BOOLEAN]
      BY <1>0, <1>5, <1>6 DEF TypeOK
    <3> QED
      BY <1>0, <1>9, <2>2, <2>3, <3>1, <3>2, <3>3, NewInfo
  <2>5. StreamInv' /\ ReadInv'
    <3> HIDE DEF i
    <3>1. StreamInv'
      BY <1>0, <1>6, <2>1, StreamKept
    <3>2. info'[s].header # <<>>
      <4>1. info'[s] = i
        BY <1>0, <1>15 DEF SizeInv
      <4>2. Len(h) # 0
        BY <1>12, HeaderAssumption
      <4> QED
        BY <1>13, <4>1, <4>2
    <3>3. ReadInv'
      BY <1>0, <1>6, <1>15, <3>2, ReadKept
    <3> QED
      BY <3>1, <3>3
  <2> QED
    BY <2>1, <2>4, <2>5 DEF IndInv
<1> QED
  BY <1>7, <1>14, <1>15

\* An end of stream ends the connection, and leaves the bytes read of it.
LEMMA LostEffect ==
    ASSUME IndInv, NEW s \in Streams, ConnectionLost(s)
    PROVE  IndInv' /\ Kept
<1>0. /\ TypeOK /\ StreamInv /\ SizeInv /\ ReadInv /\ InRecv(s)
      /\ phase' = [phase EXCEPT ![s] = "lost"] /\ error' \in {error, "lost"} /\ LeaveSocket(s)
      /\ delivered' = delivered /\ out' = out /\ net' = net /\ up' = up /\ info' = info
      /\ readable' = readable /\ over' = over
  BY DEF IndInv, ConnectionLost, Fail
<1>1. Kept
  BY <1>0 DEF Kept, InFlight
<1>2. /\ info' = [info EXCEPT ![s] = info[s]] /\ InfoOK(info[s]) /\ SizeOK(info[s], "lost")
  BY <1>0 DEF TypeOK, SizeInv, InfoOK, SizeOK, Info
<1>3. /\ delivered' \in [Streams -> Seq(Messages)] /\ readable' \subseteq Streams
      /\ reading' \in Streams \cup {NoStream} /\ over' \in BOOLEAN /\ error' \in Errors
      /\ net' \in [Streams -> Seq(Bytes)] /\ out' \in [Streams -> Seq(Bytes)] /\ up' \in [Streams -> BOOLEAN]
  BY <1>0 DEF TypeOK, Errors, LeaveSocket
<1>4. TypeOK' /\ SizeInv'
  BY <1>0, <1>2, <1>3, NewInfo
<1>5. StreamInv'
  BY <1>0, <1>1, StreamKept
<1>6. ReadInv'
  <2>1. phase'[s] # "command"
    BY <1>0 DEF TypeOK
  <2> QED
    BY <1>0, <2>1, ReadKept
<1> QED
  BY <1>1, <1>4, <1>5, <1>6 DEF IndInv

----------------------------------------------------------------------------
(* Steps of clients, and of the command thread between two connections *)

\* Bytes go to the kernel: a connection that had something to read still has.
LEMMA SendEffect ==
    ASSUME IndInv, NEW s \in Streams, SendAll(s)
    PROVE  IndInv' /\ Kept
<1>0. /\ TypeOK /\ StreamInv /\ SizeInv /\ ReadInv
      /\ up' = up /\ info' = info /\ phase' = phase /\ delivered' = delivered
      /\ readable' = readable /\ reading' = reading /\ over' = over /\ error' = error
  BY DEF IndInv, SendAll
<1> DEFINE x == Cat(info[s].header, info[s].content)  y == net[s]  o == out[s]
<1>1. x \in Seq(Bytes) /\ y \in Seq(Bytes) /\ o \in Seq(Bytes) /\ InFlight(s) = Cat(Cat(x, y), o)
  <2>1. /\ info[s].header \in Seq(Bytes) /\ info[s].content \in Seq(Bytes)
        /\ y \in Seq(Bytes) /\ o \in Seq(Bytes) /\ InFlight(s) = Cat(Cat(x, y), o)
    BY <1>0, Parts
  <2> QED
    BY <2>1, CatType
<1>2. PICK n \in 1 .. Len(o) : /\ net' = [net EXCEPT ![s] = Cat(y, First(o, n))]
                               /\ out' = [out EXCEPT ![s] = Rest(o, n)]
  <2>1. net \in [Streams -> Seq(Bytes)] /\ out \in [Streams -> Seq(Bytes)]
    BY <1>0 DEF TypeOK
  <2> QED
    BY <2>1 DEF SendAll, Cat, First, Rest
<1> DEFINE z == Cat(y, First(o, n))  r == Rest(o, n)
<1>3. z \in Seq(Bytes) /\ z # <<>> /\ r \in Seq(Bytes) /\ Cat(Cat(x, y), o) = Cat(Cat(x, z), r)
  <2> HIDE DEF x, y, o
  <2> QED
    BY <1>1, SentBytes
<1>4. net' = [net EXCEPT ![s] = z] /\ out' = [out EXCEPT ![s] = r]
  BY <1>2
<1> HIDE DEF y, o, z, r
<1>5. net'[s] = z /\ out'[s] = r
  BY <1>0, <1>4 DEF TypeOK
<1>6. InFlight(s)' = Cat(Cat(x, z), r)
  BY <1>0, <1>5 DEF InFlight, Cat
<1> HIDE DEF x
<1>7. Kept
  <2>1. \A t \in Streams \ {s} : InFlight(t)' = InFlight(t)
    BY <1>0, <1>4, Elsewhere
  <2> QED
    BY <1>0, <1>1, <1>3, <1>6, <2>1 DEF Kept
<1>8. TypeOK' /\ SizeInv'
  <2>1. net' \in [Streams -> Seq(Bytes)] /\ out' \in [Streams -> Seq(Bytes)]
    BY <1>0, <1>3, <1>4 DEF TypeOK
  <2> QED
    BY <1>0, <2>1 DEF TypeOK, SizeInv
<1>9. StreamInv'
  BY <1>0, <1>7, StreamKept
<1>10. ReadInv'
  <2>1. \A t \in Streams : net[t] # <<>> => net'[t] # <<>>
    BY <1>0, <1>3, <1>4 DEF TypeOK
  <2>2. readable \subseteq Streams
    BY <1>0 DEF TypeOK
  <2> QED
    BY <1>0, <2>1, <2>2 DEF ReadInv, Something
<1> QED
  BY <1>7, <1>8, <1>9, <1>10 DEF IndInv

\* A client that dies has sent the beginning of its message.
LEMMA DieEffect ==
    ASSUME IndInv, NEW s \in Streams, ClientDies(s)
    PROVE  /\ IndInv' /\ delivered' = delivered /\ up[s]
           /\ \A t \in Streams \ {s} : InFlight(t)' = InFlight(t)
           /\ InFlight(s)' \in Seq(Bytes)
           /\ \A f : Len(f) \in Nat /\ Begins(InFlight(s), f) => Begins(InFlight(s)', f)
           /\ InFlight(s) = <<>> => InFlight(s)' = <<>>
<1>0. /\ TypeOK /\ StreamInv /\ SizeInv /\ ReadInv
      /\ up[s] /\ up' = [up EXCEPT ![s] = FALSE] /\ out' = [out EXCEPT ![s] = <<>>]
      /\ net' = net /\ info' = info /\ phase' = phase /\ delivered' = delivered
      /\ readable' = readable /\ reading' = reading /\ over' = over /\ error' = error
  BY DEF IndInv, ClientDies
<1> DEFINE x == Cat(Cat(info[s].header, info[s].content), net[s])  o == out[s]
<1>1. x \in Seq(Bytes) /\ o \in Seq(Bytes) /\ InFlight(s) = Cat(x, o)
  <2>1. /\ info[s].header \in Seq(Bytes) /\ info[s].content \in Seq(Bytes)
        /\ net[s] \in Seq(Bytes) /\ o \in Seq(Bytes) /\ InFlight(s) = Cat(x, o)
    BY <1>0, Parts
  <2>2. Cat(info[s].header, info[s].content) \in Seq(Bytes)
    BY <2>1, CatType
  <2> QED
    BY <2>1, <2>2, CatType
<1>2. InFlight(s)' = x
  <2>1. out'[s] = <<>>
    BY <1>0 DEF TypeOK
  <2>2. InFlight(s)' = Cat(x, <<>>)
    BY <1>0, <2>1 DEF InFlight, Cat
  <2> HIDE DEF x
  <2> QED
    BY <1>1, <2>2, CatEmpty
<1> HIDE DEF x, o
<1>3. \A t \in Streams \ {s} : InFlight(t)' = InFlight(t) /\ up'[t] = up[t]
  BY <1>0, Elsewhere DEF TypeOK
<1>4. \A f : Len(f) \in Nat /\ Begins(InFlight(s), f) => Begins(InFlight(s)', f)
  <2> SUFFICES ASSUME NEW f, Len(f) \in Nat, Begins(Cat(x, o), f) PROVE Begins(x, f)
    BY <1>1, <1>2
  <2> QED
    BY <1>1, Prefix DEF Cat
<1>5. ASSUME InFlight(s) = <<>> PROVE InFlight(s)' = <<>>
  <2>1. Len(Cat(x, o)) = 0 /\ Len(Cat(x, o)) = Len(x) + Len(o) /\ Len(x) \in Nat /\ Len(o) \in Nat
    <3>1. Cat(x, o) = <<>> /\ Len(<<>>) = 0
      BY <1>1, <1>5
    <3>2. Len(Cat(x, o)) = Len(x) + Len(o)
      BY ONLY <1>1, CatType
    <3>3. Len(x) \in Nat /\ Len(o) \in Nat
      BY <1>1
    <3> QED
      BY <3>1, <3>2, <3>3
  <2>2. Len(x) = 0
    BY <2>1
  <2> QED
    BY <1>1, <1>2, <2>2, EmptySeq
<1>6. TypeOK' /\ SizeInv'
  <2>1. up' \in [Streams -> BOOLEAN] /\ out' \in [Streams -> Seq(Bytes)]
    BY <1>0 DEF TypeOK
  <2> QED
    BY <1>0, <2>1 DEF TypeOK, SizeInv
<1>7. StreamInv'
  <2> SUFFICES ASSUME NEW t \in Streams, InFlight(t)' # <<>>
               PROVE  \E m \in Messages : /\ Begins(InFlight(t)', Frame(m))
                                          /\ up'[t] => Len(InFlight(t)') = Len(Frame(m))
    BY DEF StreamInv
  <2>1. CASE t # s
    BY <1>0, <1>3, <2>1 DEF StreamInv
  <2>2. CASE t = s
    <3>1. PICK m \in Messages : Begins(InFlight(s), Frame(m))
      BY <1>0, <1>5, <2>2 DEF StreamInv
    <3>2. Len(Frame(m)) \in Nat
      BY FrameSize
    <3>3. ~up'[s]
      BY <1>0 DEF TypeOK
    <3> QED
      BY <1>4, <2>2, <3>1, <3>2, <3>3
  <2> QED
    BY <2>1, <2>2
<1>8. ReadInv'
  <2>1. \A t \in Streams : ~up[t] => ~up'[t]
    BY <1>0 DEF TypeOK
  <2>2. readable \subseteq Streams
    BY <1>0 DEF TypeOK
  <2> QED
    BY <1>0, <2>1, <2>2 DEF ReadInv, Something
<1> QED
  BY <1>0, <1>1, <1>2, <1>3, <1>4, <1>5, <1>6, <1>7, <1>8 DEF IndInv

\* A client writes when nothing is on its way.
LEMMA WriteEffect ==
    ASSUME IndInv, NEW s \in Streams, NEW m \in Messages, WriteMessage(s, m)
    PROVE  /\ IndInv' /\ delivered' = delivered /\ InFlight(s) = <<>> /\ InFlight(s)' = Frame(m)
           /\ \A t \in Streams \ {s} : InFlight(t)' = InFlight(t)
<1>0. /\ TypeOK /\ StreamInv /\ SizeInv /\ ReadInv
      /\ InFlight(s) = <<>> /\ out' = [out EXCEPT ![s] = Frame(m)]
      /\ net' = net /\ up' = up /\ info' = info /\ phase' = phase /\ delivered' = delivered
      /\ readable' = readable /\ reading' = reading /\ over' = over /\ error' = error
  BY DEF IndInv, WriteMessage, Frame
<1>1. Frame(m) \in Seq(Bytes) /\ Begins(Frame(m), Frame(m))
  BY FrameSize
<1>2. InFlight(s)' = Frame(m)
  <2>1. info[s].header = <<>> /\ info[s].content = <<>> /\ net[s] = <<>>
    BY <1>0, NoBytes
  <2>2. out'[s] = Frame(m)
    BY <1>0 DEF TypeOK
  <2>3. InFlight(s)' = Cat(Cat(Cat(<<>>, <<>>), <<>>), Frame(m))
    BY <1>0, <2>1, <2>2 DEF InFlight, Cat
  <2>4. Cat(<<>>, <<>>) = <<>>
    <3>1. <<>> \in Seq(Bytes)
      OBVIOUS
    <3> QED
      BY <3>1, CatEmpty
  <2> QED
    BY <1>1, <2>3, <2>4, CatEmpty
<1>3. \A t \in Streams \ {s} : InFlight(t)' = InFlight(t)
  BY <1>0, Elsewhere
<1>4. TypeOK' /\ SizeInv'
  <2>1. out' \in [Streams -> Seq(Bytes)]
    BY <1>0, <1>1 DEF TypeOK
  <2> QED
    BY <1>0, <2>1 DEF TypeOK, SizeInv
<1>5. StreamInv'
  <2> SUFFICES ASSUME NEW t \in Streams, InFlight(t)' # <<>>
               PROVE  \E k \in Messages : /\ Begins(InFlight(t)', Frame(k))
                                          /\ up[t] => Len(InFlight(t)') = Len(Frame(k))
    BY <1>0 DEF StreamInv
  <2>1. CASE t # s
    BY <1>0, <1>3, <2>1 DEF StreamInv
  <2>2. CASE t = s
    BY <1>1, <1>2, <2>2
  <2> QED
    BY <2>1, <2>2
<1>6. ReadInv'
  BY <1>0 DEF ReadInv, Something
<1> QED
  BY <1>0, <1>2, <1>3, <1>4, <1>5, <1>6 DEF IndInv

\* Neither select(), the choice of a connection nor the end moves bytes.
LEMMA TurnEffect ==
    ASSUME IndInv,
           WaitAnyReadable \/ Finish \/ SimulationEnds \/ \E s \in Streams : HandleSocket(s)
    PROVE  IndInv' /\ Kept
<1>0. TypeOK /\ StreamInv /\ SizeInv /\ ReadInv /\ NoStream \notin Streams
  BY FramingAssumption DEF IndInv
<1>1. /\ out' = out /\ net' = net /\ up' = up /\ info' = info /\ phase' = phase
      /\ delivered' = delivered
  BY DEF WaitAnyReadable, HandleSocket, Finish, SimulationEnds
<1>2. Kept
  BY <1>1 DEF Kept, InFlight
<1>3. StreamInv'
  BY <1>0, <1>1, <1>2 DEF StreamInv, Kept
<1>4. CASE WaitAnyReadable
  <2>1. /\ reading = NoStream /\ reading' = NoStream /\ over' = over /\ error' = error
        /\ readable' = {t \in Streams : phase[t] = "command" /\ Something(t)}
    BY <1>4 DEF WaitAnyReadable, Selected, Something
  <2>2. TypeOK' /\ SizeInv'
    BY <1>0, <1>1, <2>1 DEF TypeOK, SizeInv
  <2>3. ReadInv'
    BY <1>0, <1>1, <2>1 DEF ReadInv, Something
  <2> QED
    BY <1>2, <1>3, <2>2, <2>3 DEF IndInv
<1>5. ASSUME NEW s \in Streams, HandleSocket(s) PROVE IndInv'
  <2>1. /\ reading = NoStream /\ s \in readable /\ reading' = s /\ readable' = readable \ {s}
        /\ over' = over /\ error' = error
    BY <1>5 DEF HandleSocket
  <2>2. TypeOK' /\ SizeInv'
    BY <1>0, <1>1, <2>1 DEF TypeOK, SizeInv
  <2>3. ReadInv'
    BY <1>0, <1>1, <2>1 DEF ReadInv, Something
  <2> QED
    BY <1>3, <2>2, <2>3 DEF IndInv
<1>6. CASE Finish \/ SimulationEnds
  <2>1. /\ readable' = readable /\ reading' = reading
        /\ \/ over' = over /\ error' = "finished"
           \/ over' = TRUE /\ error' = error
    BY <1>6 DEF Finish, SimulationEnds
  <2>2. TypeOK' /\ SizeInv'
    BY <1>0, <1>1, <2>1 DEF TypeOK, SizeInv
  <2>3. ReadInv'
    BY <1>0, <1>1, <2>1 DEF ReadInv, Something
  <2> QED
    BY <1>2, <1>3, <2>2, <2>3 DEF IndInv
<1> QED
  BY <1>2, <1>4, <1>5, <1>6

----------------------------------------------------------------------------
(* Theorems *)

\* No connection has sent anything.
LEMMA InitInd == Init => IndInv
<1> SUFFICES ASSUME Init PROVE IndInv
  OBVIOUS
<1>0. NothingRead \in Info /\ NothingRead.header = <<>> /\ NothingRead.content = <<>> /\ Len(<<>>) = 0
  BY DEF NothingRead, Info
<1>1. HeaderSize \in Nat \ {0} /\ ~HeaderRead(<<>>)
  BY <1>0, HeaderAssumption DEF HeaderRead
<1>2. /\ info \in [Streams -> Info] /\ \A s \in Streams : info[s] = NothingRead
      /\ \A s \in Streams : phase[s] = "command" /\ net[s] = <<>> /\ out[s] = <<>>
      /\ readable = {} /\ reading = NoStream
  BY <1>0 DEF Init
<1>3. SizeInv
  BY <1>0, <1>1, <1>2 DEF SizeInv, SizeOK
<1>4. TypeOK
  <2>1. \A s \in Streams : /\ info[s] \in [header : Seq(Bytes), content : Seq(Bytes)]
                           /\ Len(info[s].header) <= HeaderSize /\ info[s].content = <<>>
    BY <1>0, <1>1, <1>2 DEF Info
  <2>2. /\ out \in [Streams -> Seq(Bytes)] /\ net \in [Streams -> Seq(Bytes)]
        /\ up \in [Streams -> BOOLEAN] /\ phase \in [Streams -> {"command", "actor", "refused", "lost"}]
        /\ delivered \in [Streams -> Seq(Messages)]
        /\ readable = {} /\ reading = NoStream /\ over = FALSE /\ error = "none"
    BY DEF Init
  <2> QED
    BY <2>1, <2>2 DEF TypeOK
<1>5. StreamInv
  BY <1>0, <1>2, <1>3, <1>4, NoBytes DEF StreamInv
<1>6. ReadInv
  BY <1>2, FramingAssumption DEF ReadInv
<1> QED
  BY <1>3, <1>4, <1>5, <1>6 DEF IndInv

\* Every step, by what it does to the bytes on their way.
LEMMA Step ==
    ASSUME IndInv, [Next]_vars
    PROVE  \/ IndInv' /\ Kept
           \/ IndInv' /\ \E s \in Streams, m \in Messages : Arrives(s, m)
           \/ \E s \in Streams : ClientDies(s)
           \/ \E s \in Streams, m \in Messages : WriteMessage(s, m)
<1>1. ASSUME NEW s \in Streams, ReadStream(s)
      PROVE  IndInv' /\ (Kept \/ \E m \in Messages : Arrives(s, m))
  BY <1>1, HeaderEffect, ContentEffect, LostEffect DEF ReadStream
<1>2. CASE CommandThread \/ SimulationEnds
  BY <1>1, <1>2, TurnEffect DEF CommandThread
<1>3. ASSUME NEW s \in Streams, ActorReads(s)
      PROVE  IndInv' /\ (Kept \/ \E m \in Messages : Arrives(s, m))
  BY <1>1, <1>3 DEF ActorReads
<1>4. ASSUME NEW s \in Streams, SendAll(s) PROVE IndInv' /\ Kept
  BY <1>4, SendEffect
<1>5. CASE UNCHANGED vars
  <2>1. IndInv'
    BY <1>5 DEF IndInv, TypeOK, StreamInv, SizeInv, ReadInv, InFlight, Something
  <2>2. Kept
    BY <1>5 DEF Kept, InFlight
  <2> QED
    BY <2>1, <2>2
<1> QED
  BY <1>2, <1>3, <1>4, <1>5 DEF Next

\* The inductive invariant: types; the bytes on their way on a connection, wherever
\* they are, begin one message and are the whole of it while its client lives
\* (StreamInv); a size that is read is accepted or refused (SizeInv); and the
\* command thread turns to connections that have something for it, and leaves none
\* with a command read in part (ReadInv).
THEOREM Inductive == Spec => []IndInv
<1>1. IndInv /\ [Next]_vars => IndInv'
  BY Step, DieEffect, WriteEffect
<1> QED
  BY <1>1, InitInd, PTL DEF Spec

\* Headers, contents and messages have their types, whatever pieces they came in.
THEOREM TypeCorrect == Spec => []TypeOK
<1>1. IndInv => TypeOK
  BY DEF IndInv
<1> QED
  BY <1>1, Inductive, PTL

\* A message is refused for its size only when that size reaches the limit: the
\* header that is read is the one that was written, for any number of bytes, any
\* splitting and any other connections.
THEOREM RefusalsRight == Spec => []RefusedOnlyAtLimit
<1>1. ASSUME IndInv, NEW s \in Streams, phase[s] = "refused"
      PROVE  /\ FromBytes(info[s].header) >= MaxContentSize
             /\ up[s] => Len(InFlight(s)) = HeaderSize + FromBytes(info[s].header)
  <2>1. HeaderRead(info[s].header) /\ FromBytes(info[s].header) >= MaxContentSize
    BY <1>1 DEF IndInv, SizeInv, SizeOK
  <2>2. PICK m \in Messages :
          /\ FromBytes(info[s].header) = Len(m)
          /\ up[s] => Len(InFlight(s)) = Len(Frame(m))
    BY <1>1, <2>1, SizeTold DEF IndInv
  <2>3. Len(Frame(m)) = HeaderSize + Len(m)
    BY FrameSize
  <2> QED
    BY <2>1, <2>2, <2>3
<1>2. IndInv => RefusedOnlyAtLimit
  BY <1>1 DEF RefusedOnlyAtLimit
<1> QED
  BY <1>2, Inductive, PTL

\* The command thread waits for a client only when it has read a part of that
\* client's command: it turns to a connection that select() has named, and stays on
\* it only with bytes of a command that is not whole.
THEOREM BlocksThereOnly == Spec => []BlocksOnlyInsideCommand
<1>1. IndInv => BlocksOnlyInsideCommand
  BY DEF IndInv, ReadInv, Something, BlocksOnlyInsideCommand
<1> QED
  BY <1>1, Inductive, PTL

\* One command at most is read in part, the one the command thread is reading, for
\* any number of connections and any arrivals.
THEOREM OneCommandHalfRead == Spec => []OneHalfRead
<1>1. IndInv => OneHalfRead
  BY DEF IndInv, ReadInv, OneHalfRead
<1> QED
  BY <1>1, Inductive, PTL

----------------------------------------------------------------------------
(* Framing implements Channel *)

\* The message that bytes are, if they are a whole message.
Carried(b) ==
    LET header == SubSeq(b, 1, HeaderSize)
    IN  IF Len(b) >= HeaderSize /\ Len(b) = HeaderSize + FromBytes(header)
        THEN <<SubSeq(b, HeaderSize + 1, Len(b))>>
        ELSE <<>>

\* The beginning of a message carries the message if it is the whole, and nothing
\* otherwise: no beginning of a message is another message.
LEMMA CarriedIs ==
    ASSUME NEW m \in Messages, NEW b \in Seq(Bytes), Begins(b, Frame(m))
    PROVE  Carried(b) = IF Len(b) = Len(Frame(m)) THEN <<m>> ELSE <<>>
<1>0. /\ Len(b) \in Nat /\ HeaderSize \in Nat \ {0} /\ Len(m) \in Nat
      /\ Len(Frame(m)) = HeaderSize + Len(m)
  BY FrameSize, HeaderAssumption
<1>1. CASE ~(Len(b) >= HeaderSize)
  <2>1. Len(b) # Len(Frame(m))
    BY <1>0, <1>1
  <2> QED
    BY <1>1, <2>1 DEF Carried
<1>2. CASE Len(b) >= HeaderSize
  <2> DEFINE h == First(b, HeaderSize)  c == Rest(b, HeaderSize)  e == <<>>
  <2>1. Carried(b) = IF Len(b) = HeaderSize + FromBytes(h) THEN <<c>> ELSE <<>>
    BY <1>2 DEF Carried, First, Rest
  <2>2. e \in Seq(Bytes) /\ HeaderSize \in 1 .. Len(b)
    BY <1>0, <1>2
  <2> HIDE DEF h, c, e
  <2>3. /\ h \in Seq(Bytes) /\ Len(h) = HeaderSize /\ c \in Seq(Bytes)
        /\ Len(c) = Len(b) - HeaderSize /\ Cat(Cat(e, h), c) = Cat(e, b)
    BY <2>2, Cut DEF h, c
  <2>4. Cat(h, c) = b
    BY <2>3, CatEmpty DEF e
  <2>5. Cat(Cat(h, c), e) = b
    BY <2>4, CatEmpty DEF e
  <2>6. Begins(Cat(Cat(h, c), e), Frame(m))
    BY <2>5
  <2>7. FromBytes(h) = Len(m) /\ (Len(c) = Len(m) => c = m)
    BY <2>2, <2>3, <2>6, FrameParts
  <2>8. Len(b) = HeaderSize + Len(m) <=> Len(c) = Len(m)
    BY <1>0, <2>3
  <2> QED
    BY <1>0, <2>1, <2>7, <2>8
<1> QED
  BY <1>1, <1>2

\* No bytes carry no message.
LEMMA CarriedNone == Carried(<<>>) = <<>>
  BY HeaderAssumption DEF Carried

\* A message of the channel is one whose bytes are all on their way.
LEMMA FlyingIs ==
    ASSUME NEW s PROVE Flying(s) = Carried(InFlight(s)) /\ Flying(s)' = Carried(InFlight(s)')
<1>1. Flying(s) = Carried(InFlight(s))
  BY DEF Flying, Carried
<1>2. Flying(s)' = Carried(InFlight(s)')
  BY DEF Flying, Carried, FromBytes, ToBytes
<1> QED
  BY <1>1, <1>2

\* What the channel has on its way, before and after a step.
LEMMA Mapped ==
    /\ Abstract!Init <=> /\ [t \in Streams |-> Carried(InFlight(t))] = [t \in Streams |-> <<>>]
                         /\ delivered = [t \in Streams |-> <<>>]
    /\ [t \in Streams |-> Flying(t)] = [t \in Streams |-> Carried(InFlight(t))]
    /\ [t \in Streams |-> Flying(t)]' = [t \in Streams |-> Carried(InFlight(t)')]
  BY FlyingIs DEF Abstract!Init

\* Bytes that stay on their way: the channel does not move.
LEMMA KeptMaps ==
    ASSUME Kept
    PROVE  UNCHANGED Abstract!vars
<1>1. [t \in Streams |-> Carried(InFlight(t)')] = [t \in Streams |-> Carried(InFlight(t))]
  BY DEF Kept
<1> QED
  BY <1>1, Mapped DEF Kept, Abstract!vars

\* A message that arrives is delivered by the channel.
LEMMA ArrivesMaps ==
    ASSUME IndInv, NEW s \in Streams, NEW m \in Messages, Arrives(s, m)
    PROVE  Abstract!Deliver(s)
<1> DEFINE F == [t \in Streams |-> Carried(InFlight(t))]
           G == [t \in Streams |-> Carried(InFlight(t)')]
<1>1. Carried(InFlight(s)) = <<m>> /\ Carried(InFlight(s)') = <<>>
  <2>1. InFlight(s) = Frame(m) /\ InFlight(s)' = <<>>
    BY DEF Arrives
  <2>2. Frame(m) \in Seq(Bytes) /\ Begins(Frame(m), Frame(m))
    BY FrameSize
  <2>3. Carried(Frame(m)) = <<m>>
    BY <2>2, CarriedIs
  <2> QED
    BY <2>1, <2>3, CarriedNone
<1>2. F[s] = <<m>> /\ G = [F EXCEPT ![s] = <<>>]
  BY <1>1 DEF Arrives
<1>3. [t \in Streams |-> Flying(t)] = F /\ [t \in Streams |-> Flying(t)]' = G
  BY Mapped
<1> HIDE DEF F, G
<1>4. F[s] # <<>> /\ Head(F[s]) = m /\ Tail(F[s]) = <<>>
  BY <1>2
<1>5. Len(m) < MaxContentSize /\ delivered' = [delivered EXCEPT ![s] = Append(@, m)]
  BY DEF Arrives
<1>6. /\ F[s] # <<>> /\ Len(Head(F[s])) < MaxContentSize
      /\ delivered' = [delivered EXCEPT ![s] = Append(@, Head(F[s]))]
      /\ G = [F EXCEPT ![s] = Tail(@)]
  BY <1>2, <1>4, <1>5
<1> QED
  BY <1>3, <1>6 DEF Abstract!Deliver

\* A message that is written is sent by the channel.
LEMMA WriteMaps ==
    ASSUME IndInv, NEW s \in Streams, NEW m \in Messages, WriteMessage(s, m)
    PROVE  Abstract!Send(s, m)
<1> DEFINE F == [t \in Streams |-> Carried(InFlight(t))]
           G == [t \in Streams |-> Carried(InFlight(t)')]
<1>1. /\ delivered' = delivered /\ InFlight(s) = <<>> /\ InFlight(s)' = Frame(m)
      /\ \A t \in Streams \ {s} : InFlight(t)' = InFlight(t)
  BY WriteEffect
<1>2. Carried(InFlight(s)) = <<>> /\ Carried(InFlight(s)') = <<m>>
  <2>1. Frame(m) \in Seq(Bytes) /\ Begins(Frame(m), Frame(m))
    BY FrameSize
  <2>2. Carried(Frame(m)) = <<m>>
    BY <2>1, CarriedIs
  <2> QED
    BY <1>1, <2>2, CarriedNone
<1>3. F[s] = <<>> /\ G = [F EXCEPT ![s] = <<m>>]
  BY <1>1, <1>2
<1>4. [t \in Streams |-> Flying(t)] = F /\ [t \in Streams |-> Flying(t)]' = G
  BY Mapped
<1> HIDE DEF F, G
<1>5. Append(<<>>, m) = <<m>>
  OBVIOUS
<1>6. G = [F EXCEPT ![s] = Append(@, m)]
  BY <1>3, <1>5
<1> QED
  BY <1>1, <1>4, <1>6 DEF Abstract!Send

\* A client that dies loses its message unless the kernel has the whole of it.
LEMMA DieMaps ==
    ASSUME IndInv, NEW s \in Streams, ClientDies(s)
    PROVE  Abstract!Lose(s)
<1> DEFINE F == [t \in Streams |-> Carried(InFlight(t))]
           G == [t \in Streams |-> Carried(InFlight(t)')]
           b == InFlight(s)
           x == InFlight(s)'
<1>1. /\ delivered' = delivered /\ up[s] /\ x \in Seq(Bytes)
      /\ \A t \in Streams \ {s} : InFlight(t)' = InFlight(t)
      /\ \A f : Len(f) \in Nat /\ Begins(b, f) => Begins(x, f)
      /\ b = <<>> => x = <<>>
  BY DieEffect
<1>2. b \in Seq(Bytes)
  BY Parts DEF IndInv
<1>3. Carried(x) = Carried(b) \/ Carried(x) = <<>>
  <2>1. CASE b = <<>>
    BY <1>1, <2>1
  <2>2. CASE b # <<>>
    <3>1. PICK m \in Messages : Begins(b, Frame(m)) /\ Len(b) = Len(Frame(m))
      BY <1>1, <2>2 DEF IndInv, StreamInv
    <3>2. Frame(m) \in Seq(Bytes) /\ Len(Frame(m)) \in Nat
      BY FrameSize
    <3> HIDE DEF b, x
    <3>3. Begins(x, Frame(m))
      BY <1>1, <3>1, <3>2
    <3> QED
      BY <1>1, <1>2, <3>1, <3>3, CarriedIs
  <2> QED
    BY <2>1, <2>2
<1>4. F[s] = Carried(b) /\ G = [F EXCEPT ![s] = Carried(x)]
  BY <1>1
<1>5. F[s] = <<>> \/ \E m : F[s] = <<m>>
  BY <1>4 DEF Carried
<1>6. [t \in Streams |-> Flying(t)] = F /\ [t \in Streams |-> Flying(t)]' = G
  BY Mapped
<1> HIDE DEF F, G, b, x
<1>7. \E n \in 0 .. Len(F[s]) : Carried(x) = SubSeq(F[s], 1, n)
  <2>1. SubSeq(F[s], 1, 0) = <<>>
    BY SubSeqEmpty
  <2>2. SubSeq(F[s], 1, Len(F[s])) = F[s] /\ Len(F[s]) \in Nat
    <3>1. PICK S : F[s] \in Seq(S)
      <4>1. CASE F[s] = <<>>
        BY <4>1
      <4>2. ASSUME NEW m, F[s] = <<m>> PROVE F[s] \in Seq({m})
        BY <4>2
      <4> QED
        BY <1>5, <4>1, <4>2
    <3> QED
      BY <3>1, SubSeqFull
  <2>3. 0 \in 0 .. Len(F[s]) /\ Len(F[s]) \in 0 .. Len(F[s])
    BY <2>2
  <2> QED
    BY <1>3, <1>4, <2>1, <2>2, <2>3
<1>8. \E n \in 0 .. Len(F[s]) : G = [F EXCEPT ![s] = SubSeq(@, 1, n)]
  BY <1>4, <1>7
<1> QED
  BY <1>1, <1>6, <1>8 DEF Abstract!Lose

\* write_message() and the two readers implement the channel: whatever the kernel
\* makes of the bytes, handlers are given the messages that were written, whole, in
\* order, once, and only below the limit.
THEOREM ChannelImplemented == Spec => ImplementsChannel
<1>1. Init => Abstract!Init
  <2> SUFFICES ASSUME Init PROVE Abstract!Init
    OBVIOUS
  <2>1. TypeOK /\ SizeInv
    BY InitInd DEF IndInv
  <2>2. \A t \in Streams : InFlight(t) = <<>>
    <3>1. \A t \in Streams : /\ info[t].header = <<>> /\ info[t].content = <<>>
                             /\ net[t] = <<>> /\ out[t] = <<>>
      BY DEF Init, NothingRead
    <3> QED
      BY <2>1, <3>1, NoBytes
  <2>3. delivered = [t \in Streams |-> <<>>]
    BY DEF Init
  <2> QED
    BY <2>2, <2>3, CarriedNone, Mapped
<1>2. IndInv /\ [Next]_vars => [Abstract!Next]_(Abstract!vars)
  <2> SUFFICES ASSUME IndInv, [Next]_vars
               PROVE  [Abstract!Next]_(Abstract!vars)
    OBVIOUS
  <2>1. CASE Kept
    BY <2>1, KeptMaps
  <2>2. ASSUME NEW s \in Streams, NEW m \in Messages, Arrives(s, m) PROVE Abstract!Next
    BY <2>2, ArrivesMaps DEF Abstract!Next
  <2>3. ASSUME NEW s \in Streams, ClientDies(s) PROVE Abstract!Next
    BY <2>3, DieMaps DEF Abstract!Next
  <2>4. ASSUME NEW s \in Streams, NEW m \in Messages, WriteMessage(s, m) PROVE Abstract!Next
    BY <2>4, WriteMaps DEF Abstract!Next
  <2> QED
    BY <2>1, <2>2, <2>3, <2>4, Step
<1> QED
  BY <1>1, <1>2, Inductive, PTL DEF Spec, ImplementsChannel, Abstract!Spec
=============================================================================
