---------------------------- MODULE Subsequences ----------------------------
(***************************************************************************)
(* Waiting lines: taking some of those who wait out of a sequence without  *)
(* changing the order of the others.  SelectSeq does that too, but it is   *)
(* recursive and takes an operator, which no proof could see through.      *)
(***************************************************************************)
EXTENDS Naturals, Sequences, FiniteSets

\* The k-th of the numbers in I, from the smallest.
Nth(I, k) == CHOOSE i \in I : Cardinality({j \in I : j <= i}) = k

\* Where s has an element of S.
Positions(s, S) == {i \in DOMAIN s : s[i] \in S}

\* The elements of s that are in S, in their order.
Only(s, S) ==
    LET I == Positions(s, S)
    IN  [k \in 1 .. Cardinality(I) |-> s[Nth(I, k)]]

\* The elements of s, and that none occurs twice.
Elements(s) == {s[i] : i \in DOMAIN s}
Distinct(s) == \A i, j \in DOMAIN s : s[i] = s[j] => i = j
=============================================================================
