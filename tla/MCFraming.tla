----------------------------- MODULE MCFraming -----------------------------
(* Instances of Framing: bytes are bits, headers have two of them.          *)
EXTENDS Framing
CONSTANTS s1, s2

BitWeights == <<1, 2, 4>>

\* No byte, the largest size that is accepted, and the limit, which is refused.
SizesThatMatter == {<<>>, <<0, 1>>, <<1, 0, 1>>}
=============================================================================
