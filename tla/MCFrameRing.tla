----------------------------- MODULE MCFrameRing -----------------------------
(* Instances of FrameRing for TLC. *)
EXTENDS FrameRing

CONSTANTS k1, k2, c1, c2

\* Pool 1 holds one payload word, pool 2 two.
TwoPools == {1, 2}
TwoStrides == [p \in TwoPools |-> p]
OnePool == {1}
OneStride == [p \in OnePool |-> 1]

=============================================================================
