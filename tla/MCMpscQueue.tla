---------------------------- MODULE MCMpscQueue ----------------------------
(* Instances of MpscQueue for TLC. *)
EXTENDS MpscQueue

CONSTANTS o1, o2, p1, p2

TwoOfferers == {o1, o2}
FirstOfferer == {o1}
TwoPollers == {p1, p2}
=============================================================================
