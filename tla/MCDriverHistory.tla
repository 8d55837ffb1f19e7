--------------------------- MODULE MCDriverHistory ---------------------------
(* Instances of DriverHistory for TLC. *)
EXTENDS MCDriver, DriverHistory
=============================================================================
