--------------------------- MODULE MCDriverClient ---------------------------
(***************************************************************************)
(* One client and one rival that may have the same client id; two faults.  *)
(***************************************************************************)
EXTENDS DriverClient

MCIds == {1, 2}

=============================================================================
