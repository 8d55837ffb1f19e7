-------------------------- MODULE MCClientConductor --------------------------
(* Two shared subscriptions, then an add of each kind. *)
EXTENDS ClientConductor

Publications == [h \in Handles |-> h = "pub"]
Shared == <<"control", "qos">>
=============================================================================
