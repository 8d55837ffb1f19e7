------------------------------ MODULE MCDriver ------------------------------
(* Instances of Driver for TLC. *)
EXTENDS Driver, TLC

CONSTANTS NoNode, n1, n2

OneStream == {1}
TwoStreams == {1, 2}
OneNode == {n1}
TwoNodes == {n1, n2}
NodeSymmetry == Permutations(TwoNodes)

Request(client, stream, role, node) ==
    [client |-> client, stream |-> stream, role |-> role, mode |-> "EXISTING_OR_CREATE",
     node |-> node, policy |-> "UNSPECIFIED", layout_ok |-> TRUE]

\* Two clients of the configured stream, one of them in either role.
PlainRequests ==
    {Request(1, 1, "PRODUCER", NoNode), Request(2, 1, "PRODUCER", NoNode),
     Request(2, 1, "CONSUMER", NoNode)}

\* Requests that fail one check each.
OddRequests ==
    {[Request(1, 1, "PRODUCER", NoNode) EXCEPT !.role = "INVALID"],
     [Request(1, 1, "PRODUCER", NoNode) EXCEPT !.client = 0],
     [Request(1, 1, "PRODUCER", NoNode) EXCEPT !.layout_ok = FALSE],
     [Request(1, 2, "PRODUCER", NoNode) EXCEPT !.mode = "REQUIRE_EXISTING"],
     [Request(1, 0, "CONSUMER", NoNode) EXCEPT !.policy = "HUGEPAGES"]}

\* Dynamic streams and chosen node ids on top.
MixedRequests ==
    {Request(1, 1, "PRODUCER", n1), Request(1, 1, "CONSUMER", 0),
     Request(2, 0, "PRODUCER", NoNode), Request(2, 1, "CONSUMER", n1)} \cup OddRequests

=============================================================================
