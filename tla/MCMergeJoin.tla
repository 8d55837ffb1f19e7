---------------------------- MODULE MCMergeJoin ----------------------------
(* Instances of MergeJoin for TLC. *)
EXTENDS MergeJoin

Rule(in, type, offset, window, source) ==
    [in |-> in, type |-> type, offset |-> offset, window |-> window, source |-> source]

Map(kind, out, epoch, stale, lateness, clock, rules) ==
    [kind |-> kind, out |-> out, epoch |-> epoch, stale_timeout |-> stale,
     lateness |-> lateness, clock |-> clock, rules |-> rules]

\* One input a frame behind, one through a window; inputs may go stale.
TwoInputs ==
    Map("SEQUENCE", 1, 1, 0, Null, "NONE",
        <<Rule(1, "OFFSET", -1, 0, "NONE"), Rule(2, "WINDOW", 0, 2, "NONE")>>)

Timed(epoch, rule) == Map("TIMESTAMP", 1, epoch, Null, 1, "MONOTONIC", <<rule>>)

\* Epochs 1 and 2 of stream 1, a map with more rules than the barrier has room
\* for, one with a rule no encoder accepts.
JoinMaps ==
    {TwoInputs,
     Map("SEQUENCE", 1, 2, Null, Null, "NONE", <<Rule(1, "OFFSET", 1, 0, "NONE")>>),
     Map("SEQUENCE", 2, 1, Null, Null, "NONE", [i \in 1 .. 3 |-> Rule(i, "OFFSET", 0, 0, "NONE")]),
     Map("SEQUENCE", 3, 1, Null, Null, "NONE", <<Rule(1, "WINDOW", 0, 0, "NONE")>>),
     Timed(1, Rule(1, "OFFSET", 1, 0, "SLOT_HEADER")),
     Timed(2, Rule(1, "WINDOW", 0, 1, "FRAME_DESCRIPTOR"))}

Damaged ==
    {[Encode(Timed(1, Rule(1, "OFFSET", 1, 0, "SLOT_HEADER"))) EXCEPT !.frame = "newer"],
     [Encode(TwoInputs) EXCEPT !.body.rules[1].window = 1],
     [Encode(Timed(1, Rule(1, "OFFSET", 1, 0, "SLOT_HEADER"))) EXCEPT !.body.clock = "INVALID"]}

\* The calls of each type of barrier, and one that is of no use to it.
SomeCalls ==
    [SEQUENCE |-> {"observed_seq", "processed_seq", "require_processed", "invalidate"},
     TIMESTAMP |-> {"observed_time", "processed_time", "require_processed", "observed_seq"},
     LATEST |-> {"observed_seq", "observed_time", "invalidate", "ordering", "require_processed"}]

AllTypes == {"SEQUENCE", "TIMESTAMP", "LATEST"}
=============================================================================
