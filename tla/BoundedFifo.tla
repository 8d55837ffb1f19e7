---------------------------- MODULE BoundedFifo ----------------------------
(***************************************************************************)
(* What the client's command queue promises (tp_mpsc_queue.h): a FIFO of   *)
(* at most Capacity commands.  An offer that is refused, and a poll that   *)
(* finds nothing, change nothing.                                          *)
(***************************************************************************)
EXTENDS Naturals, Sequences

CONSTANTS Items, Capacity

VARIABLES
    queue,      \* the commands inside, oldest first
    delivered   \* the commands that polls have returned, in order

vars == <<queue, delivered>>

Init == queue = << >> /\ delivered = << >>

Put(i) ==
    /\ Len(queue) < Capacity
    /\ queue' = Append(queue, i)
    /\ UNCHANGED delivered

Take ==
    /\ queue # << >>
    /\ queue' = Tail(queue)
    /\ delivered' = Append(delivered, Head(queue))

Next == Take \/ \E i \in Items : Put(i)

Spec == Init /\ [][Next]_vars
=============================================================================
