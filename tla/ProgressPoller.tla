--------------------------- MODULE ProgressPoller ---------------------------
(***************************************************************************)
(* FrameProgress on the receiving side (src/client/tp_progress_poller.c):  *)
(* a tracker remembers how many bytes of a frame were reported, so that an *)
(* application never sees them shrink.  A consumer's poller keeps one      *)
(* entry per header slot and asks the consumer about the slot              *)
(* (tp_consumer_validate_progress); a plain poller has a small table that  *)
(* it fills round and round.  The loads of the validation are those of     *)
(* module FrameRing and are one step here.                                 *)
(***************************************************************************)
EXTENDS Integers, FiniteSets, Sequences

CONSTANTS
    RingSlots,       \* header_nslots by epoch
    TrackerCapacity, \* TP_PROGRESS_TRACKER_CAPACITY
    PayloadLength,   \* values_len_bytes of every frame
    LastEpoch,       \* bounds: epochs,
    LastSeq          \*         frames of an epoch

ASSUME ProgressAssumption ==
    /\ PayloadLength \in Nat /\ LastEpoch \in Nat /\ LastSeq \in Nat
    /\ TrackerCapacity \in Nat \ {0} /\ RingSlots \in [1 .. LastEpoch -> Nat \ {0}]

VARIABLES
    tracker,   \* tp_progress_poller_t: nslots, entries, cursor, validates
    mapped,    \* the consumer's mapped epoch, 0 for none
    slots,     \* header ring by epoch: frame and whether it is committed
    given,     \* history: bytes last reported to the application, by frame
    back       \* history: the consumer went back to an older epoch

progressVars == <<tracker, mapped, slots, given, back>>

Frame == (1 .. LastEpoch) \X (0 .. LastSeq)
NoFrame == <<0, 0>>
Blank == [frame |-> NoFrame, bytes |-> 0]

\* tp_progress_poller_resize: entries keep their places.
Resize(t, capacity) ==
    [t EXCEPT !.entries = [i \in 1 .. capacity |-> IF i <= Len(@) THEN @[i] ELSE Blank]]

\* tp_progress_poller_set_consumer, called for every epoch that is mapped: the table
\* grows with entries in place, and the next ring may be shorter than the table.
SetConsumer(t, e) ==
    [(IF Len(t.entries) < RingSlots[e] THEN Resize(t, RingSlots[e]) ELSE t) EXCEPT !.nslots = RingSlots[e]]

\* Mutant: the slot may hold another frame by now.
SlotConfirmsAnySeq(p) == mapped = p.frame[1] /\ slots[mapped][p.frame[2] % RingSlots[mapped]].committed

\* tp_consumer_validate_progress: the frame is the one in its slot of the mapped
\* ring, committed, and not shorter than what is reported.
SlotConfirms(p) ==
    /\ mapped = p.frame[1]
    /\ slots[mapped][p.frame[2] % RingSlots[mapped]] = [seq |-> p.frame[2], committed |-> TRUE]
    /\ p.bytes <= PayloadLength

\* The entry a report is compared with and recorded in: the slot's own, or in a
\* plain table the frame's, or else the next to be reused.
EntryFor(t, f) ==
    LET same == {i \in DOMAIN t.entries : t.entries[i].frame = f}
    IN  IF t.nslots > 0 THEN (f[2] % t.nslots) + 1
        ELSE IF same # {} THEN CHOOSE i \in same : TRUE
        ELSE t.cursor + 1

\* tp_progress_poller_validate.  The limit of max_payload_bytes is left out: nothing in
\* the repository sets it, and 0 is no limit.
Accepted(p) ==
    LET e == tracker.entries[EntryFor(tracker, p.frame)]
    IN  /\ e.frame = p.frame => p.bytes >= e.bytes
        /\ tracker.validates => SlotConfirms(p)

Recorded(p) ==
    LET i == EntryFor(tracker, p.frame)
        reused == tracker.nslots = 0 /\ tracker.entries[i].frame # p.frame
    IN  [tracker EXCEPT !.entries[i] = p,
                        !.cursor = IF reused THEN (@ + 1) % Len(tracker.entries) ELSE @]

\* tp_progress_poller_handler
OnProgress(p) ==
    /\ Accepted(p)
    /\ tracker' = Recorded(p)
    /\ given' = [given EXCEPT ![p.frame] = p.bytes]
    /\ UNCHANGED <<mapped, slots, back>>

(***************************************************************************)
(* The consumer and the producer around it                                 *)
(***************************************************************************)
\* tp_consumer_attach_config; only the late answer of a driver attach goes back.
MapEpoch(e) ==
    /\ tracker.validates /\ mapped # e
    /\ mapped' = e
    /\ tracker' = IF e = 0 THEN tracker ELSE SetConsumer(tracker, e)
    /\ back' = (back \/ \E f \in Frame : f[1] > e /\ e # 0 /\ given[f] > 0)
    /\ UNCHANGED <<slots, given>>

\* The next frame of an epoch is begun, then committed.
NextOf(e) ==
    LET held == {slots[e][i].seq : i \in 0 .. RingSlots[e] - 1}
        top == CHOOSE s \in held : \A o \in held : o <= s
    IN  IF slots[e][top % RingSlots[e]].committed \/ top < 0 THEN top + 1 ELSE top

WriteFrame(e) ==
    LET s == NextOf(e)
        i == s % RingSlots[e]
    IN  /\ tracker.validates /\ s <= LastSeq
        /\ slots' = [slots EXCEPT ![e][i] = [seq |-> s, committed |-> slots[e][i].seq = s]]
        /\ UNCHANGED <<tracker, mapped, given, back>>

\* tp_progress_poller_init; a consumer's poller is given the consumer while it has
\* nothing mapped.
ProgressInit ==
    /\ \E v \in BOOLEAN : tracker = [nslots |-> 0, validates |-> v, cursor |-> 0,
                                     entries |-> [i \in 1 .. TrackerCapacity |-> Blank]]
    /\ mapped = 0
    /\ slots = [e \in 1 .. LastEpoch |-> [i \in 0 .. RingSlots[e] - 1 |-> [seq |-> -1, committed |-> FALSE]]]
    /\ given = [f \in Frame |-> 0]
    /\ back = FALSE

\* A producer's application may report what it likes.
ProgressNext ==
    \/ \E f \in Frame, n \in 1 .. PayloadLength + 1 : OnProgress([frame |-> f, bytes |-> n])
    \/ \E e \in 0 .. LastEpoch : MapEpoch(e)
    \/ \E e \in 1 .. LastEpoch : WriteFrame(e)

\* What is reported of a frame never shrinks.  For a consumer this holds although an
\* entry is overwritten by the next frame of its slot, because the slot itself has
\* then moved on, unless the consumer went back to an older epoch.  A plain table
\* forgets a frame, but not before as many others were reported as it has entries.
ProgressNeverShrinks ==
    [][\A f \in Frame :
          \/ given'[f] >= given[f] \/ back
          \/ /\ ~ tracker.validates
             /\ Cardinality({o \in Frame \ {f} : given[o] > 0}) >= TrackerCapacity]_progressVars

=============================================================================
