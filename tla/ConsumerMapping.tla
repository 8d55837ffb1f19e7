--------------------------- MODULE ConsumerMapping ---------------------------
(***************************************************************************)
(* How a consumer (src/client/tp_consumer.c) follows the epochs of its     *)
(* stream: announces and driver attaches map the regions of an epoch after *)
(* checking their superblocks (src/common/tp_shm.c), descriptors of        *)
(* another epoch, older announces, revocations, configuration and signs    *)
(* that the producer is gone unmap them.                                   *)
(*                                                                         *)
(* Announces and descriptors are two Aeron streams: each keeps its order,  *)
(* nothing orders one against the other.  What the consumer reads of a     *)
(* frame's slot is the business of module FrameRing.                       *)
(***************************************************************************)
EXTENDS Integers, Sequences, FiniteSets, FiniteSetsExt

CONSTANTS
    MaxEpoch,   \* bounds: epochs of the stream,
    MaxSeq,     \*         frames of an epoch,
    MaxQueue,   \*         messages waiting on each stream,
    MaxFaults   \*         bad regions, bad or late announces, lost descriptors,
                \*         config changes, revocations, changes of owner, closes

ASSUME BoundsAssumption ==
    MaxEpoch \in Nat \ {0} /\ MaxSeq \in Nat /\ MaxQueue \in Nat /\ MaxFaults \in Nat

VARIABLES
    consumer,     \* tp_consumer_t
    announces,    \* waiting on the announce subscription
    descriptors,  \* waiting on the descriptor subscription
    answer,       \* epoch of a driver attach that has not been applied, or 0
    world,        \* the stream: epoch, next frame, regions and owners, quiet epochs
    faults

vars == <<consumer, announces, descriptors, answer, world, faults>>

Fault == faults < MaxFaults /\ faults' = faults + 1

(***************************************************************************)
(* Regions and their superblocks                                           *)
(***************************************************************************)
StreamId == 7
NSlots == 4
Superblock(e, type) ==
    [magic |-> "TPOL", layout |-> 1, epoch |-> e, stream |-> StreamId, type |-> type,
     pool |-> IF type = "POOL" THEN 1 ELSE 0, nslots |-> NSlots,
     slot |-> IF type = "HEADER" THEN 256 ELSE 0, stride |-> IF type = "POOL" THEN 64 ELSE 0]

\* What may be found under the paths of an epoch: its regions, no file, or a pool
\* somebody else left there.
RegionKinds == {"sound", "missing", "older", "wider"}
HeaderFound(e, k) == [Superblock(e, "HEADER") EXCEPT !.magic = IF k = "missing" THEN "none" ELSE @]
PoolFound(e, k) ==
    [Superblock(e, "POOL") EXCEPT !.epoch = IF k = "older" THEN e - 1 ELSE e,
                                  !.stride = IF k = "wider" THEN 128 ELSE @]

\* Mutant: a region of another epoch is taken.
SuperblockAnyEpoch(found, expected) == found.magic = "TPOL" /\ found.nslots = expected.nslots

\* tp_shm_validate_superblock: every field the configuration names.
ValidateSuperblock(found, expected) ==
    /\ found.magic = "TPOL"
    /\ found.layout = expected.layout /\ found.epoch = expected.epoch
    /\ found.stream = expected.stream /\ found.type = expected.type
    /\ found.pool = expected.pool
    /\ found.nslots = expected.nslots
    /\ found.type = "HEADER" => found.slot = expected.slot
    /\ found.type = "POOL" => found.stride = expected.stride

\* tp_shm_validate_stride_alignment, without huge pages
StrideAligned(stride) == stride >= 64 /\ stride % 64 = 0

\* The regions of an epoch pass for what the announce or the driver says of them.
MapsKind == [e \in 1 .. MaxEpoch |-> {k \in RegionKinds :
    /\ ValidateSuperblock(HeaderFound(e, k), Superblock(e, "HEADER"))
    /\ StrideAligned(Superblock(e, "POOL").stride)
    /\ ValidateSuperblock(PoolFound(e, k), Superblock(e, "POOL"))}]
Maps(e) == world.regions[e] \in MapsKind[e]

(***************************************************************************)
(* tp_consumer_t; handed (history) holds the frames given to the           *)
(* application since the regions were mapped.                              *)
(***************************************************************************)
\* tp_consumer_init
Opened ==
    [state |-> "UNMAPPED", mapped |-> 0, lastSeq |-> 0, gap |-> 0, young |-> FALSE, pid |-> 0,
     lastAnnounce |-> 0, joined |-> FALSE, useShm |-> TRUE, fallback |-> FALSE, attached |-> FALSE,
     handed |-> {}]

\* tp_consumer_unmap_regions
UnmapRegions(c) ==
    [c EXCEPT !.state = "UNMAPPED", !.mapped = 0, !.lastSeq = 0, !.gap = 0, !.young = FALSE, !.pid = 0,
              !.handed = {}]

\* tp_consumer_enter_fallback
EnterFallback(c) == [UnmapRegions(c) EXCEPT !.state = "FALLBACK"]

\* tp_consumer_attach_config: what fails leaves the consumer unmapped, or in
\* fallback if it was given somewhere to fall back to.
AttachConfig(c, e, layoutKnown) ==
    IF layoutKnown /\ Maps(e)
    THEN [UnmapRegions(c) EXCEPT !.state = "MAPPED", !.mapped = e, !.young = TRUE,
                                 !.pid = world.owner[e], !.lastAnnounce = e]
    ELSE IF c.fallback THEN EnterFallback(c) ELSE UnmapRegions(c)

\* tp_consumer_check_activity_liveness: not soon after mapping.
ActivityStale(c) == ~ c.young /\ c.mapped \in world.quiet

\* tp_consumer_check_pid_liveness: the owner is not the one found when mapping.
OwnerChanged(c) == c.pid # world.owner[c.mapped]

\* Mutant: only the owner is looked at.
CheckOwnerOnly(c) == IF c.state = "MAPPED" /\ OwnerChanged(c) THEN UnmapRegions(c) ELSE c

\* The end of every poll.
CheckLiveness(c) ==
    IF c.state = "MAPPED" /\ (ActivityStale(c) \/ OwnerChanged(c)) THEN UnmapRegions(c) ELSE c

(***************************************************************************)
(* tp_consumer_control_handler: announces                                  *)
(***************************************************************************)
\* The first announce seen sets the join time: by a monotonic clock it, and
\* whatever waits behind it, was sent before.
Join(queue) == [i \in DOMAIN queue |-> [queue[i] EXCEPT !.counts = FALSE]]

\* Mutant: an announce of an older epoch is applied when nothing is mapped.
AcceptsOlder(c, a) == ~ (c.state = "MAPPED" /\ a.epoch < c.mapped)

\* Not of an epoch that is over.
Accepts(c, a) ==
    /\ ~ (c.state = "MAPPED" /\ a.epoch < c.mapped)
    /\ a.epoch >= c.lastAnnounce

\* tp_consumer_apply_announce: an announce found malformed leaves everything as it
\* is; the others are applied, be it the mapped epoch that is announced again.
ApplyAnnounce(c, a) ==
    LET e == AttachConfig(c, a.epoch, a.content # "layout")
    IN  IF a.content = "malformed" THEN c
        ELSE IF e.state = "FALLBACK" THEN [e EXCEPT !.lastAnnounce = a.epoch] ELSE e

\* An announce that does not count is stale, was sent before the consumer joined,
\* or is for another stream or layout.  Any other epoch, newer or older, unmaps
\* before anything is applied.
HandleAnnounce(c, a) ==
    LET other == IF c.state = "MAPPED" /\ a.epoch # c.mapped THEN UnmapRegions(c) ELSE c
    IN  IF ~ c.useShm \/ ~ a.counts THEN c
        ELSE IF Accepts(c, a) THEN ApplyAnnounce(other, a) ELSE other

\* The clock of an announce is monotonic or synchronised; only the former is
\* compared with the join time.
PollAnnounce ==
    /\ announces # <<>>
    /\ \E monotonic \in BOOLEAN :
          LET joins == consumer.useShm /\ ~ consumer.joined
              queue == IF joins /\ monotonic THEN Join(announces) ELSE announces
              c == [consumer EXCEPT !.joined = @ \/ joins]
          IN  /\ consumer' = CheckLiveness(HandleAnnounce(c, Head(queue)))
              /\ announces' = Tail(queue)
    /\ UNCHANGED <<descriptors, answer, world, faults>>

(***************************************************************************)
(* tp_consumer_control_handler: configuration and driver messages.  An     *)
(* assignment of half an endpoint, and a configuration for another         *)
(* consumer, change nothing; a driver shutdown is only reported.           *)
(***************************************************************************)
PollConfig(m) ==
    /\ Fault
    /\ LET c == [consumer EXCEPT !.useShm = m.useShm, !.fallback = m.fallback]
       IN  consumer' = CheckLiveness(IF ~ m.useShm THEN EnterFallback(c)
                                     ELSE IF c.state = "FALLBACK" THEN [c EXCEPT !.state = "UNMAPPED"] ELSE c)
    /\ descriptors' = IF m.assigned THEN <<>> ELSE descriptors
    /\ UNCHANGED <<announces, answer, world>>

\* A revoked lease: the application is to attach again.
PollRevoked ==
    /\ Fault
    /\ consumer' = [UnmapRegions(consumer) EXCEPT !.attached = FALSE]
    /\ UNCHANGED <<announces, descriptors, answer, world>>

(***************************************************************************)
(* tp_consumer_descriptor_handler                                          *)
(***************************************************************************)
\* Mutant: a first frame that is not frame 0 counts as a gap.
CountFromZero(c, seq) ==
    [c EXCEPT !.gap = IF seq > c.lastSeq + 1 THEN @ + (seq - c.lastSeq - 1) ELSE @,
              !.lastSeq = IF seq > @ THEN seq ELSE @, !.handed = @ \cup {seq}]

\* A lastSeq of 0 is nothing seen, or frame 0.
Count(c, seq) ==
    [c EXCEPT !.gap = IF c.lastSeq # 0 /\ seq > c.lastSeq + 1 THEN @ + (seq - c.lastSeq - 1) ELSE @,
              !.lastSeq = IF seq > @ THEN seq ELSE @, !.handed = @ \cup {seq}]

HandleDescriptor(c, d) ==
    IF c.state # "MAPPED" THEN c
    ELSE IF d.epoch # c.mapped THEN UnmapRegions(c)
    ELSE Count(c, d.seq)

PollDescriptor ==
    /\ descriptors # <<>>
    /\ consumer' = CheckLiveness(HandleDescriptor(consumer, Head(descriptors)))
    /\ descriptors' = Tail(descriptors)
    /\ UNCHANGED <<announces, answer, world, faults>>

\* A poll that finds nothing.
PollNothing ==
    /\ consumer' = CheckLiveness(consumer)
    /\ UNCHANGED <<announces, descriptors, answer, world, faults>>

(***************************************************************************)
(* tp_consumer_attach_driver and the asynchronous form; the exchange with  *)
(* the driver is module DriverClient's.  The epoch is the one at the time  *)
(* of the answer and may be over when it is applied.                       *)
(***************************************************************************)
AttachDriver ==
    /\ ~ consumer.attached /\ answer = 0
    /\ answer' = world.epoch
    /\ UNCHANGED <<consumer, announces, descriptors, world, faults>>

AttachAnswered ==
    /\ answer # 0
    /\ LET c == AttachConfig(consumer, answer, TRUE)
       IN  consumer' = [c EXCEPT !.attached = (c.state # "UNMAPPED")]
    /\ answer' = 0
    /\ UNCHANGED <<announces, descriptors, world, faults>>

\* tp_consumer_close, and another consumer on the client's announce subscription.
Close ==
    /\ Fault
    /\ consumer' = Opened
    /\ descriptors' = <<>> /\ answer' = 0
    /\ UNCHANGED <<announces, world>>

(***************************************************************************)
(* The stream: driver and producer, their messages, the passing of time.   *)
(***************************************************************************)
NewEpoch ==
    /\ world.epoch < MaxEpoch
    /\ LET e == world.epoch + 1
       IN  \E k \in RegionKinds :
              /\ world' = [world EXCEPT !.epoch = e, !.next = 0, !.regions[e] = k]
              /\ IF k = "sound" THEN UNCHANGED faults ELSE Fault
    /\ UNCHANGED <<consumer, announces, descriptors, answer>>

\* The periodic announce; a fault is a malformed or unknown one, one of an epoch
\* that is over, or one the consumer will find stale.
Announced(e, content, counts) == [epoch |-> e, content |-> content, counts |-> counts]
Announce ==
    /\ Len(announces) < MaxQueue
    /\ \/ /\ announces' = Append(announces, Announced(world.epoch, "ok", TRUE))
          /\ UNCHANGED faults
       \/ /\ \E a \in {Announced(world.epoch, "malformed", TRUE), Announced(world.epoch, "layout", TRUE),
                       Announced(world.epoch, "ok", FALSE)}
                      \cup {Announced(e, "ok", TRUE) : e \in 1 .. world.epoch - 1} :
                announces' = Append(announces, a)
          /\ Fault
    /\ UNCHANGED <<consumer, descriptors, answer, world>>

\* A descriptor is sent, or lost on the way.
Publish ==
    /\ world.next <= MaxSeq
    /\ world' = [world EXCEPT !.next = @ + 1]
    /\ \/ /\ Len(descriptors) < MaxQueue
          /\ descriptors' = Append(descriptors, [epoch |-> world.epoch, seq |-> world.next])
          /\ UNCHANGED faults
       \/ Fault /\ UNCHANGED descriptors
    /\ UNCHANGED <<consumer, announces, answer>>

\* The owner of an epoch stops updating its activity timestamp, or goes on.
Silence(e) ==
    /\ e \notin world.quiet
    /\ IF e = world.epoch THEN Fault ELSE UNCHANGED faults
    /\ world' = [world EXCEPT !.quiet = @ \cup {e}]
    /\ UNCHANGED <<consumer, announces, descriptors, answer>>

Resume ==
    /\ world.epoch \in world.quiet
    /\ world' = [world EXCEPT !.quiet = @ \ {world.epoch}]
    /\ UNCHANGED <<consumer, announces, descriptors, answer, faults>>

\* Another process takes over the regions of the current epoch.
OwnerChanges ==
    /\ Fault
    /\ world' = [world EXCEPT !.owner[world.epoch] = 3 - @]
    /\ UNCHANGED <<consumer, announces, descriptors, answer>>

\* The mapping is older than the freshness window.
Mature ==
    /\ consumer.young
    /\ consumer' = [consumer EXCEPT !.young = FALSE]
    /\ UNCHANGED <<announces, descriptors, answer, world, faults>>

Init ==
    /\ consumer = Opened
    /\ announces = <<>> /\ descriptors = <<>> /\ answer = 0
    /\ world = [epoch |-> 1, next |-> 0, regions |-> [e \in 1 .. MaxEpoch |-> "sound"],
                owner |-> [e \in 1 .. MaxEpoch |-> 1], quiet |-> {}]
    /\ faults = 0

Config(useShm, fallback, assigned) == [useShm |-> useShm, fallback |-> fallback, assigned |-> assigned]
Configs == {Config(FALSE, TRUE, FALSE), Config(TRUE, TRUE, FALSE), Config(TRUE, FALSE, TRUE)}

Next ==
    \/ PollAnnounce \/ PollDescriptor \/ PollNothing \/ PollRevoked \/ \E m \in Configs : PollConfig(m)
    \/ AttachDriver \/ AttachAnswered \/ Close
    \/ NewEpoch \/ Announce \/ Publish \/ OwnerChanges \/ Mature \/ Resume
    \/ \E e \in 1 .. world.epoch : Silence(e)

\* The application polls both streams, the driver keeps announcing, and time passes.
Fairness ==
    /\ WF_vars(PollAnnounce) /\ WF_vars(PollDescriptor) /\ WF_vars(PollNothing) /\ WF_vars(Mature)
    /\ WF_vars(Announce /\ UNCHANGED faults)

Spec == Init /\ [][Next]_vars /\ Fairness

(***************************************************************************)
(* Properties                                                              *)
(***************************************************************************)
\* The consumer's fields stay within their bounds, and what is not mapped holds
\* nothing of a mapping (tp_consumer_unmap_regions).
TypeOK ==
    /\ consumer.state \in {"UNMAPPED", "MAPPED", "FALLBACK"}
    /\ consumer.mapped \in 0 .. MaxEpoch /\ consumer.lastAnnounce \in 0 .. MaxEpoch
    /\ consumer.lastSeq \in 0 .. MaxSeq /\ consumer.gap \in 0 .. MaxSeq
    /\ (consumer.state = "MAPPED") = (consumer.mapped # 0)
    /\ consumer.state # "MAPPED" => consumer.lastSeq = 0 /\ consumer.gap = 0 /\ ~ consumer.young
    /\ Len(announces) <= MaxQueue /\ Len(descriptors) <= MaxQueue
    /\ world.quiet \subseteq 1 .. MaxEpoch /\ faults \in 0 .. MaxFaults

\* What a consumer has mapped are regions of the epoch it believes in, both of them
\* (tp_consumer_attach_config), and no announce it took since was for another
\* epoch: whatever order descriptors, announces, driver answers and configuration
\* came in.
MappedRegionsMatch ==
    consumer.state = "MAPPED" =>
        /\ consumer.lastAnnounce = consumer.mapped
        /\ world.regions[consumer.mapped] = "sound"

\* drops_gap, reported in QosConsumer, is the number of frames the application was
\* not handed between the first frame it was handed since the mapping (frame 0 does
\* not count: last_seq_seen cannot tell it from none) and the last one.
GapCountsMissedFrames ==
    LET handed == consumer.handed \ {0}
    IN  consumer.gap = IF handed = {} THEN 0
                       ELSE Cardinality({s \in Min(handed) .. Max(handed) : s \notin handed})

\* Once it has heard of an epoch the consumer never maps an older one again, but
\* for the late answer of a driver attach (tp_consumer_attach_config does not
\* compare epochs).
NeverBackToOlderEpoch ==
    [][consumer'.state = "MAPPED" =>
          \/ consumer'.mapped >= consumer.lastAnnounce
          \/ answer # 0 /\ consumer'.mapped = answer /\ answer' = 0]_vars

\* When the stream has settled (its epoch lives and its regions are sound, and the
\* consumer may use shared memory) the consumer ends up mapped to the current epoch
\* and stays there: late descriptors and announces of older epochs unmap it, but
\* only until the next announce.
Settled == consumer.useShm /\ Maps(world.epoch) /\ world.epoch \notin world.quiet
SettlesOnCurrentEpoch == <>[](Settled => consumer.mapped = world.epoch)

\* A mapping whose producer is gone does not last (the two liveness checks at the
\* end of every poll).
Abandoned == consumer.mapped # 0 /\ consumer.mapped < world.epoch /\ consumer.mapped \in world.quiet
AbandonedMappingEnds == Abandoned ~> ~ Abandoned

\* The consumer's state describes what it has mapped.
MappingSound == TypeOK /\ MappedRegionsMatch

\* The consumer follows its stream: off a mapping whose producer is gone, on to the
\* current epoch.
FollowsStream == SettlesOnCurrentEpoch /\ AbandonedMappingEnds

=============================================================================
