------------------------------ MODULE MergeJoin ------------------------------
(***************************************************************************)
(* Merge maps and join barriers (src/common/tp_merge_map.c,                *)
(* src/common/tp_join_barrier.c, the merge map part of tp_control_poller): *)
(* a stage announces for an output stream and epoch which input frames one *)
(* output frame needs; receivers keep the map in a registry and load it    *)
(* into a barrier, which says from the frames observed and processed so    *)
(* far whether an output frame may be made.                                *)
(*                                                                         *)
(* Announcements are re-sent and come from several publications: one that  *)
(* was sent may be delivered any number of times, in any order, or never.  *)
(* Numbers absent from a message are Null, an optional field of the        *)
(* barrier's input state (has_x and x in the code) is None when not set.   *)
(***************************************************************************)
EXTENDS Integers, Sequences, FiniteSets, FiniteSetsExt, Wire

CONSTANTS
    Maps,             \* the merge maps stages may announce
    Foreign,          \* frames of merge map templates that are damaged
    Types,            \* barrier types in use
    Calls,            \* Calls[type]: the calls made on a barrier, none of which asks for its type
    RuleCapacity,     \* rule_capacity of the barrier
    RegistryCapacity, \* capacity of the registry
    Values,           \* sequence numbers and timestamps of input frames
    MaxNow            \* bound: the clock

Null == -100
None == -1

\* tp_sequence_merge_rule_t, tp_timestamp_merge_rule_t and the two maps, which
\* share their fields here.
RuleRecords == [in : Nat, type : {"OFFSET", "WINDOW"}, offset : Int, window : Nat,
                source : {"NONE", "FRAME_DESCRIPTOR", "SLOT_HEADER"}]
Clocks == {"NONE", "MONOTONIC", "REALTIME", "INVALID"}
MapRecords == [kind : {"SEQUENCE", "TIMESTAMP"}, out : Nat, epoch : Nat, stale_timeout : Nat \cup {Null},
               lateness : Nat \cup {Null}, clock : Clocks, rules : Seq(RuleRecords)]

\* A sequence map has no clock domain, a timestamp map has one; a rule's number
\* that its type does not use is 0.
WellFormed(m) ==
    /\ m \in MapRecords
    /\ m.kind = "SEQUENCE" <=> m.clock = "NONE"
    /\ \A i \in DOMAIN m.rules : IF m.rules[i].type = "OFFSET" THEN m.rules[i].window = 0 ELSE m.rules[i].offset = 0

\* What makes a frame a damaged one: its SBE frame, a rule with both numbers or
\* with neither, an invalid clock domain.
IsDamaged(msg) ==
    \/ msg.frame \in Frames \ {"good"}
    \/ \E i \in DOMAIN msg.body.rules : msg.body.rules[i].offset = Null <=> msg.body.rules[i].window = Null
    \/ msg.template = "TIMESTAMP" /\ msg.body.clock = "INVALID"

ASSUME CapacityAssumption == RuleCapacity \in Nat \ {0} /\ RegistryCapacity \in Nat \ {0}
ASSUME ValuesAssumption == Values \subseteq Nat /\ MaxNow \in Nat \ {0}
ASSUME MapsAssumption == \A m \in Maps : WellFormed(m)
ASSUME ForeignAssumption == \A msg \in Foreign : IsDamaged(msg)
ASSUME TypesAssumption == Types \subseteq {"SEQUENCE", "TIMESTAMP", "LATEST"}

VARIABLES
    barrier,    \* tp_join_barrier_t
    registry,   \* tp_merge_map_registry_t: entries, or Free
    now,
    adopted,    \* history: the map the barrier was last given, as announced
    seen,       \* history: what was observed and processed since then
    accepted    \* history: last map the registry took, by kind and stream

vars == <<barrier, registry, now, adopted, seen, accepted>>

NoMap == [kind |-> "none"]
Free == [kind |-> "free"]

(***************************************************************************)
(* Codec                                                                   *)
(***************************************************************************)

\* tp_sequence_rule_valid, tp_timestamp_rule_valid: what the encoders accept.
RuleValid(kind, r) ==
    /\ kind = "SEQUENCE" \/ r.source \in {"FRAME_DESCRIPTOR", "SLOT_HEADER"}
    /\ r.type = "OFFSET" \/ (r.type = "WINDOW" /\ r.window > 0)

\* On the wire a rule has either an offset or a window, the other is null.
EncodeRule(r) ==
    IF r.type = "OFFSET" THEN [r EXCEPT !.window = Null] ELSE [r EXCEPT !.offset = Null]

\* tp_sequence_merge_map_encode, tp_timestamp_merge_map_encode
Encode(m) ==
    [frame |-> "good", template |-> m.kind,
     body |-> [m EXCEPT !.rules = [i \in DOMAIN m.rules |-> EncodeRule(m.rules[i])]]]

RuleDecodes(kind, r) ==
    /\ kind = "SEQUENCE" \/ r.source \in {"FRAME_DESCRIPTOR", "SLOT_HEADER"}
    /\ \/ r.type = "OFFSET" /\ r.offset # Null /\ r.window = Null
       \/ r.type = "WINDOW" /\ r.window \notin {Null, 0} /\ r.offset = Null

DecodeRule(r) ==
    IF r.type = "OFFSET" THEN [r EXCEPT !.window = 0] ELSE [r EXCEPT !.offset = 0]

\* tp_sequence_merge_map_decode, tp_timestamp_merge_map_decode into the poller's
\* array of rules: NoMap when the frame is refused.
DecodeSequenceMap(msg) ==
    IF /\ Decode(msg, "SEQUENCE") = "ok"
       /\ \A i \in DOMAIN msg.body.rules : RuleDecodes("SEQUENCE", msg.body.rules[i])
    THEN [msg.body EXCEPT !.rules = [i \in DOMAIN @ |-> DecodeRule(@[i])]]
    ELSE NoMap

DecodeTimestampMap(msg) ==
    IF /\ Decode(msg, "TIMESTAMP") = "ok"
       /\ msg.body.clock # "INVALID"
       /\ \A i \in DOMAIN msg.body.rules : RuleDecodes("TIMESTAMP", msg.body.rules[i])
    THEN [msg.body EXCEPT !.rules = [i \in DOMAIN @ |-> DecodeRule(@[i])]]
    ELSE NoMap

(***************************************************************************)
(* Registry                                                                *)
(***************************************************************************)

Key(m) == <<m.kind, m.out>>

\* tp_merge_map_registry_find_entry, _find_sequence, _find_timestamp
RegistryFind(reg, kind, out, epoch) ==
    {i \in DOMAIN reg : reg[i].kind = kind /\ reg[i].out = out /\ reg[i].epoch = epoch}

\* tp_merge_map_registry_invalidate_stream: other epochs of the stream go.
InvalidateStream(reg, m) ==
    [i \in DOMAIN reg |->
        IF reg[i].kind = m.kind /\ reg[i].out = m.out /\ reg[i].epoch # m.epoch THEN Free ELSE reg[i]]

\* tp_merge_map_registry_find_slot: the entry of this map, else the first free
\* one; 0 when there is none.
FindSlot(reg, m) ==
    LET same == RegistryFind(reg, m.kind, m.out, m.epoch)
        free == {i \in DOMAIN reg : reg[i] = Free}
    IN  IF same # {} THEN Min(same) ELSE IF free # {} THEN Min(free) ELSE 0

\* tp_merge_map_registry_upsert_sequence, _upsert_timestamp.  Invalidation comes
\* first and stays even when the registry turns out to be full.
Upsert(reg, m) ==
    LET clean == InvalidateStream(reg, m)
        slot == FindSlot(clean, m)
    IN  IF slot = 0 THEN clean ELSE [clean EXCEPT ![slot] = m]

(***************************************************************************)
(* Barrier                                                                 *)
(***************************************************************************)

\* An entry of barrier->state after tp_join_barrier_clear and loading a rule.
InputState(m, r) ==
    [stream |-> r.in, source |-> IF m.kind = "TIMESTAMP" THEN r.source ELSE "NONE",
     observed_seq |-> None, processed_seq |-> None, observed_time |-> None,
     processed_time |-> None, min_seq |-> None, observed_at |-> 0, latest_valid |-> FALSE]

\* tp_join_barrier_init
BarrierInit(type) ==
    [type |-> type, allow_stale |-> FALSE, require_processed |-> FALSE, ordering |-> "SEQUENCE",
     out |-> 0, epoch |-> 0, stale_timeout |-> Null, lateness |-> Null, clock |-> "NONE",
     last_out |-> None, rules |-> <<>>, inputs |-> <<>>]

Takes(b, m) ==
    /\ Len(m.rules) <= RuleCapacity
    /\ b.type = m.kind \/ b.type = "LATEST"

\* Mutant: inputs are not cleared when a new map is loaded.
ApplyMapKeepsInputs(b, m) ==
    [b EXCEPT !.out = m.out, !.epoch = m.epoch, !.stale_timeout = m.stale_timeout,
              !.lateness = IF m.lateness = Null THEN 0 ELSE m.lateness, !.clock = m.clock,
              !.last_out = None, !.rules = m.rules,
              !.inputs = [i \in DOMAIN m.rules |->
                            IF i \in DOMAIN b.inputs THEN [b.inputs[i] EXCEPT !.stream = m.rules[i].in]
                            ELSE InputState(m, m.rules[i])]]

\* The four tp_join_barrier_apply_*: everything but the settings starts anew.
ApplyMap(b, m) ==
    [b EXCEPT !.out = m.out, !.epoch = m.epoch, !.stale_timeout = m.stale_timeout,
              !.lateness = IF m.kind = "SEQUENCE" THEN Null
                           ELSE IF m.lateness = Null THEN 0 ELSE m.lateness,
              !.clock = IF m.kind = "SEQUENCE" THEN "NONE" ELSE m.clock,
              !.last_out = None,
              !.rules = m.rules,
              !.inputs = [i \in DOMAIN m.rules |-> InputState(m, m.rules[i])]]

\* tp_join_barrier_find_state: the first input of that stream, 0 if there is none.
FindState(b, stream) ==
    LET found == {i \in DOMAIN b.inputs : b.inputs[i].stream = stream}
    IN  IF found = {} THEN 0 ELSE Min(found)

\* tp_join_barrier_is_stale
IsStale(b, i) ==
    /\ b.allow_stale /\ b.stale_timeout # Null
    /\ b.inputs[i].observed_at # 0
    /\ now - b.inputs[i].observed_at > b.stale_timeout

\* What a loop over the rules returns: 1 when every rule passes, otherwise the
\* answer of the first that does not.
Verdict(answers) ==
    LET stops == {i \in DOMAIN answers : answers[i] # "pass"}
    IN  IF DOMAIN answers = {} THEN "wait"
        ELSE IF stops = {} THEN "ready" ELSE answers[Min(stops)]

\* tp_join_barrier_is_ready_sequence
IsReadySequence(b, out_seq) ==
    LET Required(r) == IF r.type = "OFFSET" THEN out_seq + r.offset ELSE out_seq
        Answer(i) ==
            LET r == b.rules[i]
                s == b.inputs[i]
            IN  IF IsStale(b, i) THEN "pass"
                ELSE IF \/ s.observed_seq = None
                        \/ Required(r) < 0
                        \/ r.type = "WINDOW" /\ out_seq + 1 < r.window
                        \/ s.observed_seq < Required(r)
                        \/ /\ b.require_processed
                           /\ s.processed_seq = None \/ s.processed_seq < Required(r)
                THEN "wait" ELSE "pass"
    IN  Verdict([i \in DOMAIN b.rules |-> Answer(i)])

\* tp_join_barrier_timestamp_ready_for_rule
TimestampReadyForRule(b, s, r, out_time) ==
    LET lateness == IF b.lateness = Null THEN 0 ELSE b.lateness
        raw == IF r.type = "OFFSET" THEN out_time + r.offset ELSE out_time
        threshold == lateness + (IF r.offset < 0 THEN -r.offset ELSE 0)
        required == IF raw < 0 THEN 0 ELSE raw
    IN  IF \/ s.observed_time = None
           \/ r.type = "OFFSET" /\ raw < 0 /\ out_time < threshold
           \/ r.type = "WINDOW" /\ out_time < r.window
           \/ s.observed_time + lateness < required
           \/ /\ b.require_processed
              /\ s.processed_time = None \/ s.processed_time + lateness < required
        THEN "wait" ELSE "pass"

\* The answer of tp_join_barrier_is_ready_timestamp to a caller of the map's
\* clock domain, before the out time is noted.
IsReadyTimestamp(b, out_time) ==
    IF b.rules = <<>> THEN "wait"
    ELSE IF b.last_out # None /\ out_time < b.last_out THEN "error"
    ELSE Verdict([i \in DOMAIN b.rules |->
            IF IsStale(b, i) THEN "pass"
            ELSE TimestampReadyForRule(b, b.inputs[i], b.rules[i], out_time)])

\* tp_join_barrier_is_ready_latest
IsReadyLatest(b, out_time, clock) ==
    LET byTime == b.ordering = "TIMESTAMP"
        Answer(i) ==
            LET s == b.inputs[i]
            IN  IF IsStale(b, i) THEN "pass"
                ELSE IF (~byTime /\ s.observed_seq = None) \/ (byTime /\ s.observed_time = None) THEN "wait"
                ELSE IF (b.clock # "NONE" /\ clock # b.clock) \/ (byTime /\ s.source = "NONE") THEN "error"
                ELSE IF \/ ~s.latest_valid
                        \/ b.clock # "NONE" /\ s.observed_time = None
                        \/ s.min_seq = None
                        \/ s.observed_seq # None /\ s.observed_seq < s.min_seq
                        \/ s.observed_time > 0 /\ out_time = 0
                THEN "wait" ELSE "pass"
    IN  IF b.rules = <<>> THEN "wait"
        ELSE IF byTime /\ (b.clock = "NONE" \/ (b.last_out # None /\ out_time < b.last_out)) THEN "error"
        ELSE Verdict([i \in DOMAIN b.rules |-> Answer(i)])

\* tp_join_barrier_collect_latest: its checks of every rule, and what it returns.
CanCollectLatest(b) ==
    /\ b.ordering = "SEQUENCE" \/ b.clock # "NONE"
    /\ \A i \in DOMAIN b.rules :
        LET s == b.inputs[i]
        IN  /\ s.latest_valid /\ s.min_seq # None
            /\ IF b.ordering = "SEQUENCE" THEN s.observed_seq # None
               ELSE s.observed_time # None /\ s.source # "NONE"

Selections(b) ==
    [i \in DOMAIN b.rules |->
        [stream |-> b.inputs[i].stream, seq |-> b.inputs[i].observed_seq,
         time |-> b.inputs[i].observed_time]]

\* tp_join_barrier_collect_stale_inputs
CollectStaleInputs(b) == {b.inputs[i].stream : i \in {j \in DOMAIN b.rules : IsStale(b, j)}}

(***************************************************************************)
(* Behaviour                                                               *)
(***************************************************************************)

Streams == UNION {{m.rules[i].in : i \in DOMAIN m.rules} : m \in Maps}

NothingSeen == [frames |-> {}, at |-> [s \in Streams |-> 0], fresh |-> [s \in Streams |-> FALSE]]

Init ==
    /\ \E type \in Types : barrier = BarrierInit(type)
    /\ registry = [i \in 1 .. RegistryCapacity |-> Free]
    /\ now = 1
    /\ adopted = NoMap
    /\ seen = NothingSeen
    /\ accepted = {}

\* What stages publish: the encoders refuse invalid rules.
Announcements ==
    {Encode(m) : m \in {x \in Maps : \A i \in DOMAIN x.rules : RuleValid(x.kind, x.rules[i])}}

Announced(msg) == CHOOSE m \in Maps : Encode(m) = msg

\* The handler of a receiver that keeps a registry and a barrier: tries the two
\* decoders in the order of tp_control_poller_handler, enters the map into the
\* registry and gives it to the barrier.
Deliver(msg) ==
    LET sequence == DecodeSequenceMap(msg)
        m == IF sequence # NoMap THEN sequence ELSE DecodeTimestampMap(msg)
        kept == FindSlot(InvalidateStream(registry, m), m) # 0
    IN  /\ m # NoMap
        /\ registry' = Upsert(registry, m)
        /\ accepted' = IF kept THEN {x \in accepted : Key(x) # Key(m)} \cup {m} ELSE accepted
        /\ IF Takes(barrier, m)
           THEN /\ barrier' = ApplyMap(barrier, m)
                /\ adopted' = IF msg \in Announcements THEN Announced(msg) ELSE NoMap
                /\ seen' = NothingSeen
           ELSE UNCHANGED <<barrier, adopted, seen>>
        /\ UNCHANGED now

\* The history keeps the highest value of each sort; right says whether a
\* timestamp is of the source and clock domain the map asks for.
Note(what, key, stream, v, right) ==
    LET same == {f \in seen.frames : f.what = what /\ f.key = key /\ f.stream = stream /\ f.right = right}
        frame == [what |-> what, key |-> key, stream |-> stream, right |-> right,
                  value |-> Max({f.value : f \in same} \cup {v})]
    IN  seen' = [seen EXCEPT !.frames = (@ \ same) \cup {frame},
                             !.at[stream] = IF what = "observed" THEN now ELSE @,
                             !.fresh[stream] = @ \/ what = "observed"]

RightTime(stream, source, clock) ==
    /\ clock = adopted.clock
    /\ \E i \in DOMAIN adopted.rules : adopted.rules[i].in = stream /\ adopted.rules[i].source = source

\* Mutant: a frame older than the last one observed is taken.
UpdateObservedSeqAny(stream, seq) ==
    LET i == FindState(barrier, stream)
    IN  /\ i # 0
        /\ barrier' = [barrier EXCEPT !.inputs[i].observed_seq = seq,
                                      !.inputs[i].min_seq = IF @ = None THEN seq ELSE @,
                                      !.inputs[i].latest_valid = TRUE,
                                      !.inputs[i].observed_at = now]
        /\ Note("observed", "seq", stream, seq, TRUE)
        /\ UNCHANGED <<registry, now, adopted, accepted>>

\* tp_join_barrier_update_observed_seq, and its error returns
UpdateObservedSeq(stream, seq) ==
    LET i == FindState(barrier, stream)
        s == barrier.inputs[i]
    IN  /\ i # 0
        /\ s.observed_seq <= seq
        /\ barrier' = [barrier EXCEPT !.inputs[i] =
                         [s EXCEPT !.observed_seq = seq, !.min_seq = IF @ = None THEN seq ELSE @,
                                   !.latest_valid = TRUE, !.observed_at = now]]
        /\ Note("observed", "seq", stream, seq, TRUE)
        /\ UNCHANGED <<registry, now, adopted, accepted>>

\* tp_join_barrier_update_processed_seq
UpdateProcessedSeq(stream, seq) ==
    LET i == FindState(barrier, stream)
    IN  /\ i # 0
        /\ barrier.inputs[i].processed_seq <= seq
        /\ barrier' = [barrier EXCEPT !.inputs[i].processed_seq = seq]
        /\ Note("processed", "seq", stream, seq, TRUE)
        /\ UNCHANGED <<registry, now, adopted, accepted>>

\* tp_join_barrier_validate_timestamp_update
TimestampAllowed(b, s, source, clock) ==
    /\ b.clock = "NONE" \/ clock = b.clock
    /\ s.source = "NONE" \/ source = s.source

\* tp_join_barrier_update_observed_time
UpdateObservedTime(stream, time, source, clock) ==
    LET i == FindState(barrier, stream)
        s == barrier.inputs[i]
    IN  /\ i # 0
        /\ TimestampAllowed(barrier, s, source, clock)
        /\ s.observed_time <= time
        /\ barrier' = [barrier EXCEPT !.inputs[i] =
                         [s EXCEPT !.observed_time = time, !.latest_valid = TRUE, !.observed_at = now]]
        /\ Note("observed", "time", stream, time, RightTime(stream, source, clock))
        /\ UNCHANGED <<registry, now, adopted, accepted>>

\* tp_join_barrier_update_processed_time
UpdateProcessedTime(stream, time, source, clock) ==
    LET i == FindState(barrier, stream)
    IN  /\ i # 0
        /\ TimestampAllowed(barrier, barrier.inputs[i], source, clock)
        /\ barrier.inputs[i].processed_time <= time
        /\ barrier' = [barrier EXCEPT !.inputs[i].processed_time = time]
        /\ Note("processed", "time", stream, time, RightTime(stream, source, clock))
        /\ UNCHANGED <<registry, now, adopted, accepted>>

\* tp_join_barrier_is_ready_timestamp notes the out time whatever it answers,
\* unless it is an error; so does is_ready_latest when it orders by timestamp.
NoteOutTime(out_time) ==
    /\ barrier.rules # <<>>
    /\ barrier.type = "TIMESTAMP" \/ (barrier.type = "LATEST" /\ barrier.ordering = "TIMESTAMP"
                                      /\ barrier.clock # "NONE")
    /\ barrier.last_out <= out_time
    /\ barrier' = [barrier EXCEPT !.last_out = out_time]
    /\ UNCHANGED <<registry, now, adopted, seen, accepted>>

\* tp_join_barrier_invalidate_latest
InvalidateLatest(stream) ==
    LET i == FindState(barrier, stream)
    IN  /\ i # 0
        /\ barrier' = [barrier EXCEPT !.inputs[i].latest_valid = FALSE]
        /\ seen' = [seen EXCEPT !.fresh[stream] = FALSE]
        /\ UNCHANGED <<registry, now, adopted, accepted>>

\* A caller makes this call on barriers of this type.
Called(call) == call \in Calls[barrier.type]

\* tp_join_barrier_set_allow_stale, _set_require_processed, _set_latest_ordering
Configure ==
    /\ \/ barrier' = [barrier EXCEPT !.allow_stale = ~@]
       \/ Called("require_processed") /\ barrier' = [barrier EXCEPT !.require_processed = ~@]
       \/ Called("ordering") /\ \E o \in {"SEQUENCE", "TIMESTAMP"} \ {barrier.ordering} :
                                    barrier' = [barrier EXCEPT !.ordering = o]
    /\ UNCHANGED <<registry, now, adopted, seen, accepted>>

Tick ==
    /\ now < MaxNow
    /\ now' = now + 1
    /\ UNCHANGED <<barrier, registry, adopted, seen, accepted>>

Next ==
    \/ \E msg \in Announcements \cup Foreign : Deliver(msg)
    \/ \E s \in Streams, v \in Values :
        \/ Called("observed_seq") /\ UpdateObservedSeq(s, v)
        \/ Called("processed_seq") /\ UpdateProcessedSeq(s, v)
        \/ \E source \in {"FRAME_DESCRIPTOR", "SLOT_HEADER"}, clock \in {"MONOTONIC", "REALTIME"} :
            \/ Called("observed_time") /\ UpdateObservedTime(s, v, source, clock)
            \/ Called("processed_time") /\ UpdateProcessedTime(s, v, source, clock)
    \/ \E v \in Values : NoteOutTime(v)
    \/ Called("invalidate") /\ \E s \in Streams : InvalidateLatest(s)
    \/ Configure
    \/ Tick

Spec == Init /\ [][Next]_vars

(***************************************************************************)
(* Properties                                                              *)
(***************************************************************************)

\* The barrier never has more rules than its arrays, and an input state for each.
TypeOK ==
    /\ barrier.type \in Types
    /\ Len(barrier.rules) <= RuleCapacity
    /\ DOMAIN barrier.inputs = DOMAIN barrier.rules
    /\ now \in 1 .. MaxNow
    /\ \A i \in DOMAIN registry : registry[i] = Free \/ registry[i].kind \in {"SEQUENCE", "TIMESTAMP"}

\* What the barrier joins by is a map some stage announced, the last one it was
\* given: damaged frames change nothing, and encoding, decoding and loading a
\* map neither lose nor mix up its rules.
BarrierFollowsAnnouncement ==
    barrier.rules # <<>> =>
        /\ adopted \in Maps
        /\ barrier.rules = adopted.rules
        /\ barrier.out = adopted.out /\ barrier.epoch = adopted.epoch

Reaches(what, key, r, bound, lateness) ==
    \E f \in seen.frames :
        /\ f.what = what /\ f.key = key /\ f.stream = r.in
        /\ f.right
        /\ f.value + lateness >= bound

Lapsed(r) ==
    /\ barrier.allow_stale /\ adopted.stale_timeout # Null
    /\ seen.at[r.in] # 0 /\ now - seen.at[r.in] > adopted.stale_timeout

Needed(r, out) == IF r.type = "OFFSET" THEN out + r.offset ELSE out

\* No output frame is declared ready before every input that has not gone stale
\* delivered, since the map in force was adopted, a frame at or past the one its
\* rule asks for (and processed it, when that is required): frames observed under
\* an earlier map or epoch, from another timestamp source or clock domain never
\* count.  Windows are full.
ReadyMeansReached ==
    \A out \in Values :
        /\ barrier.type = "SEQUENCE" /\ IsReadySequence(barrier, out) = "ready" =>
            \A i \in DOMAIN adopted.rules :
                LET r == adopted.rules[i]
                IN  \/ Lapsed(r)
                    \/ /\ Reaches("observed", "seq", r, Needed(r, out), 0)
                       /\ barrier.require_processed => Reaches("processed", "seq", r, Needed(r, out), 0)
                       /\ r.type = "WINDOW" => out >= r.window - 1
        /\ barrier.type = "TIMESTAMP" /\ IsReadyTimestamp(barrier, out) = "ready" =>
            \A i \in DOMAIN adopted.rules :
                LET r == adopted.rules[i]
                    late == IF adopted.lateness = Null THEN 0 ELSE adopted.lateness
                IN  \/ Lapsed(r)
                    \/ /\ Reaches("observed", "time", r, Needed(r, out), late)
                       /\ barrier.require_processed => Reaches("processed", "time", r, Needed(r, out), late)
                       /\ r.type = "WINDOW" => out >= r.window

\* When the latest-value barrier says ready and no input is stale, collecting
\* succeeds and yields, for each input, a frame observed since the map was
\* adopted, from an input that has spoken again since it was last invalidated.
LatestFromThisEpoch ==
    barrier.type = "LATEST" =>
        /\ \A out \in Values, clock \in {"MONOTONIC", "REALTIME"} :
            IsReadyLatest(barrier, out, clock) = "ready" /\ CollectStaleInputs(barrier) = {}
                => CanCollectLatest(barrier)
        /\ CanCollectLatest(barrier) =>
            \A i \in DOMAIN barrier.rules :
                LET pick == Selections(barrier)[i]
                IN  /\ seen.fresh[pick.stream]
                    /\ \E f \in seen.frames : f.stream = pick.stream /\ f.key = "seq" /\ f.value = pick.seq

Steady ==
    /\ adopted' = adopted
    /\ ~barrier.allow_stale /\ ~barrier'.allow_stale
    /\ barrier'.require_processed = barrier.require_processed
    /\ barrier.rules # <<>> /\ barrier'.rules = barrier.rules
    /\ seen'.frames # {}

\* While a map is in force and no input may be skipped as stale, readiness is
\* never taken back: observing more frames keeps an output frame ready, except
\* for timestamps once a later output time has been asked about.
ReadyIsStable ==
    [][Steady => \A out \in Values :
        /\ barrier.type = "SEQUENCE" /\ IsReadySequence(barrier, out) = "ready"
            => IsReadySequence(barrier', out) = "ready"
        /\ barrier.type = "TIMESTAMP" /\ IsReadyTimestamp(barrier, out) = "ready"
            => IsReadyTimestamp(barrier', out) = "ready" \/ barrier'.last_out > out]_vars

\* The registry holds for each kind and output stream exactly the last map it
\* could take, under one epoch only, and never refuses a stream it already knows.
RegistryHoldsLastAccepted ==
    /\ {registry[i] : i \in DOMAIN registry} \ {Free} = accepted
    /\ Cardinality({i \in DOMAIN registry : registry[i] # Free}) = Cardinality(accepted)
    /\ \A m \in accepted : RegistryFind(registry, m.kind, m.out, m.epoch) # {}

\* Whatever a barrier or the registry answers is justified by the announcements
\* taken and the frames seen under the map in force.
JoinSound ==
    /\ TypeOK
    /\ BarrierFollowsAnnouncement
    /\ ReadyMeansReached
    /\ LatestFromThisEpoch
    /\ RegistryHoldsLastAccepted

=============================================================================
