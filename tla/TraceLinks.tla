----------------------------- MODULE TraceLinks -----------------------------
(***************************************************************************)
(* Trace ids and trace links (src/common/tp_trace.c,                       *)
(* src/common/tp_tracelink.c and the trace part of src/client/tp_producer) *)
(* Producers, each a thread, draw trace ids from generators they may share *)
(* by compare-and-swap of one word, publish frames with them, and say in   *)
(* TraceLinkSets which frames a frame was made from.                       *)
(*                                                                         *)
(* A word is timestamp << (NodeBits + SeqBits) plus a sequence number.     *)
(* The clock is the wall clock: a reading may be any time not before the   *)
(* offset, earlier than the previous one too.                              *)
(***************************************************************************)
EXTENDS Integers, Sequences, FiniteSets, FiniteSetsExt, SequencesExt, Wire

CONSTANTS
    Producers, Generators,
    GeneratorOf,   \* GeneratorOf[p]
    NodeOf,        \* NodeOf[g]: node_id
    NodeBits, SeqBits,
    Offset,        \* timestamp_offset_ms
    MaxClock,      \* bound: clock readings
    NSlots,        \* header_nslots
    Parents,       \* the lists of parent trace ids a stage may resolve
    MaxParents,    \* TP_TRACELINK_MAX_PARENTS
    MaxSeq,        \* bound: MaxSeq[p] is the last frame of an epoch
    MaxAttaches,   \* bound: times producers attach again
    MaxDraws       \* bound: ids drawn

ASSUME TraceAssumption ==
    /\ NodeBits \in Nat /\ SeqBits \in Nat /\ NSlots \in Nat \ {0}
    /\ MaxClock \in Nat /\ Offset \in 0 .. MaxClock
    /\ GeneratorOf \in [Producers -> Generators]
    /\ \A g \in Generators : NodeOf[g] \in 0 .. 2^NodeBits - 1
    /\ Parents \subseteq Seq(Nat)

MaxSequence == 2^SeqBits - 1
Shift == 2^(NodeBits + SeqBits)
NoEntry == [seq |-> -1, id |-> 0]
NoSet == [seq |-> -1]

VARIABLES
    word,     \* timestamp_sequence by generator
    thread,   \* where a producer is: pc, and the locals of a draw
    prod,     \* producer: epoch, next_seq, tracelink_entries
    drawn,    \* history: ids drawn, by generator
    latest,   \* history: latest clock reading
    sent,     \* history: descriptors published
    owed,     \* links a producer's application has yet to send
    links     \* TraceLinkSets accepted for sending

traceVars == <<word, thread, prod, drawn, latest, sent, owed, links>>

(***************************************************************************)
(* Generator                                                               *)
(***************************************************************************)

\* new_timestamp_sequence | node_bits
TraceId(g, w) == w + NodeOf[g] * 2^SeqBits

\* tp_trace_id_extract_timestamp, _node_id, _sequence
ExtractTimestamp(id) == id \div Shift
ExtractNodeId(id) == (id \div 2^SeqBits) % 2^NodeBits
ExtractSequence(id) == id % 2^SeqBits

\* The word after old at time ts: a new timestamp, else the next sequence number,
\* none when they are used up.
Successor(old, ts) ==
    IF ts > old \div Shift THEN {ts * Shift}
    ELSE IF old % 2^SeqBits < MaxSequence THEN {old + 1} ELSE {}

Draws == Cardinality(UNION {drawn[g] : g \in Generators})

\* tp_tracelink_validate_parents
ParentsValid(parents) ==
    /\ \A i \in DOMAIN parents : parents[i] # 0
    /\ IsInjective(parents)

Idle == [pc |-> "idle", old |-> 0, ts |-> 0, id |-> 0, parents |-> <<>>]

\* The locals after a draw that succeeded, and before the next try.
Has(t, id) == [Idle EXCEPT !.pc = "have", !.id = id, !.parents = t.parents]
Again(t) == [Idle EXCEPT !.pc = "load", !.parents = t.parents]

\* tp_tracelink_resolve_trace_id, and tp_producer_resolve_trace_id for a frame
\* without one: a single parent hands its id on, otherwise an id is drawn.
Resolve(p, parents) ==
    /\ thread[p].pc = "idle"
    /\ prod[p].next_seq <= MaxSeq[p]
    /\ Len(parents) <= MaxParents
    /\ ParentsValid(parents)
    /\ thread' = [thread EXCEPT ![p] =
            IF Len(parents) = 1 THEN [Idle EXCEPT !.pc = "have", !.id = parents[1]]
            ELSE [Idle EXCEPT !.pc = "load", !.parents = parents]]
    /\ Draws < MaxDraws
    /\ UNCHANGED <<word, prod, drawn, latest, sent, owed, links>>

\* tp_trace_id_generator_next: the word is loaded, then the clock is read.
Load(p) ==
    /\ thread[p].pc = "load"
    /\ thread' = [thread EXCEPT ![p].pc = "clock", ![p].old = word[GeneratorOf[p]]]
    /\ UNCHANGED <<word, prod, drawn, latest, sent, owed, links>>

ReadClock(p) ==
    \E now \in Offset .. MaxClock :
        /\ thread[p].pc = "clock"
        /\ thread' = [thread EXCEPT ![p].pc = "cas", ![p].ts = now - Offset]
        /\ latest' = IF now > latest THEN now ELSE latest
        /\ UNCHANGED <<word, prod, drawn, sent, owed, links>>

\* Mutant: a store where the compare-and-swap is.
CasStore(p) ==
    LET g == GeneratorOf[p]
    IN  /\ thread[p].pc = "cas"
        /\ \E w \in Successor(thread[p].old, thread[p].ts) :
            /\ word' = [word EXCEPT ![g] = w]
            /\ drawn' = [drawn EXCEPT ![g] = @ \cup {TraceId(g, w)}]
            /\ thread' = [thread EXCEPT ![p] = Has(@, TraceId(g, w))]
        /\ UNCHANGED <<prod, latest, sent, owed, links>>

\* The compare-and-swap, which may fail for no reason, and the way back to the
\* load when it fails or there is no number left in this millisecond.
Cas(p) ==
    LET g == GeneratorOf[p]
        old == thread[p].old
    IN  /\ thread[p].pc = "cas"
        /\ \/ /\ word[g] = old
              /\ \E w \in Successor(old, thread[p].ts) :
                    /\ word' = [word EXCEPT ![g] = w]
                    /\ drawn' = [drawn EXCEPT ![g] = @ \cup {TraceId(g, w)}]
                    /\ thread' = [thread EXCEPT ![p] = Has(@, TraceId(g, w))]
           \/ /\ thread' = [thread EXCEPT ![p] = Again(@)]
              /\ UNCHANGED <<word, drawn>>
        /\ UNCHANGED <<prod, latest, sent, owed, links>>

(***************************************************************************)
(* Frames and links                                                        *)
(***************************************************************************)

EmptyEntries == [i \in 0 .. NSlots - 1 |-> NoEntry]

\* tp_producer_record_tracelink_descriptor, after a descriptor was published
Record(p, seq, id, ok) ==
    [prod[p] EXCEPT !.next_seq = seq + 1,
                    !.entries = IF ok THEN [@ EXCEPT ![seq % NSlots] = [seq |-> seq, id |-> id]] ELSE @]

\* A link to be sent, and the epoch its frame was published in.
Owed(epoch, seq, id, parents) == [epoch |-> epoch, seq |-> seq, id |-> id, parents |-> parents]

\* The end of tp_producer_offer_frame or tp_producer_commit_claim: the descriptor
\* is offered, which may fail, and the frame has used its sequence number.  A frame
\* made from several others has a link to be sent, whenever the application does so.
Publish(p) ==
    \E ok \in BOOLEAN :
        LET seq == prod[p].next_seq
            id == thread[p].id
        IN  /\ thread[p].pc = "have"
            /\ prod' = [prod EXCEPT ![p] = Record(p, seq, id, ok)]
            /\ sent' = IF ok THEN sent \cup {[p |-> p, epoch |-> prod[p].epoch, seq |-> seq, id |-> id]} ELSE sent
            /\ thread' = [thread EXCEPT ![p] = Idle]
            /\ owed' = IF Len(thread[p].parents) > 1
                       THEN [owed EXCEPT ![p] = @ \cup {Owed(prod[p].epoch, seq, id, thread[p].parents)}]
                       ELSE owed
            /\ UNCHANGED <<word, drawn, latest, links>>

\* tp_producer_default_tracelink_validator
Validates(p, set) == prod[p].entries[set.seq % NSlots] = [seq |-> set.seq, id |-> set.id]

\* tp_tracelink_set_encode and, at the receiver, tp_tracelink_set_decode
SetEncodes(set) == set.id # 0 /\ Len(set.parents) > 0 /\ ParentsValid(set.parents)

SetDecodes(msg) ==
    IF /\ Decode(msg, "TRACELINK") = "ok"
       /\ SetEncodes(msg.body) /\ Len(msg.body.parents) <= MaxParents
    THEN msg.body ELSE NoSet

Message(set) == [frame |-> "good", template |-> "TRACELINK", body |-> set]

\* tp_producer_send_tracelink_set between two other calls of the thread, perhaps after
\* later frames were published or the producer has attached again.  The set bears the
\* epoch of its frame (tp_tracelink_set_from_claim in good time) or the present one
\* (tp_producer_send_tracelink_set_ex).  It is sent when it passes the checks, and
\* decoded by its receivers.
SendLink(p) ==
    \E o \in owed[p] : \E e \in {o.epoch, prod[p].epoch} :
        LET set == [p |-> p, epoch |-> e, seq |-> o.seq, id |-> o.id, parents |-> o.parents]
        IN  /\ thread[p].pc \in {"idle", "have"}
            /\ links' = IF /\ set.epoch = prod[p].epoch
                           /\ Validates(p, set) /\ SetEncodes(set)
                           /\ SetDecodes(Message(set)) # NoSet
                        THEN links \cup {SetDecodes(Message(set))} ELSE links
            /\ owed' = [owed EXCEPT ![p] = @ \ {o}]
            /\ UNCHANGED <<word, thread, prod, drawn, latest, sent>>

Attaches == MapThenSumSet(LAMBDA p : prod[p].epoch - 1, Producers)

\* Mutant: the record of the frames survives an attach.
AttachKeepsEntries(p) ==
    /\ Attaches < MaxAttaches
    /\ prod' = [prod EXCEPT ![p].epoch = @ + 1, ![p].next_seq = 0]
    /\ UNCHANGED <<word, thread, drawn, latest, sent, owed, links>>

\* tp_producer_unmap_regions and tp_producer_attach_config with
\* tp_producer_init_tracelink_entries, as far as frames and links go.
Attach(p) ==
    /\ Attaches < MaxAttaches
    /\ prod' = [prod EXCEPT ![p] = [epoch |-> @.epoch + 1, next_seq |-> 0, entries |-> EmptyEntries]]
    /\ UNCHANGED <<word, thread, drawn, latest, sent, owed, links>>

\* tp_trace_id_generator_init; the producers have attached once.
TraceInit ==
    /\ word = [g \in Generators |-> 0]
    /\ thread = [p \in Producers |-> Idle]
    /\ prod = [p \in Producers |-> [epoch |-> 1, next_seq |-> 0, entries |-> EmptyEntries]]
    /\ drawn = [g \in Generators |-> {}]
    /\ latest = Offset
    /\ sent = {} /\ links = {}
    /\ owed = [p \in Producers |-> {}]

TraceNext ==
    \E p \in Producers :
        \/ \E parents \in Parents : Resolve(p, parents)
        \/ Load(p) \/ ReadClock(p) \/ Cas(p)
        \/ Publish(p) \/ SendLink(p) \/ Attach(p)

(***************************************************************************)
(* Properties                                                              *)
(***************************************************************************)

\* Trace ids and links are of their types, and no thread holds a trace id of 0.
TraceTypeOK ==
    /\ \A g \in Generators : word[g] \in Nat
    /\ \A p \in Producers :
        /\ thread[p].pc \in {"idle", "load", "clock", "cas", "have"}
        /\ thread[p].pc = "have" => thread[p].id # 0
        /\ \A i \in DOMAIN prod[p].entries : prod[p].entries[i] # NoEntry => prod[p].entries[i].seq % NSlots = i

DrawStep(p) == thread[p].pc = "cas" /\ thread'[p].pc = "have"

\* However threads interleave and whatever the clock does, the id a draw returns
\* was returned to nobody before, not by a generator of another node either, and
\* is greater than all ids its generator gave out.
DrawnFresh ==
    [][\A p \in Producers : DrawStep(p) =>
            /\ \A g \in Generators : thread'[p].id \notin drawn[g]
            /\ \A x \in drawn[GeneratorOf[p]] : thread'[p].id > x]_traceVars

\* The three parts of an id can be read back: the node it was drawn on and a time
\* not after the latest one any clock reading showed.
IdsReadBack ==
    \A g \in Generators : \A id \in drawn[g] :
        /\ ExtractNodeId(id) = NodeOf[g]
        /\ ExtractTimestamp(id) \in 0 .. latest - Offset
        /\ TraceId(g, ExtractTimestamp(id) * Shift + ExtractSequence(id)) = id

\* A link that went out names a frame whose descriptor was published with this id
\* in the epoch the link says, and lists at least two different parents: not a
\* frame of an earlier epoch with the same number, nor one never announced.
LinkNamesPublishedFrame ==
    \A l \in links :
        /\ [p |-> l.p, epoch |-> l.epoch, seq |-> l.seq, id |-> l.id] \in sent
        /\ Cardinality(ToSet(l.parents)) = Len(l.parents) /\ Len(l.parents) > 1

\* Ids and links mean what a reader of a trace takes them for.
TracesSound == TraceTypeOK /\ IdsReadBack /\ LinkNamesPublishedFrame

=============================================================================
