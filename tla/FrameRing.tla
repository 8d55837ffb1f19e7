------------------------------ MODULE FrameRing ------------------------------
(***************************************************************************)
(* The SHM header ring and payload pools that one producer writes and many  *)
(* consumers read without a lock (src/client/tp_producer.c,                 *)
(* src/client/tp_consumer.c, tp_seqlock.h).                                 *)
(*                                                                          *)
(* A slot of the header ring is a commit word, seq_commit, and the header   *)
(* fields; the payload of the frame in slot i is entry i of one of the      *)
(* payload pools.  Each store to and each load from the shared mapping is a *)
(* step of its own.  The contents of a word are abstracted to the frame     *)
(* whose field (or payload bytes) it holds.                                 *)
(*                                                                          *)
(* The producer API is single threaded: at most one call is in flight.      *)
(***************************************************************************)
EXTENDS Integers, FiniteSets

CONSTANTS
    NSlots,       \* header_nslots
    Pools,        \* payload pool ids
    Stride,       \* Stride[p]: stride of pool p, in payload words
    MaxLen,       \* bound: longest payload, in words
    MaxSeq,       \* bound: frames the producer ever starts
    Claims,       \* claim handles the application owns
    Consumers,
    FixedPool,    \* producer context: fixed_pool_mode
    MemoryOrder   \* "tso" or "weak": in which order stores and loads take effect

ASSUME SlotsAssumption ==
    /\ NSlots \in Nat \ {0}
    /\ \E k \in 0 .. NSlots : NSlots = 2 ^ k
ASSUME PoolsAssumption ==
    /\ Pools # {}
    /\ MaxLen \in Nat
    /\ Stride \in [Pools -> 0 .. MaxLen]
ASSUME BoundsAssumption == MaxSeq \in Nat
ASSUME ModeAssumption == FixedPool \in BOOLEAN /\ MemoryOrder \in {"tso", "weak"}

Slots == 0 .. NSlots - 1
Lengths == 0 .. MaxLen
Words == 1 .. MaxLen

\* The fields of a slot that tell frames apart.  The other fields are stored
\* and loaded together with these.
HeaderWords == {"values_len_bytes", "pool_id", "header_bytes"}

NoSeq == -1
Seqs == Nat \cup {NoSeq}
Frames == [seq : Seqs, pool : Pools, len : Lengths]

\* The content of a word of a freshly created, zero-filled region.
NoFrame == [seq |-> NoSeq, pool |-> CHOOSE p \in Pools : TRUE, len |-> 0]

-----------------------------------------------------------------------------
(* tp_seqlock.h                                                             *)

\* Bugs these definitions could have had are kept beside them, named Bug...;
\* no definition uses them.

\* The slot is cleared instead of marked with its new sequence number.
BugClearedCommit(seq) == 0

tp_seq_in_progress(seq) == 2 * seq
tp_seq_committed(seq) == 2 * seq + 1
tp_seq_is_committed(seq_commit) == seq_commit % 2 = 1
tp_seq_value(seq_commit) == seq_commit \div 2

\* seq & (header_nslots - 1), header_nslots being a power of two.
SlotOf(seq) == seq % NSlots

-----------------------------------------------------------------------------
VARIABLES
    seq_commit,   \* [Slots -> Nat], the commit word of each slot
    header,       \* [Slots -> [HeaderWords -> Frames]]
    payload,      \* [Pools -> [Slots -> [Words -> Seqs]]], whose bytes they are
    next_seq,     \* producer->next_seq
    claims,       \* the application's tp_buffer_claim_t handles
    pub,          \* the tp_producer_publish_frame call in flight
    descriptors,  \* sequence numbers whose FrameDescriptor was published
    rd            \* per consumer, the read in progress and its frame view

memory == <<seq_commit, header, payload>>
producer == <<next_seq, claims, pub, descriptors>>
vars == <<seq_commit, header, payload, next_seq, claims, pub, descriptors, rd>>

ClaimStates == {"free", "open", "committed"}
ClaimRecords == [state : ClaimStates, seq : Seqs, header_index : Slots,
                 pool : Pools, len : Lengths, filled : SUBSET Words]

PubRecords == [busy : BOOLEAN, frame : Frames, src : Slots \cup {NoSeq},
               in_progress : BOOLEAN, stored : SUBSET Words,
               fields : SUBSET HeaderWords, committed : BOOLEAN]

ReaderRecords == [pc : {"idle", "load", "view"}, kind : {"frame", "progress"},
                  seq : Seqs, want : Lengths, first : Nat, second : Seqs,
                  decoded : Seqs, loaded : SUBSET HeaderWords,
                  view : [HeaderWords -> Frames], seen : [Words -> Seqs],
                  outcome : {"none", "accepted", "late", "skipped", "error"}]

NoClaim == [state |-> "free", seq |-> NoSeq, header_index |-> 0,
            pool |-> NoFrame.pool, len |-> 0, filled |-> {}]

NoPub == [busy |-> FALSE, frame |-> NoFrame, src |-> NoSeq, in_progress |-> FALSE,
          stored |-> {}, fields |-> {}, committed |-> FALSE]

IdleReader(outcome) ==
    [pc |-> "idle", kind |-> "frame", seq |-> NoSeq, want |-> 0, first |-> 0,
     second |-> NoSeq, decoded |-> NoSeq, loaded |-> {},
     view |-> [w \in HeaderWords |-> NoFrame], seen |-> [w \in Words |-> NoSeq],
     outcome |-> outcome]

TypeOK ==
    /\ seq_commit \in [Slots -> Nat]
    /\ header \in [Slots -> [HeaderWords -> Frames]]
    /\ payload \in [Pools -> [Slots -> [Words -> Seqs]]]
    /\ next_seq \in 0 .. MaxSeq
    /\ claims \in [Claims -> ClaimRecords]
    /\ pub \in PubRecords
    /\ descriptors \subseteq 0 .. MaxSeq - 1
    /\ rd \in [Consumers -> ReaderRecords]

Init ==
    /\ seq_commit = [i \in Slots |-> 0]
    /\ header = [i \in Slots |-> [w \in HeaderWords |-> NoFrame]]
    /\ payload = [p \in Pools |-> [i \in Slots |-> [w \in Words |-> NoSeq]]]
    /\ next_seq = 0
    /\ claims = [c \in Claims |-> NoClaim]
    /\ pub = NoPub
    /\ descriptors = {}
    /\ rd = [c \in Consumers |-> IdleReader("none")]

-----------------------------------------------------------------------------
(* Producer: starting frames                                                *)

\* tp_find_pool_for_length: the pool of least stride that holds length words.
BestPools(length) ==
    {p \in Pools : /\ Stride[p] >= length
                   /\ \A q \in Pools : Stride[q] >= length => Stride[p] <= Stride[q]}

\* The application accounts for the slots its claims hold: it starts no new
\* frame in a slot that a claim still occupies.  The library does not check.
SlotFree(i) == \A c \in Claims : claims[c].state # "free" => claims[c].header_index # i

CanStart == ~pub.busy /\ next_seq < MaxSeq

Publish(frame, src) ==
    pub' = [NoPub EXCEPT !.busy = TRUE, !.frame = frame, !.src = src]

\* tp_producer_offer_frame with a frame that passes every check: the sequence
\* number is taken and tp_producer_publish_frame starts.
OfferFrame(length, pool) ==
    /\ CanStart
    /\ SlotFree(SlotOf(next_seq))
    /\ pool \in BestPools(length)
    /\ Publish([seq |-> next_seq, pool |-> pool, len |-> length], NoSeq)
    /\ next_seq' = next_seq + 1
    /\ UNCHANGED <<memory, claims, descriptors, rd>>

\* tp_producer_offer_frame with a tensor header that does not validate:
\* publish_frame fails before its first store, the sequence number is gone.
OfferInvalidFrame ==
    /\ CanStart
    /\ next_seq' = next_seq + 1
    /\ UNCHANGED <<memory, claims, pub, descriptors, rd>>

\* The claimed slot keeps its old commit word.
BugClaimUnmarked(c, length, pool) ==
    /\ CanStart
    /\ claims[c].state = "free"
    /\ SlotFree(SlotOf(next_seq))
    /\ pool \in BestPools(length)
    /\ claims' = [claims EXCEPT ![c] =
                    [state |-> "open", seq |-> next_seq,
                     header_index |-> SlotOf(next_seq), pool |-> pool,
                     len |-> length, filled |-> {}]]
    /\ next_seq' = next_seq + 1
    /\ UNCHANGED <<memory, pub, descriptors, rd>>

\* tp_producer_try_claim: the slot is marked in progress for the new frame.
TryClaim(c, length, pool) ==
    /\ CanStart
    /\ claims[c].state = "free"
    /\ SlotFree(SlotOf(next_seq))
    /\ pool \in BestPools(length)
    /\ claims' = [claims EXCEPT ![c] =
                    [state |-> "open", seq |-> next_seq,
                     header_index |-> SlotOf(next_seq), pool |-> pool,
                     len |-> length, filled |-> {}]]
    /\ seq_commit' = [seq_commit EXCEPT ![SlotOf(next_seq)] = tp_seq_in_progress(next_seq)]
    /\ next_seq' = next_seq + 1
    /\ UNCHANGED <<header, payload, pub, descriptors, rd>>

\* The application (or its DMA engine) writes a word through claim->payload,
\* at any time while it holds the claim, publish calls of other frames
\* included.
FillClaim(c, w) ==
    /\ claims[c].state = "open"
    /\ w \in 1 .. claims[c].len
    /\ payload' = [payload EXCEPT ![claims[c].pool][claims[c].header_index][w] = claims[c].seq]
    /\ claims' = [claims EXCEPT ![c].filled = @ \cup {w}]
    /\ UNCHANGED <<seq_commit, header, next_seq, pub, descriptors, rd>>

\* tp_producer_commit_claim, called once the payload is complete: publishes
\* claim->seq with claim->payload as the source.  Outside fixed-pool mode the
\* claim ends here.
CommitClaim(c) ==
    /\ ~pub.busy
    /\ claims[c].state = "open"
    /\ claims[c].filled = 1 .. claims[c].len
    /\ Publish([seq |-> claims[c].seq, pool |-> claims[c].pool, len |-> claims[c].len],
               claims[c].header_index)
    /\ claims' = [claims EXCEPT ![c] =
                    IF FixedPool THEN [@ EXCEPT !.state = "committed"] ELSE NoClaim]
    /\ UNCHANGED <<memory, next_seq, descriptors, rd>>

\* tp_producer_abort_claim changes nothing in the producer or in shared
\* memory; the application drops its handle.
AbortClaim(c) ==
    /\ ~pub.busy
    /\ claims[c].state # "free"
    /\ claims' = [claims EXCEPT ![c] = NoClaim]
    /\ UNCHANGED <<memory, next_seq, pub, descriptors, rd>>

\* The re-queued slot keeps its committed word while it is filled again.
BugQueueUnmarked(c) ==
    /\ FixedPool
    /\ CanStart
    /\ claims[c].state # "free"
    /\ claims' = [claims EXCEPT ![c] = [@ EXCEPT !.state = "open", !.seq = next_seq,
                                                 !.filled = {}]]
    /\ next_seq' = next_seq + 1
    /\ UNCHANGED <<memory, pub, descriptors, rd>>

\* tp_producer_queue_claim, fixed-pool mode only: the claim gets a new
\* sequence number but keeps header_index and payload.
QueueClaim(c) ==
    /\ FixedPool
    /\ CanStart
    /\ claims[c].state # "free"
    /\ claims' = [claims EXCEPT ![c] = [@ EXCEPT !.state = "open", !.seq = next_seq,
                                                 !.filled = {}]]
    /\ seq_commit' = [seq_commit EXCEPT ![claims[c].header_index] =
                        tp_seq_in_progress(next_seq)]
    /\ next_seq' = next_seq + 1
    /\ UNCHANGED <<header, payload, pub, descriptors, rd>>

-----------------------------------------------------------------------------
(* Producer: the stores of tp_producer_publish_frame                        *)
(*                                                                          *)
(* A release store takes effect after every store before it in the program. *)
(* Under "tso" stores take effect in program order; under "weak" nothing    *)
(* holds the plain stores back behind the release store of in_progress.     *)

Tso == MemoryOrder = "tso"

PubSlot == SlotOf(pub.frame.seq)
PayloadStored == pub.stored = 1 .. pub.frame.len
HeaderStored == pub.fields = HeaderWords

StoreInProgress ==
    /\ pub.busy
    /\ ~pub.in_progress
    /\ seq_commit' = [seq_commit EXCEPT ![PubSlot] = tp_seq_in_progress(pub.frame.seq)]
    /\ pub' = [pub EXCEPT !.in_progress = TRUE]
    /\ UNCHANGED <<header, payload, next_seq, claims, descriptors, rd>>

\* The payload is copied before the slot is marked in progress.
BugPayloadFirst == pub.busy

CanStorePayload == pub.busy /\ (Tso => pub.in_progress)

\* One word of the memcpy to payload_dst.  The source is the caller's buffer
\* (offer) or claim->payload (commit).
StorePayload(w) ==
    /\ CanStorePayload
    /\ w \in 1 .. pub.frame.len \ pub.stored
    /\ payload' = [payload EXCEPT ![pub.frame.pool][PubSlot][w] =
                     IF pub.src = NoSeq THEN pub.frame.seq
                                        ELSE payload[pub.frame.pool][pub.src][w]]
    /\ pub' = [pub EXCEPT !.stored = @ \cup {w}]
    /\ UNCHANGED <<seq_commit, header, next_seq, claims, descriptors, rd>>

CanStoreHeader == pub.busy /\ (Tso => pub.in_progress /\ PayloadStored)

StoreHeader(w) ==
    /\ CanStoreHeader
    /\ w \notin pub.fields
    /\ header' = [header EXCEPT ![PubSlot][w] = pub.frame]
    /\ pub' = [pub EXCEPT !.fields = @ \cup {w}]
    /\ UNCHANGED <<seq_commit, payload, next_seq, claims, descriptors, rd>>

CanCommit == pub.in_progress /\ PayloadStored /\ HeaderStored

StoreCommitted ==
    /\ pub.busy
    /\ CanCommit
    /\ ~pub.committed
    /\ seq_commit' = [seq_commit EXCEPT ![PubSlot] = tp_seq_committed(pub.frame.seq)]
    /\ pub' = [pub EXCEPT !.committed = TRUE]
    /\ UNCHANGED <<header, payload, next_seq, claims, descriptors, rd>>

CanPublishDescriptor == pub.busy /\ pub.committed

\* tp_producer_publish_descriptor: the offer to the descriptor publication
\* succeeds, or fails (back pressure, not connected) and is not repeated.
\* Either way the call returns.
PublishDescriptor(offered) ==
    /\ CanPublishDescriptor
    /\ descriptors' = IF offered THEN descriptors \cup {pub.frame.seq} ELSE descriptors
    /\ pub' = NoPub
    /\ UNCHANGED <<memory, next_seq, claims, rd>>

-----------------------------------------------------------------------------
(* Consumer: tp_consumer_read_frame and tp_consumer_validate_progress       *)

Index(c) == SlotOf(rd[c].seq)

StartLoad(c, kind, seq, want) ==
    rd' = [rd EXCEPT ![c] = [IdleReader("none") EXCEPT
              !.pc = "load", !.kind = kind, !.seq = seq, !.want = want,
              !.first = seq_commit[SlotOf(seq)]]]

Return(c, outcome) == rd' = [rd EXCEPT ![c] = IdleReader(outcome)]

\* seq_first.  The caller has the sequence number from a FrameDescriptor or a
\* FrameProgress, so it is any number the producer has used.
ReadFrame(c, seq) ==
    /\ rd[c].pc = "idle"
    /\ IF tp_seq_is_committed(seq_commit[SlotOf(seq)])
         THEN StartLoad(c, "frame", seq, 0)
         ELSE Return(c, "late")
    /\ UNCHANGED <<memory, producer>>

\* seq_commit_begin of a progress report of `filled' payload words.
ValidateProgress(c, seq, filled) ==
    /\ rd[c].pc = "idle"
    /\ LET begin == seq_commit[SlotOf(seq)] IN
         IF ~tp_seq_is_committed(begin) THEN Return(c, "skipped")
         ELSE IF tp_seq_value(begin) # seq THEN Return(c, "error")
         ELSE StartLoad(c, "progress", seq, filled)
    /\ UNCHANGED <<memory, producer>>

\* tp_slot_decode and tp_tensor_header_decode load the header fields.
LoadHeader(c, w) ==
    /\ rd[c].pc = "load"
    /\ w \notin rd[c].loaded
    /\ rd' = [rd EXCEPT ![c].view[w] = header[Index(c)][w], ![c].loaded = @ \cup {w}]
    /\ UNCHANGED <<memory, producer>>

\* slot_view.seq_commit, which only validate_progress looks at.
LoadDecodedCommit(c) ==
    /\ rd[c].pc = "load" /\ rd[c].kind = "progress"
    /\ rd[c].decoded = NoSeq
    /\ rd' = [rd EXCEPT ![c].decoded = seq_commit[Index(c)]]
    /\ UNCHANGED <<memory, producer>>

AllLoaded(c) ==
    /\ rd[c].loaded = HeaderWords
    /\ rd[c].kind = "progress" => rd[c].decoded # NoSeq

\* payload_slot, pool_id, values_len_bytes and header_bytes_length checks.  A
\* word of a never written slot fails them.
HeaderValid(view) ==
    /\ \A w \in HeaderWords : view[w] # NoFrame
    /\ view["values_len_bytes"].len <= Stride[view["pool_id"].pool]

\* read_frame returns on an invalid header before its second load;
\* validate_progress looks at the header after it.
HeaderPassed(c) == rd[c].kind = "frame" => HeaderValid(rd[c].view)

\* The second load of the commit word.  It is an acquire load: under "weak"
\* the plain loads before it in the program may take effect after it.
LoadSecond(c) ==
    /\ rd[c].pc = "load"
    /\ rd[c].second = NoSeq
    /\ Tso => AllLoaded(c) /\ HeaderPassed(c)
    /\ rd' = [rd EXCEPT ![c].second = seq_commit[Index(c)]]
    /\ UNCHANGED <<memory, producer>>

\* The second load is not compared with the first.
BugNoRecheck(r) == tp_seq_is_committed(r.second)

Stable(r) ==
    /\ r.second = r.first
    /\ tp_seq_is_committed(r.second)

\* The sequence number is compared with the next one.
BugNextSeqExpected(r) ==
    IF ~HeaderValid(r.view) THEN "skipped"
    ELSE IF ~Stable(r) \/ tp_seq_value(r.second) # r.seq + 1 THEN "late"
    ELSE "accepted"

FrameOutcome(r) ==
    IF ~HeaderValid(r.view) THEN "skipped"
    ELSE IF ~Stable(r) \/ tp_seq_value(r.second) # r.seq THEN "late"
    ELSE "accepted"

ProgressOutcome(r) ==
    IF ~Stable(r) \/ r.decoded # r.second THEN "skipped"
    ELSE IF \/ tp_seq_value(r.second) # r.seq
            \/ ~HeaderValid(r.view)
            \/ r.want > r.view["values_len_bytes"].len THEN "error"
    ELSE "accepted"

Outcome(r) == IF r.kind = "frame" THEN FrameOutcome(r) ELSE ProgressOutcome(r)

\* The call returns; an accepted frame's view points into the payload pool.
FinishRead(c) ==
    /\ rd[c].pc = "load"
    /\ AllLoaded(c)
    /\ HeaderPassed(c) => rd[c].second # NoSeq
    /\ IF Outcome(rd[c]) = "accepted"
         THEN rd' = [rd EXCEPT ![c].pc = "view", ![c].outcome = "accepted"]
         ELSE Return(c, Outcome(rd[c]))
    /\ UNCHANGED <<memory, producer>>

ViewLen(r) == IF r.kind = "frame" THEN r.view["values_len_bytes"].len ELSE r.want

\* The application reads a payload word through the view's pointer.
UsePayload(c, w) ==
    /\ rd[c].pc = "view"
    /\ w \in 1 .. ViewLen(rd[c])
    /\ rd[c].seen[w] = NoSeq
    /\ rd' = [rd EXCEPT ![c].seen[w] = payload[rd[c].view["pool_id"].pool][Index(c)][w]]
    /\ UNCHANGED <<memory, producer>>

ReleaseView(c) ==
    /\ rd[c].pc = "view"
    /\ Return(c, "none")
    /\ UNCHANGED <<memory, producer>>

-----------------------------------------------------------------------------
ProducerCall ==
    \/ \E length \in Lengths, pool \in Pools : OfferFrame(length, pool)
    \/ OfferInvalidFrame
    \/ \E c \in Claims :
         \/ \E length \in Lengths, pool \in Pools : TryClaim(c, length, pool)
         \/ \E w \in Words : FillClaim(c, w)
         \/ CommitClaim(c)
         \/ AbortClaim(c)
         \/ QueueClaim(c)

PublishStep ==
    \/ StoreInProgress
    \/ \E w \in Words : StorePayload(w)
    \/ \E w \in HeaderWords : StoreHeader(w)
    \/ StoreCommitted
    \/ \E offered \in BOOLEAN : PublishDescriptor(offered)

ConsumerStep(c) ==
    \/ \E seq \in 0 .. next_seq - 1 : ReadFrame(c, seq)
    \/ \E seq \in 0 .. next_seq - 1, filled \in Lengths : ValidateProgress(c, seq, filled)
    \/ \E w \in HeaderWords : LoadHeader(c, w)
    \/ LoadDecodedCommit(c)
    \/ LoadSecond(c)
    \/ FinishRead(c)
    \/ \E w \in Words : UsePayload(c, w)
    \/ ReleaseView(c)

Next ==
    \/ ProducerCall
    \/ PublishStep
    \/ \E c \in Consumers : ConsumerStep(c)

Spec == Init /\ [][Next]_vars /\ WF_vars(PublishStep)

-----------------------------------------------------------------------------
(* Properties of the ring                                                   *)

\* A slot whose commit word says COMMITTED holds exactly one frame: the commit
\* word, every header field and every payload word belong to it.  (What the
\* in_progress mark of try_claim and publish_frame is for.)
CommittedFrameIntact ==
    \A i \in Slots : tp_seq_is_committed(seq_commit[i]) =>
        LET f == header[i]["pool_id"] IN
          /\ f.seq = tp_seq_value(seq_commit[i])
          /\ SlotOf(f.seq) = i
          /\ \A w \in HeaderWords : header[i][w] = f
          /\ \A w \in 1 .. f.len : payload[f.pool][i][w] = f.seq

\* read_frame and validate_progress accept no mixture of two frames, and no
\* frame but the one asked for, whatever the producer stored between the loads.
AcceptedHeaderUntorn ==
    \A c \in Consumers : rd[c].pc = "view" =>
        \A w \in HeaderWords : /\ rd[c].view[w].seq = rd[c].seq
                               /\ rd[c].view[w] = rd[c].view["pool_id"]

\* The payload is read after the call has returned, so it may be overwritten
\* under the reader.  While the commit word still has the value the call saw,
\* every payload word read through the view so far was the frame's own.
UnchangedCommitMeansIntactPayload ==
    \A c \in Consumers : rd[c].pc = "view" /\ seq_commit[Index(c)] = rd[c].first =>
        \A w \in 1 .. ViewLen(rd[c]) : rd[c].seen[w] \in {NoSeq, rd[c].seq}

\* A FrameDescriptor is published only for a frame whose slot was committed
\* before; a consumer that finds another value there was lapped.
DescriptorAfterCommit ==
    \A seq \in descriptors : seq_commit[SlotOf(seq)] >= tp_seq_committed(seq)

\* The commit word of a slot never goes back, so a consumer that sees the same
\* value twice saw no overwrite in between.
SlotNeverRegresses ==
    [][\A i \in Slots : seq_commit'[i] >= seq_commit[i]]_seq_commit

\* A read whose first load found the frame committed gives it up only when the
\* frame has left its slot since: no spurious drop.
DropOnlyLostFrames ==
    [][\A c \in Consumers :
         /\ rd[c].pc = "load"
         /\ rd[c].first = tp_seq_committed(rd[c].seq)
         /\ rd'[c].outcome \in {"late", "skipped"}
         => seq_commit[Index(c)] # tp_seq_committed(rd[c].seq)]_vars

=============================================================================
