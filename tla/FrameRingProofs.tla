--------------------------- MODULE FrameRingProofs ---------------------------
(***************************************************************************)
(* The ring's invariants for every number of slots, pools, claims,          *)
(* consumers and frames, for stores and loads in program order: with claims *)
(* that end at commit (fixed_pool_mode off), and with one claim handle that *)
(* fixed_pool_mode lets the application queue again.                        *)
(***************************************************************************)
EXTENDS FrameRing, TLAPS

\* The setting of the first theorems: program order, claims end at commit.
OrderedRing == MemoryOrder = "tso" /\ ~FixedPool

-----------------------------------------------------------------------------
(* The inductive invariant                                                  *)

\* Every commit word is of a frame that was started.
CommitBounded == \A i \in Slots : seq_commit[i] = 0 \/ seq_commit[i] < 2 * next_seq

\* An open claim owns its slot: the slot is marked in progress for it, and the
\* words the application has filled are its own.
ClaimOwnsSlot(c) ==
    claims[c].state # "free" =>
        /\ claims[c].state = "open"
        /\ claims[c].seq \in Nat
        /\ claims[c].seq < next_seq
        /\ claims[c].header_index = SlotOf(claims[c].seq)
        /\ seq_commit[claims[c].header_index] = 2 * claims[c].seq
        /\ \A w \in claims[c].filled :
             payload[claims[c].pool][claims[c].header_index][w] = claims[c].seq

ClaimsDisjoint ==
    /\ \A c, d \in Claims :
         claims[c].state # "free" /\ claims[d].state # "free" /\ c # d =>
            claims[c].header_index # claims[d].header_index
    /\ \A c \in Claims :
         claims[c].state # "free" /\ pub.busy => claims[c].header_index # PubSlot

\* How far the publish call in flight has got.
PublishProgress ==
    pub.busy =>
        /\ pub.frame.seq \in Nat
        /\ pub.frame.seq < next_seq
        /\ ~pub.in_progress => /\ pub.stored = {} /\ pub.fields = {} /\ ~pub.committed
                               /\ seq_commit[PubSlot] <= 2 * pub.frame.seq
        /\ pub.in_progress => seq_commit[PubSlot] = IF pub.committed
                                                     THEN 2 * pub.frame.seq + 1
                                                     ELSE 2 * pub.frame.seq
        /\ pub.committed => PayloadStored /\ HeaderStored
        /\ pub.src # NoSeq =>
             /\ pub.src = PubSlot
             /\ seq_commit[PubSlot] >= 2 * pub.frame.seq
             /\ \A w \in 1 .. pub.frame.len :
                  payload[pub.frame.pool][PubSlot][w] = pub.frame.seq
        /\ \A w \in pub.stored : payload[pub.frame.pool][PubSlot][w] = pub.frame.seq
        /\ \A w \in pub.fields : header[PubSlot][w] = pub.frame

\* What a reader r may trust, given the commit word and the header fields of its
\* slot as they are now.
ReaderTrusts(r, commit, fields) ==
    r.pc # "idle" =>
        /\ r.seq \in Nat
        /\ tp_seq_is_committed(r.first)
        /\ r.first = commit => \A w \in r.loaded : r.view[w] = fields[w]
        /\ r.second # NoSeq =>
             /\ r.loaded = HeaderWords
             /\ r.second = r.first =>
                  \A w \in HeaderWords : /\ r.view[w].seq = tp_seq_value(r.first)
                                         /\ r.view[w] = r.view["pool_id"]
        /\ r.pc = "load" => \A w \in Words : r.seen[w] = NoSeq
        /\ r.pc = "view" =>
             /\ r.second = r.first
             /\ tp_seq_value(r.first) = r.seq
             /\ ViewLen(r) <= r.view["pool_id"].len
             /\ r.first = commit => \A w \in Words : r.seen[w] \in {NoSeq, r.seq}

ReadersTrust == \A c \in Consumers : ReaderTrusts(rd[c], seq_commit[Index(c)], header[Index(c)])

\* What it knows where commit words only grow.
ReaderKnows(r, commit, fields) ==
    /\ ReaderTrusts(r, commit, fields)
    /\ r.pc # "idle" => r.first <= commit /\ (r.second # NoSeq => r.second <= commit)

ReadersKnow == \A c \in Consumers : ReaderKnows(rd[c], seq_commit[Index(c)], header[Index(c)])

IInv ==
    /\ TypeOK
    /\ CommitBounded
    /\ \A c \in Claims : ClaimOwnsSlot(c)
    /\ ClaimsDisjoint
    /\ PublishProgress
    /\ CommittedFrameIntact
    /\ ReadersKnow

-----------------------------------------------------------------------------
(* Arithmetic of slots and commit words                                     *)

\* A sequence number has a slot of the ring.
LEMMA SlotInRing == \A seq \in Int : SlotOf(seq) \in Slots
  BY SlotsAssumption DEF SlotOf, Slots

\* The two encodings of a sequence number are told apart by the low bit.
LEMMA CommitEncoding ==
    ASSUME NEW seq \in Nat
    PROVE  /\ tp_seq_in_progress(seq) = 2 * seq
           /\ tp_seq_committed(seq) = 2 * seq + 1
           /\ ~tp_seq_is_committed(2 * seq)
           /\ tp_seq_is_committed(2 * seq + 1)
           /\ tp_seq_value(2 * seq + 1) = seq
  BY DEF tp_seq_in_progress, tp_seq_committed, tp_seq_is_committed, tp_seq_value

-----------------------------------------------------------------------------
(* Type correctness, in every mode                                          *)

\* Claims and the publish call in flight carry sequence numbers of started
\* frames; TypeOK is not inductive without this.
SeqsStarted ==
    /\ pub.busy => pub.frame.seq \in 0 .. next_seq - 1
    /\ \A c \in Claims : claims[c].state # "free" => claims[c].seq \in 0 .. next_seq - 1

TypeInv == TypeOK /\ SeqsStarted

\* The type of the frame that stands for none.
LEMMA NoFrameTyped == NoFrame \in Frames /\ NoFrame.pool \in Pools
  <1>1. (CHOOSE p \in Pools : TRUE) \in Pools
    BY PoolsAssumption
  <1> QED
    BY <1>1, PoolsAssumption DEF NoFrame, Frames, Seqs, NoSeq, Lengths

\* The type of a reader at rest.
LEMMA IdleTyped ==
    ASSUME NEW outcome \in {"none", "accepted", "late", "skipped", "error"}
    PROVE  IdleReader(outcome) \in ReaderRecords
  BY NoFrameTyped, PoolsAssumption
  DEF IdleReader, ReaderRecords, Seqs, NoSeq, Lengths, Words

\* The type of the publish call at rest.
LEMMA NoPubTyped == NoPub \in PubRecords /\ ~NoPub.busy
  BY NoFrameTyped DEF NoPub, PubRecords, NoSeq

\* The type of a free claim.
LEMMA NoClaimTyped == NoClaim \in ClaimRecords /\ NoClaim.state = "free"
  <1>1. 0 \in Slots
    BY SlotsAssumption DEF Slots
  <1> QED
    BY <1>1, NoFrameTyped, PoolsAssumption
    DEF NoClaim, ClaimRecords, ClaimStates, Seqs, NoSeq, Lengths

\* The types hold at first.
LEMMA TypeInit == Init => TypeInv
  <1> SUFFICES ASSUME Init PROVE TypeInv
    OBVIOUS
  <1> USE DEF Init
  <1>1. seq_commit \in [Slots -> Nat] /\ next_seq \in 0 .. MaxSeq /\ descriptors \subseteq 0 .. MaxSeq - 1
    BY BoundsAssumption
  <1>2. header \in [Slots -> [HeaderWords -> Frames]]
    BY NoFrameTyped
  <1>3. payload \in [Pools -> [Slots -> [Words -> Seqs]]]
    BY DEF Seqs
  <1>4. claims \in [Claims -> ClaimRecords] /\ pub \in PubRecords
    BY NoClaimTyped, NoPubTyped
  <1>5. rd \in [Consumers -> ReaderRecords]
    BY IdleTyped
  <1>6. SeqsStarted
    BY NoClaimTyped, NoPubTyped DEF SeqsStarted
  <1> QED
    BY <1>1, <1>2, <1>3, <1>4, <1>5, <1>6 DEF TypeInv, TypeOK

\* Every step keeps the types.
LEMMA TypeNext == TypeInv /\ [Next]_vars => TypeInv'
  <1> SUFFICES ASSUME TypeInv, [Next]_vars PROVE TypeInv'
    OBVIOUS
  <1> USE SlotInRing, PoolsAssumption, BoundsAssumption
      DEF TypeInv, TypeOK, SeqsStarted, memory, producer
  <1>1. ASSUME NEW length \in Lengths, NEW pool \in Pools, OfferFrame(length, pool)
        PROVE  TypeInv'
    <2> DEFINE f == [seq |-> next_seq, pool |-> pool, len |-> length]
    <2>a. f \in Frames
      BY DEF Frames, Seqs
    <2>b. pub' = [NoPub EXCEPT !.busy = TRUE, !.frame = f, !.src = NoSeq]
      BY <1>1 DEF OfferFrame, Publish
    <2>1. pub' \in PubRecords /\ pub'.busy /\ pub'.frame.seq = next_seq
      <3> HIDE DEF f
      <3>1. pub' \in PubRecords /\ pub'.busy /\ pub'.frame = f
        BY <2>a, <2>b, NoPubTyped DEF PubRecords
      <3> QED
        BY <3>1 DEF f
    <2>2. next_seq' \in 0 .. MaxSeq /\ next_seq' = next_seq + 1
      BY <1>1 DEF OfferFrame, CanStart
    <2> QED
      BY <1>1, <2>1, <2>2 DEF OfferFrame
  <1>2. CASE OfferInvalidFrame
    BY <1>2 DEF OfferInvalidFrame, CanStart
  <1>3. ASSUME NEW c \in Claims, NEW length \in Lengths, NEW pool \in Pools,
               TryClaim(c, length, pool)
        PROVE  TypeInv'
    <2>1. next_seq' \in 0 .. MaxSeq /\ next_seq' = next_seq + 1
      BY <1>3 DEF TryClaim, CanStart
    <2>2. claims' \in [Claims -> ClaimRecords]
      BY <1>3 DEF TryClaim, ClaimRecords, ClaimStates, Seqs
    <2>3. seq_commit' \in [Slots -> Nat]
      BY <1>3 DEF TryClaim, tp_seq_in_progress
    <2>4. \A d \in Claims : claims'[d].state # "free" => claims'[d].seq \in 0 .. next_seq' - 1
      BY <1>3, <2>1 DEF TryClaim
    <2> QED
      BY <1>3, <2>1, <2>2, <2>3, <2>4 DEF TryClaim
  <1>4. ASSUME NEW c \in Claims, NEW w \in Words, FillClaim(c, w)
        PROVE  TypeInv'
    <2>1. claims[c].pool \in Pools /\ claims[c].header_index \in Slots /\ claims[c].seq \in Seqs
      BY DEF ClaimRecords
    <2>2. payload' \in [Pools -> [Slots -> [Words -> Seqs]]]
      BY <1>4, <2>1 DEF FillClaim
    <2>3. claims' \in [Claims -> ClaimRecords]
      BY <1>4 DEF FillClaim, ClaimRecords
    <2>4. \A d \in Claims : claims'[d].state = claims[d].state /\ claims'[d].seq = claims[d].seq
      BY <1>4 DEF FillClaim, ClaimRecords
    <2> QED
      BY <1>4, <2>2, <2>3, <2>4 DEF FillClaim
  <1>5. ASSUME NEW c \in Claims, CommitClaim(c)
        PROVE  TypeInv'
    <2>1. pub' \in PubRecords /\ pub'.busy /\ pub'.frame.seq = claims[c].seq
      BY <1>5, NoPubTyped DEF CommitClaim, Publish, PubRecords, Frames, ClaimRecords
    <2>2. claims' \in [Claims -> ClaimRecords]
      BY <1>5, NoClaimTyped DEF CommitClaim, ClaimRecords, ClaimStates
    <2>3. \A d \in Claims : claims'[d].state # "free" =>
             claims[d].state # "free" /\ claims'[d].seq = claims[d].seq
      BY <1>5, NoClaimTyped DEF CommitClaim, ClaimRecords
    <2> QED
      BY <1>5, <2>1, <2>2, <2>3 DEF CommitClaim
  <1>6. ASSUME NEW c \in Claims, AbortClaim(c)
        PROVE  TypeInv'
    BY <1>6, NoClaimTyped DEF AbortClaim
  <1>7. ASSUME NEW c \in Claims, QueueClaim(c)
        PROVE  TypeInv'
    <2>1. next_seq' \in 0 .. MaxSeq /\ next_seq' = next_seq + 1
      BY <1>7 DEF QueueClaim, CanStart
    <2>2. claims' \in [Claims -> ClaimRecords]
      <3>a. claims[c] \in ClaimRecords /\ next_seq \in Seqs /\ "open" \in ClaimStates
        BY DEF Seqs, ClaimStates
      <3>b. {} \in SUBSET Words
        OBVIOUS
      <3> HIDE DEF TypeInv, TypeOK, SeqsStarted
      <3>1. [claims[c] EXCEPT !.state = "open", !.seq = next_seq, !.filled = {}] \in ClaimRecords
        BY <3>a, <3>b DEF ClaimRecords
      <3> QED
        BY <1>7, <3>1 DEF QueueClaim, TypeInv, TypeOK
    <2>3. seq_commit' \in [Slots -> Nat]
      BY <1>7 DEF QueueClaim, tp_seq_in_progress, ClaimRecords
    <2>4. \A d \in Claims : claims'[d].state # "free" => claims'[d].seq \in 0 .. next_seq' - 1
      BY <1>7, <2>1 DEF QueueClaim, ClaimRecords
    <2> QED
      BY <1>7, <2>1, <2>2, <2>3, <2>4 DEF QueueClaim
  <1>8. CASE StoreInProgress
    <2>1. pub' \in PubRecords /\ pub'.frame = pub.frame /\ pub'.busy = pub.busy
      BY <1>8 DEF StoreInProgress, PubRecords
    <2>2. seq_commit' \in [Slots -> Nat]
      BY <1>8 DEF StoreInProgress, PubSlot, tp_seq_in_progress
    <2> QED
      BY <1>8, <2>1, <2>2 DEF StoreInProgress
  <1>9. ASSUME NEW w \in Words, StorePayload(w)
        PROVE  TypeInv'
    <2>1. pub' \in PubRecords /\ pub'.frame = pub.frame /\ pub'.busy = pub.busy
      BY <1>9 DEF StorePayload, PubRecords
    <2>2. pub.frame.pool \in Pools /\ PubSlot \in Slots /\ pub.src \in Slots \cup {NoSeq}
          /\ pub.frame.seq \in Nat
      BY <1>9 DEF StorePayload, CanStorePayload, PubRecords, Frames, PubSlot
    <2>3. payload' \in [Pools -> [Slots -> [Words -> Seqs]]]
      <3> DEFINE v == IF pub.src = NoSeq THEN pub.frame.seq
                                         ELSE payload[pub.frame.pool][pub.src][w]
      <3>1. v \in Seqs
        BY <2>2 DEF Seqs
      <3>2. payload' = [payload EXCEPT ![pub.frame.pool][PubSlot][w] = v]
        BY <1>9 DEF StorePayload
      <3> HIDE DEF v
      <3> QED
        BY <2>2, <3>1, <3>2
    <2> QED
      BY <1>9, <2>1, <2>3 DEF StorePayload
  <1>10. ASSUME NEW w \in HeaderWords, StoreHeader(w)
         PROVE  TypeInv'
    <2>1. pub' \in PubRecords /\ pub'.frame = pub.frame /\ pub'.busy = pub.busy
      BY <1>10 DEF StoreHeader, PubRecords
    <2>2. pub.frame \in Frames /\ PubSlot \in Slots
      BY <1>10 DEF StoreHeader, CanStoreHeader, PubRecords, PubSlot
    <2>3. header' \in [Slots -> [HeaderWords -> Frames]]
      BY <1>10, <2>2 DEF StoreHeader
    <2> QED
      BY <1>10, <2>1, <2>3 DEF StoreHeader
  <1>11. CASE StoreCommitted
    <2>1. pub' \in PubRecords /\ pub'.frame = pub.frame /\ pub'.busy = pub.busy
      BY <1>11 DEF StoreCommitted, PubRecords
    <2>2. seq_commit' \in [Slots -> Nat]
      BY <1>11 DEF StoreCommitted, PubSlot, tp_seq_committed
    <2> QED
      BY <1>11, <2>1, <2>2 DEF StoreCommitted
  <1>12. ASSUME NEW offered \in BOOLEAN, PublishDescriptor(offered)
         PROVE  TypeInv'
    <2>1. pub.busy /\ pub' = NoPub /\ descriptors' \subseteq descriptors \cup {pub.frame.seq}
      BY <1>12 DEF PublishDescriptor, CanPublishDescriptor
    <2>2. UNCHANGED <<seq_commit, header, payload, next_seq, claims, rd>>
      BY <1>12 DEF PublishDescriptor
    <2> QED
      BY <2>1, <2>2, NoPubTyped
  <1>13. ASSUME NEW c \in Consumers, ConsumerStep(c)
         PROVE  TypeInv'
    <2>1. rd[c] \in ReaderRecords
      OBVIOUS
    <2>2. UNCHANGED <<memory, producer>>
      BY <1>13 DEF ConsumerStep, ReadFrame, ValidateProgress, LoadHeader, LoadDecodedCommit,
                   LoadSecond, FinishRead, UsePayload, ReleaseView
    <2>3. ASSUME NEW outcome \in {"none", "accepted", "late", "skipped", "error"},
                 Return(c, outcome)
          PROVE  rd' \in [Consumers -> ReaderRecords]
      BY <2>3, IdleTyped DEF Return
    <2>4. ASSUME NEW kind \in {"frame", "progress"}, NEW seq \in 0 .. next_seq - 1,
                 NEW want \in Lengths, StartLoad(c, kind, seq, want)
          PROVE  rd' \in [Consumers -> ReaderRecords]
      <3>1. seq \in Seqs /\ seq_commit[SlotOf(seq)] \in Nat
        BY DEF Seqs
      <3>2. [IdleReader("none") EXCEPT !.pc = "load", !.kind = kind, !.seq = seq, !.want = want,
                                       !.first = seq_commit[SlotOf(seq)]] \in ReaderRecords
        BY <3>1, IdleTyped DEF ReaderRecords
      <3> QED
        BY <2>4, <3>2 DEF StartLoad
    <2>5. ASSUME NEW seq \in 0 .. next_seq - 1, ReadFrame(c, seq)
          PROVE  rd' \in [Consumers -> ReaderRecords]
      BY <2>5, <2>3, <2>4 DEF ReadFrame, Lengths
    <2>6. ASSUME NEW seq \in 0 .. next_seq - 1, NEW filled \in Lengths,
                 ValidateProgress(c, seq, filled)
          PROVE  rd' \in [Consumers -> ReaderRecords]
      BY <2>6, <2>3, <2>4 DEF ValidateProgress
    <2>7. rd[c].seq \in Int /\ Index(c) \in Slots
      BY <2>1 DEF ReaderRecords, Seqs, NoSeq, Index
    <2>8. ASSUME NEW w \in HeaderWords, LoadHeader(c, w)
          PROVE  rd' \in [Consumers -> ReaderRecords]
      <3> DEFINE v == [rd[c].view EXCEPT ![w] = header[Index(c)][w]]
      <3>1. v \in [HeaderWords -> Frames]
        BY <2>1, <2>7 DEF ReaderRecords
      <3>2. rd' = [rd EXCEPT ![c] = [rd[c] EXCEPT !.view = v, !.loaded = rd[c].loaded \cup {w}]]
        BY <2>8, <2>1 DEF LoadHeader, ReaderRecords
      <3> HIDE DEF v
      <3> QED
        BY <2>1, <3>1, <3>2 DEF ReaderRecords
    <2>9. CASE LoadDecodedCommit(c)
      BY <2>9, <2>1, <2>7, ZenonT(30) DEF LoadDecodedCommit, ReaderRecords, Seqs
    <2>10. CASE LoadSecond(c)
      BY <2>10, <2>1, <2>7, ZenonT(30) DEF LoadSecond, ReaderRecords, Seqs
    <2>11. CASE FinishRead(c)
      <3>1. Outcome(rd[c]) \in {"accepted", "late", "skipped", "error"}
        BY DEF Outcome, FrameOutcome, ProgressOutcome
      <3>2. [rd EXCEPT ![c].pc = "view", ![c].outcome = "accepted"] \in [Consumers -> ReaderRecords]
        BY <2>1 DEF ReaderRecords
      <3> QED
        BY <2>11, <2>3, <3>1, <3>2 DEF FinishRead
    <2>12. ASSUME NEW w \in Words, UsePayload(c, w)
           PROVE  rd' \in [Consumers -> ReaderRecords]
      <3>1. rd[c].view["pool_id"].pool \in Pools
        BY <2>1 DEF ReaderRecords, HeaderWords, Frames
      <3> QED
        <4> DEFINE v == payload[rd[c].view["pool_id"].pool][Index(c)][w]
        <4>1. v \in Seqs
          BY <2>7, <3>1
        <4>2. rd' = [rd EXCEPT ![c].seen[w] = v]
          BY <2>12 DEF UsePayload
        <4> HIDE DEF v
        <4> QED
          BY <2>1, <4>1, <4>2 DEF ReaderRecords
    <2>13. CASE ReleaseView(c)
      BY <2>13, <2>3 DEF ReleaseView
    <2>14. rd' \in [Consumers -> ReaderRecords]
      BY <1>13, <2>5, <2>6, <2>8, <2>9, <2>10, <2>11, <2>12, <2>13 DEF ConsumerStep
    <2> QED
      BY <2>2, <2>14
  <1>14. CASE UNCHANGED vars
    BY <1>14 DEF vars
  <1> QED
    BY <1>1, <1>2, <1>3, <1>4, <1>5, <1>6, <1>7, <1>8, <1>9, <1>10, <1>11, <1>12, <1>13, <1>14
    DEF Next, ProducerCall, PublishStep

\* Type correctness of the ring, in every mode: every access to shared memory
\* stays within its slots, pools and words, and only started frames are
\* announced.
THEOREM TypeCorrect == Spec => []TypeOK
  <1>1. TypeInv => TypeOK
    BY DEF TypeInv
  <1> QED
    BY TypeInit, TypeNext, <1>1, PTL DEF Spec

-----------------------------------------------------------------------------
(* The inductive invariant, in the ordered ring                             *)

\* The part of IInv that consumer steps do not touch.
RingInv ==
    /\ TypeOK
    /\ CommitBounded
    /\ \A c \in Claims : ClaimOwnsSlot(c)
    /\ ClaimsDisjoint
    /\ PublishProgress
    /\ CommittedFrameIntact

\* The ring's invariant contains the types.
LEMMA RingTyped == RingInv => TypeInv
  BY DEF RingInv, TypeInv, SeqsStarted, TypeOK, ClaimOwnsSlot, PublishProgress

\* The invariant holds at first.
LEMMA OrderedInit == Init => IInv
  <1> SUFFICES ASSUME Init PROVE IInv
    OBVIOUS
  <1>1. TypeOK
    BY TypeInit DEF TypeInv
  <1>2. CommitBounded /\ CommittedFrameIntact
    BY DEF Init, CommitBounded, CommittedFrameIntact, tp_seq_is_committed
  <1>3. (\A c \in Claims : ClaimOwnsSlot(c)) /\ ClaimsDisjoint
    BY NoClaimTyped DEF Init, ClaimOwnsSlot, ClaimsDisjoint
  <1>4. PublishProgress
    BY NoPubTyped DEF Init, PublishProgress
  <1>5. ReadersKnow
    BY DEF Init, ReadersKnow, ReaderKnows, ReaderTrusts, IdleReader
  <1> QED
    BY <1>1, <1>2, <1>3, <1>4, <1>5 DEF IInv

\* Starting a frame with tp_producer_offer_frame.
LEMMA OfferRing ==
    ASSUME RingInv, TypeOK', NEW length \in Lengths, NEW pool \in Pools,
           OfferFrame(length, pool)
    PROVE  RingInv'
  <1>1. /\ next_seq \in Nat /\ next_seq' = next_seq + 1
        /\ UNCHANGED <<seq_commit, header, payload, claims>>
        /\ ~pub.busy
        /\ \A c \in Claims : claims[c].state # "free" => claims[c].header_index # SlotOf(next_seq)
    BY DEF OfferFrame, CanStart, SlotFree, RingInv, TypeOK, memory
  <1>a. SlotOf(next_seq) \in Slots /\ seq_commit \in [Slots -> Nat]
    BY <1>1, SlotInRing DEF RingInv, TypeOK
  <1>2. /\ pub'.busy /\ pub'.frame.seq = next_seq /\ pub'.src = NoSeq /\ ~pub'.in_progress
        /\ pub'.stored = {} /\ pub'.fields = {} /\ ~pub'.committed
    BY DEF OfferFrame, Publish, NoPub
  <1>3. CommitBounded' /\ seq_commit[SlotOf(next_seq)] <= 2 * next_seq
    BY <1>1, <1>a DEF RingInv, CommitBounded
  <1>4. \A c \in Claims : ClaimOwnsSlot(c)'
    BY <1>1 DEF RingInv, ClaimOwnsSlot
  <1>5. ClaimsDisjoint'
    BY <1>1, <1>2 DEF RingInv, ClaimsDisjoint, PubSlot
  <1>6. PublishProgress'
    BY <1>1, <1>2, <1>3 DEF PublishProgress, PubSlot
  <1>7. CommittedFrameIntact'
    BY <1>1 DEF RingInv, CommittedFrameIntact
  <1> QED
    BY <1>3, <1>4, <1>5, <1>6, <1>7 DEF RingInv

\* An offer that is refused.
LEMMA OfferInvalidRing ==
    ASSUME RingInv, TypeOK', OfferInvalidFrame
    PROVE  RingInv'
  <1>1. /\ next_seq \in Nat /\ next_seq' = next_seq + 1
        /\ UNCHANGED <<seq_commit, header, payload, claims, pub>>
    BY DEF OfferInvalidFrame, RingInv, TypeOK, memory
  <1>2. CommitBounded' /\ CommittedFrameIntact'
    BY <1>1 DEF RingInv, TypeOK, CommitBounded, CommittedFrameIntact
  <1>3. (\A c \in Claims : ClaimOwnsSlot(c)') /\ ClaimsDisjoint'
    BY <1>1 DEF RingInv, ClaimOwnsSlot, ClaimsDisjoint, PubSlot
  <1>4. PublishProgress'
    BY <1>1 DEF RingInv, PublishProgress, PubSlot, PayloadStored, HeaderStored
  <1> QED
    BY <1>2, <1>3, <1>4 DEF RingInv

\* tp_producer_try_claim: the claimed slot belongs to no other claim, so the
\* mark hides its old frame and disturbs nothing else.
LEMMA TryClaimRing ==
    ASSUME RingInv, TypeOK', NEW c \in Claims, NEW length \in Lengths, NEW pool \in Pools,
           TryClaim(c, length, pool)
    PROVE  RingInv'
  <1> DEFINE i == SlotOf(next_seq)
  <1>1. /\ next_seq \in Nat /\ next_seq' = next_seq + 1
        /\ UNCHANGED <<header, payload, pub>>
        /\ ~pub.busy
        /\ i \in Slots
        /\ seq_commit' = [seq_commit EXCEPT ![i] = 2 * next_seq]
        /\ seq_commit \in [Slots -> Nat]
        /\ \A d \in Claims : claims[d].state # "free" => claims[d].header_index # i
    BY SlotInRing DEF TryClaim, CanStart, SlotFree, RingInv, TypeOK, tp_seq_in_progress
  <1>2. /\ claims'[c].state = "open" /\ claims'[c].seq = next_seq
        /\ claims'[c].header_index = i /\ claims'[c].filled = {}
        /\ \A d \in Claims \ {c} : claims'[d] = claims[d]
    BY DEF TryClaim, RingInv, TypeOK
  <1>a. \A d \in Claims : claims[d].header_index \in Slots
    BY DEF RingInv, TypeOK, ClaimRecords
  <1> HIDE DEF i
  <1>3. CommitBounded'
    BY <1>1 DEF RingInv, CommitBounded
  <1>4. ASSUME NEW d \in Claims PROVE ClaimOwnsSlot(d)'
    <2>1. CASE d = c
      BY <2>1, <1>1, <1>2 DEF ClaimOwnsSlot, i
    <2>2. CASE d # c
      BY <2>2, <1>1, <1>2, <1>a DEF ClaimOwnsSlot, RingInv
    <2> QED
      BY <2>1, <2>2
  <1>5. ClaimsDisjoint'
    BY <1>1, <1>2 DEF RingInv, ClaimsDisjoint
  <1>6. PublishProgress'
    BY <1>1 DEF PublishProgress
  <1>7. CommittedFrameIntact'
    BY <1>1, CommitEncoding DEF RingInv, CommittedFrameIntact
  <1> QED
    BY <1>3, <1>4, <1>5, <1>6, <1>7 DEF RingInv

\* The application fills a word of a slot that its claim owns.
LEMMA FillClaimRing ==
    ASSUME RingInv, TypeOK', NEW c \in Claims, NEW w \in Words, FillClaim(c, w)
    PROVE  RingInv'
  <1> DEFINE i == claims[c].header_index
             p == claims[c].pool
  <1>1. /\ claims[c].state = "open" /\ claims[c].seq \in Nat
        /\ i \in Slots /\ p \in Pools
        /\ seq_commit[i] = 2 * claims[c].seq
        /\ UNCHANGED <<seq_commit, header, next_seq, pub>>
        /\ payload' = [payload EXCEPT ![p][i][w] = claims[c].seq]
        /\ payload \in [Pools -> [Slots -> [Words -> Seqs]]]
    BY DEF FillClaim, RingInv, TypeOK, ClaimRecords, ClaimOwnsSlot
  <1>2. /\ \A d \in Claims : /\ claims'[d].state = claims[d].state
                             /\ claims'[d].seq = claims[d].seq
                             /\ claims'[d].header_index = claims[d].header_index
                             /\ claims'[d].pool = claims[d].pool
        /\ claims'[c].filled = claims[c].filled \cup {w}
        /\ \A d \in Claims \ {c} : claims'[d].filled = claims[d].filled
    BY DEF FillClaim, RingInv, TypeOK, ClaimRecords
  <1>a. \A d \in Claims : /\ claims[d].header_index \in Slots /\ claims[d].pool \in Pools
                          /\ claims[d].filled \subseteq Words
    BY DEF RingInv, TypeOK, ClaimRecords
  <1> HIDE DEF i, p
  <1>3. /\ payload'[p][i][w] = claims[c].seq
        /\ \A v \in Words \ {w} : payload'[p][i][v] = payload[p][i][v]
        /\ \A q \in Pools, j \in Slots \ {i} : payload'[q][j] = payload[q][j]
    BY <1>1
  <1>4. CommitBounded'
    BY <1>1 DEF RingInv, CommitBounded
  <1>5. ASSUME NEW d \in Claims PROVE ClaimOwnsSlot(d)'
    <2>1. CASE d = c
      <3>1. ClaimOwnsSlot(c)
        BY DEF RingInv
      <3>2. /\ claims'[c].state = claims[c].state /\ claims'[c].seq = claims[c].seq
            /\ claims'[c].header_index = i /\ claims'[c].pool = p
            /\ seq_commit' = seq_commit /\ next_seq' = next_seq
        BY <1>1, <1>2 DEF i, p
      <3>3. \A v \in claims'[c].filled : payload'[p][i][v] = claims[c].seq
        <4> SUFFICES ASSUME NEW v \in claims[c].filled, v # w
                     PROVE  payload'[p][i][v] = claims[c].seq
          BY <1>2, <1>3
        <4>1. payload'[p][i][v] = payload[p][i][v]
          BY <1>3, <1>a
        <4>2. payload[p][i][v] = claims[c].seq
          BY <3>1, <1>1 DEF ClaimOwnsSlot, i, p
        <4> QED
          BY <4>1, <4>2
      <3> QED
        BY <2>1, <3>1, <3>2, <3>3 DEF ClaimOwnsSlot, i, p
    <2>2. CASE d # c /\ claims[d].state # "free"
      <3>1. claims[d].header_index # i
        BY <2>2, <1>1 DEF RingInv, ClaimsDisjoint, i
      <3>2. payload'[claims[d].pool][claims[d].header_index]
              = payload[claims[d].pool][claims[d].header_index]
        BY <3>1, <1>3, <1>a
      <3>3. /\ claims'[d].state = claims[d].state /\ claims'[d].seq = claims[d].seq
            /\ claims'[d].header_index = claims[d].header_index
            /\ claims'[d].pool = claims[d].pool /\ claims'[d].filled = claims[d].filled
            /\ seq_commit' = seq_commit /\ next_seq' = next_seq
        BY <2>2, <1>1, <1>2
      <3>4. ClaimOwnsSlot(d)
        BY DEF RingInv
      <3> QED
        BY <3>2, <3>3, <3>4 DEF ClaimOwnsSlot
    <2> QED
      BY <2>1, <2>2, <1>2 DEF ClaimOwnsSlot
  <1>6. ClaimsDisjoint'
    <2>1. PubSlot' = PubSlot /\ pub'.busy = pub.busy
      BY <1>1 DEF PubSlot
    <2>2. ClaimsDisjoint
      BY DEF RingInv
    <2> QED
      BY <2>1, <2>2, <1>2 DEF ClaimsDisjoint
  <1>7. PublishProgress'
    <2> SUFFICES ASSUME pub.busy PROVE PublishProgress'
      BY <1>1 DEF PublishProgress
    <2>1. PubSlot # i
      BY <1>1 DEF RingInv, ClaimsDisjoint, i
    <2>2. PubSlot \in Slots /\ pub.frame.pool \in Pools
      BY SlotInRing DEF RingInv, TypeOK, PublishProgress, PubSlot, PubRecords, Frames
    <2>3. payload'[pub.frame.pool][PubSlot] = payload[pub.frame.pool][PubSlot]
      BY <1>3, <2>1, <2>2
    <2>4. PublishProgress
      BY DEF RingInv
    <2>5. /\ pub' = pub /\ seq_commit' = seq_commit /\ header' = header
          /\ next_seq' = next_seq
          /\ PubSlot' = PubSlot /\ PayloadStored' = PayloadStored
          /\ HeaderStored' = HeaderStored
      BY <1>1 DEF PubSlot, PayloadStored, HeaderStored
    <2> QED
      BY <2>3, <2>4, <2>5 DEF PublishProgress
  <1>8. CommittedFrameIntact'
    <2> SUFFICES ASSUME NEW j \in Slots, tp_seq_is_committed(seq_commit[j])
                 PROVE  LET f == header[j]["pool_id"] IN
                          /\ f.seq = tp_seq_value(seq_commit[j])
                          /\ SlotOf(f.seq) = j
                          /\ \A v \in HeaderWords : header[j][v] = f
                          /\ \A v \in 1 .. f.len : payload'[f.pool][j][v] = f.seq
      BY <1>1 DEF CommittedFrameIntact
    <2>1. j # i
      BY <1>1, CommitEncoding
    <2>2. header[j]["pool_id"].pool \in Pools
      BY DEF RingInv, TypeOK, HeaderWords, Frames
    <2>3. payload'[header[j]["pool_id"].pool][j] = payload[header[j]["pool_id"].pool][j]
      BY <1>3, <2>1, <2>2
    <2> QED
      BY <2>3 DEF RingInv, CommittedFrameIntact
  <1> QED
    BY <1>4, <1>5, <1>6, <1>7, <1>8 DEF RingInv

\* tp_producer_commit_claim hands the claim's slot over to the publish call.
LEMMA CommitClaimRing ==
    ASSUME OrderedRing, RingInv, TypeOK', NEW c \in Claims, CommitClaim(c)
    PROVE  RingInv'
  <1> DEFINE i == claims[c].header_index
  <1>1. /\ ~pub.busy /\ claims[c].state = "open" /\ claims[c].filled = 1 .. claims[c].len
        /\ claims' = [claims EXCEPT ![c] = NoClaim]
        /\ UNCHANGED <<seq_commit, header, payload, next_seq>>
        /\ claims[c].seq \in Nat /\ claims[c].seq < next_seq
        /\ i = SlotOf(claims[c].seq)
        /\ seq_commit[i] = 2 * claims[c].seq
        /\ \A w \in claims[c].filled : payload[claims[c].pool][i][w] = claims[c].seq
    BY DEF CommitClaim, OrderedRing, RingInv, ClaimOwnsSlot, memory
  <1>2. /\ pub'.busy /\ pub'.src = i /\ ~pub'.in_progress
        /\ pub'.frame.seq = claims[c].seq /\ pub'.frame.pool = claims[c].pool
        /\ pub'.frame.len = claims[c].len
        /\ pub'.stored = {} /\ pub'.fields = {} /\ ~pub'.committed
    BY DEF CommitClaim, Publish, NoPub
  <1>3. /\ claims'[c].state = "free"
        /\ \A d \in Claims \ {c} : claims'[d] = claims[d]
    BY <1>1, NoClaimTyped DEF RingInv, TypeOK
  <1> HIDE DEF i
  <1>4. CommitBounded' /\ CommittedFrameIntact'
    BY <1>1 DEF RingInv, CommitBounded, CommittedFrameIntact
  <1>5. \A d \in Claims : ClaimOwnsSlot(d)'
    BY <1>1, <1>3 DEF RingInv, ClaimOwnsSlot
  <1>6. ClaimsDisjoint'
    <2>1. PubSlot' = i
      BY <1>1, <1>2 DEF PubSlot
    <2>2. \A d \in Claims \ {c} : claims[d].state # "free" => claims[d].header_index # i
      BY <1>1 DEF RingInv, ClaimsDisjoint, i
    <2> QED
      BY <1>3, <2>1, <2>2 DEF RingInv, ClaimsDisjoint
  <1>7. PublishProgress'
    BY <1>1, <1>2 DEF PublishProgress, PubSlot
  <1> QED
    BY <1>4, <1>5, <1>6, <1>7 DEF RingInv

\* A claim is given up.
LEMMA AbortClaimRing ==
    ASSUME RingInv, TypeOK', NEW c \in Claims, AbortClaim(c)
    PROVE  RingInv'
  <1>1. /\ claims'[c].state = "free"
        /\ \A d \in Claims \ {c} : claims'[d] = claims[d]
        /\ UNCHANGED <<seq_commit, header, payload, next_seq, pub>>
    BY NoClaimTyped DEF AbortClaim, RingInv, TypeOK, memory
  <1>2. CommitBounded' /\ CommittedFrameIntact'
    BY <1>1 DEF RingInv, CommitBounded, CommittedFrameIntact
  <1>3. (\A d \in Claims : ClaimOwnsSlot(d)') /\ ClaimsDisjoint'
    BY <1>1 DEF RingInv, ClaimOwnsSlot, ClaimsDisjoint, PubSlot
  <1>4. PublishProgress'
    BY <1>1 DEF RingInv, PublishProgress, PubSlot, PayloadStored, HeaderStored
  <1> QED
    BY <1>2, <1>3, <1>4 DEF RingInv

\* The slot of the publish call in flight and the fields that name it are
\* well typed; no claim holds it.
LEMMA PublishSlot ==
    ASSUME RingInv, pub.busy
    PROVE  /\ PubSlot \in Slots /\ pub.frame \in Frames /\ pub.frame.pool \in Pools
           /\ pub.frame.seq \in Nat /\ pub.frame.seq < next_seq /\ next_seq \in Nat
           /\ seq_commit \in [Slots -> Nat]
           /\ \A c \in Claims : /\ claims[c].header_index \in Slots
                                /\ claims[c].pool \in Pools
                                /\ claims[c].state # "free" => claims[c].header_index # PubSlot
  <1>1. pub.frame \in Frames /\ pub.frame.pool \in Pools
    BY DEF RingInv, TypeOK, PubRecords, Frames
  <1>2. pub.frame.seq \in Nat /\ pub.frame.seq < next_seq /\ next_seq \in Nat
    BY DEF RingInv, TypeOK, PublishProgress
  <1>3. PubSlot \in Slots
    BY <1>2, SlotInRing DEF PubSlot
  <1>4. \A c \in Claims : claims[c].header_index \in Slots /\ claims[c].pool \in Pools
    BY DEF RingInv, TypeOK, ClaimRecords
  <1> QED
    BY <1>1, <1>2, <1>3, <1>4 DEF RingInv, TypeOK, ClaimsDisjoint

\* A store that leaves every claim, and every slot but the publish call's, as
\* it was keeps what the claims know.
LEMMA ClaimsKept ==
    ASSUME RingInv, pub.busy, UNCHANGED <<claims, next_seq>>,
           pub'.busy, pub'.frame = pub.frame,
           \A j \in Slots \ {PubSlot} : seq_commit'[j] = seq_commit[j],
           \A q \in Pools, j \in Slots \ {PubSlot} : payload'[q][j] = payload[q][j]
    PROVE  (\A c \in Claims : ClaimOwnsSlot(c)') /\ ClaimsDisjoint'
  <1>1. ASSUME NEW c \in Claims PROVE ClaimOwnsSlot(c)'
    <2>1. claims'[c] = claims[c] /\ next_seq' = next_seq
      OBVIOUS
    <2>2. CASE claims[c].state # "free"
      <3>1. /\ seq_commit'[claims[c].header_index] = seq_commit[claims[c].header_index]
            /\ payload'[claims[c].pool][claims[c].header_index]
                 = payload[claims[c].pool][claims[c].header_index]
        BY <2>2, PublishSlot
      <3>2. ClaimOwnsSlot(c)
        BY DEF RingInv
      <3> QED
        BY <2>1, <3>1, <3>2 DEF ClaimOwnsSlot
    <2> QED
      BY <2>1, <2>2 DEF ClaimOwnsSlot
  <1>2. ClaimsDisjoint'
    <2>1. PubSlot' = PubSlot
      BY DEF PubSlot
    <2> QED
      BY <2>1 DEF RingInv, ClaimsDisjoint
  <1> QED
    BY <1>1, <1>2

\* The frames committed in other slots are untouched by a store to a slot.
LEMMA IntactElsewhere ==
    ASSUME TypeOK, CommittedFrameIntact, NEW i \in Slots,
           \A j \in Slots \ {i} : seq_commit'[j] = seq_commit[j] /\ header'[j] = header[j],
           \A q \in Pools, j \in Slots \ {i} : payload'[q][j] = payload[q][j],
           tp_seq_is_committed(seq_commit'[i]) =>
               LET f == header'[i]["pool_id"] IN
                 /\ f.seq = tp_seq_value(seq_commit'[i])
                 /\ SlotOf(f.seq) = i
                 /\ \A w \in HeaderWords : header'[i][w] = f
                 /\ \A w \in 1 .. f.len : payload'[f.pool][i][w] = f.seq
    PROVE  CommittedFrameIntact'
  <1> SUFFICES ASSUME NEW j \in Slots, j # i, tp_seq_is_committed(seq_commit'[j])
               PROVE  LET f == header'[j]["pool_id"] IN
                        /\ f.seq = tp_seq_value(seq_commit'[j])
                        /\ SlotOf(f.seq) = j
                        /\ \A v \in HeaderWords : header'[j][v] = f
                        /\ \A v \in 1 .. f.len : payload'[f.pool][j][v] = f.seq
    BY DEF CommittedFrameIntact
  <1>1. header'[j] = header[j] /\ seq_commit'[j] = seq_commit[j]
    OBVIOUS
  <1>2. header[j]["pool_id"].pool \in Pools
    BY DEF TypeOK, HeaderWords, Frames
  <1>3. payload'[header[j]["pool_id"].pool][j] = payload[header[j]["pool_id"].pool][j]
    BY <1>2
  <1> QED
    BY <1>1, <1>3 DEF CommittedFrameIntact

\* ... in the ordered ring.
LEMMA OthersIntact ==
    ASSUME RingInv, NEW i \in Slots,
           \A j \in Slots \ {i} : seq_commit'[j] = seq_commit[j] /\ header'[j] = header[j],
           \A q \in Pools, j \in Slots \ {i} : payload'[q][j] = payload[q][j],
           tp_seq_is_committed(seq_commit'[i]) =>
               LET f == header'[i]["pool_id"] IN
                 /\ f.seq = tp_seq_value(seq_commit'[i])
                 /\ SlotOf(f.seq) = i
                 /\ \A w \in HeaderWords : header'[i][w] = f
                 /\ \A w \in 1 .. f.len : payload'[f.pool][i][w] = f.seq
    PROVE  CommittedFrameIntact'
  BY IntactElsewhere DEF RingInv

\* The store of the in-progress mark.
LEMMA StoreInProgressRing ==
    ASSUME RingInv, TypeOK', StoreInProgress
    PROVE  RingInv' /\ seq_commit[PubSlot] <= 2 * pub.frame.seq
  <1> DEFINE n == pub.frame.seq
  <1>1. /\ pub.busy /\ ~pub.in_progress
        /\ seq_commit' = [seq_commit EXCEPT ![PubSlot] = 2 * n]
        /\ UNCHANGED <<header, payload, next_seq, claims>>
    BY DEF StoreInProgress, tp_seq_in_progress
  <1>2. /\ pub'.busy /\ pub'.frame = pub.frame /\ pub'.src = pub.src /\ pub'.in_progress
        /\ pub'.stored = pub.stored /\ pub'.fields = pub.fields /\ pub'.committed = pub.committed
        /\ PubSlot' = PubSlot
    BY <1>1 DEF StoreInProgress, RingInv, TypeOK, PubRecords, PubSlot
  <1>3. /\ pub.stored = {} /\ pub.fields = {} /\ ~pub.committed
        /\ seq_commit[PubSlot] <= 2 * n
    BY <1>1 DEF RingInv, PublishProgress
  <1>4. /\ PubSlot \in Slots /\ n \in Nat /\ n < next_seq /\ next_seq \in Nat
        /\ seq_commit \in [Slots -> Nat]
    BY <1>1, PublishSlot
  <1>5. /\ seq_commit'[PubSlot] = 2 * n
        /\ \A j \in Slots \ {PubSlot} : seq_commit'[j] = seq_commit[j]
    BY <1>1, <1>4
  <1>6. CommitBounded'
    BY <1>1, <1>4, <1>5 DEF RingInv, CommitBounded
  <1>7. (\A c \in Claims : ClaimOwnsSlot(c)') /\ ClaimsDisjoint'
    BY <1>1, <1>2, <1>5, ClaimsKept
  <1>8. PublishProgress'
    <2>1. pub.src # NoSeq => /\ pub.src = PubSlot
                             /\ \A w \in 1 .. pub.frame.len :
                                  payload[pub.frame.pool][PubSlot][w] = n
      BY <1>1 DEF RingInv, PublishProgress
    <2> QED
      BY <2>1, <1>1, <1>2, <1>3, <1>4, <1>5 DEF PublishProgress
  <1>9. CommittedFrameIntact'
    <2>1. ~tp_seq_is_committed(seq_commit'[PubSlot])
      BY <1>4, <1>5, CommitEncoding
    <2> QED
      BY <2>1, <1>1, <1>4, <1>5, OthersIntact
  <1> QED
    BY <1>3, <1>6, <1>7, <1>8, <1>9 DEF RingInv

\* The memcpy starts after the mark and ends before the commit, so it writes
\* only under an in_progress word.
LEMMA StorePayloadRing ==
    ASSUME OrderedRing, RingInv, TypeOK', NEW w \in Words, StorePayload(w)
    PROVE  RingInv' /\ ~tp_seq_is_committed(seq_commit[PubSlot])
  <1> DEFINE n == pub.frame.seq
             p == pub.frame.pool
  <1>1. /\ pub.busy /\ pub.in_progress /\ w \in 1 .. pub.frame.len /\ w \notin pub.stored
        /\ UNCHANGED <<seq_commit, header, next_seq, claims>>
    BY DEF StorePayload, CanStorePayload, OrderedRing, Tso
  <1>2. /\ pub'.busy /\ pub'.frame = pub.frame /\ pub'.src = pub.src /\ pub'.in_progress
        /\ pub'.stored = pub.stored \cup {w}
        /\ pub'.fields = pub.fields /\ pub'.committed = pub.committed
        /\ PubSlot' = PubSlot
    BY <1>1 DEF StorePayload, RingInv, TypeOK, PubRecords, PubSlot
  <1>3. ~pub.committed /\ seq_commit[PubSlot] = 2 * n
    BY <1>1 DEF RingInv, PublishProgress, PayloadStored
  <1>4. /\ PubSlot \in Slots /\ p \in Pools /\ n \in Nat
        /\ payload \in [Pools -> [Slots -> [Words -> Seqs]]]
    BY <1>1, PublishSlot DEF RingInv, TypeOK
  <1>5. payload' = [payload EXCEPT ![p][PubSlot][w] = n]
    <2>1. pub.src # NoSeq => pub.src = PubSlot /\ payload[p][PubSlot][w] = n
      BY <1>1 DEF RingInv, PublishProgress
    <2>2. payload' = [payload EXCEPT ![p][PubSlot][w] =
                        IF pub.src = NoSeq THEN n ELSE payload[p][pub.src][w]]
      BY DEF StorePayload
    <2>3. (IF pub.src = NoSeq THEN n ELSE payload[p][pub.src][w]) = n
      BY <2>1
    <2> QED
      BY <2>2, <2>3
  <1>a. pub.stored \subseteq Words /\ 1 .. pub.frame.len \subseteq Words
    BY <1>1, PoolsAssumption DEF RingInv, TypeOK, PubRecords, Frames, Lengths, Words
  <1>b. /\ pub.src # NoSeq => /\ pub.src = PubSlot
                              /\ \A v \in 1 .. pub.frame.len : payload[p][PubSlot][v] = n
        /\ \A v \in pub.stored : payload[p][PubSlot][v] = n
        /\ \A v \in pub.fields : header[PubSlot][v] = pub.frame
        /\ n < next_seq
    BY <1>1 DEF RingInv, PublishProgress
  <1> HIDE DEF n, p
  <1>6. /\ payload'[p][PubSlot][w] = n
        /\ \A v \in Words \ {w} : payload'[p][PubSlot][v] = payload[p][PubSlot][v]
        /\ \A q \in Pools, j \in Slots \ {PubSlot} : payload'[q][j] = payload[q][j]
    BY <1>4, <1>5
  <1>7. CommitBounded'
    BY <1>1 DEF RingInv, CommitBounded
  <1>8. (\A c \in Claims : ClaimOwnsSlot(c)') /\ ClaimsDisjoint'
    BY <1>1, <1>2, <1>6, ClaimsKept
  <1>9. PublishProgress'
    <2>1. \A v \in pub.stored \cup {w} : payload'[p][PubSlot][v] = n
      BY <1>a, <1>b, <1>6
    <2>2. pub.src # NoSeq => \A v \in 1 .. pub.frame.len : payload'[p][PubSlot][v] = n
      BY <1>a, <1>b, <1>6
    <2> QED
      BY <2>1, <2>2, <1>1, <1>2, <1>3, <1>4, <1>b DEF PublishProgress, n, p
  <1>10. ~tp_seq_is_committed(seq_commit[PubSlot])
    BY <1>3, <1>4, CommitEncoding DEF n
  <1>11. CommittedFrameIntact'
    BY <1>10, <1>1, <1>4, <1>6, OthersIntact
  <1> QED
    BY <1>7, <1>8, <1>9, <1>10, <1>11 DEF RingInv

\* The header fields are stored under the same in_progress word.
LEMMA StoreHeaderRing ==
    ASSUME OrderedRing, RingInv, TypeOK', NEW w \in HeaderWords, StoreHeader(w)
    PROVE  RingInv' /\ ~tp_seq_is_committed(seq_commit[PubSlot])
  <1> DEFINE n == pub.frame.seq
  <1>1. /\ pub.busy /\ pub.in_progress /\ w \notin pub.fields
        /\ UNCHANGED <<seq_commit, payload, next_seq, claims>>
        /\ header' = [header EXCEPT ![PubSlot][w] = pub.frame]
    BY DEF StoreHeader, CanStoreHeader, OrderedRing, Tso
  <1>2. /\ pub'.busy /\ pub'.frame = pub.frame /\ pub'.src = pub.src /\ pub'.in_progress
        /\ pub'.stored = pub.stored
        /\ pub'.fields = pub.fields \cup {w} /\ pub'.committed = pub.committed
        /\ PubSlot' = PubSlot
    BY <1>1 DEF StoreHeader, RingInv, TypeOK, PubRecords, PubSlot
  <1>3. ~pub.committed /\ seq_commit[PubSlot] = 2 * n
    BY <1>1 DEF RingInv, PublishProgress, HeaderStored
  <1>4. /\ PubSlot \in Slots /\ n \in Nat
        /\ header \in [Slots -> [HeaderWords -> Frames]]
        /\ pub.fields \subseteq HeaderWords
    BY <1>1, PublishSlot DEF RingInv, TypeOK, PubRecords
  <1>b. /\ pub.src # NoSeq => /\ pub.src = PubSlot
                              /\ \A v \in 1 .. pub.frame.len :
                                   payload[pub.frame.pool][PubSlot][v] = n
        /\ \A v \in pub.stored : payload[pub.frame.pool][PubSlot][v] = n
        /\ \A v \in pub.fields : header[PubSlot][v] = pub.frame
        /\ n < next_seq
    BY <1>1 DEF RingInv, PublishProgress
  <1> HIDE DEF n
  <1>6. /\ header'[PubSlot][w] = pub.frame
        /\ \A v \in HeaderWords \ {w} : header'[PubSlot][v] = header[PubSlot][v]
        /\ \A j \in Slots \ {PubSlot} : header'[j] = header[j]
    BY <1>1, <1>4
  <1>7. CommitBounded'
    BY <1>1 DEF RingInv, CommitBounded
  <1>8. (\A c \in Claims : ClaimOwnsSlot(c)') /\ ClaimsDisjoint'
    BY <1>1, <1>2, ClaimsKept
  <1>9. PublishProgress'
    <2>1. \A v \in pub.fields \cup {w} : header'[PubSlot][v] = pub.frame
      BY <1>4, <1>b, <1>6
    <2> QED
      BY <2>1, <1>1, <1>2, <1>3, <1>4, <1>b DEF PublishProgress, n
  <1>10. ~tp_seq_is_committed(seq_commit[PubSlot])
    BY <1>3, <1>4, CommitEncoding DEF n
  <1>11. CommittedFrameIntact'
    BY <1>10, <1>1, <1>4, <1>6, OthersIntact
  <1> QED
    BY <1>7, <1>8, <1>9, <1>10, <1>11 DEF RingInv

\* At the commit every word of the slot belongs to the frame.
LEMMA StoreCommittedRing ==
    ASSUME RingInv, TypeOK', StoreCommitted
    PROVE  RingInv' /\ seq_commit[PubSlot] = 2 * pub.frame.seq
  <1> DEFINE n == pub.frame.seq
  <1>1. /\ pub.busy /\ pub.in_progress /\ ~pub.committed
        /\ PayloadStored /\ HeaderStored
        /\ seq_commit' = [seq_commit EXCEPT ![PubSlot] = 2 * n + 1]
        /\ UNCHANGED <<header, payload, next_seq, claims>>
    BY DEF StoreCommitted, CanCommit, tp_seq_committed
  <1>2. /\ pub'.busy /\ pub'.frame = pub.frame /\ pub'.src = pub.src /\ pub'.in_progress
        /\ pub'.stored = pub.stored /\ pub'.fields = pub.fields /\ pub'.committed
        /\ PubSlot' = PubSlot
    BY <1>1 DEF StoreCommitted, RingInv, TypeOK, PubRecords, PubSlot
  <1>3. seq_commit[PubSlot] = 2 * n
    BY <1>1 DEF RingInv, PublishProgress
  <1>4. /\ PubSlot \in Slots /\ n \in Nat /\ n < next_seq /\ next_seq \in Nat
        /\ seq_commit \in [Slots -> Nat]
    BY <1>1, PublishSlot
  <1>5. /\ seq_commit'[PubSlot] = 2 * n + 1
        /\ \A j \in Slots \ {PubSlot} : seq_commit'[j] = seq_commit[j]
    BY <1>1, <1>4
  <1>b. /\ pub.src # NoSeq => /\ pub.src = PubSlot
                              /\ \A v \in 1 .. pub.frame.len :
                                   payload[pub.frame.pool][PubSlot][v] = n
        /\ \A v \in 1 .. pub.frame.len : payload[pub.frame.pool][PubSlot][v] = n
        /\ \A v \in HeaderWords : header[PubSlot][v] = pub.frame
        /\ pub.stored = 1 .. pub.frame.len /\ pub.fields = HeaderWords
    BY <1>1 DEF RingInv, PublishProgress, PayloadStored, HeaderStored
  <1>6. CommitBounded'
    BY <1>1, <1>4, <1>5 DEF RingInv, CommitBounded
  <1>7. (\A c \in Claims : ClaimOwnsSlot(c)') /\ ClaimsDisjoint'
    BY <1>1, <1>2, <1>5, ClaimsKept
  <1>8. PublishProgress'
    BY <1>1, <1>2, <1>4, <1>5, <1>b DEF PublishProgress, PayloadStored, HeaderStored
  <1>9. CommittedFrameIntact'
    <2>1. header[PubSlot]["pool_id"] = pub.frame
      BY <1>b DEF HeaderWords
    <2>2. tp_seq_value(seq_commit'[PubSlot]) = n /\ SlotOf(n) = PubSlot
      BY <1>4, <1>5, CommitEncoding DEF PubSlot
    <2> QED
      BY <2>1, <2>2, <1>1, <1>4, <1>5, <1>b, OthersIntact
  <1> QED
    BY <1>3, <1>6, <1>7, <1>8, <1>9 DEF RingInv

\* The descriptor is offered.
LEMMA PublishDescriptorRing ==
    ASSUME RingInv, TypeOK', NEW offered \in BOOLEAN, PublishDescriptor(offered)
    PROVE  RingInv'
  <1>1. /\ ~pub'.busy
        /\ UNCHANGED <<seq_commit, header, payload, next_seq, claims>>
    BY NoPubTyped DEF PublishDescriptor, memory
  <1>2. CommitBounded' /\ CommittedFrameIntact'
    BY <1>1 DEF RingInv, CommitBounded, CommittedFrameIntact
  <1>3. (\A d \in Claims : ClaimOwnsSlot(d)') /\ ClaimsDisjoint'
    BY <1>1 DEF RingInv, ClaimOwnsSlot, ClaimsDisjoint
  <1>4. PublishProgress'
    BY <1>1 DEF PublishProgress
  <1> QED
    BY <1>2, <1>3, <1>4 DEF RingInv

\* A commit word never goes back, and the header of a committed slot does not
\* change unless its commit word does.
SlotAdvances(i) ==
    /\ seq_commit'[i] >= seq_commit[i]
    /\ tp_seq_is_committed(seq_commit[i]) /\ seq_commit'[i] = seq_commit[i] => header'[i] = header[i]

\* Every step of the producer keeps RingInv and advances slots.
LEMMA ProducerNext ==
    ASSUME OrderedRing, RingInv, TypeOK', ProducerCall \/ PublishStep
    PROVE  RingInv' /\ rd' = rd /\ \A i \in Slots : SlotAdvances(i)
  <1>a. seq_commit \in [Slots -> Nat]
    BY DEF RingInv, TypeOK
  <1>b. UNCHANGED <<seq_commit, header>> => \A i \in Slots : SlotAdvances(i)
    BY <1>a DEF SlotAdvances
  <1>1. ASSUME NEW length \in Lengths, NEW pool \in Pools, OfferFrame(length, pool)
        PROVE  RingInv' /\ rd' = rd /\ \A i \in Slots : SlotAdvances(i)
    BY <1>1, <1>b, OfferRing DEF OfferFrame, memory
  <1>2. CASE OfferInvalidFrame
    BY <1>2, <1>b, OfferInvalidRing DEF OfferInvalidFrame, memory
  <1>3. ASSUME NEW c \in Claims, NEW length \in Lengths, NEW pool \in Pools,
               TryClaim(c, length, pool)
        PROVE  RingInv' /\ rd' = rd /\ \A i \in Slots : SlotAdvances(i)
    <2>1. /\ next_seq \in Nat /\ UNCHANGED <<header, rd>>
          /\ seq_commit' = [seq_commit EXCEPT ![SlotOf(next_seq)] = 2 * next_seq]
      BY <1>3 DEF TryClaim, tp_seq_in_progress, RingInv, TypeOK
    <2>2. \A i \in Slots : seq_commit[i] <= 2 * next_seq
      BY <2>1, <1>a DEF RingInv, CommitBounded
    <2>3. \A i \in Slots : SlotAdvances(i)
      BY <2>1, <2>2, <1>a DEF SlotAdvances
    <2> QED
      BY <1>3, <2>1, <2>3, TryClaimRing
  <1>4. ASSUME NEW c \in Claims, NEW w \in Words, FillClaim(c, w)
        PROVE  RingInv' /\ rd' = rd /\ \A i \in Slots : SlotAdvances(i)
    BY <1>4, <1>b, FillClaimRing DEF FillClaim
  <1>5. ASSUME NEW c \in Claims, CommitClaim(c)
        PROVE  RingInv' /\ rd' = rd /\ \A i \in Slots : SlotAdvances(i)
    BY <1>5, <1>b, CommitClaimRing DEF CommitClaim, memory
  <1>6. ASSUME NEW c \in Claims, AbortClaim(c)
        PROVE  RingInv' /\ rd' = rd /\ \A i \in Slots : SlotAdvances(i)
    BY <1>6, <1>b, AbortClaimRing DEF AbortClaim, memory
  <1>7. ASSUME NEW c \in Claims, QueueClaim(c)
        PROVE  FALSE
    BY <1>7 DEF QueueClaim, OrderedRing
  <1>8. CASE StoreInProgress
    <2>1. /\ pub.busy /\ UNCHANGED <<header, rd>>
          /\ seq_commit' = [seq_commit EXCEPT ![PubSlot] = 2 * pub.frame.seq]
      BY <1>8 DEF StoreInProgress, tp_seq_in_progress
    <2>2. RingInv' /\ seq_commit[PubSlot] <= 2 * pub.frame.seq
      BY <1>8, StoreInProgressRing
    <2>3. \A i \in Slots : SlotAdvances(i)
      BY <2>1, <2>2, <1>a DEF SlotAdvances
    <2> QED
      BY <2>1, <2>2, <2>3
  <1>9. ASSUME NEW w \in Words, StorePayload(w)
        PROVE  RingInv' /\ rd' = rd /\ \A i \in Slots : SlotAdvances(i)
    BY <1>9, <1>b, StorePayloadRing DEF StorePayload
  <1>10. ASSUME NEW w \in HeaderWords, StoreHeader(w)
         PROVE  RingInv' /\ rd' = rd /\ \A i \in Slots : SlotAdvances(i)
    <2>1. /\ UNCHANGED <<seq_commit, rd>>
          /\ header' = [header EXCEPT ![PubSlot][w] = pub.frame]
      BY <1>10 DEF StoreHeader
    <2>2. RingInv' /\ ~tp_seq_is_committed(seq_commit[PubSlot])
      BY <1>10, StoreHeaderRing
    <2>3. header \in [Slots -> [HeaderWords -> Frames]]
      BY DEF RingInv, TypeOK
    <2>4. \A i \in Slots \ {PubSlot} : header'[i] = header[i]
      BY <2>1, <2>3
    <2>5. \A i \in Slots : SlotAdvances(i)
      BY <2>1, <2>2, <2>4, <1>a DEF SlotAdvances
    <2> QED
      BY <2>1, <2>2, <2>5
  <1>11. CASE StoreCommitted
    <2>1. /\ pub.busy /\ UNCHANGED <<header, rd>>
          /\ seq_commit' = [seq_commit EXCEPT ![PubSlot] = 2 * pub.frame.seq + 1]
      BY <1>11 DEF StoreCommitted, tp_seq_committed
    <2>2. RingInv' /\ seq_commit[PubSlot] = 2 * pub.frame.seq /\ pub.frame.seq \in Nat
      BY <1>11, <2>1, StoreCommittedRing, PublishSlot
    <2>3. \A i \in Slots : SlotAdvances(i)
      BY <2>1, <2>2, <1>a DEF SlotAdvances
    <2> QED
      BY <2>1, <2>2, <2>3
  <1>12. ASSUME NEW offered \in BOOLEAN, PublishDescriptor(offered)
         PROVE  RingInv' /\ rd' = rd /\ \A i \in Slots : SlotAdvances(i)
    BY <1>12, <1>b, PublishDescriptorRing DEF PublishDescriptor, memory
  <1> QED
    BY <1>1, <1>2, <1>3, <1>4, <1>5, <1>6, <1>7, <1>8, <1>9, <1>10, <1>11, <1>12
    DEF ProducerCall, PublishStep

\* What a reader knows survives every step that advances its slot.
LEMMA ReaderKept ==
    ASSUME NEW r \in ReaderRecords, NEW m \in Nat, NEW h, ReaderKnows(r, m, h),
           NEW n \in Nat, NEW g, n >= m,
           tp_seq_is_committed(m) /\ n = m => g = h
    PROVE  ReaderKnows(r, n, g)
  <1>1. r.first \in Nat /\ r.second \in Int
    BY DEF ReaderRecords, Seqs, NoSeq
  <1> QED
    BY <1>1 DEF ReaderKnows, ReaderTrusts

\* A load: a read that starts has loaded the commit word, one that goes on has
\* loaded it at most once more.
ReaderLoads(r, q, commit, start) ==
    q.pc # "idle" =>
        \/ q.first = start /\ q.second = NoSeq
        \/ /\ r.pc # "idle" /\ q.seq = r.seq /\ q.first = r.first
           /\ q.second \in {r.second, commit}

\* A consumer's step keeps what that consumer may trust.
LEMMA ConsumerTrusts ==
    ASSUME MemoryOrder = "tso", TypeOK, CommittedFrameIntact, ReadersTrust, NEW c \in Consumers, ConsumerStep(c)
    PROVE  /\ UNCHANGED <<memory, producer>>
           /\ \A d \in Consumers \ {c} : rd'[d] = rd[d]
           /\ ReaderTrusts(rd'[c], seq_commit[Index(c)'], header[Index(c)'])
           /\ ReaderLoads(rd[c], rd'[c], seq_commit[Index(c)], seq_commit[Index(c)'])
  <1> DEFINE r == rd[c]
             q == rd'[c]
             m == seq_commit[Index(c)]
             h == header[Index(c)]
             Goal == /\ ReaderTrusts(q, seq_commit[Index(c)'], header[Index(c)'])
                     /\ ReaderLoads(r, q, m, seq_commit[Index(c)'])
  <1>1. UNCHANGED <<memory, producer>> /\ \A d \in Consumers \ {c} : rd'[d] = rd[d]
    BY DEF ConsumerStep, ReadFrame, ValidateProgress, LoadHeader, LoadDecodedCommit, LoadSecond,
           FinishRead, UsePayload, ReleaseView, Return, StartLoad, TypeOK
  <1>2. /\ r \in ReaderRecords /\ rd \in [Consumers -> ReaderRecords]
        /\ ReaderTrusts(r, m, h)
        /\ Index(c) \in Slots /\ m \in Nat
    BY SlotInRing DEF TypeOK, ReadersTrust, Index, ReaderRecords, Seqs, NoSeq
  <1>3. tp_seq_is_committed(m) =>
          /\ \A w \in HeaderWords : h[w].seq = tp_seq_value(m) /\ h[w] = h["pool_id"]
          /\ \A w \in 1 .. h["pool_id"].len : payload[h["pool_id"].pool][Index(c)][w] = tp_seq_value(m)
    BY <1>2 DEF CommittedFrameIntact, HeaderWords
  <1>4. q.seq = r.seq => Index(c)' = Index(c)
    BY DEF Index
  <1>5. ASSUME NEW outcome, Return(c, outcome) PROVE Goal
    BY <1>5, <1>2 DEF Return, IdleReader, ReaderTrusts, ReaderLoads
  <1>6. ASSUME NEW kind, NEW seq \in 0 .. next_seq - 1, NEW want,
               tp_seq_is_committed(seq_commit[SlotOf(seq)]), StartLoad(c, kind, seq, want)
        PROVE  Goal
    <2>1. /\ q.pc = "load" /\ q.seq = seq /\ q.first = seq_commit[SlotOf(seq)]
          /\ q.second = NoSeq /\ q.loaded = {} /\ q.seen = [w \in Words |-> NoSeq]
      BY <1>6, <1>2 DEF StartLoad, IdleReader
    <2>2. seq \in Nat /\ SlotOf(seq) \in Slots /\ seq_commit[SlotOf(seq)] \in Nat
      BY SlotInRing DEF TypeOK
    <2>3. Index(c)' = SlotOf(seq)
      BY <2>1 DEF Index
    <2> HIDE DEF q
    <2> QED
      BY <2>1, <2>2, <2>3, <1>6 DEF ReaderTrusts, ReaderLoads
  <1>7. ASSUME NEW seq \in 0 .. next_seq - 1, ReadFrame(c, seq) PROVE Goal
    BY <1>7, <1>5, <1>6 DEF ReadFrame
  <1>8. ASSUME NEW seq \in 0 .. next_seq - 1, NEW filled \in Lengths,
               ValidateProgress(c, seq, filled)
        PROVE Goal
    BY <1>8, <1>5, <1>6 DEF ValidateProgress
  <1>9. ASSUME NEW w \in HeaderWords, LoadHeader(c, w) PROVE Goal
    <2>1. /\ q.pc = r.pc /\ q.seq = r.seq /\ q.first = r.first /\ q.second = r.second
          /\ q.seen = r.seen /\ q.loaded = r.loaded \cup {w}
          /\ q.view = [r.view EXCEPT ![w] = h[w]]
          /\ r.pc = "load" /\ w \notin r.loaded
      BY <1>9, <1>2 DEF LoadHeader, ReaderRecords
    <2>2. r.second = NoSeq
      BY <2>1, <1>2 DEF ReaderTrusts
    <2>3. r.view \in [HeaderWords -> Frames] /\ r.loaded \subseteq HeaderWords
      BY <1>2 DEF ReaderRecords
    <2> HIDE DEF q, r
    <2>4. r.first = m => \A v \in q.loaded : q.view[v] = h[v]
      BY <2>1, <2>3, <1>2 DEF ReaderTrusts
    <2> QED
      BY <2>1, <2>2, <2>4, <1>2, <1>4 DEF ReaderTrusts, ReaderLoads
  <1>10. ASSUME LoadDecodedCommit(c) PROVE Goal
    <2>1. /\ q.pc = r.pc /\ q.seq = r.seq /\ q.first = r.first /\ q.second = r.second
          /\ q.seen = r.seen /\ q.loaded = r.loaded /\ q.view = r.view /\ r.pc = "load"
      BY <1>10, <1>2 DEF LoadDecodedCommit, ReaderRecords
    <2> HIDE DEF q, r
    <2> QED
      BY <2>1, <1>2, <1>4 DEF ReaderTrusts, ReaderLoads
  <1>11. ASSUME LoadSecond(c) PROVE Goal
    <2>1. /\ q.pc = r.pc /\ q.seq = r.seq /\ q.first = r.first /\ q.second = m
          /\ q.seen = r.seen /\ q.loaded = r.loaded /\ q.view = r.view
          /\ r.pc = "load" /\ r.loaded = HeaderWords
      BY <1>11, <1>2 DEF LoadSecond, ReaderRecords, Tso, AllLoaded
    <2> HIDE DEF q, r
    <2>2. m = r.first => \A w \in HeaderWords : r.view[w] = h[w]
      BY <2>1, <1>2 DEF ReaderTrusts
    <2>3. m = r.first => \A w \in HeaderWords : /\ r.view[w].seq = tp_seq_value(r.first)
                                                /\ r.view[w] = r.view["pool_id"]
      BY <2>1, <2>2, <1>2, <1>3 DEF ReaderTrusts, HeaderWords
    <2> QED
      BY <2>1, <2>3, <1>2, <1>4 DEF ReaderTrusts, ReaderLoads
  <1>12. ASSUME FinishRead(c) PROVE Goal
    <2>1. CASE Outcome(r) = "accepted"
      <3>1. /\ q.pc = "view" /\ q.seq = r.seq /\ q.first = r.first /\ q.second = r.second
            /\ q.seen = r.seen /\ q.loaded = r.loaded /\ q.view = r.view
            /\ q.kind = r.kind /\ q.want = r.want
            /\ r.pc = "load" /\ r.loaded = HeaderWords
        BY <1>12, <2>1, <1>2 DEF FinishRead, AllLoaded, ReaderRecords
      <3>a. r.second # NoSeq
        BY <1>12, <2>1 DEF FinishRead, HeaderPassed, Outcome, FrameOutcome
      <3>2. /\ r.second = r.first /\ tp_seq_value(r.second) = r.seq
            /\ r.kind # "frame" => ~(r.want > r.view["values_len_bytes"].len)
        BY <2>1 DEF Outcome, FrameOutcome, ProgressOutcome, Stable
      <3>3. /\ r.want \in Int /\ r.view["values_len_bytes"].len \in Int
            /\ r.view["pool_id"].len \in Int
        BY <1>2, PoolsAssumption DEF ReaderRecords, HeaderWords, Frames, Lengths
      <3> HIDE DEF q, r
      <3>4. r.view["values_len_bytes"] = r.view["pool_id"]
        BY <3>1, <3>2, <3>a, <1>2 DEF ReaderTrusts, HeaderWords
      <3>5. ViewLen(q) <= q.view["pool_id"].len
        BY <3>1, <3>2, <3>3, <3>4 DEF ViewLen
      <3> QED
        BY <3>1, <3>2, <3>a, <3>5, <1>2, <1>4 DEF ReaderTrusts, ReaderLoads
    <2> QED
      BY <1>12, <2>1, <1>5 DEF FinishRead
  <1>13. ASSUME NEW w \in Words, UsePayload(c, w) PROVE Goal
    <2> DEFINE v == payload[r.view["pool_id"].pool][Index(c)][w]
    <2>1. /\ r.pc = "view" /\ w \in 1 .. ViewLen(r)
          /\ rd' = [rd EXCEPT ![c].seen[w] = v]
      BY <1>13 DEF UsePayload
    <2>2. /\ q.pc = r.pc /\ q.seq = r.seq /\ q.first = r.first /\ q.second = r.second
          /\ q.loaded = r.loaded /\ q.view = r.view /\ q.kind = r.kind /\ q.want = r.want
          /\ q.seen = [r.seen EXCEPT ![w] = v]
      <3> HIDE DEF v
      <3> QED
        BY <2>1, <1>2 DEF ReaderRecords
    <2>3. /\ r.view["pool_id"].len \in Int /\ ViewLen(r) \in Int /\ r.seen \in [Words -> Seqs]
          /\ r.first \in Nat /\ r.second # NoSeq
      BY <2>1, <1>2, PoolsAssumption
      DEF ReaderRecords, HeaderWords, Frames, Lengths, ViewLen, ReaderTrusts, NoSeq
    <2>4. r.first = m => v = r.seq
      <3> SUFFICES ASSUME r.first = m PROVE v = r.seq
        OBVIOUS
      <3>1. r.view["pool_id"] = h["pool_id"]
        BY <2>1, <2>3, <1>2 DEF ReaderTrusts, HeaderWords
      <3>2. w \in 1 .. h["pool_id"].len
        BY <3>1, <2>1, <2>3, <1>2 DEF ReaderTrusts
      <3>3. tp_seq_is_committed(m) /\ tp_seq_value(m) = r.seq
        BY <2>1, <1>2 DEF ReaderTrusts
      <3> QED
        BY <3>1, <3>2, <3>3, <1>3
    <2> HIDE DEF q, r, v
    <2>5. ViewLen(q) = ViewLen(r)
      BY <2>2 DEF ViewLen
    <2>6. r.first = m => \A u \in Words : q.seen[u] \in {NoSeq, q.seq}
      BY <2>1, <2>2, <2>3, <2>4, <1>2 DEF ReaderTrusts
    <2> QED
      BY <2>1, <2>2, <2>5, <2>6, <1>2, <1>4 DEF ReaderTrusts, ReaderLoads
  <1>14. ASSUME ReleaseView(c) PROVE Goal
    BY <1>14, <1>5 DEF ReleaseView
  <1>15. Goal
    BY <1>7, <1>8, <1>9, <1>10, <1>11, <1>12, <1>13, <1>14 DEF ConsumerStep
  <1> QED
    BY <1>1, <1>15

\* A consumer's step keeps what that consumer knows.
LEMMA ConsumerNext ==
    ASSUME OrderedRing, IInv, TypeOK', NEW c \in Consumers, ConsumerStep(c)
    PROVE  /\ UNCHANGED <<memory, producer>>
           /\ \A d \in Consumers \ {c} : rd'[d] = rd[d]
           /\ ReaderKnows(rd'[c], seq_commit[Index(c)'], header[Index(c)'])
  <1> DEFINE r == rd[c]
             q == rd'[c]
             m == seq_commit[Index(c)]
             n == seq_commit[Index(c)']
  <1>1. ReadersTrust /\ MemoryOrder = "tso" /\ TypeOK /\ CommittedFrameIntact
    BY DEF IInv, ReadersKnow, ReaderKnows, ReadersTrust, OrderedRing
  <1>2. /\ UNCHANGED <<memory, producer>>
        /\ \A d \in Consumers \ {c} : rd'[d] = rd[d]
        /\ ReaderTrusts(q, n, header[Index(c)'])
        /\ ReaderLoads(r, q, m, n)
    BY <1>1, ConsumerTrusts
  <1>3. /\ r \in ReaderRecords /\ q \in ReaderRecords /\ seq_commit \in [Slots -> Nat]
        /\ Index(c) \in Slots /\ Index(c)' \in Slots
    BY SlotInRing DEF IInv, TypeOK, Index, ReaderRecords, Seqs, NoSeq
  <1>4. r.pc # "idle" => r.first <= m /\ (r.second # NoSeq => r.second <= m)
    BY DEF IInv, ReadersKnow, ReaderKnows
  <1>5. q.seq = r.seq => n = m
    BY DEF Index
  <1>6. m \in Nat /\ n \in Nat
    BY <1>3
  <1> HIDE DEF r, q, m, n
  <1>7. q.pc # "idle" => q.first <= n /\ (q.second # NoSeq => q.second <= n)
    BY <1>2, <1>4, <1>5, <1>6 DEF ReaderLoads
  <1>8. ReaderKnows(q, n, header[Index(c)'])
    BY <1>2, <1>7 DEF ReaderKnows
  <1> QED
    BY <1>2, <1>8 DEF q, n

\* Every step keeps the invariant and no commit word goes back.
LEMMA OrderedNext == OrderedRing /\ IInv /\ [Next]_vars => IInv' /\ [\A i \in Slots : SlotAdvances(i)]_vars
  <1> SUFFICES ASSUME OrderedRing, IInv, [Next]_vars
               PROVE  IInv' /\ [\A i \in Slots : SlotAdvances(i)]_vars
    OBVIOUS
  <1>1. RingInv
    BY DEF IInv, RingInv
  <1>2. TypeOK'
    BY <1>1, RingTyped, TypeNext DEF TypeInv
  <1>3. CASE ProducerCall \/ PublishStep
    <2>1. RingInv' /\ rd' = rd /\ \A i \in Slots : SlotAdvances(i)
      BY <1>1, <1>2, <1>3, ProducerNext
    <2>2. ASSUME NEW c \in Consumers
          PROVE  ReaderKnows(rd'[c], seq_commit'[Index(c)'], header'[Index(c)'])
      <3>1. Index(c)' = Index(c) /\ rd'[c] = rd[c]
        BY <2>1 DEF Index
      <3>2. /\ Index(c) \in Slots /\ rd[c] \in ReaderRecords
            /\ seq_commit[Index(c)] \in Nat /\ seq_commit'[Index(c)] \in Nat
        BY <1>2, SlotInRing DEF IInv, TypeOK, Index, ReaderRecords, Seqs, NoSeq
      <3>3. ReaderKnows(rd[c], seq_commit[Index(c)], header[Index(c)])
        BY DEF IInv, ReadersKnow
      <3>4. SlotAdvances(Index(c))
        BY <2>1, <3>2
      <3> QED
        BY <3>1, <3>2, <3>3, <3>4, ReaderKept DEF SlotAdvances
    <2>3. ReadersKnow'
      BY <2>2 DEF ReadersKnow
    <2> QED
      BY <2>1, <2>3 DEF IInv, RingInv
  <1>4. ASSUME NEW c \in Consumers, ConsumerStep(c)
        PROVE  IInv' /\ \A i \in Slots : SlotAdvances(i)
    <2>1. /\ UNCHANGED <<memory, producer>>
          /\ \A d \in Consumers \ {c} : rd'[d] = rd[d]
          /\ ReaderKnows(rd'[c], seq_commit[Index(c)'], header[Index(c)'])
      BY <1>2, <1>4, ConsumerNext
    <2>2. UNCHANGED <<seq_commit, header, payload, next_seq, claims, pub>>
      BY <2>1 DEF memory, producer
    <2>3. ASSUME NEW d \in Consumers
          PROVE  ReaderKnows(rd'[d], seq_commit'[Index(d)'], header'[Index(d)'])
      <3>1. CASE d = c
        BY <3>1, <2>1, <2>2
      <3>2. CASE d # c
        <4>1. rd'[d] = rd[d] /\ Index(d)' = Index(d)
          BY <3>2, <2>1 DEF Index
        <4> QED
          BY <4>1, <2>2 DEF IInv, ReadersKnow
      <3> QED
        BY <3>1, <3>2
    <2>4. ReadersKnow'
      BY <2>3 DEF ReadersKnow
    <2>5. CommitBounded' /\ CommittedFrameIntact' /\ ClaimsDisjoint' /\ PublishProgress'
          /\ \A d \in Claims : ClaimOwnsSlot(d)'
      BY <2>2 DEF IInv, CommitBounded, CommittedFrameIntact, ClaimsDisjoint, PublishProgress,
                  ClaimOwnsSlot, PubSlot, PayloadStored, HeaderStored
    <2>6. \A i \in Slots : SlotAdvances(i)
      BY <2>2 DEF SlotAdvances, IInv, TypeOK
    <2> QED
      BY <1>2, <2>4, <2>5, <2>6 DEF IInv
  <1>5. CASE UNCHANGED vars
    BY <1>5 DEF vars, IInv, TypeOK, CommitBounded, CommittedFrameIntact, ClaimsDisjoint,
                PublishProgress, ClaimOwnsSlot, PubSlot, PayloadStored, HeaderStored,
                ReadersKnow, Index
  <1> QED
    BY <1>3, <1>4, <1>5 DEF Next

\* What a consumer may trust is what the properties say of it.
LEMMA TrustImplies == TypeOK /\ ReadersTrust => AcceptedHeaderUntorn /\ UnchangedCommitMeansIntactPayload
  <1> SUFFICES ASSUME TypeOK, ReadersTrust, NEW c \in Consumers, rd[c].pc = "view"
               PROVE  /\ \A w \in HeaderWords : /\ rd[c].view[w].seq = rd[c].seq
                                                /\ rd[c].view[w] = rd[c].view["pool_id"]
                      /\ seq_commit[Index(c)] = rd[c].first =>
                           \A w \in 1 .. ViewLen(rd[c]) : rd[c].seen[w] \in {NoSeq, rd[c].seq}
    BY DEF AcceptedHeaderUntorn, UnchangedCommitMeansIntactPayload
  <1> DEFINE r == rd[c]
  <1>1. ReaderTrusts(r, seq_commit[Index(c)], header[Index(c)])
    BY DEF ReadersTrust
  <1>2. /\ r \in ReaderRecords /\ r.first \in Nat /\ r.view["pool_id"].len \in 0 .. MaxLen
        /\ ViewLen(r) \in Int
    BY DEF TypeOK, ReaderRecords, HeaderWords, Frames, Lengths, ViewLen
  <1> HIDE DEF r
  <1>3. r.pc = "view" /\ r.second # NoSeq /\ ViewLen(r) <= MaxLen
    BY <1>1, <1>2, PoolsAssumption DEF ReaderTrusts, NoSeq, r
  <1>4. 1 .. ViewLen(r) \subseteq Words
    BY <1>2, <1>3, PoolsAssumption DEF Words
  <1> QED
    BY <1>1, <1>3, <1>4 DEF ReaderTrusts, r

\* The invariant's statements about consumers.
LEMMA OrderedImplies == IInv => AcceptedHeaderUntorn /\ UnchangedCommitMeansIntactPayload
  <1>1. IInv => TypeOK /\ ReadersTrust
    BY DEF IInv, ReadersKnow, ReaderKnows, ReadersTrust
  <1> QED
    BY <1>1, TrustImplies

-----------------------------------------------------------------------------
(* Theorems of the ordered ring                                             *)

\* Every reachable state of the ordered ring satisfies the inductive invariant.
THEOREM OrderedCorrect == ASSUME OrderedRing PROVE Spec => []IInv
  <1>1. Init => IInv
    BY OrderedInit
  <1>2. IInv /\ [Next]_vars => IInv'
    BY OrderedNext
  <1> QED
    BY <1>1, <1>2, PTL DEF Spec

\* A slot whose commit word says COMMITTED holds one frame, header and payload,
\* however offers, claims, commits and aborts interleave.
THEOREM CommittedIntact == ASSUME OrderedRing PROVE Spec => []CommittedFrameIntact
  <1>1. IInv => CommittedFrameIntact
    BY DEF IInv
  <1> QED
    BY <1>1, OrderedCorrect, PTL

\* tp_consumer_read_frame and tp_consumer_validate_progress accept no mixture
\* of two frames and no frame but the one asked for.
THEOREM AcceptedUntorn == ASSUME OrderedRing PROVE Spec => []AcceptedHeaderUntorn
  <1>1. IInv => AcceptedHeaderUntorn
    BY OrderedImplies
  <1> QED
    BY <1>1, OrderedCorrect, PTL

\* A consumer that finds the commit word unchanged after it has used the
\* payload has used the frame's own bytes.
THEOREM PayloadRecheck == ASSUME OrderedRing PROVE Spec => []UnchangedCommitMeansIntactPayload
  <1>1. IInv => UnchangedCommitMeansIntactPayload
    BY OrderedImplies
  <1> QED
    BY <1>1, OrderedCorrect, PTL

\* No store of the producer takes a commit word back.
THEOREM SlotsAdvance == ASSUME OrderedRing PROVE Spec => SlotNeverRegresses
  <1> DEFINE Advance == \A i \in Slots : seq_commit'[i] >= seq_commit[i]
  <1>1. IInv /\ [Next]_vars => [Advance]_seq_commit
    BY OrderedNext DEF SlotAdvances, vars
  <1>2. SlotNeverRegresses <=> [][Advance]_seq_commit
    BY DEF SlotNeverRegresses
  <1> HIDE DEF Advance
  <1> QED
    BY <1>1, <1>2, OrderedCorrect, PTL DEF Spec

\* A FrameDescriptor is sent only after its frame was committed, and the slot
\* has held that frame or a later one ever since.
THEOREM DescriptorsFollow == ASSUME OrderedRing PROVE Spec => []DescriptorAfterCommit
  <1>1. Init => DescriptorAfterCommit
    BY DEF Init, DescriptorAfterCommit
  <1>2. ASSUME IInv, DescriptorAfterCommit, [Next]_vars PROVE DescriptorAfterCommit'
    <2> SUFFICES ASSUME NEW seq \in descriptors'
                 PROVE  seq_commit'[SlotOf(seq)] >= tp_seq_committed(seq)
      BY DEF DescriptorAfterCommit
    <2>1. IInv' /\ [\A i \in Slots : SlotAdvances(i)]_vars
      BY <1>2, OrderedNext
    <2>2. /\ seq \in Nat /\ SlotOf(seq) \in Slots
          /\ seq_commit \in [Slots -> Nat] /\ seq_commit' \in [Slots -> Nat]
      BY <1>2, <2>1, SlotInRing, BoundsAssumption DEF IInv, TypeOK
    <2>3. seq_commit'[SlotOf(seq)] >= seq_commit[SlotOf(seq)]
      BY <2>1, <2>2 DEF SlotAdvances, vars
    <2>4. CASE seq \in descriptors
      BY <1>2, <2>2, <2>3, <2>4 DEF DescriptorAfterCommit, tp_seq_committed
    <2>5. CASE seq \notin descriptors
      <3>1. PICK offered \in BOOLEAN : PublishDescriptor(offered)
        BY <1>2, <2>5 DEF Next, ProducerCall, PublishStep, ConsumerStep, OfferFrame,
           OfferInvalidFrame, TryClaim, FillClaim, CommitClaim, AbortClaim, QueueClaim,
           StoreInProgress, StorePayload, StoreHeader, StoreCommitted, ReadFrame,
           ValidateProgress, LoadHeader, LoadDecodedCommit, LoadSecond, FinishRead,
           UsePayload, ReleaseView, producer, vars
      <3>2. pub.busy /\ pub.committed /\ seq = pub.frame.seq
        BY <3>1, <2>5 DEF PublishDescriptor, CanPublishDescriptor
      <3>3. seq_commit[SlotOf(seq)] = 2 * seq + 1
        BY <1>2, <3>2 DEF IInv, PublishProgress, PubSlot
      <3> QED
        BY <2>2, <2>3, <3>3 DEF tp_seq_committed
    <2> QED
      BY <2>4, <2>5
  <1> QED
    BY <1>1, <1>2, OrderedCorrect, PTL DEF Spec

-----------------------------------------------------------------------------
(* Dropped frames                                                           *)

\* A frame's payload fits its pool's stride.
Fits(f) == f.len <= Stride[f.pool]

\* Every frame that is claimed, being published or committed fits its pool, so
\* a consumer never refuses the header of a frame it reads whole.
FramesFit ==
    /\ \A i \in Slots : tp_seq_is_committed(seq_commit[i]) => Fits(header[i]["pool_id"])
    /\ pub.busy => Fits(pub.frame)
    /\ \A c \in Claims : claims[c].state # "free" => Fits(claims[c])

\* While the commit word is the one a read began with, its later loads of that
\* word found it too.
ReaderCurrent(r, commit) ==
    r.pc = "load" =>
        /\ r.outcome = "none"
        /\ r.first = commit => r.second \in {NoSeq, r.first} /\ r.decoded \in {NoSeq, r.first}

ReadersCurrent == \A c \in Consumers : ReaderCurrent(rd[c], seq_commit[Index(c)])

DropInv == IInv /\ FramesFit /\ ReadersCurrent

\* tp_find_pool_for_length finds a pool the frame fits.
LEMMA PoolFits ==
    ASSUME NEW length \in Lengths, NEW pool \in BestPools(length)
    PROVE  length <= Stride[pool] /\ pool \in Pools
  BY PoolsAssumption DEF BestPools, Lengths

\* A step that leaves the claims and the publish call's frame alone, and every
\* committed header too, keeps frames fitting.
LEMMA FitsKept ==
    ASSUME FramesFit, claims' = claims, pub'.busy => pub.busy /\ pub'.frame = pub.frame,
           \A i \in Slots : tp_seq_is_committed(seq_commit'[i]) =>
               /\ tp_seq_is_committed(seq_commit[i])
               /\ header'[i]["pool_id"] = header[i]["pool_id"]
    PROVE  FramesFit'
  BY DEF FramesFit, Fits

\* Every step of the producer keeps frames fitting.
LEMMA FitsNext ==
    ASSUME OrderedRing, IInv, FramesFit, IInv', ProducerCall \/ PublishStep
    PROVE  FramesFit'
  <1> DEFINE Still == \A i \in Slots : tp_seq_is_committed(seq_commit'[i]) =>
                          /\ tp_seq_is_committed(seq_commit[i])
                          /\ header'[i]["pool_id"] = header[i]["pool_id"]
             Committed == \A i \in Slots : tp_seq_is_committed(seq_commit'[i]) =>
                              Fits(header'[i]["pool_id"])
  <1>a. RingInv
    BY DEF IInv, RingInv
  <1>b. /\ seq_commit \in [Slots -> Nat] /\ header \in [Slots -> [HeaderWords -> Frames]]
        /\ claims \in [Claims -> ClaimRecords] /\ pub \in PubRecords
        /\ next_seq \in Nat
    BY DEF IInv, TypeOK
  <1>c. "pool_id" \in HeaderWords
    BY DEF HeaderWords
  <1>d. UNCHANGED <<seq_commit, header>> => Still
    OBVIOUS
  <1>e. Still => Committed
    BY DEF FramesFit, Fits
  <1>1. ASSUME NEW length \in Lengths, NEW pool \in Pools, OfferFrame(length, pool)
        PROVE  FramesFit'
    <2>1. pub'.frame = [seq |-> next_seq, pool |-> pool, len |-> length]
      BY <1>1, NoPubTyped DEF OfferFrame, Publish, PubRecords
    <2>2. Fits(pub'.frame) /\ UNCHANGED <<seq_commit, header, claims>>
      BY <2>1, <1>1, PoolFits DEF OfferFrame, Fits, memory
    <2> QED
      BY <2>2, <1>d, <1>e DEF FramesFit, Fits
  <1>2. CASE OfferInvalidFrame
    BY <1>2, <1>d, FitsKept DEF OfferInvalidFrame, memory
  <1>3. ASSUME NEW c \in Claims, NEW length \in Lengths, NEW pool \in Pools,
               TryClaim(c, length, pool)
        PROVE  FramesFit'
    <2>1. /\ seq_commit' = [seq_commit EXCEPT ![SlotOf(next_seq)] = 2 * next_seq]
          /\ UNCHANGED <<header, pub>>
          /\ claims'[c].len = length /\ claims'[c].pool = pool
          /\ \A d \in Claims \ {c} : claims'[d] = claims[d]
      BY <1>3, <1>b DEF TryClaim, tp_seq_in_progress
    <2>2. ~tp_seq_is_committed(2 * next_seq)
      BY <1>b, CommitEncoding
    <2>3. Still
      BY <2>1, <2>2, <1>b
    <2>4. Fits(claims'[c])
      BY <2>1, <1>3, PoolFits DEF TryClaim, Fits
    <2> QED
      BY <2>1, <2>3, <2>4, <1>e DEF FramesFit, Fits
  <1>4. ASSUME NEW c \in Claims, NEW w \in Words, FillClaim(c, w)
        PROVE  FramesFit'
    <2>1. /\ UNCHANGED <<seq_commit, header, pub>>
          /\ \A d \in Claims : /\ claims'[d].state = claims[d].state
                               /\ claims'[d].len = claims[d].len
                               /\ claims'[d].pool = claims[d].pool
      BY <1>4, <1>b DEF FillClaim, ClaimRecords
    <2> QED
      BY <2>1, <1>d, <1>e DEF FramesFit, Fits
  <1>5. ASSUME NEW c \in Claims, CommitClaim(c)
        PROVE  FramesFit'
    <2>1. pub'.frame = [seq |-> claims[c].seq, pool |-> claims[c].pool, len |-> claims[c].len]
      BY <1>5, NoPubTyped DEF CommitClaim, Publish, PubRecords
    <2>2. claims[c].state # "free" /\ UNCHANGED <<seq_commit, header>>
      BY <1>5 DEF CommitClaim, memory
    <2>3. claims'[c] = NoClaim /\ \A d \in Claims \ {c} : claims'[d] = claims[d]
      BY <1>5, <1>b DEF CommitClaim, OrderedRing
    <2>4. Fits(pub'.frame)
      BY <2>1, <2>2 DEF FramesFit, Fits
    <2> QED
      BY <2>2, <2>3, <2>4, <1>d, <1>e, NoClaimTyped DEF FramesFit, Fits
  <1>6. ASSUME NEW c \in Claims, AbortClaim(c)
        PROVE  FramesFit'
    <2>1. /\ claims'[c] = NoClaim /\ \A d \in Claims \ {c} : claims'[d] = claims[d]
          /\ UNCHANGED <<seq_commit, header, pub>>
      BY <1>6, <1>b DEF AbortClaim, memory
    <2> QED
      BY <2>1, <1>d, <1>e, NoClaimTyped DEF FramesFit, Fits
  <1>7. ASSUME NEW c \in Claims, QueueClaim(c)
        PROVE  FALSE
    BY <1>7 DEF QueueClaim, OrderedRing
  <1>8. CASE StoreInProgress
    <2>1. /\ seq_commit' = [seq_commit EXCEPT ![PubSlot] = 2 * pub.frame.seq]
          /\ pub.busy /\ pub'.frame = pub.frame /\ UNCHANGED <<header, claims>>
      BY <1>8, <1>b DEF StoreInProgress, tp_seq_in_progress, PubRecords
    <2>2. PubSlot \in Slots /\ ~tp_seq_is_committed(2 * pub.frame.seq)
      BY <2>1, <1>a, PublishSlot, CommitEncoding
    <2>3. Still
      BY <2>1, <2>2, <1>b
    <2> QED
      BY <2>1, <2>3, FitsKept
  <1>9. ASSUME NEW w \in Words, StorePayload(w)
        PROVE  FramesFit'
    <2>1. pub.busy /\ pub'.frame = pub.frame /\ UNCHANGED <<seq_commit, header, claims>>
      BY <1>9, <1>b DEF StorePayload, CanStorePayload, PubRecords
    <2> QED
      BY <2>1, <1>d, FitsKept
  <1>10. ASSUME NEW w \in HeaderWords, StoreHeader(w)
         PROVE  FramesFit'
    <2>1. /\ pub.busy /\ pub'.frame = pub.frame /\ UNCHANGED <<seq_commit, claims>>
          /\ header' = [header EXCEPT ![PubSlot][w] = pub.frame]
      BY <1>10, <1>b DEF StoreHeader, CanStoreHeader, PubRecords
    <2>2. ~tp_seq_is_committed(seq_commit[PubSlot])
      BY <1>10, <1>a, StoreHeaderRing DEF IInv
    <2>3. \A i \in Slots \ {PubSlot} : header'[i] = header[i]
      BY <2>1, <1>b
    <2>4. Still
      BY <2>1, <2>2, <2>3
    <2> QED
      BY <2>1, <2>4, FitsKept
  <1>11. CASE StoreCommitted
    <2>1. /\ pub.busy /\ pub'.frame = pub.frame /\ UNCHANGED <<header, claims>>
          /\ seq_commit' = [seq_commit EXCEPT ![PubSlot] = 2 * pub.frame.seq + 1]
          /\ HeaderStored
      BY <1>11, <1>b DEF StoreCommitted, CanCommit, tp_seq_committed, PubRecords
    <2>2. header[PubSlot]["pool_id"] = pub.frame
      BY <2>1, <1>c DEF IInv, PublishProgress, HeaderStored
    <2>3. \A i \in Slots \ {PubSlot} : seq_commit'[i] = seq_commit[i]
      BY <2>1, <1>b
    <2>4. Committed
      BY <2>1, <2>2, <2>3 DEF FramesFit, Fits
    <2> QED
      BY <2>1, <2>4 DEF FramesFit, Fits
  <1>12. ASSUME NEW offered \in BOOLEAN, PublishDescriptor(offered)
         PROVE  FramesFit'
    BY <1>12, <1>d, NoPubTyped, FitsKept DEF PublishDescriptor, memory
  <1> QED
    BY <1>1, <1>2, <1>3, <1>4, <1>5, <1>6, <1>7, <1>8, <1>9, <1>10, <1>11, <1>12
    DEF ProducerCall, PublishStep

\* A step of a consumer keeps what its loads of the commit word tell.
LEMMA CurrentNext ==
    ASSUME IInv, ReadersCurrent, IInv', NEW c \in Consumers, ConsumerStep(c)
    PROVE  ReaderCurrent(rd'[c], seq_commit[Index(c)'])
  <1> DEFINE r == rd[c]
             q == rd'[c]
             m == seq_commit[Index(c)]
             Goal == ReaderCurrent(q, seq_commit[Index(c)'])
  <1>1. /\ r \in ReaderRecords /\ rd \in [Consumers -> ReaderRecords]
        /\ ReaderCurrent(r, m)
    BY DEF IInv, TypeOK, ReadersCurrent
  <1>2. q.seq = r.seq => Index(c)' = Index(c)
    BY DEF Index
  <1>3. ASSUME NEW outcome, Return(c, outcome) PROVE Goal
    BY <1>3, <1>1 DEF Return, IdleReader, ReaderCurrent
  <1>4. ASSUME NEW kind, NEW seq, NEW want, StartLoad(c, kind, seq, want) PROVE Goal
    BY <1>4, <1>1 DEF StartLoad, IdleReader, ReaderCurrent
  <1>5. ASSUME NEW seq, ReadFrame(c, seq) PROVE Goal
    BY <1>5, <1>3, <1>4 DEF ReadFrame
  <1>6. ASSUME NEW seq, NEW filled, ValidateProgress(c, seq, filled) PROVE Goal
    BY <1>6, <1>3, <1>4 DEF ValidateProgress
  <1>7. ASSUME NEW w \in HeaderWords, LoadHeader(c, w) PROVE Goal
    <2>1. /\ q.pc = r.pc /\ q.seq = r.seq /\ q.first = r.first /\ q.second = r.second
          /\ q.decoded = r.decoded /\ q.outcome = r.outcome
      BY <1>7, <1>1 DEF LoadHeader, ReaderRecords
    <2> HIDE DEF q, r
    <2> QED
      BY <2>1, <1>1, <1>2 DEF ReaderCurrent
  <1>8. ASSUME LoadDecodedCommit(c) PROVE Goal
    <2>1. /\ q.pc = r.pc /\ q.seq = r.seq /\ q.first = r.first /\ q.second = r.second
          /\ q.decoded = m /\ q.outcome = r.outcome
      BY <1>8, <1>1 DEF LoadDecodedCommit, ReaderRecords
    <2> HIDE DEF q, r
    <2> QED
      BY <2>1, <1>1, <1>2 DEF ReaderCurrent
  <1>9. ASSUME LoadSecond(c) PROVE Goal
    <2>1. /\ q.pc = r.pc /\ q.seq = r.seq /\ q.first = r.first /\ q.second = m
          /\ q.decoded = r.decoded /\ q.outcome = r.outcome
      BY <1>9, <1>1 DEF LoadSecond, ReaderRecords
    <2> HIDE DEF q, r
    <2> QED
      BY <2>1, <1>1, <1>2 DEF ReaderCurrent
  <1>10. ASSUME FinishRead(c) PROVE Goal
    <2>1. CASE Outcome(r) = "accepted"
      BY <2>1, <1>10, <1>1 DEF FinishRead, ReaderRecords, ReaderCurrent
    <2> QED
      BY <2>1, <1>10, <1>3 DEF FinishRead
  <1>11. ASSUME NEW w \in Words, UsePayload(c, w) PROVE Goal
    <2>1. q.pc = "view"
      BY <1>11, <1>1 DEF UsePayload, ReaderRecords
    <2> QED
      BY <2>1 DEF ReaderCurrent
  <1>12. ASSUME ReleaseView(c) PROVE Goal
    BY <1>12, <1>3 DEF ReleaseView
  <1> QED
    BY <1>5, <1>6, <1>7, <1>8, <1>9, <1>10, <1>11, <1>12 DEF ConsumerStep

\* Every step keeps DropInv.
LEMMA DropNext == OrderedRing /\ DropInv /\ [Next]_vars => DropInv'
  <1> SUFFICES ASSUME OrderedRing, DropInv, [Next]_vars PROVE DropInv'
    OBVIOUS
  <1>1. IInv /\ IInv' /\ FramesFit /\ ReadersCurrent
    BY OrderedNext DEF DropInv
  <1>2. CASE ProducerCall \/ PublishStep
    <2>1. FramesFit'
      BY <1>1, <1>2, FitsNext
    <2>2. rd' = rd /\ \A i \in Slots : SlotAdvances(i)
      BY <1>1, <1>2, ProducerNext DEF IInv, RingInv
    <2>3. ASSUME NEW c \in Consumers PROVE ReaderCurrent(rd'[c], seq_commit'[Index(c)'])
      <3>1. Index(c)' = Index(c) /\ rd'[c] = rd[c]
        BY <2>2 DEF Index
      <3>2. /\ Index(c) \in Slots /\ rd[c].first \in Nat
            /\ seq_commit[Index(c)] \in Nat /\ seq_commit'[Index(c)] \in Nat
        <4>1. /\ rd[c] \in ReaderRecords
              /\ seq_commit \in [Slots -> Nat] /\ seq_commit' \in [Slots -> Nat]
          BY <1>1 DEF IInv, TypeOK
        <4>2. rd[c].first \in Nat /\ rd[c].seq \in Int
          BY <4>1 DEF ReaderRecords, Seqs, NoSeq
        <4> QED
          BY <4>1, <4>2, SlotInRing DEF Index
      <3>3. seq_commit'[Index(c)] >= seq_commit[Index(c)]
        BY <2>2, <3>2 DEF SlotAdvances
      <3>4. rd[c].pc = "load" => rd[c].first <= seq_commit[Index(c)]
        BY <1>1 DEF IInv, ReadersKnow, ReaderKnows, ReaderTrusts
      <3> QED
        BY <1>1, <3>1, <3>2, <3>3, <3>4 DEF ReadersCurrent, ReaderCurrent
    <2> QED
      BY <1>1, <2>1, <2>3 DEF DropInv, ReadersCurrent
  <1>3. ASSUME NEW c \in Consumers, ConsumerStep(c) PROVE DropInv'
    <2>1. /\ UNCHANGED <<memory, producer>>
          /\ \A d \in Consumers \ {c} : rd'[d] = rd[d]
      BY <1>1, <1>3, ConsumerNext DEF IInv
    <2>2. UNCHANGED <<seq_commit, header, claims, pub>>
      BY <2>1 DEF memory, producer
    <2>3. FramesFit'
      BY <2>2, <1>1 DEF FramesFit, Fits
    <2>4. ReaderCurrent(rd'[c], seq_commit[Index(c)'])
      BY <1>1, <1>3, CurrentNext
    <2>5. ASSUME NEW d \in Consumers PROVE ReaderCurrent(rd'[d], seq_commit'[Index(d)'])
      <3>1. d # c => rd'[d] = rd[d] /\ Index(d)' = Index(d)
        BY <2>1 DEF Index
      <3> QED
        BY <3>1, <2>2, <2>4, <1>1 DEF ReadersCurrent
    <2> QED
      BY <1>1, <2>3, <2>5 DEF DropInv, ReadersCurrent
  <1>4. CASE UNCHANGED vars
    BY <1>4, <1>1 DEF vars, DropInv, FramesFit, Fits, ReadersCurrent, Index
  <1> QED
    BY <1>2, <1>3, <1>4 DEF Next

\* A read of a frame that is still in its slot ends with the frame accepted or
\* with an error of the caller's, never with a drop.
LEMMA NoSpuriousDrop ==
    ASSUME DropInv, NEW c \in Consumers, FinishRead(c),
           rd[c].first = tp_seq_committed(rd[c].seq), seq_commit[Index(c)] = rd[c].first
    PROVE  Outcome(rd[c]) \notin {"late", "skipped"}
  <1> DEFINE r == rd[c]
             m == seq_commit[Index(c)]
             h == header[Index(c)]
  <1>1. /\ r \in ReaderRecords /\ r.pc = "load" /\ AllLoaded(c)
        /\ HeaderPassed(c) => r.second # NoSeq
        /\ ReaderKnows(r, m, h) /\ ReaderCurrent(r, m)
    BY DEF DropInv, IInv, TypeOK, ReadersKnow, ReadersCurrent, FinishRead
  <1>2. /\ r.seq \in Nat /\ Index(c) \in Slots /\ m = 2 * r.seq + 1
        /\ tp_seq_is_committed(m) /\ tp_seq_value(m) = r.seq
    BY <1>1, CommitEncoding, SlotInRing DEF ReaderKnows, ReaderTrusts, Index
  <1>3. h["pool_id"].seq = r.seq /\ (\A w \in HeaderWords : h[w] = h["pool_id"]) /\ Fits(h["pool_id"])
    BY <1>2 DEF DropInv, IInv, CommittedFrameIntact, FramesFit
  <1>4. \A w \in HeaderWords : r.view[w] = h["pool_id"]
    BY <1>1, <1>3 DEF ReaderKnows, ReaderTrusts, AllLoaded
  <1>5. h["pool_id"] # NoFrame
    BY <1>2, <1>3 DEF NoFrame, NoSeq
  <1> HIDE DEF h, m
  <1>6. HeaderValid(r.view)
    BY <1>3, <1>4, <1>5 DEF HeaderValid, HeaderWords, Fits
  <1>7. r.second = m /\ Stable(r)
    BY <1>1, <1>2, <1>6 DEF HeaderPassed, ReaderCurrent, Stable, m
  <1>8. r.kind = "progress" => r.decoded = m
    BY <1>1 DEF AllLoaded, ReaderCurrent, m
  <1>9. r.kind \in {"frame", "progress"}
    BY <1>1 DEF ReaderRecords
  <1> HIDE DEF r
  <1> QED
    BY <1>2, <1>6, <1>7, <1>8, <1>9 DEF Outcome, FrameOutcome, ProgressOutcome, r

\* tp_consumer_read_frame and tp_consumer_validate_progress drop no frame that
\* is still in its slot, whatever the producer stores elsewhere meanwhile.
THEOREM NoFrameDroppedEarly == ASSUME OrderedRing PROVE Spec => DropOnlyLostFrames
  <1> DEFINE Only == \A c \in Consumers :
                       /\ rd[c].pc = "load"
                       /\ rd[c].first = tp_seq_committed(rd[c].seq)
                       /\ rd'[c].outcome \in {"late", "skipped"}
                       => seq_commit[Index(c)] # tp_seq_committed(rd[c].seq)
  <1>1. Init => DropInv
    <2> SUFFICES ASSUME Init PROVE DropInv
      OBVIOUS
    <2>1. FramesFit
      BY NoClaimTyped, NoPubTyped DEF Init, FramesFit, tp_seq_is_committed
    <2>2. ReadersCurrent
      BY DEF Init, ReadersCurrent, ReaderCurrent, IdleReader
    <2> QED
      BY <2>1, <2>2, OrderedInit DEF DropInv
  <1>2. DropInv /\ [Next]_vars => DropInv'
    BY DropNext
  <1>3. ASSUME DropInv, [Next]_vars PROVE [Only]_vars
    <2> SUFFICES ASSUME Next, NEW c \in Consumers, rd[c].pc = "load",
                        rd[c].first = tp_seq_committed(rd[c].seq),
                        rd'[c].outcome \in {"late", "skipped"},
                        seq_commit[Index(c)] = rd[c].first
                 PROVE  FALSE
      BY <1>3
    <2>1. rd \in [Consumers -> ReaderRecords] /\ rd[c].outcome = "none"
      BY <1>3 DEF DropInv, IInv, TypeOK, ReadersCurrent, ReaderCurrent
    <2>2. rd' # rd
      BY <2>1
    <2>3. ConsumerStep(c)
      <3>1. ~(ProducerCall \/ PublishStep)
        BY <2>2, <1>3, ProducerNext, OrderedNext DEF DropInv, IInv, RingInv
      <3>2. PICK d \in Consumers : ConsumerStep(d)
        BY <3>1 DEF Next
      <3>3. d = c
        BY <3>2, <2>1, <1>3, ConsumerNext, OrderedNext DEF DropInv, IInv
      <3> QED
        BY <3>2, <3>3
    <2>4. CASE FinishRead(c)
      <3>1. Outcome(rd[c]) \notin {"late", "skipped"}
        BY <1>3, <2>4, NoSpuriousDrop
      <3>2. rd'[c].outcome = Outcome(rd[c])
        BY <2>4, <2>1 DEF FinishRead, Return, IdleReader, ReaderRecords
      <3> QED
        BY <3>1, <3>2
    <2>5. CASE \E w \in HeaderWords : LoadHeader(c, w)
      BY <2>5, <2>1 DEF LoadHeader, ReaderRecords
    <2>6. CASE LoadDecodedCommit(c) \/ LoadSecond(c)
      BY <2>6, <2>1 DEF LoadDecodedCommit, LoadSecond, ReaderRecords
    <2> QED
      BY <2>3, <2>4, <2>5, <2>6
      DEF ConsumerStep, ReadFrame, ValidateProgress, UsePayload, ReleaseView
  <1>4. DropOnlyLostFrames <=> [][Only]_vars
    BY DEF DropOnlyLostFrames
  <1> HIDE DEF Only
  <1> QED
    BY <1>1, <1>2, <1>3, <1>4, PTL DEF Spec

-----------------------------------------------------------------------------
(* One fixed buffer                                                         *)

\* The setting: program order, and an application with one claim handle, which
\* fixed_pool_mode lets it queue again for every frame.
OneBuffer == MemoryOrder = "tso" /\ \A c, d \in Claims : c = d

\* Frame seq was never committed: no slot shows it and no reader has met it.
Unseen(seq) ==
    /\ \A i \in Slots : seq_commit[i] # 2 * seq + 1
    /\ \A c \in Consumers : rd[c].pc # "idle" => rd[c].first # 2 * seq + 1

\* The buffer being filled is in a slot that is not committed, and a publish call
\* in flight is of a frame of its own, in another slot.
BufferHeld(c) ==
    claims[c].state = "open" =>
        /\ Unseen(claims[c].seq)
        /\ ~tp_seq_is_committed(seq_commit[claims[c].header_index])
        /\ \A w \in claims[c].filled : payload[claims[c].pool][claims[c].header_index][w] = claims[c].seq
        /\ pub.busy => /\ claims[c].header_index # PubSlot
                       /\ pub.src = NoSeq /\ pub.frame.seq # claims[c].seq

\* How far the publish call has got.  The commit word of its slot may have been
\* that of a later frame, and the buffer it copies from be in another slot.
BufferPublished ==
    pub.busy =>
        /\ ~pub.in_progress => pub.stored = {} /\ pub.fields = {} /\ ~pub.committed
        /\ pub.in_progress => seq_commit[PubSlot] = IF pub.committed THEN 2 * pub.frame.seq + 1
                                                                     ELSE 2 * pub.frame.seq
        /\ pub.committed => PayloadStored /\ HeaderStored
        /\ ~pub.committed => Unseen(pub.frame.seq)
        /\ pub.src # NoSeq => \A w \in 1 .. pub.frame.len : payload[pub.frame.pool][pub.src][w] = pub.frame.seq
        /\ \A w \in pub.stored : payload[pub.frame.pool][PubSlot][w] = pub.frame.seq
        /\ \A w \in pub.fields : header[PubSlot][w] = pub.frame

\* Readers have met started frames only.
FirstsBounded == \A c \in Consumers : rd[c].pc # "idle" => rd[c].first < 2 * next_seq

BufferInv ==
    /\ TypeInv
    /\ CommitBounded
    /\ \A c \in Claims : BufferHeld(c)
    /\ BufferPublished
    /\ CommittedFrameIntact
    /\ ReadersTrust
    /\ FirstsBounded

\* The types the invariant contains.
LEMMA BufferTyped ==
    ASSUME BufferInv
    PROVE  /\ TypeOK /\ next_seq \in Nat /\ seq_commit \in [Slots -> Nat]
           /\ header \in [Slots -> [HeaderWords -> Frames]]
           /\ payload \in [Pools -> [Slots -> [Words -> Seqs]]]
           /\ pub \in PubRecords /\ pub.frame \in Frames /\ pub.frame.pool \in Pools
           /\ pub.busy => pub.frame.seq \in Nat /\ pub.frame.seq < next_seq /\ PubSlot \in Slots
           /\ claims \in [Claims -> ClaimRecords]
           /\ \A c \in Claims : /\ claims[c].header_index \in Slots /\ claims[c].pool \in Pools
                                /\ claims[c].filled \subseteq Words
                                /\ claims[c].state # "free" => claims[c].seq \in Nat /\ claims[c].seq < next_seq
           /\ \A c \in Consumers : rd[c] \in ReaderRecords /\ rd[c].first \in Nat /\ Index(c) \in Slots
  <1>1. TypeOK /\ SeqsStarted
    BY DEF BufferInv, TypeInv
  <1>2. next_seq \in Nat
    BY <1>1 DEF TypeOK
  <1>3. pub \in PubRecords /\ pub.frame \in Frames /\ pub.frame.pool \in Pools
    BY <1>1 DEF TypeOK, PubRecords, Frames
  <1>4. pub.busy => pub.frame.seq \in Nat /\ pub.frame.seq < next_seq /\ PubSlot \in Slots
    BY <1>1, <1>2, SlotInRing DEF SeqsStarted, PubSlot
  <1>5. \A c \in Claims : /\ claims[c].header_index \in Slots /\ claims[c].pool \in Pools
                          /\ claims[c].filled \subseteq Words
    BY <1>1 DEF TypeOK, ClaimRecords
  <1>6. \A c \in Claims : claims[c].state # "free" => claims[c].seq \in Nat /\ claims[c].seq < next_seq
    BY <1>1, <1>2 DEF SeqsStarted
  <1>7. \A c \in Consumers : rd[c] \in ReaderRecords /\ rd[c].first \in Nat /\ Index(c) \in Slots
    BY <1>1, SlotInRing DEF TypeOK, ReaderRecords, Seqs, NoSeq, Index
  <1> QED
    BY <1>1, <1>2, <1>3, <1>4, <1>5, <1>6, <1>7 DEF TypeOK

\* A frame that starts now was never committed.
LEMMA NextUnseen == BufferInv => Unseen(next_seq)
  <1> SUFFICES ASSUME BufferInv PROVE Unseen(next_seq)
    OBVIOUS
  <1>1. \A i \in Slots : seq_commit[i] \in Nat /\ (seq_commit[i] = 0 \/ seq_commit[i] < 2 * next_seq)
    BY BufferTyped DEF BufferInv, CommitBounded
  <1>2. \A c \in Consumers : rd[c].pc # "idle" => rd[c].first < 2 * next_seq /\ rd[c].first \in Nat
    BY BufferTyped DEF BufferInv, FirstsBounded
  <1>3. next_seq \in Nat
    BY BufferTyped
  <1> QED
    BY <1>1, <1>2, <1>3 DEF Unseen

\* How a commit word may change: not at all, to a mark, or to the commit of a
\* frame that no reader has met.
SlotMoves(i) ==
    \/ seq_commit'[i] = seq_commit[i] /\ (tp_seq_is_committed(seq_commit[i]) => header'[i] = header[i])
    \/ ~tp_seq_is_committed(seq_commit'[i])
    \/ \A c \in Consumers : rd[c].pc # "idle" => rd[c].first # seq_commit'[i]

\* What readers trust survives that: no commit word comes back.
LEMMA ReadersStay ==
    ASSUME BufferInv, rd' = rd, next_seq' \in {next_seq, next_seq + 1}, \A i \in Slots : SlotMoves(i)
    PROVE  ReadersTrust' /\ FirstsBounded'
  <1>1. ASSUME NEW c \in Consumers
        PROVE  ReaderTrusts(rd'[c], seq_commit'[Index(c)'], header'[Index(c)'])
    <2>1. Index(c)' = Index(c) /\ rd'[c] = rd[c] /\ Index(c) \in Slots
      BY BufferTyped DEF Index
    <2> DEFINE r == rd[c]
               i == Index(c)
    <2>2. ReaderTrusts(r, seq_commit[i], header[i])
      BY DEF BufferInv, ReadersTrust
    <2>3. \/ seq_commit'[i] = seq_commit[i] /\ (tp_seq_is_committed(seq_commit[i]) => header'[i] = header[i])
          \/ ~tp_seq_is_committed(seq_commit'[i])
          \/ r.pc # "idle" => r.first # seq_commit'[i]
      BY <2>1 DEF SlotMoves
    <2> HIDE DEF r, i
    <2>4. ReaderTrusts(r, seq_commit'[i], header'[i])
      BY <2>2, <2>3 DEF ReaderTrusts
    <2> QED
      BY <2>1, <2>4 DEF r, i
  <1>2. ReadersTrust'
    BY <1>1 DEF ReadersTrust
  <1>3. FirstsBounded'
    <2>1. next_seq \in Nat /\ \A c \in Consumers : rd[c].first \in Nat
      BY BufferTyped
    <2> QED
      BY <2>1 DEF BufferInv, FirstsBounded
  <1> QED
    BY <1>2, <1>3

\* Frames stay unseen while no slot gets their commit word.
LEMMA UnseenStays ==
    ASSUME NEW seq, Unseen(seq), rd' = rd,
           \A i \in Slots : seq_commit'[i] = seq_commit[i] \/ seq_commit'[i] # 2 * seq + 1
    PROVE  Unseen(seq)'
  BY DEF Unseen

\* Marks are not commits.
LEMMA MarkIsNoCommit ==
    ASSUME NEW m \in Nat
    PROVE  ~tp_seq_is_committed(2 * m) /\ \A seq \in Nat : 2 * m # 2 * seq + 1
  BY CommitEncoding

\* A call that stores nothing in shared memory.
LEMMA NothingStored ==
    ASSUME BufferInv, TypeInv', UNCHANGED <<seq_commit, header, payload, rd>>,
           next_seq' \in {next_seq, next_seq + 1}
    PROVE  /\ CommitBounded' /\ CommittedFrameIntact' /\ ReadersTrust' /\ FirstsBounded'
           /\ \A seq : Unseen(seq)' <=> Unseen(seq)
  <1>1. \A i \in Slots : SlotMoves(i)
    BY DEF SlotMoves
  <1>2. CommitBounded'
    <2>1. next_seq \in Nat /\ \A i \in Slots : seq_commit[i] \in Nat
      BY BufferTyped
    <2> QED
      BY <2>1 DEF BufferInv, CommitBounded
  <1>3. CommittedFrameIntact'
    BY DEF BufferInv, CommittedFrameIntact
  <1> QED
    BY <1>1, <1>2, <1>3, ReadersStay DEF Unseen

\* tp_producer_offer_frame
LEMMA OfferBuffer ==
    ASSUME BufferInv, TypeInv', NEW length \in Lengths, NEW pool \in Pools, OfferFrame(length, pool)
    PROVE  BufferInv'
  <1>1. /\ UNCHANGED <<seq_commit, header, payload, rd, claims>> /\ next_seq' = next_seq + 1
        /\ ~pub.busy
        /\ \A c \in Claims : claims[c].state # "free" => claims[c].header_index # SlotOf(next_seq)
    BY DEF OfferFrame, CanStart, SlotFree, memory
  <1>2. /\ pub'.busy /\ pub'.frame.seq = next_seq /\ pub'.src = NoSeq /\ ~pub'.in_progress
        /\ pub'.stored = {} /\ pub'.fields = {} /\ ~pub'.committed
    BY DEF OfferFrame, Publish, NoPub
  <1>3. /\ CommitBounded' /\ CommittedFrameIntact' /\ ReadersTrust' /\ FirstsBounded'
        /\ \A seq : Unseen(seq)' <=> Unseen(seq)
    BY <1>1, NothingStored
  <1>4. ASSUME NEW c \in Claims PROVE BufferHeld(c)'
    <2>1. claims[c].state # "free" => claims[c].seq \in Nat /\ claims[c].seq < next_seq
      BY BufferTyped
    <2>2. BufferHeld(c) /\ next_seq \in Nat
      BY BufferTyped DEF BufferInv
    <2>3. PubSlot' = SlotOf(next_seq)
      BY <1>2 DEF PubSlot
    <2> QED
      BY <1>1, <1>2, <1>3, <2>1, <2>2, <2>3 DEF BufferHeld
  <1>5. BufferPublished'
    BY <1>2, <1>3, NextUnseen DEF BufferPublished
  <1> QED
    BY <1>3, <1>4, <1>5 DEF BufferInv

\* An offer that is refused.
LEMMA OfferInvalidBuffer ==
    ASSUME BufferInv, TypeInv', OfferInvalidFrame
    PROVE  BufferInv'
  <1>1. UNCHANGED <<seq_commit, header, payload, rd, claims, pub>> /\ next_seq' = next_seq + 1
    BY DEF OfferInvalidFrame, memory
  <1>2. /\ CommitBounded' /\ CommittedFrameIntact' /\ ReadersTrust' /\ FirstsBounded'
        /\ \A seq : Unseen(seq)' <=> Unseen(seq)
    BY <1>1, NothingStored
  <1>3. \A c \in Claims : BufferHeld(c)'
    BY <1>1, <1>2 DEF BufferInv, BufferHeld, PubSlot
  <1>4. BufferPublished'
    BY <1>1, <1>2 DEF BufferInv, BufferPublished, PubSlot, PayloadStored, HeaderStored
  <1> QED
    BY <1>2, <1>3, <1>4 DEF BufferInv

\* tp_producer_try_claim and tp_producer_queue_claim: the buffer's slot is marked
\* in progress for the next frame before the application may fill it.
LEMMA BufferOpened ==
    ASSUME OneBuffer, BufferInv, TypeInv', NEW c \in Claims, NEW i \in Slots, ~pub.busy, pub' = pub,
           UNCHANGED <<header, payload, rd>>, next_seq' = next_seq + 1,
           claims'[c].seq = next_seq, claims'[c].header_index = i, claims'[c].filled = {},
           seq_commit' = [seq_commit EXCEPT ![i] = 2 * next_seq]
    PROVE  BufferInv'
  <1>1. next_seq \in Nat /\ seq_commit \in [Slots -> Nat] /\ TypeOK
    BY BufferTyped
  <1>2. /\ seq_commit'[i] = 2 * next_seq
        /\ \A j \in Slots \ {i} : seq_commit'[j] = seq_commit[j]
    BY <1>1
  <1>3. ~tp_seq_is_committed(seq_commit'[i]) /\ \A seq \in Nat : seq_commit'[i] # 2 * seq + 1
    BY <1>1, <1>2, MarkIsNoCommit
  <1>4. CommitBounded'
    BY <1>1, <1>2 DEF BufferInv, CommitBounded
  <1>5. CommittedFrameIntact'
    BY <1>1, <1>2, <1>3, IntactElsewhere DEF BufferInv
  <1>6. ReadersTrust' /\ FirstsBounded'
    <2>1. \A j \in Slots : SlotMoves(j)
      BY <1>2, <1>3 DEF SlotMoves
    <2> QED
      BY <2>1, ReadersStay
  <1>7. ASSUME NEW d \in Claims PROVE BufferHeld(d)'
    <2>1. d = c
      BY DEF OneBuffer
    <2> DEFINE n == next_seq
    <2>2. Unseen(n) /\ n \in Nat /\ claims'[c].seq = n
      BY <1>1, NextUnseen
    <2> HIDE DEF n
    <2>3. /\ \A j \in Slots : seq_commit'[j] # 2 * n + 1
          /\ \A e \in Consumers : rd'[e].pc # "idle" => rd'[e].first # 2 * n + 1
      BY <2>2, <1>2, <1>3 DEF Unseen
    <2>4. Unseen(claims[c].seq)'
      BY <2>2, <2>3 DEF Unseen
    <2> QED
      BY <2>1, <2>4, <1>3 DEF BufferHeld
  <1>8. BufferPublished'
    BY DEF BufferPublished
  <1> QED
    BY <1>4, <1>5, <1>6, <1>7, <1>8 DEF BufferInv

\* The application fills a word of its buffer.
LEMMA FillBuffer ==
    ASSUME OneBuffer, BufferInv, TypeInv', NEW c \in Claims, NEW w \in Words, FillClaim(c, w)
    PROVE  BufferInv'
  <1> DEFINE i == claims[c].header_index
             p == claims[c].pool
  <1>1. /\ claims[c].state = "open" /\ UNCHANGED <<seq_commit, header, next_seq, pub, rd>>
        /\ payload' = [payload EXCEPT ![p][i][w] = claims[c].seq]
    BY DEF FillClaim
  <1>2. /\ i \in Slots /\ p \in Pools /\ claims[c].filled \subseteq Words /\ TypeOK
        /\ payload \in [Pools -> [Slots -> [Words -> Seqs]]] /\ claims \in [Claims -> ClaimRecords]
    BY BufferTyped
  <1>3. /\ claims'[c].state = claims[c].state /\ claims'[c].seq = claims[c].seq
        /\ claims'[c].header_index = i /\ claims'[c].pool = p /\ claims'[c].filled = claims[c].filled \cup {w}
    BY <1>2 DEF FillClaim, ClaimRecords
  <1>4. /\ Unseen(claims[c].seq) /\ ~tp_seq_is_committed(seq_commit[i])
        /\ \A v \in claims[c].filled : payload[p][i][v] = claims[c].seq
        /\ pub.busy => i # PubSlot /\ pub.src = NoSeq /\ pub.frame.seq # claims[c].seq
    BY <1>1 DEF BufferInv, BufferHeld
  <1> HIDE DEF i, p
  <1>5. /\ payload'[p][i][w] = claims[c].seq
        /\ \A v \in Words \ {w} : payload'[p][i][v] = payload[p][i][v]
        /\ \A q \in Pools, j \in Slots \ {i} : payload'[q][j] = payload[q][j]
    BY <1>1, <1>2
  <1>6. CommitBounded'
    BY <1>1 DEF BufferInv, CommitBounded
  <1>7. CommittedFrameIntact'
    BY <1>1, <1>2, <1>4, <1>5, IntactElsewhere DEF BufferInv
  <1>8. ReadersTrust' /\ FirstsBounded'
    <2>1. \A j \in Slots : SlotMoves(j)
      BY <1>1 DEF SlotMoves
    <2> QED
      BY <1>1, <2>1, ReadersStay
  <1>9. ASSUME NEW d \in Claims PROVE BufferHeld(d)'
    <2>1. d = c
      BY DEF OneBuffer
    <2>2. \A v \in claims'[c].filled : payload'[p][i][v] = claims[c].seq
      BY <1>2, <1>3, <1>4, <1>5
    <2>3. Unseen(claims[c].seq)'
      BY <1>1, <1>3, <1>4 DEF Unseen
    <2>4. PubSlot' = PubSlot
      BY <1>1 DEF PubSlot
    <2> QED
      BY <1>1, <1>3, <1>4, <2>1, <2>2, <2>3, <2>4 DEF BufferHeld
  <1>10. BufferPublished'
    <2> SUFFICES ASSUME pub.busy PROVE BufferPublished'
      BY <1>1 DEF BufferPublished
    <2>1. PubSlot # i /\ pub.src = NoSeq /\ PubSlot \in Slots /\ pub.frame.pool \in Pools
      BY <1>4, BufferTyped
    <2>2. payload'[pub.frame.pool][PubSlot] = payload[pub.frame.pool][PubSlot]
      BY <2>1, <1>5
    <2>3. /\ PubSlot' = PubSlot /\ PayloadStored' = PayloadStored /\ HeaderStored' = HeaderStored
          /\ Unseen(pub.frame.seq)' = Unseen(pub.frame.seq)
      BY <1>1 DEF PubSlot, PayloadStored, HeaderStored, Unseen
    <2>4. BufferPublished
      BY DEF BufferInv
    <2> QED
      BY <1>1, <2>1, <2>2, <2>3, <2>4 DEF BufferPublished
  <1> QED
    BY <1>6, <1>7, <1>8, <1>9, <1>10 DEF BufferInv

\* tp_producer_commit_claim: the publish call copies from the buffer, whatever
\* slot that is in, into the slot of the frame's sequence number.
LEMMA CommitBuffer ==
    ASSUME OneBuffer, BufferInv, TypeInv', NEW c \in Claims, CommitClaim(c)
    PROVE  BufferInv'
  <1>1. /\ ~pub.busy /\ claims[c].state = "open" /\ claims[c].filled = 1 .. claims[c].len
        /\ UNCHANGED <<seq_commit, header, payload, rd, next_seq>>
    BY DEF CommitClaim, memory
  <1>2. /\ pub'.busy /\ pub'.src = claims[c].header_index /\ ~pub'.in_progress
        /\ pub'.frame.seq = claims[c].seq /\ pub'.frame.pool = claims[c].pool
        /\ pub'.frame.len = claims[c].len
        /\ pub'.stored = {} /\ pub'.fields = {} /\ ~pub'.committed
    BY DEF CommitClaim, Publish, NoPub
  <1>3. claims'[c].state # "open"
    <2>1. claims' = [claims EXCEPT ![c] = IF FixedPool THEN [claims[c] EXCEPT !.state = "committed"] ELSE NoClaim]
      BY DEF CommitClaim
    <2>2. claims \in [Claims -> ClaimRecords]
      BY BufferTyped
    <2> QED
      BY <2>1, <2>2, NoClaimTyped DEF ClaimRecords
  <1>4. /\ CommitBounded' /\ CommittedFrameIntact' /\ ReadersTrust' /\ FirstsBounded'
        /\ \A seq : Unseen(seq)' <=> Unseen(seq)
    BY <1>1, NothingStored
  <1>5. \A d \in Claims : BufferHeld(d)'
    BY <1>3 DEF OneBuffer, BufferHeld
  <1>6. /\ Unseen(claims[c].seq)
        /\ \A w \in 1 .. claims[c].len : payload[claims[c].pool][claims[c].header_index][w] = claims[c].seq
    BY <1>1 DEF BufferInv, BufferHeld
  <1>7. BufferPublished'
    <2>1. Unseen(pub.frame.seq)'
      BY <1>1, <1>2, <1>6 DEF Unseen
    <2> QED
      BY <1>1, <1>2, <1>6, <2>1 DEF BufferPublished
  <1> QED
    BY <1>4, <1>5, <1>7 DEF BufferInv

\* The buffer is given up.
LEMMA AbortBuffer ==
    ASSUME OneBuffer, BufferInv, TypeInv', NEW c \in Claims, AbortClaim(c)
    PROVE  BufferInv'
  <1>1. /\ ~pub.busy /\ pub' = pub /\ claims'[c].state = "free"
        /\ UNCHANGED <<seq_commit, header, payload, rd, next_seq>>
    BY BufferTyped, NoClaimTyped DEF AbortClaim, memory
  <1>2. CommitBounded' /\ CommittedFrameIntact' /\ ReadersTrust' /\ FirstsBounded'
    BY <1>1, NothingStored
  <1>3. (\A d \in Claims : BufferHeld(d)') /\ BufferPublished'
    BY <1>1 DEF OneBuffer, BufferHeld, BufferPublished
  <1> QED
    BY <1>2, <1>3 DEF BufferInv

\* A store of the publish call leaves the buffer that is being filled alone.
LEMMA HeldStays ==
    ASSUME BufferInv, pub.busy, UNCHANGED <<claims, rd>>,
           pub'.busy, pub'.frame = pub.frame, pub'.src = pub.src,
           \A j \in Slots \ {PubSlot} : seq_commit'[j] = seq_commit[j],
           seq_commit'[PubSlot] \in {seq_commit[PubSlot], 2 * pub.frame.seq, 2 * pub.frame.seq + 1},
           \A q \in Pools, j \in Slots \ {PubSlot} : payload'[q][j] = payload[q][j]
    PROVE  \A c \in Claims : BufferHeld(c)'
  <1> SUFFICES ASSUME NEW c \in Claims, claims[c].state = "open" PROVE BufferHeld(c)'
    BY DEF BufferHeld
  <1>1. /\ claims[c].header_index \in Slots /\ claims[c].pool \in Pools /\ claims[c].seq \in Nat
        /\ PubSlot \in Slots /\ pub.frame.seq \in Nat
    BY BufferTyped
  <1>2. /\ Unseen(claims[c].seq) /\ ~tp_seq_is_committed(seq_commit[claims[c].header_index])
        /\ \A w \in claims[c].filled : payload[claims[c].pool][claims[c].header_index][w] = claims[c].seq
        /\ claims[c].header_index # PubSlot /\ pub.src = NoSeq /\ pub.frame.seq # claims[c].seq
    BY DEF BufferInv, BufferHeld
  <1>3. /\ seq_commit'[claims[c].header_index] = seq_commit[claims[c].header_index]
        /\ payload'[claims[c].pool][claims[c].header_index] = payload[claims[c].pool][claims[c].header_index]
        /\ PubSlot' = PubSlot
    BY <1>1, <1>2 DEF PubSlot
  <1>4. Unseen(claims[c].seq)'
    <2> DEFINE n == claims[c].seq
    <2>1. \A j \in Slots : seq_commit'[j] = seq_commit[j] \/ seq_commit'[j] # 2 * n + 1
      BY <1>1, <1>2
    <2>2. claims'[c].seq = n /\ Unseen(n)
      BY <1>2
    <2> HIDE DEF n
    <2>3. /\ \A j \in Slots : seq_commit'[j] # 2 * n + 1
          /\ \A d \in Consumers : rd'[d].pc # "idle" => rd'[d].first # 2 * n + 1
      BY <2>1, <2>2 DEF Unseen
    <2> QED
      BY <2>2, <2>3 DEF Unseen
  <1> QED
    BY <1>2, <1>3, <1>4 DEF BufferHeld


\* What the invariant says of the publish call in flight.
LEMMA BufferCall ==
    ASSUME BufferInv, pub.busy
    PROVE  /\ PubSlot \in Slots /\ pub.frame.seq \in Nat /\ pub.frame.seq < next_seq /\ next_seq \in Nat
           /\ pub.frame.pool \in Pools /\ 1 .. pub.frame.len \subseteq Words
           /\ pub.stored \subseteq Words /\ pub.fields \subseteq HeaderWords
           /\ pub.src \in Slots \cup {NoSeq} /\ TypeOK
           /\ seq_commit \in [Slots -> Nat] /\ header \in [Slots -> [HeaderWords -> Frames]]
           /\ payload \in [Pools -> [Slots -> [Words -> Seqs]]]
  <1>1. pub.frame.len \in 0 .. MaxLen /\ MaxLen \in Nat
    BY BufferTyped, PoolsAssumption DEF Frames, Lengths
  <1>2. 1 .. pub.frame.len \subseteq Words
    BY <1>1 DEF Words
  <1> QED
    BY <1>2, BufferTyped DEF PubRecords

\* The store of the in-progress mark, over whatever the slot's word was.
LEMMA StoreInProgressBuffer ==
    ASSUME BufferInv, TypeInv', StoreInProgress
    PROVE  BufferInv'
  <1> DEFINE n == pub.frame.seq
  <1>1. /\ pub.busy /\ ~pub.in_progress
        /\ seq_commit' = [seq_commit EXCEPT ![PubSlot] = 2 * n]
        /\ UNCHANGED <<header, payload, next_seq, claims, rd>>
    BY DEF StoreInProgress, tp_seq_in_progress
  <1>2. /\ pub'.busy /\ pub'.frame = pub.frame /\ pub'.src = pub.src /\ pub'.in_progress
        /\ pub'.stored = pub.stored /\ pub'.fields = pub.fields /\ pub'.committed = pub.committed
        /\ PubSlot' = PubSlot
    BY <1>1, BufferTyped DEF StoreInProgress, PubRecords, PubSlot
  <1>3. /\ pub.stored = {} /\ pub.fields = {} /\ ~pub.committed /\ Unseen(n)
        /\ pub.src # NoSeq => \A w \in 1 .. pub.frame.len : payload[pub.frame.pool][pub.src][w] = n
    BY <1>1 DEF BufferInv, BufferPublished
  <1>4. /\ PubSlot \in Slots /\ n \in Nat /\ n < next_seq /\ next_seq \in Nat
        /\ seq_commit \in [Slots -> Nat] /\ TypeOK
    BY <1>1, BufferCall
  <1>5. /\ seq_commit'[PubSlot] = 2 * n
        /\ \A j \in Slots \ {PubSlot} : seq_commit'[j] = seq_commit[j]
    BY <1>1, <1>4
  <1>6. ~tp_seq_is_committed(seq_commit'[PubSlot]) /\ seq_commit'[PubSlot] # 2 * n + 1
    BY <1>4, <1>5, MarkIsNoCommit
  <1>7. CommitBounded'
    BY <1>1, <1>4, <1>5 DEF BufferInv, CommitBounded
  <1>8. CommittedFrameIntact'
    BY <1>1, <1>4, <1>5, <1>6, IntactElsewhere DEF BufferInv
  <1>9. ReadersTrust' /\ FirstsBounded'
    <2>1. \A j \in Slots : SlotMoves(j)
      BY <1>1, <1>5, <1>6 DEF SlotMoves
    <2> QED
      BY <1>1, <2>1, ReadersStay
  <1>10. \A c \in Claims : BufferHeld(c)'
    BY <1>1, <1>2, <1>5, HeldStays
  <1>11. BufferPublished'
    <2>1. /\ \A j \in Slots : seq_commit'[j] # 2 * n + 1
          /\ \A c \in Consumers : rd'[c].pc # "idle" => rd'[c].first # 2 * n + 1
      BY <1>1, <1>3, <1>5, <1>6 DEF Unseen
    <2>2. Unseen(pub.frame.seq)'
      BY <1>2, <2>1 DEF Unseen
    <2> QED
      BY <1>1, <1>2, <1>3, <1>5, <2>2 DEF BufferPublished
  <1> QED
    BY <1>7, <1>8, <1>9, <1>10, <1>11 DEF BufferInv

\* The memcpy, from the caller's memory or from a buffer that may be in another
\* slot, writes only under the in_progress word.
LEMMA StorePayloadBuffer ==
    ASSUME OneBuffer, BufferInv, TypeInv', NEW w \in Words, StorePayload(w)
    PROVE  BufferInv'
  <1> DEFINE n == pub.frame.seq
             p == pub.frame.pool
             i == PubSlot
  <1>1. /\ pub.busy /\ pub.in_progress /\ w \in 1 .. pub.frame.len /\ w \notin pub.stored
        /\ UNCHANGED <<seq_commit, header, next_seq, claims, rd>>
    BY DEF StorePayload, CanStorePayload, OneBuffer, Tso
  <1>2. /\ pub'.busy /\ pub'.frame = pub.frame /\ pub'.src = pub.src /\ pub'.in_progress
        /\ pub'.stored = pub.stored \cup {w}
        /\ pub'.fields = pub.fields /\ pub'.committed = pub.committed
        /\ PubSlot' = PubSlot
    BY <1>1, BufferTyped DEF StorePayload, PubRecords, PubSlot
  <1>3. ~pub.committed /\ seq_commit[i] = 2 * n /\ Unseen(n)
    BY <1>1 DEF BufferInv, BufferPublished, PayloadStored
  <1>4. /\ i \in Slots /\ p \in Pools /\ n \in Nat /\ TypeOK /\ pub.src \in Slots \cup {NoSeq}
        /\ payload \in [Pools -> [Slots -> [Words -> Seqs]]]
        /\ pub.stored \subseteq Words /\ 1 .. pub.frame.len \subseteq Words
    BY <1>1, BufferCall
  <1>5. /\ pub.src # NoSeq => \A v \in 1 .. pub.frame.len : payload[p][pub.src][v] = n
        /\ \A v \in pub.stored : payload[p][i][v] = n
        /\ \A v \in pub.fields : header[i][v] = pub.frame
    BY <1>1 DEF BufferInv, BufferPublished
  <1>6. payload' = [payload EXCEPT ![p][i][w] = n]
    <2>1. payload' = [payload EXCEPT ![p][i][w] = IF pub.src = NoSeq THEN n ELSE payload[p][pub.src][w]]
      BY DEF StorePayload
    <2>2. (IF pub.src = NoSeq THEN n ELSE payload[p][pub.src][w]) = n
      BY <1>1, <1>5
    <2> QED
      BY <2>1, <2>2
  <1>7. ~tp_seq_is_committed(seq_commit[i])
    BY <1>3, <1>4, MarkIsNoCommit
  <1> HIDE DEF n, p, i
  <1>8. /\ payload'[p][i][w] = n
        /\ \A v \in Words \ {w} : payload'[p][i][v] = payload[p][i][v]
        /\ \A q \in Pools, j \in Slots \ {i} : payload'[q][j] = payload[q][j]
    BY <1>4, <1>6
  <1>9. CommitBounded'
    BY <1>1 DEF BufferInv, CommitBounded
  <1>10. CommittedFrameIntact'
    BY <1>1, <1>4, <1>7, <1>8, IntactElsewhere DEF BufferInv
  <1>11. ReadersTrust' /\ FirstsBounded'
    <2>1. \A j \in Slots : SlotMoves(j)
      BY <1>1 DEF SlotMoves
    <2> QED
      BY <1>1, <2>1, ReadersStay
  <1>12. \A c \in Claims : BufferHeld(c)'
    BY <1>1, <1>2, <1>8, HeldStays DEF i
  <1>13. BufferPublished'
    <2>1. \A v \in pub.stored \cup {w} : payload'[p][i][v] = n
      BY <1>4, <1>5, <1>8
    <2>2. pub.src # NoSeq => \A v \in 1 .. pub.frame.len : payload'[p][pub.src][v] = n
      <3> SUFFICES ASSUME pub.src \in Slots, NEW v \in 1 .. pub.frame.len, payload[p][pub.src][v] = n
                   PROVE  payload'[p][pub.src][v] = n
        BY <1>4, <1>5
      <3> QED
        BY <1>4, <1>8
    <2>3. Unseen(pub.frame.seq)'
      BY <1>1, <1>2, <1>3 DEF Unseen, n
    <2> QED
      BY <1>1, <1>2, <1>3, <1>5, <2>1, <2>2, <2>3 DEF BufferPublished, n, p, i
  <1> QED
    BY <1>9, <1>10, <1>11, <1>12, <1>13 DEF BufferInv

\* The header fields are stored under the same in_progress word.
LEMMA StoreHeaderBuffer ==
    ASSUME OneBuffer, BufferInv, TypeInv', NEW w \in HeaderWords, StoreHeader(w)
    PROVE  BufferInv'
  <1> DEFINE n == pub.frame.seq
             i == PubSlot
  <1>1. /\ pub.busy /\ pub.in_progress /\ w \notin pub.fields
        /\ UNCHANGED <<seq_commit, payload, next_seq, claims, rd>>
        /\ header' = [header EXCEPT ![i][w] = pub.frame]
    BY DEF StoreHeader, CanStoreHeader, OneBuffer, Tso
  <1>2. /\ pub'.busy /\ pub'.frame = pub.frame /\ pub'.src = pub.src /\ pub'.in_progress
        /\ pub'.stored = pub.stored
        /\ pub'.fields = pub.fields \cup {w} /\ pub'.committed = pub.committed
        /\ PubSlot' = PubSlot
    BY <1>1, BufferTyped DEF StoreHeader, PubRecords, PubSlot
  <1>3. ~pub.committed /\ seq_commit[i] = 2 * n /\ Unseen(n)
    BY <1>1 DEF BufferInv, BufferPublished, HeaderStored
  <1>4. /\ i \in Slots /\ n \in Nat /\ TypeOK /\ pub.fields \subseteq HeaderWords
        /\ header \in [Slots -> [HeaderWords -> Frames]]
    BY <1>1, BufferCall
  <1>5. /\ pub.src # NoSeq => \A v \in 1 .. pub.frame.len : payload[pub.frame.pool][pub.src][v] = n
        /\ \A v \in pub.stored : payload[pub.frame.pool][i][v] = n
        /\ \A v \in pub.fields : header[i][v] = pub.frame
    BY <1>1 DEF BufferInv, BufferPublished
  <1>6. ~tp_seq_is_committed(seq_commit[i])
    BY <1>3, <1>4, MarkIsNoCommit
  <1> HIDE DEF n, i
  <1>7. /\ header'[i][w] = pub.frame
        /\ \A v \in HeaderWords \ {w} : header'[i][v] = header[i][v]
        /\ \A j \in Slots \ {i} : header'[j] = header[j]
    BY <1>1, <1>4
  <1>8. CommitBounded'
    BY <1>1 DEF BufferInv, CommitBounded
  <1>9. CommittedFrameIntact'
    BY <1>1, <1>4, <1>6, <1>7, IntactElsewhere DEF BufferInv
  <1>10. ReadersTrust' /\ FirstsBounded'
    <2>1. \A j \in Slots : SlotMoves(j)
      BY <1>1, <1>6, <1>7 DEF SlotMoves
    <2> QED
      BY <1>1, <2>1, ReadersStay
  <1>11. \A c \in Claims : BufferHeld(c)'
    BY <1>1, <1>2, HeldStays
  <1>12. BufferPublished'
    <2>1. \A v \in pub.fields \cup {w} : header'[i][v] = pub.frame
      BY <1>4, <1>5, <1>7
    <2>2. Unseen(pub.frame.seq)'
      BY <1>1, <1>2, <1>3 DEF Unseen, n
    <2> QED
      BY <1>1, <1>2, <1>3, <1>5, <2>1, <2>2 DEF BufferPublished, n, i
  <1> QED
    BY <1>8, <1>9, <1>10, <1>11, <1>12 DEF BufferInv

\* At the commit every word of the slot belongs to the frame, and no reader has
\* met its commit word before.
LEMMA StoreCommittedBuffer ==
    ASSUME BufferInv, TypeInv', StoreCommitted
    PROVE  BufferInv'
  <1> DEFINE n == pub.frame.seq
  <1>1. /\ pub.busy /\ pub.in_progress /\ ~pub.committed
        /\ PayloadStored /\ HeaderStored
        /\ seq_commit' = [seq_commit EXCEPT ![PubSlot] = 2 * n + 1]
        /\ UNCHANGED <<header, payload, next_seq, claims, rd>>
    BY DEF StoreCommitted, CanCommit, tp_seq_committed
  <1>2. /\ pub'.busy /\ pub'.frame = pub.frame /\ pub'.src = pub.src /\ pub'.in_progress
        /\ pub'.stored = pub.stored /\ pub'.fields = pub.fields /\ pub'.committed
        /\ PubSlot' = PubSlot
    BY <1>1, BufferTyped DEF StoreCommitted, PubRecords, PubSlot
  <1>3. /\ PubSlot \in Slots /\ n \in Nat /\ n < next_seq /\ next_seq \in Nat
        /\ seq_commit \in [Slots -> Nat] /\ TypeOK
    BY <1>1, BufferCall
  <1>4. /\ seq_commit'[PubSlot] = 2 * n + 1
        /\ \A j \in Slots \ {PubSlot} : seq_commit'[j] = seq_commit[j]
    BY <1>1, <1>3
  <1>5. /\ pub.src # NoSeq => \A v \in 1 .. pub.frame.len : payload[pub.frame.pool][pub.src][v] = n
        /\ \A v \in 1 .. pub.frame.len : payload[pub.frame.pool][PubSlot][v] = n
        /\ \A v \in HeaderWords : header[PubSlot][v] = pub.frame
        /\ pub.stored = 1 .. pub.frame.len /\ pub.fields = HeaderWords
        /\ Unseen(n)
    BY <1>1 DEF BufferInv, BufferPublished, PayloadStored, HeaderStored
  <1>6. CommitBounded'
    BY <1>1, <1>3, <1>4 DEF BufferInv, CommitBounded
  <1>7. CommittedFrameIntact'
    <2>1. header[PubSlot]["pool_id"] = pub.frame
      BY <1>5 DEF HeaderWords
    <2>2. tp_seq_value(seq_commit'[PubSlot]) = n /\ SlotOf(n) = PubSlot
      BY <1>3, <1>4, CommitEncoding DEF PubSlot
    <2>3. LET f == header'[PubSlot]["pool_id"] IN
            /\ f.seq = tp_seq_value(seq_commit'[PubSlot])
            /\ SlotOf(f.seq) = PubSlot
            /\ \A w \in HeaderWords : header'[PubSlot][w] = f
            /\ \A w \in 1 .. f.len : payload'[f.pool][PubSlot][w] = f.seq
      BY <2>1, <2>2, <1>1, <1>5
    <2>4. CommittedFrameIntact
      BY DEF BufferInv
    <2> QED
      BY <2>3, <2>4, <1>1, <1>3, <1>4, IntactElsewhere
  <1>8. ReadersTrust' /\ FirstsBounded'
    <2>1. \A j \in Slots : SlotMoves(j)
      BY <1>1, <1>4, <1>5 DEF SlotMoves, Unseen
    <2> QED
      BY <1>1, <2>1, ReadersStay
  <1>9. \A c \in Claims : BufferHeld(c)'
    BY <1>1, <1>2, <1>4, HeldStays
  <1>10. BufferPublished'
    BY <1>1, <1>2, <1>4, <1>5 DEF BufferPublished, PayloadStored, HeaderStored
  <1> QED
    BY <1>6, <1>7, <1>8, <1>9, <1>10 DEF BufferInv

\* The descriptor is offered.
LEMMA PublishDescriptorBuffer ==
    ASSUME BufferInv, TypeInv', NEW offered \in BOOLEAN, PublishDescriptor(offered)
    PROVE  BufferInv'
  <1>1. ~pub'.busy /\ UNCHANGED <<seq_commit, header, payload, rd, next_seq, claims>>
    BY NoPubTyped DEF PublishDescriptor, memory
  <1>2. /\ CommitBounded' /\ CommittedFrameIntact' /\ ReadersTrust' /\ FirstsBounded'
        /\ \A seq : Unseen(seq)' <=> Unseen(seq)
    BY <1>1, NothingStored
  <1>3. \A c \in Claims : BufferHeld(c)'
    BY <1>1, <1>2 DEF BufferInv, BufferHeld
  <1>4. BufferPublished'
    BY <1>1 DEF BufferPublished
  <1> QED
    BY <1>2, <1>3, <1>4 DEF BufferInv

\* A load meets no frame that was not committed.
LEMMA ConsumerBuffer ==
    ASSUME OneBuffer, BufferInv, TypeInv', NEW c \in Consumers, ConsumerStep(c)
    PROVE  BufferInv'
  <1>1. /\ UNCHANGED <<memory, producer>>
        /\ \A d \in Consumers \ {c} : rd'[d] = rd[d]
        /\ ReaderTrusts(rd'[c], seq_commit[Index(c)'], header[Index(c)'])
        /\ ReaderLoads(rd[c], rd'[c], seq_commit[Index(c)], seq_commit[Index(c)'])
    BY BufferTyped, ConsumerTrusts DEF OneBuffer, BufferInv
  <1>2. UNCHANGED <<seq_commit, header, payload, next_seq, claims, pub>>
    BY <1>1 DEF memory, producer
  <1>3. Index(c)' \in Slots /\ seq_commit \in [Slots -> Nat]
    <2>1. rd'[c] \in ReaderRecords
      BY DEF TypeInv, TypeOK
    <2>2. rd'[c].seq \in Int
      BY <2>1 DEF ReaderRecords, Seqs, NoSeq
    <2> QED
      BY <2>2, BufferTyped, SlotInRing DEF Index
  <1>4. rd'[c].pc # "idle" =>
          \/ rd'[c].first = seq_commit[Index(c)']
          \/ rd[c].pc # "idle" /\ rd'[c].first = rd[c].first
    BY <1>1 DEF ReaderLoads
  <1>5. ASSUME NEW seq, Unseen(seq)
        PROVE  \A d \in Consumers : rd'[d].pc # "idle" => rd'[d].first # 2 * seq + 1
    <2> SUFFICES ASSUME NEW d \in Consumers, rd'[d].pc # "idle" PROVE rd'[d].first # 2 * seq + 1
      OBVIOUS
    <2>1. CASE d = c
      BY <2>1, <1>3, <1>4, <1>5 DEF Unseen
    <2>2. CASE d # c
      BY <2>2, <1>1, <1>5 DEF Unseen
    <2> QED
      BY <2>1, <2>2
  <1>6. ASSUME NEW d \in Consumers
        PROVE  ReaderTrusts(rd'[d], seq_commit'[Index(d)'], header'[Index(d)'])
    <2>1. CASE d = c
      BY <2>1, <1>1, <1>2
    <2>2. CASE d # c
      <3>1. rd'[d] = rd[d] /\ Index(d)' = Index(d)
        BY <2>2, <1>1 DEF Index
      <3> QED
        BY <3>1, <1>2 DEF BufferInv, ReadersTrust
    <2> QED
      BY <2>1, <2>2
  <1>7. ASSUME NEW d \in Consumers, rd'[d].pc # "idle"
        PROVE  rd'[d].first < 2 * next_seq
    <2>1. CASE d = c
      <3>1. tp_seq_is_committed(rd'[c].first)
        BY <2>1, <1>1, <1>7 DEF ReaderTrusts
      <3>2. ~tp_seq_is_committed(0)
        BY DEF tp_seq_is_committed
      <3>3. seq_commit[Index(c)'] = 0 \/ seq_commit[Index(c)'] < 2 * next_seq
        BY <1>3 DEF BufferInv, CommitBounded
      <3>4. rd[c].pc # "idle" => rd[c].first < 2 * next_seq
        BY DEF BufferInv, FirstsBounded
      <3> QED
        BY <2>1, <1>4, <1>7, <3>1, <3>2, <3>3, <3>4
    <2>2. CASE d # c
      BY <2>2, <1>1, <1>7 DEF BufferInv, FirstsBounded
    <2> QED
      BY <2>1, <2>2
  <1>8. ReadersTrust' /\ FirstsBounded'
    BY <1>2, <1>6, <1>7 DEF ReadersTrust, FirstsBounded
  <1>9. CommitBounded' /\ CommittedFrameIntact'
    BY <1>2 DEF BufferInv, CommitBounded, CommittedFrameIntact
  <1>10. ASSUME NEW d \in Claims PROVE BufferHeld(d)'
    <2>1. BufferHeld(d) /\ PubSlot' = PubSlot
      BY <1>2 DEF BufferInv, PubSlot
    <2>2. Unseen(claims[d].seq) => Unseen(claims[d].seq)'
      BY <1>2, <1>5 DEF Unseen
    <2> QED
      BY <1>2, <2>1, <2>2 DEF BufferHeld
  <1>11. BufferPublished'
    <2>1. /\ BufferPublished /\ PubSlot' = PubSlot
          /\ PayloadStored' = PayloadStored /\ HeaderStored' = HeaderStored
      BY <1>2 DEF BufferInv, PubSlot, PayloadStored, HeaderStored
    <2>2. Unseen(pub.frame.seq) => Unseen(pub.frame.seq)'
      BY <1>2, <1>5 DEF Unseen
    <2> QED
      BY <1>2, <2>1, <2>2 DEF BufferPublished
  <1> QED
    BY <1>8, <1>9, <1>10, <1>11 DEF BufferInv

\* The invariant holds of a freshly created region.
LEMMA BufferInit == Init => BufferInv
  <1> SUFFICES ASSUME Init PROVE BufferInv
    OBVIOUS
  <1>1. TypeInv
    BY TypeInit
  <1>2. /\ \A i \in Slots : seq_commit[i] = 0
        /\ \A c \in Claims : claims[c].state = "free"
        /\ ~pub.busy
        /\ \A c \in Consumers : rd[c].pc = "idle"
    BY NoClaimTyped, NoPubTyped DEF Init, IdleReader
  <1>3. CommitBounded /\ CommittedFrameIntact
    BY <1>2 DEF CommitBounded, CommittedFrameIntact, tp_seq_is_committed
  <1>4. (\A c \in Claims : BufferHeld(c)) /\ BufferPublished
    BY <1>2 DEF BufferHeld, BufferPublished
  <1>5. ReadersTrust /\ FirstsBounded
    BY <1>2 DEF ReadersTrust, ReaderTrusts, FirstsBounded
  <1> QED
    BY <1>1, <1>3, <1>4, <1>5 DEF BufferInv

\* Every step keeps the invariant.
LEMMA BufferNext == OneBuffer /\ BufferInv /\ [Next]_vars => BufferInv'
  <1> SUFFICES ASSUME OneBuffer, BufferInv, [Next]_vars PROVE BufferInv'
    OBVIOUS
  <1>1. TypeInv'
    BY TypeNext DEF BufferInv
  <1>2. ASSUME NEW c \in Claims, NEW length \in Lengths, NEW pool \in Pools, TryClaim(c, length, pool)
        PROVE  BufferInv'
    <2>1. /\ ~pub.busy /\ pub' = pub /\ UNCHANGED <<header, payload, rd>> /\ next_seq' = next_seq + 1
          /\ seq_commit' = [seq_commit EXCEPT ![SlotOf(next_seq)] = 2 * next_seq]
      BY <1>2 DEF TryClaim, CanStart, tp_seq_in_progress
    <2>2. SlotOf(next_seq) \in Slots
      BY BufferTyped, SlotInRing
    <2>3. /\ claims'[c].seq = next_seq /\ claims'[c].header_index = SlotOf(next_seq)
          /\ claims'[c].filled = {}
      BY <1>2, BufferTyped DEF TryClaim
    <2> QED
      BY <1>1, <2>1, <2>2, <2>3, BufferOpened
  <1>3. ASSUME NEW c \in Claims, QueueClaim(c) PROVE BufferInv'
    <2>1. /\ ~pub.busy /\ pub' = pub /\ UNCHANGED <<header, payload, rd>> /\ next_seq' = next_seq + 1
          /\ seq_commit' = [seq_commit EXCEPT ![claims[c].header_index] = 2 * next_seq]
      BY <1>3 DEF QueueClaim, CanStart, tp_seq_in_progress
    <2>2. claims[c].header_index \in Slots /\ claims \in [Claims -> ClaimRecords]
      BY BufferTyped
    <2>3. /\ claims'[c].seq = next_seq /\ claims'[c].header_index = claims[c].header_index
          /\ claims'[c].filled = {}
      BY <1>3, <2>2 DEF QueueClaim, ClaimRecords
    <2> QED
      BY <1>1, <2>1, <2>2, <2>3, BufferOpened
  <1>4. CASE ProducerCall
    BY <1>1, <1>2, <1>3, <1>4, OfferBuffer, OfferInvalidBuffer, FillBuffer, CommitBuffer, AbortBuffer
       DEF ProducerCall
  <1>5. CASE PublishStep
    BY <1>1, <1>5, StoreInProgressBuffer, StorePayloadBuffer, StoreHeaderBuffer, StoreCommittedBuffer,
       PublishDescriptorBuffer DEF PublishStep
  <1>6. CASE \E c \in Consumers : ConsumerStep(c)
    BY <1>1, <1>6, ConsumerBuffer
  <1>7. CASE UNCHANGED vars
    <2>1. UNCHANGED <<seq_commit, header, payload, rd, next_seq, claims, pub>>
      BY <1>7 DEF vars
    <2>2. /\ CommitBounded' /\ CommittedFrameIntact' /\ ReadersTrust' /\ FirstsBounded'
          /\ \A seq : Unseen(seq)' <=> Unseen(seq)
      BY <1>1, <2>1, NothingStored
    <2>3. (\A c \in Claims : BufferHeld(c)') /\ BufferPublished'
      BY <2>1, <2>2 DEF BufferInv, BufferHeld, BufferPublished, PubSlot, PayloadStored, HeaderStored
    <2> QED
      BY <1>1, <2>2, <2>3 DEF BufferInv
  <1> QED
    BY <1>4, <1>5, <1>6, <1>7 DEF Next

\* Every reachable state of a ring with one buffer satisfies the invariant.
THEOREM BufferCorrect == ASSUME OneBuffer PROVE Spec => []BufferInv
  <1>1. Init => BufferInv
    BY BufferInit
  <1>2. BufferInv /\ [Next]_vars => BufferInv'
    BY BufferNext
  <1> QED
    BY <1>1, <1>2, PTL DEF Spec

\* With one claim handle, queued again and again in fixed-pool mode or not, a
\* slot whose commit word says COMMITTED holds one frame, although a claim may
\* publish into a slot other than its own and take commit words back.
THEOREM BufferIntact == ASSUME OneBuffer PROVE Spec => []CommittedFrameIntact
  <1>1. BufferInv => CommittedFrameIntact
    BY DEF BufferInv
  <1> QED
    BY <1>1, BufferCorrect, PTL

\* There too read_frame and validate_progress accept no mixture of two frames.
THEOREM BufferUntorn == ASSUME OneBuffer PROVE Spec => []AcceptedHeaderUntorn
  <1>1. BufferInv => AcceptedHeaderUntorn
    BY TrustImplies DEF BufferInv, TypeInv
  <1> QED
    BY <1>1, BufferCorrect, PTL

\* There too a commit word that is unchanged after the payload was used means
\* that it was the frame's own.
THEOREM BufferRecheck == ASSUME OneBuffer PROVE Spec => []UnchangedCommitMeansIntactPayload
  <1>1. BufferInv => UnchangedCommitMeansIntactPayload
    BY TrustImplies DEF BufferInv, TypeInv
  <1> QED
    BY <1>1, BufferCorrect, PTL

=============================================================================
