------------------------ MODULE ConsumerMappingProofs ------------------------
(***************************************************************************)
(* What a consumer has mapped, and what it counts, for any number of       *)
(* epochs, frames, waiting messages and faults.                            *)
(***************************************************************************)
EXTENDS ConsumerMapping, SequenceTheorems, FiniteSetTheorems, WellFoundedInduction, TLAPS

-----------------------------------------------------------------------------
(* The inductive invariant                                                 *)

\* The epochs and the frames of the stream.
Epochs == 1 .. MaxEpoch
Seqs == 0 .. MaxSeq

\* The types of the consumer, of what waits for it and of the stream.
ConsumerRecord ==
    [state : {"UNMAPPED", "MAPPED", "FALLBACK"}, mapped : 0 .. MaxEpoch, lastSeq : Seqs, gap : Seqs,
     young : BOOLEAN, pid : 0 .. 2, lastAnnounce : 0 .. MaxEpoch, joined : BOOLEAN, useShm : BOOLEAN,
     fallback : BOOLEAN, attached : BOOLEAN, handed : SUBSET Seqs]
AnnounceRecord == [epoch : Epochs, content : {"ok", "malformed", "layout"}, counts : BOOLEAN]
DescriptorRecord == [epoch : Epochs, seq : Seqs]
WorldRecord ==
    [epoch : Epochs, next : 0 .. MaxSeq + 1, regions : [Epochs -> RegionKinds], owner : [Epochs -> 1 .. 2],
     quiet : SUBSET Epochs]

\* What waits is bounded.
Shape ==
    /\ announces \in Seq(AnnounceRecord) /\ Len(announces) <= MaxQueue
    /\ descriptors \in Seq(DescriptorRecord) /\ Len(descriptors) <= MaxQueue
    /\ world \in WorldRecord /\ faults \in 0 .. MaxFaults

\* What is mapped, in stream w: an epoch that was there, with sound regions, the last
\* one the consumer took an announce of.  What is not mapped has no counters.
Mapping(c, w) ==
    /\ c.state = "MAPPED" <=> c.mapped # 0
    /\ c.state = "MAPPED" => c.lastAnnounce = c.mapped /\ c.mapped <= w.epoch /\ w.regions[c.mapped] = "sound"
    /\ c.state # "MAPPED" => c.lastSeq = 0 /\ c.gap = 0 /\ ~c.young /\ c.handed = {}

\* The frames after the first one handed (frame 0 aside) that were not handed, up to
\* the one last.
Missed(handed, last) == {s \in 1 .. last : s \notin handed /\ \E r \in handed \ {0} : r < s}

\* The last frame handed is the greatest, and the gap counts the missed ones.
Counted(c) ==
    /\ \A s \in c.handed : s <= c.lastSeq
    /\ c.lastSeq # 0 => c.lastSeq \in c.handed
    /\ c.gap = Cardinality(Missed(c.handed, c.lastSeq)) /\ c.gap <= c.lastSeq

\* What holds of consumer c in stream w.
ConsumerSound(c, w) == c \in ConsumerRecord /\ Mapping(c, w) /\ Counted(c)

\* Nobody speaks of an epoch to come.
EpochsKnown ==
    /\ \A i \in DOMAIN announces : announces[i].epoch <= world.epoch
    /\ answer \in 0 .. world.epoch

\* The descriptors of an epoch wait in the order of their frames, all of them published.
DescriptorsOrdered ==
    /\ \A i \in DOMAIN descriptors : \A j \in DOMAIN descriptors :
         i < j /\ descriptors[i].epoch = descriptors[j].epoch => descriptors[i].seq < descriptors[j].seq
    /\ \A i \in DOMAIN descriptors :
         /\ descriptors[i].epoch <= world.epoch
         /\ descriptors[i].epoch = world.epoch => descriptors[i].seq < world.next

\* What was handed is older than what waits and what will be published.
Behind(c, ds, w) ==
    \A s \in c.handed :
        /\ \A i \in DOMAIN ds : ds[i].epoch = c.mapped => s < ds[i].seq
        /\ c.mapped = w.epoch => s < w.next

\* The inductive invariant.
IInv ==
    /\ Shape /\ EpochsKnown /\ DescriptorsOrdered
    /\ ConsumerSound(consumer, world) /\ Behind(consumer, descriptors, world)
-----------------------------------------------------------------------------
(* Counting                                                                *)

\* Where nothing was handed yet nothing is missed.
LEMMA NothingMissed ==
    /\ Missed({}, 0) = {} /\ Cardinality({}) = 0
  BY FS_EmptySet DEF Missed

\* One more frame, after all the others: what is missed grows by the frames between.
LEMMA CountSound ==
    ASSUME NEW c \in ConsumerRecord, Counted(c), NEW seq \in Seqs, \A s \in c.handed : s < seq
    PROVE  /\ Count(c, seq) \in ConsumerRecord /\ Counted(Count(c, seq))
           /\ Count(c, seq).state = c.state /\ Count(c, seq).mapped = c.mapped
           /\ Count(c, seq).lastAnnounce = c.lastAnnounce
           /\ Count(c, seq).handed = c.handed \cup {seq}
  <1> DEFINE last == c.lastSeq
             handed == c.handed
             gap == IF last # 0 /\ seq > last + 1 THEN c.gap + (seq - last - 1) ELSE c.gap
             newest == IF seq > last THEN seq ELSE last
             more == handed \cup {seq}
             n == Count(c, seq)
  <1>1. /\ last \in Nat /\ last <= MaxSeq /\ c.gap \in Nat /\ c.gap <= last /\ seq \in Nat /\ seq <= MaxSeq
        /\ handed \subseteq Nat /\ handed \in SUBSET Seqs
        /\ \A s \in handed : s <= last
        /\ last # 0 => last \in handed
        /\ c.gap = Cardinality(Missed(handed, last)) /\ MaxSeq \in Nat
    BY BoundsAssumption DEF ConsumerRecord, Seqs, Counted
  <1>2. /\ n = [c EXCEPT !.gap = gap, !.lastSeq = newest, !.handed = more]
    BY DEF Count, ConsumerRecord
  <1> HIDE DEF n
  <1>3. gap \in Nat /\ newest \in Nat /\ gap <= newest /\ newest <= MaxSeq /\ more \in SUBSET Seqs
    BY <1>1
  <1>4. gap \in Seqs /\ newest \in Seqs
    BY <1>1, <1>3 DEF Seqs
  <1> HIDE DEF gap, newest, more
  <1>5. /\ n \in ConsumerRecord /\ n.gap = gap /\ n.lastSeq = newest /\ n.handed = more
        /\ n.state = c.state /\ n.mapped = c.mapped /\ n.lastAnnounce = c.lastAnnounce
    BY <1>2, <1>3, <1>4 DEF ConsumerRecord
  <1>6. (\A s \in more : s <= newest) /\ (newest # 0 => newest \in more)
    BY <1>1 DEF more, newest
  <1>7. gap = Cardinality(Missed(more, newest))
    <2>1. CASE last = 0
      <3>1. handed \subseteq {0} /\ gap = c.gap /\ newest = seq /\ c.gap = 0
        BY <1>1, <2>1 DEF gap, newest
      <3>2. more \ {0} \subseteq {seq}
        BY <3>1 DEF more
      <3>3. Missed(more, newest) = {}
        BY <1>1, <3>1, <3>2 DEF Missed
      <3> QED BY <3>1, <3>3, FS_EmptySet
    <2>2. CASE last # 0
      <3>1. seq > last /\ newest = seq /\ last \in handed \ {0}
        BY <1>1, <2>2 DEF newest
      <3> DEFINE old == Missed(handed, last)
                 between == last + 1 .. seq - 1
      <3>2. Missed(more, newest) = old \cup between
        <4>1. \A s \in Missed(more, newest) : s \in old \cup between
          BY <1>1, <3>1 DEF Missed, more
        <4>2. \A s \in old : s \in Missed(more, newest)
          BY <1>1, <3>1 DEF Missed, more
        <4>3. \A s \in between : s \in Missed(more, newest)
          BY <1>1, <3>1 DEF Missed, more
        <4> QED BY <4>1, <4>2, <4>3
      <3>3. old \cap between = {}
        BY <1>1 DEF Missed
      <3>4. IsFiniteSet(between) /\ Cardinality(between) = seq - last - 1
        <4>1. last + 1 \in Int /\ seq - 1 \in Int
          BY <1>1
        <4>2. IsFiniteSet(between) /\ Cardinality(between) = IF last + 1 > seq - 1 THEN 0 ELSE (seq - 1) - (last + 1) + 1
          BY <4>1, FS_Interval
        <4> QED BY <1>1, <3>1, <4>2
      <3>5. IsFiniteSet(old)
        <4>1. 1 \in Int /\ last \in Int
          BY <1>1
        <4>2. IsFiniteSet(1 .. last)
          BY <4>1, FS_Interval
        <4> QED BY <4>2, FS_Subset DEF Missed
      <3> HIDE DEF old, between
      <3>6. Cardinality(old \cup between) = Cardinality(old) + Cardinality(between)
        <4>1. Cardinality(old \cup between) = Cardinality(old) + Cardinality(between) - Cardinality(old \cap between)
          BY <3>4, <3>5, FS_Union
        <4>2. Cardinality(old \cap between) = 0
          BY <3>3, FS_EmptySet
        <4>3. Cardinality(old) \in Nat /\ Cardinality(between) \in Nat
          BY <3>4, <3>5, FS_CardinalityType
        <4> QED BY <4>1, <4>2, <4>3
      <3>7. Cardinality(old) = c.gap
        BY <1>1 DEF old
      <3> QED BY <1>1, <2>2, <3>1, <3>2, <3>4, <3>6, <3>7 DEF gap
    <2> QED BY <2>1, <2>2
  <1>8. Counted(n)
    BY <1>3, <1>5, <1>6, <1>7 DEF Counted
  <1> QED BY <1>5, <1>8 DEF n, more

\* Between the first and the last frame handed lie the missed ones.
LEMMA GapIsMissed ==
    ASSUME NEW c \in ConsumerRecord, Counted(c), c.handed \ {0} # {}
    PROVE  Missed(c.handed, c.lastSeq)
             = {s \in Min(c.handed \ {0}) .. Max(c.handed \ {0}) : s \notin c.handed \ {0}}
  <1> DEFINE handed == c.handed \ {0}
             last == c.lastSeq
  <1>1. /\ last \in Nat /\ handed \subseteq Nat \ {0} /\ (\A s \in handed : s <= last)
        /\ last # 0 => last \in handed
    BY BoundsAssumption DEF ConsumerRecord, Seqs, Counted
  <1>2. last \in handed
    BY <1>1
  <1>3. PICK m \in handed : \A s \in handed : m <= s
    <2>1. PICK m \in handed : \A s \in handed : ~(<<s, m>> \in OpToRel(<, Nat))
      BY <1>1, <1>2, NatLessThanWellFounded, WFMin
    <2>2. \A s \in handed : ~(s < m)
      BY <1>1, <2>1 DEF OpToRel
    <2> QED BY <1>1, <2>2
  <1>4. Min(handed) = m
    <2>1. Min(handed) \in handed /\ \A s \in handed : Min(handed) <= s
      BY <1>3 DEF Min
    <2> QED BY <1>1, <1>3, <2>1
  <1>5. Max(handed) = last
    <2>1. Max(handed) \in handed /\ \A s \in handed : Max(handed) >= s
      BY <1>1, <1>2 DEF Max
    <2> QED BY <1>1, <1>2, <2>1
  <1>6. m \in Nat \ {0}
    BY <1>1, <1>3
  <1> DEFINE between == {s \in m .. last : s \notin handed}
  <1>7. \A s \in Missed(c.handed, last) : s \in between
    <2> TAKE s \in Missed(c.handed, last)
    <2>1. s \in 1 .. last /\ s \notin handed /\ \E r \in handed : r < s
      BY DEF Missed
    <2> QED BY <1>1, <1>3, <1>6, <2>1
  <1>8. \A s \in between : s \in Missed(c.handed, last)
    <2> TAKE s \in between
    <2>1. s \in 1 .. last /\ s \notin c.handed /\ m < s
      BY <1>1, <1>3, <1>6
    <2> QED BY <1>3, <2>1 DEF Missed
  <1>9. Missed(c.handed, last) = between
    BY <1>7, <1>8
  <1> QED BY <1>4, <1>5, <1>9
-----------------------------------------------------------------------------
(* The operations on the consumer                                          *)

\* Only sound regions of the epoch pass for what is said of them.
LEMMA OnlySoundMaps ==
    ASSUME NEW e \in Epochs PROVE MapsKind[e] = {"sound"}
  <1>1. e \in Nat /\ e - 1 # e
    BY BoundsAssumption DEF Epochs
  <1>2. StrideAligned(64)
    BY DEF StrideAligned
  <1> DEFINE passes(k) == /\ ValidateSuperblock(HeaderFound(e, k), Superblock(e, "HEADER"))
                          /\ StrideAligned(Superblock(e, "POOL").stride)
                          /\ ValidateSuperblock(PoolFound(e, k), Superblock(e, "POOL"))
  <1>3. passes("sound")
    BY <1>2 DEF ValidateSuperblock, HeaderFound, PoolFound, Superblock
  <1>4. ~passes("missing")
    BY DEF ValidateSuperblock, HeaderFound, Superblock
  <1>5. ~passes("older")
    BY <1>1 DEF ValidateSuperblock, PoolFound, Superblock
  <1>6. ~passes("wider")
    BY DEF ValidateSuperblock, PoolFound, Superblock
  <1>7. MapsKind[e] = {k \in RegionKinds : passes(k)}
    BY DEF MapsKind, Epochs
  <1> HIDE DEF passes
  <1> QED BY <1>3, <1>4, <1>5, <1>6, <1>7 DEF RegionKinds

\* tp_consumer_unmap_regions leaves nothing of a mapping.
LEMMA UnmapSound ==
    ASSUME NEW c \in ConsumerRecord
    PROVE  /\ UnmapRegions(c) \in ConsumerRecord
           /\ UnmapRegions(c).state = "UNMAPPED" /\ UnmapRegions(c).mapped = 0
           /\ UnmapRegions(c).lastSeq = 0 /\ UnmapRegions(c).gap = 0 /\ UnmapRegions(c).handed = {}
           /\ ~UnmapRegions(c).young
           /\ UnmapRegions(c).lastAnnounce = c.lastAnnounce /\ UnmapRegions(c).fallback = c.fallback
           /\ \A w : ConsumerSound(UnmapRegions(c), w)
  <1>1. 0 \in 0 .. MaxEpoch /\ 0 \in Seqs /\ 0 \in 0 .. 2 /\ {} \in SUBSET Seqs
    BY BoundsAssumption DEF Seqs
  <1>2. /\ UnmapRegions(c) \in ConsumerRecord
        /\ UnmapRegions(c).state = "UNMAPPED" /\ UnmapRegions(c).mapped = 0
        /\ UnmapRegions(c).lastSeq = 0 /\ UnmapRegions(c).gap = 0 /\ UnmapRegions(c).handed = {}
        /\ ~UnmapRegions(c).young
        /\ UnmapRegions(c).lastAnnounce = c.lastAnnounce /\ UnmapRegions(c).fallback = c.fallback
    BY <1>1 DEF ConsumerRecord, UnmapRegions
  <1>3. Counted(UnmapRegions(c))
    BY <1>2, NothingMissed DEF Counted
  <1> QED BY <1>2, <1>3 DEF ConsumerSound, Mapping

\* What maps nothing keeps nothing of a mapping, whatever else of it changes.
LEMMA UnmappedSound ==
    ASSUME NEW c \in ConsumerRecord, c.state # "MAPPED", c.mapped = 0, c.lastSeq = 0, c.gap = 0, c.handed = {},
           ~c.young, NEW w
    PROVE  ConsumerSound(c, w)
  BY NothingMissed DEF ConsumerSound, Mapping, Counted

\* tp_consumer_enter_fallback
LEMMA FallbackSound ==
    ASSUME NEW c \in ConsumerRecord
    PROVE  /\ EnterFallback(c) \in ConsumerRecord
           /\ EnterFallback(c).state = "FALLBACK" /\ EnterFallback(c).mapped = 0
           /\ EnterFallback(c).lastSeq = 0 /\ EnterFallback(c).gap = 0 /\ EnterFallback(c).handed = {}
           /\ ~EnterFallback(c).young
           /\ EnterFallback(c).lastAnnounce = c.lastAnnounce
  <1> DEFINE u == UnmapRegions(c)
  <1>1. /\ u \in ConsumerRecord /\ u.mapped = 0 /\ u.lastSeq = 0 /\ u.gap = 0 /\ u.handed = {} /\ ~u.young
        /\ u.lastAnnounce = c.lastAnnounce
    BY UnmapSound
  <1> HIDE DEF u
  <1>2. EnterFallback(c) = [u EXCEPT !.state = "FALLBACK"]
    BY DEF EnterFallback, u
  <1> QED BY <1>1, <1>2 DEF ConsumerRecord

\* tp_consumer_attach_config maps the epoch it was given, or nothing.
LEMMA AttachSound ==
    ASSUME Shape, NEW c \in ConsumerRecord, NEW e \in 1 .. world.epoch, NEW known \in BOOLEAN
    PROVE  LET a == AttachConfig(c, e, known)
           IN  /\ a \in ConsumerRecord /\ ConsumerSound(a, world) /\ a.handed = {}
               /\ a.state = "MAPPED" => a.mapped = e
               /\ a.state = "FALLBACK" => EnterFallback(c) = a
  <1> DEFINE a == AttachConfig(c, e, known)
             u == UnmapRegions(c)
  <1>1. e \in Epochs /\ e # 0 /\ e \in 0 .. MaxEpoch /\ e <= world.epoch
        /\ world.regions[e] \in RegionKinds /\ world.owner[e] \in 0 .. 2
    BY BoundsAssumption DEF Shape, WorldRecord, Epochs
  <1>2. /\ u \in ConsumerRecord /\ u.lastSeq = 0 /\ u.gap = 0 /\ u.handed = {}
        /\ u.state = "UNMAPPED" /\ ConsumerSound(u, world)
    BY UnmapSound
  <1>3. CASE known /\ Maps(e)
    <2>1. a = [u EXCEPT !.state = "MAPPED", !.mapped = e, !.young = TRUE, !.pid = world.owner[e], !.lastAnnounce = e]
      BY <1>3 DEF AttachConfig
    <2> HIDE DEF a, u
    <2>2. /\ a \in ConsumerRecord /\ a.state = "MAPPED" /\ a.mapped = e /\ a.lastAnnounce = e
          /\ a.lastSeq = 0 /\ a.gap = 0 /\ a.handed = {}
      BY <1>1, <1>2, <2>1 DEF ConsumerRecord
    <2>3. world.regions[e] = "sound"
      BY <1>1, <1>3, OnlySoundMaps DEF Maps
    <2>4. Counted(a)
      BY <2>2, NothingMissed DEF Counted
    <2>5. ConsumerSound(a, world)
      BY <1>1, <2>2, <2>3, <2>4 DEF ConsumerSound, Mapping
    <2> QED BY <2>2, <2>5 DEF a
  <1>4. CASE ~(known /\ Maps(e)) /\ c.fallback
    <2>1. a = EnterFallback(c)
      BY <1>4 DEF AttachConfig
    <2> QED BY <2>1, FallbackSound, UnmappedSound
  <1>5. CASE ~(known /\ Maps(e)) /\ ~c.fallback
    <2>1. a = u
      BY <1>5 DEF AttachConfig
    <2> QED BY <1>2, <2>1
  <1> QED BY <1>3, <1>4, <1>5

\* The checks at the end of a poll leave the consumer alone, or unmap it.
LEMMA CheckSound ==
    ASSUME NEW c, ConsumerSound(c, world), NEW ds, Behind(c, ds, world)
    PROVE  /\ ConsumerSound(CheckLiveness(c), world) /\ Behind(CheckLiveness(c), ds, world)
           /\ CheckLiveness(c).state = "MAPPED" => CheckLiveness(c) = c
  <1>1. CheckLiveness(c) = c \/ CheckLiveness(c) = UnmapRegions(c)
    BY DEF CheckLiveness
  <1>2. c \in ConsumerRecord
    BY DEF ConsumerSound
  <1> QED BY <1>1, <1>2, UnmapSound DEF Behind
\* An announce leaves the consumer alone, unmaps it, or has it map the epoch announced,
\* which is no older than the last one taken.
LEMMA AnnounceSound ==
    ASSUME Shape, NEW c, ConsumerSound(c, world), NEW ds, Behind(c, ds, world),
           NEW a \in AnnounceRecord, a.epoch <= world.epoch
    PROVE  /\ ConsumerSound(HandleAnnounce(c, a), world) /\ Behind(HandleAnnounce(c, a), ds, world)
           /\ HandleAnnounce(c, a).state = "MAPPED" => HandleAnnounce(c, a).mapped >= c.lastAnnounce
  <1> DEFINE other == IF c.state = "MAPPED" /\ a.epoch # c.mapped THEN UnmapRegions(c) ELSE c
             known == a.content # "layout"
             att == AttachConfig(other, a.epoch, known)
             h == HandleAnnounce(c, a)
  <1>0. /\ a.epoch \in 1 .. world.epoch /\ known \in BOOLEAN /\ a.epoch \in 0 .. MaxEpoch /\ world.epoch \in Nat
        /\ c \in ConsumerRecord /\ c.lastAnnounce \in Nat
    BY BoundsAssumption DEF AnnounceRecord, Shape, WorldRecord, Epochs, ConsumerSound, ConsumerRecord
  <1>1. /\ other \in ConsumerRecord /\ ConsumerSound(other, world) /\ Behind(other, ds, world)
        /\ other.lastAnnounce = c.lastAnnounce
    BY <1>0, UnmapSound DEF Behind
  <1>2. c.state = "MAPPED" => c.mapped = c.lastAnnounce
    BY DEF ConsumerSound, Mapping
  <1>3. other.state = "MAPPED" => other.mapped = c.lastAnnounce
    BY <1>0, <1>2, UnmapSound
  <1>4. /\ att \in ConsumerRecord /\ ConsumerSound(att, world) /\ att.handed = {}
        /\ att.state = "MAPPED" => att.mapped = a.epoch
        /\ att.state = "FALLBACK" => EnterFallback(other) = att
    <2> HIDE DEF other, known
    <2> QED BY <1>0, <1>1, AttachSound
  <1>5. h = c \/ h = other \/ (Accepts(c, a) /\ h = ApplyAnnounce(other, a))
    BY DEF HandleAnnounce
  <1>6. ApplyAnnounce(other, a) = IF a.content = "malformed" THEN other
                                  ELSE IF att.state = "FALLBACK" THEN [att EXCEPT !.lastAnnounce = a.epoch] ELSE att
    BY DEF ApplyAnnounce
  <1> HIDE DEF other, known, h
  <1>7. CASE h = c \/ h = other
    BY <1>0, <1>1, <1>2, <1>3, <1>7 DEF h
  <1>8. CASE Accepts(c, a) /\ h = att
    <2>1. a.epoch >= c.lastAnnounce
      BY <1>8 DEF Accepts
    <2> QED BY <1>4, <1>8, <2>1 DEF Behind, h
  <1>9. CASE att.state = "FALLBACK" /\ h = [att EXCEPT !.lastAnnounce = a.epoch]
    <2>1. /\ att \in ConsumerRecord /\ att.state = "FALLBACK" /\ att.mapped = 0 /\ att.lastSeq = 0 /\ att.gap = 0
          /\ att.handed = {} /\ ~att.young
      BY <1>1, <1>4, <1>9, FallbackSound
    <2> HIDE DEF att
    <2>2. /\ h \in ConsumerRecord /\ h.state = "FALLBACK" /\ h.mapped = 0 /\ h.lastSeq = 0 /\ h.gap = 0
          /\ h.handed = {} /\ ~h.young
      BY <1>0, <1>9, <2>1 DEF ConsumerRecord
    <2>3. ConsumerSound(h, world) /\ Behind(h, ds, world)
      BY <2>2, UnmappedSound DEF Behind
    <2> QED BY <2>2, <2>3 DEF h
  <1> QED BY <1>5, <1>6, <1>7, <1>8, <1>9

\* A frame is handed only if it comes after all that were handed.
LEMMA DescriptorSound ==
    ASSUME Shape, DescriptorsOrdered, ConsumerSound(consumer, world), Behind(consumer, descriptors, world),
           descriptors # <<>>
    PROVE  LET c == HandleDescriptor(consumer, Head(descriptors))
           IN  /\ ConsumerSound(c, world) /\ Behind(c, Tail(descriptors), world)
               /\ c.state = "MAPPED" => consumer.state = "MAPPED" /\ c.mapped = consumer.mapped
  <1> DEFINE d == Head(descriptors)
             rest == Tail(descriptors)
             c == HandleDescriptor(consumer, d)
  <1>1. /\ Len(descriptors) \in Nat /\ Len(descriptors) >= 1 /\ DOMAIN descriptors = 1 .. Len(descriptors)
        /\ d = descriptors[1] /\ d \in DescriptorRecord
        /\ rest \in Seq(DescriptorRecord) /\ Len(rest) = Len(descriptors) - 1 /\ DOMAIN rest = 1 .. Len(descriptors) - 1
        /\ \A i \in 1 .. Len(descriptors) - 1 : rest[i] = descriptors[i + 1]
    BY HeadTailProperties, LenProperties, EmptySeq DEF Shape
  <1>2. \A i \in DOMAIN rest : i + 1 \in DOMAIN descriptors /\ rest[i] = descriptors[i + 1] /\ 1 < i + 1
    BY <1>1
  <1>3. Behind(consumer, rest, world)
    BY <1>2 DEF Behind
  <1>4. consumer \in ConsumerRecord
    BY DEF ConsumerSound
  <1>5. CASE consumer.state # "MAPPED"
    BY <1>3, <1>5 DEF HandleDescriptor
  <1>6. CASE consumer.state = "MAPPED" /\ d.epoch # consumer.mapped
    BY <1>4, <1>6, UnmapSound DEF HandleDescriptor, Behind
  <1>7. CASE consumer.state = "MAPPED" /\ d.epoch = consumer.mapped
    <2>1. c = Count(consumer, d.seq)
      BY <1>7 DEF HandleDescriptor
    <2>2. d.seq \in Seqs /\ 1 \in DOMAIN descriptors
      BY <1>1 DEF DescriptorRecord
    <2>3. \A s \in consumer.handed : s < d.seq
      BY <1>1, <1>7, <2>2 DEF Behind
    <2>4. /\ c \in ConsumerRecord /\ Counted(c) /\ c.state = "MAPPED" /\ c.mapped = consumer.mapped
          /\ c.lastAnnounce = consumer.lastAnnounce /\ c.handed = consumer.handed \cup {d.seq}
      BY <1>4, <1>7, <2>1, <2>2, <2>3, CountSound DEF ConsumerSound
    <2> HIDE DEF c
    <2>5. ConsumerSound(c, world)
      BY <1>7, <2>4 DEF ConsumerSound, Mapping
    <2>6. \A i \in DOMAIN rest : rest[i].epoch = c.mapped => d.seq < rest[i].seq
      BY <1>1, <1>2, <1>7, <2>2, <2>4 DEF DescriptorsOrdered
    <2>7. c.mapped = world.epoch => d.seq < world.next
      BY <1>1, <1>7, <2>2, <2>4 DEF DescriptorsOrdered
    <2>8. Behind(c, rest, world)
      BY <1>3, <2>4, <2>6, <2>7 DEF Behind
    <2> QED BY <1>7, <2>4, <2>5, <2>8 DEF c
  <1> QED BY <1>5, <1>6, <1>7

\* Fields that have nothing to do with the mapping may change.
LEMMA Unconcerned ==
    ASSUME NEW c, NEW w, NEW ds, ConsumerSound(c, w), Behind(c, ds, w), NEW n \in ConsumerRecord,
           n.state = c.state, n.mapped = c.mapped, n.lastSeq = c.lastSeq, n.gap = c.gap,
           n.young => c.young, n.lastAnnounce = c.lastAnnounce, n.handed = c.handed
    PROVE  ConsumerSound(n, w) /\ Behind(n, ds, w)
  <1>1. Mapping(n, w)
    BY DEF ConsumerSound, Mapping
  <1>2. Counted(n)
    BY DEF ConsumerSound, Counted
  <1> QED BY <1>1, <1>2 DEF ConsumerSound, Behind

-----------------------------------------------------------------------------
(* The actions                                                             *)

\* The initial state satisfies the invariant.
LEMMA Initial == Init => IInv
  <1> SUFFICES ASSUME Init PROVE IInv
    OBVIOUS
  <1>1. <<>> \in Seq(AnnounceRecord) /\ <<>> \in Seq(DescriptorRecord) /\ Len(<<>>) = 0 /\ DOMAIN <<>> = {}
    BY EmptySeq
  <1>2. 1 \in Epochs /\ 0 \in 0 .. MaxSeq + 1 /\ 0 \in 0 .. MaxEpoch /\ 0 \in Seqs /\ 0 \in 0 .. MaxFaults /\ 0 <= MaxQueue
    BY BoundsAssumption DEF Epochs, Seqs
  <1>3. world \in WorldRecord /\ world.epoch = 1
    BY <1>2 DEF Init, WorldRecord, Epochs, RegionKinds
  <1>4. Shape
    BY <1>1, <1>2, <1>3 DEF Init, Shape
  <1>5. EpochsKnown /\ DescriptorsOrdered
    BY <1>1, <1>3 DEF Init, EpochsKnown, DescriptorsOrdered
  <1>6. /\ consumer \in ConsumerRecord /\ consumer.state = "UNMAPPED" /\ consumer.mapped = 0 /\ consumer.lastSeq = 0
        /\ consumer.gap = 0 /\ consumer.handed = {} /\ ~consumer.young
    BY <1>2 DEF Init, Opened, ConsumerRecord
  <1>7. ConsumerSound(consumer, world) /\ Behind(consumer, descriptors, world)
    BY <1>6, UnmappedSound DEF Behind
  <1> QED BY <1>4, <1>5, <1>7 DEF IInv

\* The head of the announces is applied or ignored.
LEMMA PollAnnounceStep ==
    ASSUME IInv, PollAnnounce
    PROVE  IInv' /\ (consumer'.state = "MAPPED" => consumer'.mapped >= consumer.lastAnnounce)
  <1>1. PICK monotonic \in BOOLEAN :
          LET joins == consumer.useShm /\ ~ consumer.joined
              queue == IF joins /\ monotonic THEN Join(announces) ELSE announces
              c == [consumer EXCEPT !.joined = @ \/ joins]
          IN  /\ consumer' = CheckLiveness(HandleAnnounce(c, Head(queue)))
              /\ announces' = Tail(queue)
    BY DEF PollAnnounce
  <1>2. announces # <<>> /\ UNCHANGED <<descriptors, answer, world, faults>>
    BY DEF PollAnnounce
  <1> DEFINE joins == consumer.useShm /\ ~ consumer.joined
             queue == IF joins /\ monotonic THEN Join(announces) ELSE announces
             c == [consumer EXCEPT !.joined = @ \/ joins]
             h == HandleAnnounce(c, Head(queue))
  <1>3. /\ announces \in Seq(AnnounceRecord) /\ DOMAIN announces = 1 .. Len(announces) /\ Len(announces) \in Nat
        /\ Len(announces) <= MaxQueue /\ Len(announces) >= 1
    BY <1>2, LenProperties, EmptySeq DEF IInv, Shape
  <1>4. /\ queue \in Seq(AnnounceRecord) /\ Len(queue) = Len(announces)
        /\ \A i \in 1 .. Len(announces) : queue[i].epoch = announces[i].epoch
    <2>1. CASE queue = announces
      BY <1>3, <2>1
    <2>2. CASE queue = Join(announces)
      <3>1. \A i \in 1 .. Len(announces) : announces[i] \in AnnounceRecord
        BY <1>3, ElementOfSeq
      <3>2. \A i \in 1 .. Len(announces) : /\ [announces[i] EXCEPT !.counts = FALSE] \in AnnounceRecord
                                           /\ [announces[i] EXCEPT !.counts = FALSE].epoch = announces[i].epoch
        BY <3>1 DEF AnnounceRecord
      <3>3. Join(announces) = [i \in 1 .. Len(announces) |-> [announces[i] EXCEPT !.counts = FALSE]]
        BY <1>3 DEF Join
      <3>4. Join(announces) \in Seq(AnnounceRecord) /\ Len(Join(announces)) = Len(announces)
        BY <1>3, <3>2, <3>3, IsASeq, LenProperties
      <3> QED BY <2>2, <3>2, <3>3, <3>4
    <2> QED BY <2>1, <2>2
  <1> DEFINE a == Head(queue)
             rest == Tail(queue)
  <1>5. /\ a \in AnnounceRecord /\ a = queue[1] /\ rest \in Seq(AnnounceRecord) /\ Len(rest) = Len(announces) - 1
        /\ DOMAIN rest = 1 .. Len(announces) - 1
        /\ \A i \in 1 .. Len(announces) - 1 : rest[i] = queue[i + 1]
    <2> HIDE DEF queue
    <2> QED BY <1>3, <1>4, HeadTailProperties, LenProperties, EmptySeq
  <1>6. announces' = rest /\ consumer' = CheckLiveness(h)
    BY <1>1
  <1>7. consumer \in ConsumerRecord /\ ConsumerSound(consumer, world) /\ Behind(consumer, descriptors, world)
    BY DEF IInv, ConsumerSound
  <1>8. /\ c \in ConsumerRecord /\ c.state = consumer.state /\ c.mapped = consumer.mapped /\ c.lastSeq = consumer.lastSeq
        /\ c.gap = consumer.gap /\ c.young = consumer.young /\ c.lastAnnounce = consumer.lastAnnounce
        /\ c.handed = consumer.handed
    BY <1>7 DEF ConsumerRecord
  <1> HIDE DEF queue, joins, c
  <1>9. ConsumerSound(c, world) /\ Behind(c, descriptors, world)
    BY <1>7, <1>8, Unconcerned
  <1>10. a.epoch <= world.epoch
    BY <1>3, <1>4, <1>5 DEF IInv, EpochsKnown
  <1>11. /\ ConsumerSound(h, world) /\ Behind(h, descriptors, world)
         /\ h.state = "MAPPED" => h.mapped >= consumer.lastAnnounce
    BY <1>5, <1>8, <1>9, <1>10, AnnounceSound DEF IInv
  <1> HIDE DEF a, rest, h
  <1>12. /\ ConsumerSound(consumer', world) /\ Behind(consumer', descriptors, world)
         /\ consumer'.state = "MAPPED" => consumer'.mapped >= consumer.lastAnnounce
    BY <1>6, <1>11, CheckSound
  <1>13. Shape'
    BY <1>2, <1>3, <1>5, <1>6, BoundsAssumption DEF IInv, Shape
  <1>14. EpochsKnown'
    <2>1. \A i \in DOMAIN rest : i + 1 \in 1 .. Len(announces) /\ rest[i].epoch = announces[i + 1].epoch
      BY <1>3, <1>4, <1>5
    <2> QED BY <1>2, <1>3, <1>6, <2>1 DEF IInv, EpochsKnown
  <1> QED BY <1>2, <1>12, <1>13, <1>14 DEF IInv, DescriptorsOrdered
\* What waits is a list of announces and one of descriptors.
LEMMA QueuesTyped ==
    ASSUME Shape
    PROVE  /\ \A i \in DOMAIN announces : announces[i].epoch \in Nat
           /\ \A i \in DOMAIN descriptors : descriptors[i].epoch \in Nat /\ descriptors[i].seq \in Nat
  <1>1. /\ \A i \in DOMAIN announces : announces[i] \in AnnounceRecord
        /\ \A i \in DOMAIN descriptors : descriptors[i] \in DescriptorRecord
    <2>1. DOMAIN announces = 1 .. Len(announces) /\ DOMAIN descriptors = 1 .. Len(descriptors)
      BY LenProperties DEF Shape
    <2> QED BY <2>1, ElementOfSeq DEF Shape
  <1>2. (\A e \in Epochs : e \in Nat) /\ \A s \in Seqs : s \in Nat
    BY BoundsAssumption DEF Epochs, Seqs
  <1> QED BY <1>1, <1>2 DEF AnnounceRecord, DescriptorRecord

\* Only the consumer changes.
LEMMA ConsumerStep ==
    ASSUME IInv, ConsumerSound(consumer', world), Behind(consumer', descriptors', world),
           UNCHANGED <<announces, world>>, descriptors' = descriptors \/ descriptors' = <<>>,
           answer' \in {answer, 0}, faults' \in 0 .. MaxFaults
    PROVE  IInv'
  <1>1. <<>> \in Seq(DescriptorRecord) /\ Len(<<>>) = 0 /\ DOMAIN <<>> = {} /\ 0 <= MaxQueue
    BY EmptySeq, BoundsAssumption
  <1>2. Shape'
    BY <1>1 DEF IInv, Shape
  <1>3. 0 \in 0 .. world.epoch
    BY BoundsAssumption DEF IInv, Shape, WorldRecord, Epochs
  <1>4. EpochsKnown'
    BY <1>3 DEF IInv, EpochsKnown
  <1>5. DescriptorsOrdered'
    BY <1>1 DEF IInv, DescriptorsOrdered
  <1> QED BY <1>2, <1>4, <1>5 DEF IInv

\* One more fault is within the bound.
LEMMA FaultTyped ==
    ASSUME IInv, Fault PROVE faults' \in 0 .. MaxFaults
  BY BoundsAssumption DEF Fault, IInv, Shape

\* The head of the descriptors is handed, or unmaps, or is ignored.
LEMMA PollDescriptorStep ==
    ASSUME IInv, PollDescriptor
    PROVE  IInv' /\ (consumer'.state = "MAPPED" => consumer'.mapped >= consumer.lastAnnounce)
  <1> DEFINE h == HandleDescriptor(consumer, Head(descriptors))
             rest == Tail(descriptors)
  <1>1. /\ descriptors # <<>> /\ consumer' = CheckLiveness(h) /\ descriptors' = rest
        /\ UNCHANGED <<announces, answer, world, faults>>
    BY DEF PollDescriptor
  <1>2. /\ ConsumerSound(h, world) /\ Behind(h, rest, world)
        /\ h.state = "MAPPED" => consumer.state = "MAPPED" /\ h.mapped = consumer.mapped
    BY <1>1, DescriptorSound DEF IInv
  <1>3. /\ Len(descriptors) \in Nat /\ Len(descriptors) >= 1 /\ DOMAIN descriptors = 1 .. Len(descriptors)
        /\ rest \in Seq(DescriptorRecord) /\ Len(rest) = Len(descriptors) - 1 /\ DOMAIN rest = 1 .. Len(descriptors) - 1
        /\ \A i \in 1 .. Len(descriptors) - 1 : rest[i] = descriptors[i + 1]
    BY <1>1, HeadTailProperties, LenProperties, EmptySeq DEF IInv, Shape
  <1> HIDE DEF h, rest
  <1>4. /\ ConsumerSound(consumer', world) /\ Behind(consumer', rest, world)
        /\ consumer'.state = "MAPPED" => consumer' = h
    BY <1>1, <1>2, CheckSound
  <1>5. consumer.state = "MAPPED" => consumer.mapped = consumer.lastAnnounce /\ consumer.mapped \in Nat
    BY BoundsAssumption DEF IInv, ConsumerSound, ConsumerRecord, Mapping
  <1>6. consumer'.state = "MAPPED" => consumer'.mapped >= consumer.lastAnnounce
    BY <1>2, <1>4, <1>5
  <1>7. Shape'
    BY <1>1, <1>3, BoundsAssumption DEF IInv, Shape
  <1>8. \A i \in DOMAIN rest : i + 1 \in DOMAIN descriptors /\ rest[i] = descriptors[i + 1] /\ i \in Nat
    BY <1>3
  <1>9. DescriptorsOrdered'
    <2>1. \A i, j \in Nat : i < j => i + 1 < j + 1
      OBVIOUS
    <2> QED BY <1>1, <1>8, <2>1 DEF IInv, DescriptorsOrdered
  <1> QED BY <1>1, <1>4, <1>6, <1>7, <1>9 DEF IInv, EpochsKnown

\* The other operations of the consumer.
LEMMA ConsumerOperations ==
    ASSUME IInv, PollNothing \/ PollRevoked \/ (\E m \in Configs : PollConfig(m)) \/ Close \/ Mature
    PROVE  IInv' /\ (consumer'.state = "MAPPED" => consumer'.mapped >= consumer.lastAnnounce)
  <1>1. /\ consumer \in ConsumerRecord /\ ConsumerSound(consumer, world) /\ Behind(consumer, descriptors, world)
        /\ faults \in 0 .. MaxFaults
    BY DEF IInv, ConsumerSound, Shape
  <1>2. consumer.state = "MAPPED" => consumer.mapped = consumer.lastAnnounce /\ consumer.mapped \in Nat
    BY <1>1, BoundsAssumption DEF ConsumerSound, ConsumerRecord, Mapping
  <1>3. CASE PollNothing
    <2>1. consumer' = CheckLiveness(consumer) /\ UNCHANGED <<announces, descriptors, answer, world, faults>>
      BY <1>3 DEF PollNothing
    <2>2. /\ ConsumerSound(consumer', world) /\ Behind(consumer', descriptors, world)
          /\ consumer'.state = "MAPPED" => consumer' = consumer
      BY <1>1, <2>1, CheckSound
    <2> QED BY <1>1, <1>2, <2>1, <2>2, ConsumerStep
  <1>4. CASE PollRevoked
    <2> DEFINE u == UnmapRegions(consumer)
    <2>1. /\ consumer' = [u EXCEPT !.attached = FALSE] /\ Fault /\ UNCHANGED <<announces, descriptors, answer, world>>
      BY <1>4 DEF PollRevoked
    <2>2. /\ u \in ConsumerRecord /\ u.state = "UNMAPPED" /\ u.mapped = 0 /\ u.lastSeq = 0 /\ u.gap = 0
          /\ u.handed = {} /\ ~u.young
      BY <1>1, UnmapSound
    <2> HIDE DEF u
    <2>3. /\ consumer' \in ConsumerRecord /\ consumer'.state = "UNMAPPED" /\ consumer'.mapped = 0
          /\ consumer'.lastSeq = 0 /\ consumer'.gap = 0 /\ consumer'.handed = {} /\ ~consumer'.young
      BY <2>1, <2>2 DEF ConsumerRecord
    <2>4. ConsumerSound(consumer', world) /\ Behind(consumer', descriptors', world)
      BY <2>3, UnmappedSound DEF Behind
    <2> QED BY <2>1, <2>3, <2>4, FaultTyped, ConsumerStep
  <1>5. ASSUME NEW m \in Configs, PollConfig(m)
        PROVE  IInv' /\ (consumer'.state = "MAPPED" => consumer'.mapped >= consumer.lastAnnounce)
    <2> DEFINE c == [consumer EXCEPT !.useShm = m.useShm, !.fallback = m.fallback]
               n == IF ~ m.useShm THEN EnterFallback(c)
                    ELSE IF c.state = "FALLBACK" THEN [c EXCEPT !.state = "UNMAPPED"] ELSE c
    <2>1. /\ Fault /\ consumer' = CheckLiveness(n) /\ UNCHANGED <<announces, answer, world>>
          /\ descriptors' = descriptors \/ descriptors' = <<>>
      BY <1>5 DEF PollConfig
    <2>2. m.useShm \in BOOLEAN /\ m.fallback \in BOOLEAN
      <3>1. \A u, f, a \in BOOLEAN : Config(u, f, a).useShm = u /\ Config(u, f, a).fallback = f
        BY DEF Config
      <3>2. \E u, f, a \in BOOLEAN : m = Config(u, f, a)
        BY Zenon DEF Configs
      <3> QED BY <3>1, <3>2
    <2>3. /\ c \in ConsumerRecord /\ c.state = consumer.state /\ c.mapped = consumer.mapped
          /\ c.lastSeq = consumer.lastSeq /\ c.gap = consumer.gap /\ c.young = consumer.young
          /\ c.lastAnnounce = consumer.lastAnnounce /\ c.handed = consumer.handed
      BY <1>1, <2>2 DEF ConsumerRecord
    <2> HIDE DEF c
    <2>4. ConsumerSound(c, world) /\ Behind(c, descriptors, world)
      BY <1>1, <2>3, Unconcerned
    <2>5. /\ ConsumerSound(n, world) /\ Behind(n, descriptors, world) /\ (n.state = "MAPPED" => n = c)
      <3>1. CASE ~m.useShm
        <4>1. n = EnterFallback(c)
          BY <3>1
        <4> HIDE DEF n
        <4> QED BY <2>3, <4>1, FallbackSound, UnmappedSound DEF Behind
      <3>2. CASE m.useShm /\ c.state = "FALLBACK"
        <4>1. n = [c EXCEPT !.state = "UNMAPPED"]
          BY <3>2
        <4>2. c.mapped = 0 /\ c.lastSeq = 0 /\ c.gap = 0 /\ c.handed = {} /\ ~c.young
          BY <2>4, <3>2 DEF ConsumerSound, Mapping
        <4> HIDE DEF n
        <4>3. /\ n \in ConsumerRecord /\ n.state = "UNMAPPED" /\ n.mapped = 0 /\ n.lastSeq = 0 /\ n.gap = 0
              /\ n.handed = {} /\ ~n.young
          BY <2>3, <4>1, <4>2 DEF ConsumerRecord
        <4> QED BY <4>3, UnmappedSound DEF Behind
      <3>3. CASE m.useShm /\ c.state # "FALLBACK"
        <4>1. n = c
          BY <3>3
        <4> QED BY <2>4, <4>1
      <3> QED BY <3>1, <3>2, <3>3
    <2> HIDE DEF n
    <2>6. /\ ConsumerSound(consumer', world) /\ Behind(consumer', descriptors, world)
          /\ consumer'.state = "MAPPED" => consumer' = c
      BY <2>1, <2>5, CheckSound
    <2>7. Behind(consumer', descriptors', world)
      <3>1. CASE descriptors' = descriptors
        BY <2>6, <3>1
      <3>2. CASE descriptors' = <<>>
        BY <2>6, <3>2, EmptySeq DEF Behind
      <3> QED BY <2>1, <3>1, <3>2
    <2> QED BY <1>2, <2>1, <2>3, <2>6, <2>7, FaultTyped, ConsumerStep
  <1>6. CASE Close
    <2>1. Fault /\ consumer' = Opened /\ descriptors' = <<>> /\ answer' = 0 /\ UNCHANGED <<announces, world>>
      BY <1>6 DEF Close
    <2>2. 0 \in 0 .. MaxEpoch /\ 0 \in Seqs
      BY BoundsAssumption DEF Seqs
    <2>3. /\ consumer' \in ConsumerRecord /\ consumer'.state = "UNMAPPED" /\ consumer'.mapped = 0
          /\ consumer'.lastSeq = 0 /\ consumer'.gap = 0 /\ consumer'.handed = {} /\ ~consumer'.young
      BY <2>1, <2>2 DEF Opened, ConsumerRecord
    <2>4. ConsumerSound(consumer', world) /\ Behind(consumer', descriptors', world)
      BY <2>3, UnmappedSound DEF Behind
    <2> QED BY <2>1, <2>3, <2>4, FaultTyped, ConsumerStep
  <1>7. CASE Mature
    <2>1. consumer' = [consumer EXCEPT !.young = FALSE] /\ UNCHANGED <<announces, descriptors, answer, world, faults>>
      BY <1>7 DEF Mature
    <2>2. /\ consumer' \in ConsumerRecord /\ consumer'.state = consumer.state /\ consumer'.mapped = consumer.mapped
          /\ consumer'.lastSeq = consumer.lastSeq /\ consumer'.gap = consumer.gap /\ ~consumer'.young
          /\ consumer'.lastAnnounce = consumer.lastAnnounce /\ consumer'.handed = consumer.handed
      BY <1>1, <2>1 DEF ConsumerRecord
    <2>3. ConsumerSound(consumer', world) /\ Behind(consumer', descriptors, world)
      BY <1>1, <2>2, Unconcerned
    <2> QED BY <1>1, <1>2, <2>1, <2>2, <2>3, ConsumerStep
  <1> QED BY <1>3, <1>4, <1>5, <1>6, <1>7

\* A driver attach is answered with the current epoch, and applied whatever became of it.
LEMMA AttachSteps ==
    ASSUME IInv, AttachDriver \/ AttachAnswered
    PROVE  /\ IInv'
           /\ consumer'.state = "MAPPED" => \/ consumer'.mapped >= consumer.lastAnnounce
                                            \/ answer # 0 /\ consumer'.mapped = answer /\ answer' = 0
  <1>1. /\ consumer \in ConsumerRecord /\ ConsumerSound(consumer, world) /\ Behind(consumer, descriptors, world)
        /\ faults \in 0 .. MaxFaults /\ answer \in 0 .. world.epoch /\ world.epoch \in Nat \ {0} /\ Shape
    BY BoundsAssumption DEF IInv, ConsumerSound, Shape, EpochsKnown, WorldRecord, Epochs
  <1>2. consumer.state = "MAPPED" => consumer.mapped = consumer.lastAnnounce /\ consumer.mapped \in Nat
    BY <1>1, BoundsAssumption DEF ConsumerSound, ConsumerRecord, Mapping
  <1>3. CASE AttachDriver
    <2>1. answer' = world.epoch /\ UNCHANGED <<consumer, announces, descriptors, world, faults>>
      BY <1>3 DEF AttachDriver
    <2>2. IInv'
      BY <1>1, <2>1 DEF IInv, Shape, EpochsKnown, DescriptorsOrdered
    <2> QED BY <1>2, <2>1, <2>2
  <1>4. CASE AttachAnswered
    <2> DEFINE c == AttachConfig(consumer, answer, TRUE)
    <2>1. /\ answer # 0 /\ consumer' = [c EXCEPT !.attached = (c.state # "UNMAPPED")] /\ answer' = 0
          /\ UNCHANGED <<announces, descriptors, world, faults>>
      BY <1>4 DEF AttachAnswered
    <2>2. answer \in 1 .. world.epoch
      BY <1>1, <2>1
    <2>3. /\ c \in ConsumerRecord /\ ConsumerSound(c, world) /\ c.handed = {}
          /\ c.state = "MAPPED" => c.mapped = answer
      BY <1>1, <2>2, AttachSound
    <2> HIDE DEF c
    <2>4. Behind(c, descriptors, world)
      BY <2>3 DEF Behind
    <2>5. /\ consumer' \in ConsumerRecord /\ consumer'.state = c.state /\ consumer'.mapped = c.mapped
          /\ consumer'.lastSeq = c.lastSeq /\ consumer'.gap = c.gap /\ consumer'.young = c.young
          /\ consumer'.lastAnnounce = c.lastAnnounce /\ consumer'.handed = c.handed
      BY <2>1, <2>3 DEF ConsumerRecord
    <2>6. ConsumerSound(consumer', world) /\ Behind(consumer', descriptors, world)
      BY <2>3, <2>4, <2>5, Unconcerned
    <2>7. IInv'
      BY <1>1, <2>1, <2>6, ConsumerStep
    <2> QED BY <2>1, <2>3, <2>5, <2>7
  <1> QED BY <1>3, <1>4

\* The stream moves on: a new epoch has regions of its own.
LEMMA NewEpochStep ==
    ASSUME IInv, NewEpoch PROVE IInv'
  <1> DEFINE e == world.epoch + 1
  <1>1. PICK k \in RegionKinds :
          /\ world.epoch < MaxEpoch /\ world' = [world EXCEPT !.epoch = e, !.next = 0, !.regions[e] = k]
          /\ faults' = faults \/ Fault
          /\ UNCHANGED <<consumer, announces, descriptors, answer>>
    BY DEF NewEpoch
  <1>2. world \in WorldRecord /\ world.epoch \in Nat \ {0} /\ e \in Epochs /\ faults' \in 0 .. MaxFaults
        /\ 0 \in 0 .. MaxSeq + 1
    BY <1>1, FaultTyped, BoundsAssumption DEF IInv, Shape, WorldRecord, Epochs
  <1> HIDE DEF e
  <1>3. /\ world' \in WorldRecord /\ world'.epoch = e /\ \A d \in Epochs : d # e => world'.regions[d] = world.regions[d]
    BY <1>1, <1>2 DEF WorldRecord
  <1>4. world.epoch < e
    BY <1>2 DEF e
  <1>5. Shape'
    BY <1>1, <1>2, <1>3 DEF IInv, Shape
  <1>6. EpochsKnown'
    <2>1. \A i \in DOMAIN announces : announces[i].epoch \in Nat
      BY QueuesTyped DEF IInv
    <2>2. e \in Nat
      BY <1>2, BoundsAssumption DEF Epochs
    <2> QED BY <1>1, <1>2, <1>3, <1>4, <2>1, <2>2 DEF IInv, EpochsKnown
  <1>7. DescriptorsOrdered'
    <2>1. \A i \in DOMAIN descriptors : descriptors[i].epoch \in Nat
      BY QueuesTyped DEF IInv
    <2>2. e \in Nat
      BY <1>2, BoundsAssumption DEF Epochs
    <2>3. \A i \in DOMAIN descriptors : descriptors[i].epoch < e
      BY <1>2, <1>4, <2>1, <2>2 DEF IInv, DescriptorsOrdered
    <2>4. \A i \in DOMAIN descriptors : descriptors[i].epoch <= e /\ descriptors[i].epoch # e
      BY <2>1, <2>2, <2>3
    <2> QED BY <1>1, <1>3, <2>4 DEF IInv, DescriptorsOrdered
  <1>8. consumer.state = "MAPPED" => consumer.mapped \in Epochs /\ consumer.mapped < e /\ consumer.mapped # e
                                     /\ consumer.mapped <= e
    BY <1>2, <1>4, BoundsAssumption DEF IInv, ConsumerSound, ConsumerRecord, Mapping, Epochs
  <1>9. ConsumerSound(consumer', world')
    BY <1>1, <1>3, <1>8 DEF IInv, ConsumerSound, Mapping
  <1>10. Behind(consumer', descriptors', world')
    BY <1>1, <1>3, <1>8 DEF IInv, Behind, ConsumerSound, Mapping
  <1> QED BY <1>5, <1>6, <1>7, <1>9, <1>10 DEF IInv

\* An announce is of the current epoch or of one that is over.
LEMMA AnnounceStep ==
    ASSUME IInv, Announce PROVE IInv'
  <1>1. /\ Len(announces) < MaxQueue /\ (faults' = faults \/ Fault)
        /\ UNCHANGED <<consumer, descriptors, answer, world>>
    BY DEF Announce
  <1>2. \E e \in 1 .. world.epoch, content \in {"ok", "malformed", "layout"}, counts \in BOOLEAN :
          announces' = Append(announces, Announced(e, content, counts))
    <2>1. world.epoch \in Nat /\ world.epoch \in 1 .. world.epoch /\ \A e \in 1 .. world.epoch - 1 : e \in 1 .. world.epoch
      BY BoundsAssumption DEF IInv, Shape, WorldRecord, Epochs
    <2> QED BY <2>1 DEF Announce
  <1>3. PICK a \in AnnounceRecord : a.epoch \in 1 .. world.epoch /\ announces' = Append(announces, a)
    <2>1. \A e \in 1 .. world.epoch, content \in {"ok", "malformed", "layout"}, counts \in BOOLEAN :
            Announced(e, content, counts) \in AnnounceRecord /\ Announced(e, content, counts).epoch = e
      BY BoundsAssumption DEF IInv, Shape, WorldRecord, Epochs, AnnounceRecord, Announced
    <2> QED BY <1>2, <2>1
  <1>4. /\ announces' \in Seq(AnnounceRecord) /\ Len(announces') = Len(announces) + 1 /\ Len(announces) \in Nat
        /\ DOMAIN announces' = 1 .. Len(announces) + 1 /\ DOMAIN announces = 1 .. Len(announces)
        /\ announces'[Len(announces) + 1] = a /\ \A i \in 1 .. Len(announces) : announces'[i] = announces[i]
    BY <1>3, AppendProperties, LenProperties DEF IInv, Shape
  <1>5. Shape'
    BY <1>1, <1>4, FaultTyped, BoundsAssumption DEF IInv, Shape
  <1>6. \A i \in DOMAIN announces' : announces'[i].epoch <= world.epoch
    <2> TAKE i \in DOMAIN announces'
    <2>1. CASE i = Len(announces) + 1
      BY <1>3, <1>4, <2>1
    <2>2. CASE i \in 1 .. Len(announces)
      BY <1>4, <2>2 DEF IInv, EpochsKnown
    <2> QED BY <1>4, <2>1, <2>2
  <1>7. EpochsKnown'
    BY <1>1, <1>6 DEF IInv, EpochsKnown
  <1> QED BY <1>1, <1>5, <1>7 DEF IInv, DescriptorsOrdered

\* A descriptor is the newest of the stream.
LEMMA PublishStep ==
    ASSUME IInv, Publish PROVE IInv'
  <1> DEFINE d == [epoch |-> world.epoch, seq |-> world.next]
  <1>1. /\ world.next <= MaxSeq /\ world' = [world EXCEPT !.next = @ + 1]
        /\ \/ Len(descriptors) < MaxQueue /\ descriptors' = Append(descriptors, d) /\ faults' = faults
           \/ Fault /\ UNCHANGED descriptors
        /\ UNCHANGED <<consumer, announces, answer>>
    BY DEF Publish
  <1>2. /\ world \in WorldRecord /\ world.epoch \in Epochs /\ world.next \in Nat /\ world.next \in Seqs
        /\ world.next + 1 \in 0 .. MaxSeq + 1 /\ faults' \in 0 .. MaxFaults
    <2>1. world \in WorldRecord /\ faults \in 0 .. MaxFaults
      BY DEF IInv, Shape
    <2>2. world.epoch \in Epochs /\ world.next \in 0 .. MaxSeq + 1
      BY <2>1 DEF WorldRecord
    <2>3. world.next \in Nat /\ world.next \in Seqs /\ world.next + 1 \in 0 .. MaxSeq + 1
      BY <1>1, <2>2, BoundsAssumption DEF Seqs
    <2>4. faults' \in 0 .. MaxFaults
      BY <1>1, <2>1, FaultTyped
    <2> QED BY <2>1, <2>2, <2>3, <2>4
  <1>3. d \in DescriptorRecord /\ d.epoch = world.epoch /\ d.seq = world.next
    BY <1>2 DEF DescriptorRecord
  <1> HIDE DEF d
  <1>4. /\ world' \in WorldRecord /\ world'.epoch = world.epoch /\ world'.next = world.next + 1
        /\ world'.regions = world.regions
    BY <1>1, <1>2 DEF WorldRecord
  <1>5. \A i \in DOMAIN descriptors : /\ descriptors[i].seq \in Nat /\ descriptors[i].epoch <= world.epoch
                                      /\ descriptors[i].epoch = world.epoch => descriptors[i].seq < world.next
    BY QueuesTyped DEF IInv, DescriptorsOrdered
  <1>6. \A s \in consumer.handed : s \in Nat
    BY BoundsAssumption DEF IInv, ConsumerSound, ConsumerRecord, Seqs
  <1>7. EpochsKnown' /\ ConsumerSound(consumer', world')
    BY <1>1, <1>4 DEF IInv, EpochsKnown, ConsumerSound, Mapping
  <1>8. CASE Fault /\ UNCHANGED descriptors
    <2>1. DescriptorsOrdered'
      BY <1>2, <1>4, <1>5, <1>8 DEF IInv, DescriptorsOrdered
    <2>2. Behind(consumer', descriptors', world')
      BY <1>1, <1>2, <1>4, <1>6, <1>8 DEF IInv, Behind
    <2> QED BY <1>1, <1>2, <1>4, <1>7, <1>8, <2>1, <2>2 DEF IInv, Shape
  <1>9. CASE Len(descriptors) < MaxQueue /\ descriptors' = Append(descriptors, d) /\ faults' = faults
    <2>1. /\ descriptors' \in Seq(DescriptorRecord) /\ Len(descriptors') = Len(descriptors) + 1 /\ Len(descriptors) \in Nat
          /\ DOMAIN descriptors' = 1 .. Len(descriptors) + 1 /\ DOMAIN descriptors = 1 .. Len(descriptors)
          /\ descriptors'[Len(descriptors) + 1] = d
          /\ \A i \in 1 .. Len(descriptors) : descriptors'[i] = descriptors[i]
      BY <1>3, <1>9, AppendProperties, LenProperties DEF IInv, Shape
    <2>2. \A i \in DOMAIN descriptors' : i = Len(descriptors) + 1 \/ i \in DOMAIN descriptors
      BY <2>1
    <2>3. DescriptorsOrdered'
      <3>1. \A i \in DOMAIN descriptors' : /\ descriptors'[i].epoch <= world'.epoch
                                           /\ descriptors'[i].epoch = world'.epoch => descriptors'[i].seq < world'.next
        <4> TAKE i \in DOMAIN descriptors'
        <4>1. CASE i = Len(descriptors) + 1
          BY <1>2, <1>3, <1>4, <2>1, <4>1, BoundsAssumption DEF Epochs
        <4>2. CASE i \in DOMAIN descriptors
          BY <1>2, <1>4, <1>5, <2>1, <4>2
        <4> QED BY <2>2, <4>1, <4>2
      <3>2. ASSUME NEW i \in DOMAIN descriptors', NEW j \in DOMAIN descriptors', i < j,
                   descriptors'[i].epoch = descriptors'[j].epoch
            PROVE  descriptors'[i].seq < descriptors'[j].seq
        <4>1. i \in DOMAIN descriptors
          BY <2>1, <3>2
        <4>2. CASE j = Len(descriptors) + 1
          BY <1>3, <1>5, <2>1, <3>2, <4>1, <4>2
        <4>3. CASE j \in DOMAIN descriptors
          BY <2>1, <3>2, <4>1, <4>3 DEF IInv, DescriptorsOrdered
        <4> QED BY <2>2, <4>2, <4>3
      <3> QED BY <3>1, <3>2 DEF DescriptorsOrdered
    <2>4. Behind(consumer', descriptors', world')
      <3> SUFFICES ASSUME NEW s \in consumer.handed
                   PROVE  /\ \A i \in DOMAIN descriptors' :
                               descriptors'[i].epoch = consumer.mapped => s < descriptors'[i].seq
                          /\ consumer.mapped = world.epoch => s < world'.next
        BY <1>1, <1>4 DEF Behind
      <3>1. /\ consumer.mapped = world.epoch => s < world.next
            /\ \A i \in DOMAIN descriptors : descriptors[i].epoch = consumer.mapped => s < descriptors[i].seq
        BY DEF IInv, Behind
      <3>2. consumer.mapped = world.epoch => s < world'.next
        BY <1>2, <1>4, <1>6, <3>1
      <3>3. \A i \in DOMAIN descriptors' : descriptors'[i].epoch = consumer.mapped => s < descriptors'[i].seq
        BY <1>3, <2>1, <2>2, <3>1
      <3> QED BY <3>2, <3>3
    <2>5. Shape'
      <3>1. Len(descriptors') <= MaxQueue
        BY <1>9, <2>1, BoundsAssumption
      <3> QED BY <1>1, <1>2, <1>4, <2>1, <3>1 DEF IInv, Shape
    <2> QED BY <1>7, <2>3, <2>4, <2>5 DEF IInv
  <1> QED BY <1>1, <1>8, <1>9

\* Producers fall silent, resume and change.
LEMMA OwnersStep ==
    ASSUME IInv, Resume \/ OwnerChanges \/ \E e \in 1 .. world.epoch : Silence(e) PROVE IInv'
  <1>1. world \in WorldRecord /\ world.epoch \in Epochs /\ faults \in 0 .. MaxFaults
    BY DEF IInv, Shape, WorldRecord
  <1>2. \A e \in 1 .. world.epoch : e \in Epochs
    BY <1>1, BoundsAssumption DEF Epochs
  <1>3. UNCHANGED <<consumer, announces, descriptors, answer>> /\ faults' \in 0 .. MaxFaults
    BY <1>1, FaultTyped DEF Resume, OwnerChanges, Silence
  <1>4. /\ world' \in WorldRecord /\ world'.epoch = world.epoch /\ world'.next = world.next
        /\ world'.regions = world.regions
    <2>1. CASE Resume
      <3>1. world' = [world EXCEPT !.quiet = @ \ {world.epoch}]
        BY <2>1 DEF Resume
      <3> QED BY <1>1, <3>1 DEF WorldRecord
    <2>2. CASE OwnerChanges
      <3>1. world' = [world EXCEPT !.owner[world.epoch] = 3 - @]
        BY <2>2 DEF OwnerChanges
      <3>2. world.owner \in [Epochs -> 1 .. 2] /\ 3 - world.owner[world.epoch] \in 1 .. 2
        <4>1. world.owner \in [Epochs -> 1 .. 2]
          BY <1>1 DEF WorldRecord
        <4>2. \A o \in 1 .. 2 : 3 - o \in 1 .. 2
          OBVIOUS
        <4> QED BY <1>1, <4>1, <4>2
      <3> QED BY <1>1, <3>1, <3>2 DEF WorldRecord
    <2>3. ASSUME NEW e \in 1 .. world.epoch, Silence(e)
          PROVE  /\ world' \in WorldRecord /\ world'.epoch = world.epoch /\ world'.next = world.next
                 /\ world'.regions = world.regions
      <3>1. world' = [world EXCEPT !.quiet = @ \cup {e}] /\ e \in Epochs
        BY <1>2, <2>3 DEF Silence
      <3> QED BY <1>1, <3>1 DEF WorldRecord
    <2> QED BY <2>1, <2>2, <2>3
  <1>5. Shape'
    BY <1>3, <1>4 DEF IInv, Shape
  <1>6. EpochsKnown' /\ DescriptorsOrdered'
    BY <1>3, <1>4 DEF IInv, EpochsKnown, DescriptorsOrdered
  <1>7. ConsumerSound(consumer', world') /\ Behind(consumer', descriptors', world')
    BY <1>3, <1>4 DEF IInv, ConsumerSound, Mapping, Behind
  <1> QED BY <1>5, <1>6, <1>7 DEF IInv

\* Every step keeps the invariant, and no step but the answer of a driver attach maps an
\* epoch older than the last one the consumer took an announce of.
LEMMA Step ==
    ASSUME IInv, [Next]_vars
    PROVE  /\ IInv'
           /\ consumer'.state = "MAPPED" => \/ consumer'.mapped >= consumer.lastAnnounce
                                            \/ answer # 0 /\ consumer'.mapped = answer /\ answer' = 0
  <1>1. consumer.state = "MAPPED" => consumer.mapped = consumer.lastAnnounce /\ consumer.mapped \in Nat
    BY BoundsAssumption DEF IInv, ConsumerSound, ConsumerRecord, Mapping
  <1>2. CASE NewEpoch \/ Announce \/ Publish \/ Resume \/ OwnerChanges \/ \E e \in 1 .. world.epoch : Silence(e)
    <2>1. consumer' = consumer
      BY <1>2 DEF NewEpoch, Announce, Publish, Resume, OwnerChanges, Silence
    <2>2. IInv'
      BY <1>2, NewEpochStep, AnnounceStep, PublishStep, OwnersStep
    <2> QED BY <1>1, <2>1, <2>2
  <1>3. CASE UNCHANGED vars
    <2>1. UNCHANGED <<consumer, announces, descriptors, answer, world, faults>>
      BY <1>3 DEF vars
    <2>2. IInv'
      BY <2>1 DEF IInv, Shape, EpochsKnown, DescriptorsOrdered
    <2> QED BY <1>1, <2>1, <2>2
  <1> QED BY <1>2, <1>3, PollAnnounceStep, PollDescriptorStep, ConsumerOperations, AttachSteps DEF Next

\* The invariant implies what the run checks.
LEMMA InvSound == IInv => MappingSound /\ GapCountsMissedFrames
  <1> SUFFICES ASSUME IInv PROVE MappingSound /\ GapCountsMissedFrames
    OBVIOUS
  <1>1. consumer \in ConsumerRecord /\ Mapping(consumer, world) /\ Counted(consumer)
    BY DEF IInv, ConsumerSound
  <1>2. MappingSound
    BY <1>1 DEF IInv, Shape, MappingSound, TypeOK, MappedRegionsMatch, Mapping, ConsumerRecord, WorldRecord, Seqs, Epochs
  <1>3. GapCountsMissedFrames
    <2>1. CASE consumer.handed \ {0} = {}
      <3>1. consumer.lastSeq = 0
        BY <1>1, <2>1 DEF Counted
      <3>2. consumer.gap = 0
        BY <1>1, <3>1, BoundsAssumption DEF Counted, ConsumerRecord, Seqs
      <3> QED BY <2>1, <3>2 DEF GapCountsMissedFrames
    <2>2. CASE consumer.handed \ {0} # {}
      BY <1>1, <2>2, GapIsMissed DEF GapCountsMissedFrames, Counted
    <2> QED BY <2>1, <2>2
  <1> QED BY <1>2, <1>3

-----------------------------------------------------------------------------
(* What the consumer may rely on                                           *)

\* What a consumer has mapped are the sound regions of the last epoch it took an announce
\* of (tp_consumer_attach_config, tp_shm_validate_superblock), whatever order announces,
\* descriptors, driver answers and configuration come in.
THEOREM MappingCorrect == Spec => []MappingSound
  BY Initial, Step, InvSound, PTL DEF Spec

\* drops_gap is the number of frames missed between the first and the last one handed.
THEOREM GapCorrect == Spec => []GapCountsMissedFrames
  BY Initial, Step, InvSound, PTL DEF Spec

\* Only the late answer of a driver attach takes the consumer back to an older epoch.
THEOREM NeverBack == Spec => NeverBackToOlderEpoch
  <1> DEFINE A == consumer'.state = "MAPPED" =>
                    \/ consumer'.mapped >= consumer.lastAnnounce
                    \/ answer # 0 /\ consumer'.mapped = answer /\ answer' = 0
  <1>1. IInv /\ [Next]_vars => IInv' /\ A
    BY Step
  <1>2. NeverBackToOlderEpoch <=> [][A]_vars
    BY DEF NeverBackToOlderEpoch
  <1> HIDE DEF A
  <1> QED BY <1>1, <1>2, Initial, PTL DEF Spec
=============================================================================
