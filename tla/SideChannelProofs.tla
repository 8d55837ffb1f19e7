-------------------------- MODULE SideChannelProofs --------------------------
(***************************************************************************)
(* What accompanies frames, for any number of producers, generators, blobs,*)
(* reports, merge maps, input streams and tensor headers: metadata blobs   *)
(* arrive whole, trace ids are fresh and trace links name published frames,*)
(* progress does not shrink, a join barrier is ready only for what it has  *)
(* seen under the map in force, and the elements of a tensor whose header  *)
(* is taken do not overlap.  The five parts do not touch each other and    *)
(* have an invariant each.                                                 *)
(***************************************************************************)
EXTENDS TraceLinks, MetadataBlobs, ProgressPoller, MergeJoin, TensorLayout, SequenceTheorems, FiniteSetTheorems,
        FunctionTheorems, WellFoundedInduction, TLAPS

(***************************************************************************)
(* Metadata blobs                                                          *)
(***************************************************************************)
BlobStreams == {b.stream : b \in Blobs} \cup {0}
BlobVersions == {b.version : b \in Blobs} \cup {0}
BlobChecksums == {b.checksum : b \in Blobs} \cup {0}
Chunks == BlobStreams \X BlobVersions \X Int

\* The types of the poller's state.
BlobTypeOK ==
    /\ sending \in [Blobs -> Nat]
    /\ poller \in [active : BOOLEAN, stream : BlobStreams, version : BlobVersions, total : Nat,
                   checksum : BlobChecksums, next : Nat]
    /\ app \in [stream : BlobStreams, version : BlobVersions, bytes : Seq(Chunks), whole : BOOLEAN]

\* The poller follows a blob some producer sends, with that blob's length.
FollowsSomeBlob ==
    poller.active => \E b \in Blobs : /\ b.stream = poller.stream /\ b.version = poller.version
                                      /\ b.total = poller.total /\ b.checksum = poller.checksum

\* A completed blob is not followed any more: nothing is added to it.
CompleteIsOver == app.whole => ~poller.active

BlobInv == BlobTypeOK /\ FollowsSomeBlob /\ CompleteIsOver /\ BlobsSound

\* The initial states.
LEMMA BlobInitial == BlobInit => BlobInv
  BY BlobAssumption, EmptySeq DEF BlobInit, BlobInv, BlobTypeOK, NoBlob, Nothing, FollowsSomeBlob, CompleteIsOver,
     BlobsSound, CompleteIsWhole, ChunksArePrefix, BlobStreams, BlobVersions, BlobChecksums

\* The messages a producer sends decode as what they are.
LEMMA MessageOfBlob ==
    ASSUME NEW b \in Blobs, NEW k \in Nat, NEW m, m = BlobMessage(b, k)
    PROVE  /\ m.stream = b.stream /\ m.version = b.version /\ m.total = b.total /\ m.checksum = b.checksum
           /\ m.offset = k - 1 /\ m.length = 1
  BY DEF BlobMessage

\* One message of a producer, when it arrives.
LEMMA HandlePreserves ==
    ASSUME BlobInv, NEW b \in Blobs, NEW k \in Nat, NEW m, m = BlobMessage(b, k), Handle(m), sending' \in [Blobs -> Nat]
    PROVE  BlobInv'
  <1>m. /\ m.stream = b.stream /\ m.version = b.version /\ m.total = b.total /\ m.checksum = b.checksum
        /\ m.offset = k - 1 /\ m.length = 1 /\ b.total \in Nat
        /\ b.stream \in BlobStreams /\ b.version \in BlobVersions /\ b.checksum \in BlobChecksums
        /\ 0 \in BlobStreams /\ 0 \in BlobVersions /\ 0 \in BlobChecksums
    BY MessageOfBlob, BlobAssumption DEF BlobStreams, BlobVersions, BlobChecksums
  <1>1. CASE /\ poller' = [active |-> TRUE, stream |-> m.stream, version |-> m.version,
                            total |-> m.total, checksum |-> m.checksum, next |-> 0]
             /\ app' = [Nothing EXCEPT !.stream = m.stream, !.version = m.version]
    <2>1. app' = [stream |-> b.stream, version |-> b.version, bytes |-> <<>>, whole |-> FALSE]
      BY <1>1, <1>m DEF Nothing
    <2>p. poller' = [active |-> TRUE, stream |-> b.stream, version |-> b.version,
                     total |-> b.total, checksum |-> b.checksum, next |-> 0]
      BY <1>1, <1>m
    <2>f. /\ poller'.active /\ poller'.stream = b.stream /\ poller'.version = b.version /\ poller'.total = b.total
          /\ poller'.checksum = b.checksum /\ poller'.next = 0
          /\ app'.stream = b.stream /\ app'.version = b.version /\ app'.bytes = <<>> /\ ~app'.whole
      BY <2>p, <2>1
    <2>2. BlobTypeOK'
      <3>1. <<>> \in Seq(Chunks) BY EmptySeq
      <3>2. app' \in [stream : BlobStreams, version : BlobVersions, bytes : Seq(Chunks), whole : BOOLEAN]
        BY <1>m, <2>1, <3>1
      <3>3. poller' \in [active : BOOLEAN, stream : BlobStreams, version : BlobVersions, total : Nat,
                         checksum : BlobChecksums, next : Nat]
        BY <1>m, <2>p
      <3> QED BY <3>2, <3>3 DEF BlobTypeOK
    <2>3. FollowsSomeBlob' /\ CompleteIsOver'
      BY <2>f DEF FollowsSomeBlob, CompleteIsOver
    <2>4. BlobsSound'
      BY <1>m, <2>f DEF BlobsSound, CompleteIsWhole, ChunksArePrefix
    <2> QED BY <2>2, <2>3, <2>4 DEF BlobInv
  <1>2. CASE /\ poller' = AfterChunk(poller, m)
             /\ app' = IF ChunkValid(poller, m)
                       THEN [app EXCEPT !.bytes = Append(@, <<m.stream, m.version, m.offset>>)] ELSE app
    <2>1. CASE ChunkValid(poller, m)
      <3> DEFINE c == <<m.stream, m.version, m.offset>>
      <3>t. poller.next \in Nat /\ poller.total \in Nat
        BY DEF BlobInv, BlobTypeOK
      <3>p. poller' = [poller EXCEPT !.next = m.offset + m.length] /\ m.offset + m.length = k
        BY <1>2, <2>1, <1>m DEF AfterChunk
      <3>a. app' = [app EXCEPT !.bytes = Append(app.bytes, c)]
        BY <1>2, <2>1
      <3>v. /\ poller.active /\ poller.stream = b.stream /\ poller.version = b.version
            /\ k - 1 = poller.next /\ k <= poller.total
        BY <2>1, <1>m, <3>t DEF ChunkValid
      <3>1. /\ poller' = [poller EXCEPT !.next = k] /\ app' = [app EXCEPT !.bytes = Append(app.bytes, c)]
            /\ poller.active /\ poller.stream = b.stream /\ poller.version = b.version
            /\ k - 1 = poller.next /\ k <= poller.total
        BY <3>p, <3>a, <3>v
      <3>2. c \in Chunks
        BY <1>m DEF Chunks
      <3>3. app.bytes \in Seq(Chunks) /\ Len(app.bytes) = poller.next /\ app.stream = b.stream /\ app.version = b.version
        BY <3>1 DEF BlobInv, BlobTypeOK, BlobsSound, ChunksArePrefix
      <3> HIDE DEF c
      <3>4. /\ app'.bytes \in Seq(Chunks) /\ Len(app'.bytes) = Len(app.bytes) + 1
            /\ app'.bytes[Len(app.bytes) + 1] = c
            /\ \A i \in 1 .. Len(app.bytes) : app'.bytes[i] = app.bytes[i]
            /\ DOMAIN app'.bytes = 1 .. Len(app.bytes) + 1
        <4>1. app'.bytes = Append(app.bytes, c)
          BY <3>1 DEF BlobInv, BlobTypeOK
        <4> QED BY <4>1, <3>2, <3>3, AppendProperties
      <3>5. /\ app'.stream = app.stream /\ app'.version = app.version /\ app'.whole = app.whole
            /\ poller'.active /\ poller'.stream = poller.stream /\ poller'.version = poller.version
            /\ poller'.total = poller.total /\ poller'.checksum = poller.checksum /\ poller'.next = k
        BY <3>1 DEF BlobInv, BlobTypeOK
      <3>6. BlobTypeOK'
        BY <3>1, <3>4 DEF BlobInv, BlobTypeOK
      <3>7. FollowsSomeBlob' /\ CompleteIsOver'
        BY <3>1, <3>5 DEF BlobInv, FollowsSomeBlob, CompleteIsOver
      <3>8. CompleteIsWhole'
        BY <3>1, <3>5 DEF BlobInv, CompleteIsOver, CompleteIsWhole
      <3>9. ChunksArePrefix'
        <4>1. c = <<app.stream, app.version, Len(app.bytes)>>
          BY <3>1, <3>3, <1>m DEF c
        <4>2. \A i \in 1 .. Len(app.bytes) : app.bytes[i] = <<app.stream, app.version, i - 1>>
          BY <3>3 DEF BlobInv, BlobsSound, ChunksArePrefix
        <4> QED BY <3>1, <3>3, <3>4, <3>5, <4>1, <4>2 DEF ChunksArePrefix, BlobInv, BlobTypeOK
      <3> QED BY <3>6, <3>7, <3>8, <3>9 DEF BlobInv, BlobsSound
    <2>2. CASE ~ChunkValid(poller, m)
      <3>1. poller' = NoBlob /\ app' = app
        BY <1>2, <2>2 DEF AfterChunk
      <3> QED BY <3>1, <1>m DEF BlobInv, BlobTypeOK, NoBlob, FollowsSomeBlob, CompleteIsOver, BlobsSound,
                          CompleteIsWhole, ChunksArePrefix
    <2> QED BY <2>1, <2>2
  <1>3. CASE /\ poller' = NoBlob
             /\ app' = IF CompleteValid(poller, m) THEN [app EXCEPT !.whole = TRUE] ELSE app
    <2>1. /\ app'.stream = app.stream /\ app'.version = app.version /\ app'.bytes = app.bytes
          /\ app' \in [stream : BlobStreams, version : BlobVersions, bytes : Seq(Chunks), whole : BOOLEAN]
      BY <1>3 DEF BlobInv, BlobTypeOK
    <2>2. BlobTypeOK' /\ ~poller'.active
      BY <1>3, <1>m, <2>1 DEF BlobTypeOK, NoBlob
    <2>3. FollowsSomeBlob' /\ CompleteIsOver' /\ ChunksArePrefix'
      BY <2>1, <2>2 DEF FollowsSomeBlob, CompleteIsOver, BlobInv, BlobsSound, ChunksArePrefix
    <2>4. CompleteIsWhole'
      <3>1. CASE CompleteValid(poller, m)
        <4>1. poller.active /\ poller.next = poller.total
          BY <3>1 DEF CompleteValid
        <4>2. PICK a \in Blobs : a.stream = poller.stream /\ a.version = poller.version /\ a.total = poller.total
          BY <4>1 DEF BlobInv, FollowsSomeBlob
        <4>3. /\ app.stream = a.stream /\ app.version = a.version /\ Len(app.bytes) = a.total
              /\ \A i \in DOMAIN app.bytes : app.bytes[i] = <<app.stream, app.version, i - 1>>
          BY <4>1, <4>2 DEF BlobInv, BlobsSound, ChunksArePrefix
        <4>4. app.bytes \in [1 .. a.total -> Chunks]
          BY <4>3, LenProperties DEF BlobInv, BlobTypeOK
        <4>5. app.bytes = [i \in 1 .. a.total |-> <<a.stream, a.version, i - 1>>]
          BY <4>3, <4>4
        <4> QED BY <4>2, <4>3, <4>5, <2>1 DEF CompleteIsWhole
      <3>2. CASE ~CompleteValid(poller, m)
        BY <3>2, <1>3 DEF BlobInv, BlobsSound, CompleteIsWhole
      <3> QED BY <3>1, <3>2
    <2> QED BY <2>2, <2>3, <2>4 DEF BlobInv, BlobsSound
  <1>4. CASE UNCHANGED <<poller, app>>
    BY <1>4 DEF BlobInv, BlobTypeOK, FollowsSomeBlob, CompleteIsOver, BlobsSound, CompleteIsWhole, ChunksArePrefix
  <1> QED BY <1>1, <1>2, <1>3, <1>4 DEF Handle

\* Every step keeps the invariant.
LEMMA BlobStep == BlobInv /\ [BlobNext]_blobVars => BlobInv'
  <1> SUFFICES ASSUME BlobInv, [BlobNext]_blobVars PROVE BlobInv'
    OBVIOUS
  <1> DEFINE Kept == UNCHANGED <<poller, app>> /\ sending' \in [Blobs -> Nat]
  <1>k. ASSUME Kept PROVE BlobInv'
    BY <1>k DEF BlobInv, BlobTypeOK, FollowsSomeBlob, CompleteIsOver, BlobsSound, CompleteIsWhole, ChunksArePrefix
  <1>1. ASSUME NEW b \in Blobs, SendBlob(b) PROVE BlobInv'
    <2>1. sending[b] \in Nat /\ sending' \in [Blobs -> Nat]
      BY <1>1, BlobAssumption DEF SendBlob, BlobInv, BlobTypeOK
    <2> QED BY <1>1, <1>k, <2>1, HandlePreserves DEF SendBlob
  <1>2. ASSUME NEW b \in Blobs, Restart(b) PROVE BlobInv'
    BY <1>2, <1>k DEF Restart, BlobInv, BlobTypeOK
  <1>3. ASSUME NEW m \in Damaged, Handle(m), UNCHANGED sending PROVE BlobInv'
    BY <1>3, <1>k, BlobAssumption DEF Handle, Templates, BlobInv, BlobTypeOK
  <1>4. CASE UNCHANGED blobVars
    BY <1>4, <1>k DEF blobVars, BlobInv, BlobTypeOK
  <1> HIDE DEF Kept
  <1> QED BY <1>1, <1>2, <1>3, <1>4 DEF BlobNext

\* Whatever blobs producers send, whatever is lost or damaged and however their
\* messages interleave, what the metadata poller hands the application is a
\* prefix of the announced blob, and the whole of it when it says so.
THEOREM BlobsCorrect == BlobInit /\ [][BlobNext]_blobVars => []BlobsSound
  <1>1. BlobInv => BlobsSound
    BY DEF BlobInv
  <1> QED BY BlobInitial, BlobStep, <1>1, PTL

(***************************************************************************)
(* Trace ids and trace links                                               *)
(***************************************************************************)
\* 2^n counts the subsets of n things, which is where what is needed of it comes from.
LEMMA PowerIsSubsets ==
    ASSUME NEW n \in Nat
    PROVE  /\ 2^n \in Nat \ {0}
           /\ \A S : IsFiniteSet(S) /\ Cardinality(S) = n => IsFiniteSet(SUBSET S) /\ Cardinality(SUBSET S) = 2^n
  <1>1. \A S : IsFiniteSet(S) /\ Cardinality(S) = n => IsFiniteSet(SUBSET S) /\ Cardinality(SUBSET S) = 2^n
    BY FS_SUBSET
  <1>2. IsFiniteSet(1 .. n) /\ Cardinality(1 .. n) = n
    BY FS_Interval
  <1>3. 2^n \in Nat /\ IsFiniteSet(SUBSET (1 .. n)) /\ Cardinality(SUBSET (1 .. n)) = 2^n
    BY <1>1, <1>2, FS_CardinalityType, SMTT(30)
  <1>4. {} \in SUBSET (1 .. n)
    OBVIOUS
  <1>5. 2^n # 0
    BY <1>3, <1>4, FS_EmptySet
  <1> QED BY <1>1, <1>3, <1>5

\* The bits of node and sequence number side by side: a subset of a + b things is a
\* subset of a of them and one of the other b.
LEMMA PowerOfSum ==
    ASSUME NEW a \in Nat, NEW b \in Nat
    PROVE  2^(a + b) = 2^a * 2^b
  <1> DEFINE A == 1 .. a
             B == a + 1 .. a + b
             C == 1 .. a + b
             f == [X \in SUBSET C |-> <<X \cap A, X \cap B>>]
  <1>i. a + b \in Nat /\ a + 1 \in Int
    OBVIOUS
  <1>a. IsFiniteSet(A) /\ Cardinality(A) = a
    BY FS_Interval
  <1>b. IsFiniteSet(B) /\ Cardinality(B) = b
    BY <1>i, FS_Interval
  <1>c. IsFiniteSet(C) /\ Cardinality(C) = a + b
    BY <1>i, FS_Interval
  <1>2. C = A \cup B
    OBVIOUS
  <1> HIDE DEF A, B, C
  <1>3. f \in [SUBSET C -> (SUBSET A) \X (SUBSET B)]
    OBVIOUS
  <1>4. ASSUME NEW X \in SUBSET C, NEW Y \in SUBSET C, f[X] = f[Y] PROVE X = Y
    <2>1. X \cap A = Y \cap A /\ X \cap B = Y \cap B
      BY <1>4
    <2> QED BY <2>1, <1>2
  <1>d. A \cap B = {}
    BY DEF A, B
  <1>5. ASSUME NEW t \in (SUBSET A) \X (SUBSET B) PROVE \E X \in SUBSET C : f[X] = t
    <2>1. PICK P \in SUBSET A, Q \in SUBSET B : t = <<P, Q>>
      OBVIOUS
    <2>2. P \cup Q \in SUBSET C
      BY <1>2
    <2>3. (P \cup Q) \cap A = P /\ (P \cup Q) \cap B = Q
      BY <1>d
    <2> QED BY <2>1, <2>2, <2>3
  <1> HIDE DEF f
  <1>6. f \in Bijection(SUBSET C, (SUBSET A) \X (SUBSET B))
    BY <1>3, <1>4, <1>5, Fun_IsBij
  <1>7. ExistsBijection(SUBSET C, (SUBSET A) \X (SUBSET B))
    BY <1>6 DEF ExistsBijection
  <1>8. IsFiniteSet(SUBSET A) /\ Cardinality(SUBSET A) = 2^a
    BY <1>a, FS_SUBSET
  <1>9. IsFiniteSet(SUBSET B) /\ Cardinality(SUBSET B) = 2^b
    BY <1>b, FS_SUBSET
  <1>10. IsFiniteSet(SUBSET C) /\ Cardinality(SUBSET C) = 2^(a + b)
    BY <1>c, FS_SUBSET
  <1>11. Cardinality((SUBSET A) \X (SUBSET B)) = Cardinality(SUBSET A) * Cardinality(SUBSET B)
    BY <1>8, <1>9, FS_Product
  <1>12. Cardinality((SUBSET A) \X (SUBSET B)) = Cardinality(SUBSET C)
    BY <1>7, <1>10, FS_Bijection
  <1> QED BY <1>8, <1>9, <1>10, <1>11, <1>12
\* Different multiples of c are at least c apart.
LEMMA MultipleGap ==
    ASSUME NEW c \in Nat \ {0}, NEW x \in Nat, NEW y \in Nat, x < y
    PROVE  c * x + c <= c * y
  <1>1. c * x + c = c * (x + 1)
    OBVIOUS
  <1>2. \A a, b \in Nat : a <= b => c * a <= c * b
    OBVIOUS
  <1> QED BY <1>1, <1>2
\* A quotient and a remainder can be read back.
LEMMA QuotientRemainder ==
    ASSUME NEW c \in Nat \ {0}, NEW q \in Nat, NEW r \in 0 .. c - 1
    PROVE  (c * q + r) \div c = q /\ ((c * q + r) % c) = r
  <1> DEFINE n == c * q + r
             x == n \div c
             z == n % c
  <1>1. n \in Nat OBVIOUS
  <1>2. x \in Nat /\ z \in 0 .. c - 1 /\ n = c * x + z
    BY <1>1
  <1> HIDE DEF x, z
  <1>3. ~(x < q)
    <2> SUFFICES ASSUME x < q PROVE FALSE OBVIOUS
    <2>1. c * x + c <= c * q BY <1>2, MultipleGap
    <2>2. c * x \in Nat /\ c * q \in Nat BY <1>2
    <2> QED BY <1>2, <2>1, <2>2
  <1>4. ~(q < x)
    <2> SUFFICES ASSUME q < x PROVE FALSE OBVIOUS
    <2>1. c * q + c <= c * x BY <1>2, MultipleGap
    <2>2. c * x \in Nat /\ c * q \in Nat BY <1>2
    <2> QED BY <1>2, <2>1, <2>2
  <1>5. x = q BY <1>2, <1>3, <1>4
  <1>6. z = r BY <1>2, <1>5
  <1> QED BY <1>5, <1>6 DEF x, z

\* How many sequence numbers and nodes there are.
SeqSpan == 2^SeqBits
NodeSpan == 2^NodeBits

\* What the bit widths mean for the numbers (TraceAssumption).
LEMMA Widths ==
    /\ SeqSpan \in Nat \ {0} /\ NodeSpan \in Nat \ {0} /\ Shift = NodeSpan * SeqSpan
    /\ MaxSequence = SeqSpan - 1 /\ Shift \in Nat \ {0} /\ Shift >= SeqSpan
  <1>1. SeqSpan \in Nat \ {0} /\ NodeSpan \in Nat \ {0}
    BY TraceAssumption, PowerIsSubsets DEF SeqSpan, NodeSpan
  <1>2. Shift = NodeSpan * SeqSpan
    BY TraceAssumption, PowerOfSum DEF SeqSpan, NodeSpan, Shift
  <1>3. NodeSpan * SeqSpan \in Nat \ {0} /\ NodeSpan * SeqSpan >= SeqSpan
    BY <1>1
  <1> QED BY <1>1, <1>2, <1>3 DEF MaxSequence, SeqSpan

\* A word of time ts and sequence number s.
WordOf(ts, s) == ts * Shift + s

\* tp_trace_id_generator_next can tell time and sequence number of its word apart.
LEMMA WordParts ==
    ASSUME NEW ts \in Nat, NEW s \in 0 .. MaxSequence
    PROVE  /\ WordOf(ts, s) \in Nat
           /\ WordOf(ts, s) \div Shift = ts
           /\ (WordOf(ts, s) % 2^SeqBits) = s
  <1>1. WordOf(ts, s) = Shift * ts + s /\ s \in 0 .. Shift - 1 /\ s \in 0 .. SeqSpan - 1
    BY Widths DEF WordOf
  <1>2. WordOf(ts, s) \in Nat /\ WordOf(ts, s) \div Shift = ts
    <2>1. Shift \in Nat \ {0}
      BY Widths
    <2>2. (Shift * ts + s) \div Shift = ts
      BY <1>1, <2>1, QuotientRemainder
    <2>3. Shift * ts \in Nat
      BY <2>1
    <2> QED BY <1>1, <2>2, <2>3
  <1>3. NodeSpan * ts \in Nat /\ Shift * ts = SeqSpan * (NodeSpan * ts)
    BY Widths
  <1>4. ((SeqSpan * (NodeSpan * ts) + s) % SeqSpan) = s
    BY <1>1, <1>3, QuotientRemainder, Widths
  <1> QED BY <1>1, <1>2, <1>3, <1>4 DEF SeqSpan

\* tp_trace_id_extract_timestamp, _node_id and _sequence are inverse to TraceId.
LEMMA IdParts ==
    ASSUME NEW ts \in Nat, NEW s \in 0 .. MaxSequence, NEW g \in Generators
    PROVE  LET id == TraceId(g, WordOf(ts, s))
           IN  /\ id \in Nat
               /\ ExtractTimestamp(id) = ts
               /\ ExtractNodeId(id) = NodeOf[g]
               /\ ExtractSequence(id) = s
  <1> DEFINE n == NodeOf[g]
             id == TraceId(g, WordOf(ts, s))
  <1>1. n \in 0 .. NodeSpan - 1 /\ n \in Nat
    BY TraceAssumption, Widths DEF NodeSpan
  <1> HIDE DEF n
  <1>2. n * SeqSpan + s \in 0 .. Shift - 1 /\ n * SeqSpan \in Nat
    <2>1. n * SeqSpan \in Nat /\ SeqSpan * n + SeqSpan <= SeqSpan * NodeSpan
      BY <1>1, MultipleGap, Widths
    <2> QED BY <1>1, <2>1, Widths
  <1>3. id = Shift * ts + (n * SeqSpan + s)
    BY <1>1, <1>2, Widths DEF TraceId, WordOf, SeqSpan, n
  <1>4. /\ NodeSpan * ts \in Nat /\ NodeSpan * ts + n \in Nat
        /\ s \in 0 .. SeqSpan - 1 /\ id = SeqSpan * (NodeSpan * ts + n) + s
    <2>1. Shift * ts = SeqSpan * (NodeSpan * ts)
      BY Widths
    <2>2. NodeSpan * ts \in Nat
      BY Widths
    <2>3. SeqSpan * (NodeSpan * ts + n) = SeqSpan * (NodeSpan * ts) + n * SeqSpan
      BY <2>2, <1>1, Widths
    <2> QED BY <1>1, <1>2, <1>3, <2>1, <2>2, <2>3, Widths
  <1> HIDE DEF id
  <1>5. id \in Nat /\ id \div Shift = ts
    <2>1. Shift \in Nat \ {0}
      BY Widths
    <2>2. (Shift * ts + (n * SeqSpan + s)) \div Shift = ts
      BY <1>2, <2>1, QuotientRemainder
    <2>3. Shift * ts \in Nat
      BY <2>1
    <2> QED BY <1>2, <1>3, <2>2, <2>3
  <1>6. id \div SeqSpan = NodeSpan * ts + n /\ (id % SeqSpan) = s
    BY <1>4, QuotientRemainder, Widths
  <1>7. ((id \div SeqSpan) % NodeSpan) = n
    <2>1. NodeSpan \in Nat \ {0}
      BY Widths
    <2>2. ((NodeSpan * ts + n) % NodeSpan) = n
      BY <1>1, <2>1, QuotientRemainder
    <2> QED BY <1>6, <2>2
  <1> QED BY <1>5, <1>6, <1>7 DEF ExtractTimestamp, ExtractNodeId, ExtractSequence, SeqSpan, NodeSpan, n, id


ThreadRecord == [pc : {"idle", "load", "clock", "cas", "have"}, old : Nat, ts : Nat, id : Nat, parents : Seq(Nat)]
OwedRecord == [epoch : Nat, seq : Nat, id : Nat, parents : Seq(Nat)]
EntryRecord == [seq : Int, id : Nat]
ProducerRecord == [epoch : Nat, next_seq : Nat, entries : [0 .. NSlots - 1 -> EntryRecord]]

\* The types of the trace state.
TraceShape ==
    /\ word \in [Generators -> Nat]
    /\ thread \in [Producers -> ThreadRecord]
    /\ prod \in [Producers -> ProducerRecord]
    /\ owed \in [Producers -> SUBSET OwedRecord]
    /\ drawn \in [Generators -> SUBSET Nat]
    /\ latest \in Nat /\ latest >= Offset

\* A word of a time read by now.
IsWord(w) == \E ts \in 0 .. latest - Offset, s \in 0 .. MaxSequence : w = WordOf(ts, s)

\* Every generator holds a word.
WordsSound == \A g \in Generators : IsWord(word[g])

\* An id that was drawn is of a word the generator held: at most the present one.
DrawnSound ==
    \A g \in Generators : \A id \in drawn[g] : \E w \in 0 .. word[g] : IsWord(w) /\ id = TraceId(g, w)

\* What a thread knows at its step, and of the links it is to send.
ThreadsSound ==
    \A p \in Producers :
        /\ thread[p].pc = "cas" => thread[p].ts <= latest - Offset
        /\ thread[p].pc = "have" => thread[p].id # 0
        /\ \A o \in owed[p] : Len(o.parents) > 1

\* The record of a frame is of a descriptor that was sent in the current epoch.
EntriesSound ==
    \A p \in Producers : \A i \in 0 .. NSlots - 1 :
        LET e == prod[p].entries[i]
        IN  e # NoEntry => /\ (e.seq % NSlots) = i
                           /\ [p |-> p, epoch |-> prod[p].epoch, seq |-> e.seq, id |-> e.id] \in sent

TraceInv ==
    TraceShape /\ WordsSound /\ DrawnSound /\ ThreadsSound /\ EntriesSound /\ LinkNamesPublishedFrame

-----------------------------------------------------------------------------
\* A thread that draws nothing.
LEMMA IdleTyped == Idle \in ThreadRecord
  BY EmptySeq DEF Idle, ThreadRecord

\* tp_producer_init_tracelink_entries
LEMMA EmptyTyped == EmptyEntries \in [0 .. NSlots - 1 -> EntryRecord]
  BY DEF EmptyEntries, NoEntry, EntryRecord

\* The initial states.
LEMMA TraceInitial == TraceInit => TraceInv
  <1> SUFFICES ASSUME TraceInit PROVE TraceInv
    OBVIOUS
  <1>1. TraceShape
    BY IdleTyped, EmptyTyped, TraceAssumption DEF TraceInit, TraceShape, ProducerRecord
  <1>2. WordsSound
    <2>1. 0 \in 0 .. latest - Offset /\ 0 \in 0 .. MaxSequence /\ WordOf(0, 0) = 0
      BY Widths, TraceAssumption DEF TraceInit, WordOf
    <2> QED BY <2>1 DEF TraceInit, WordsSound, IsWord
  <1>3. DrawnSound /\ LinkNamesPublishedFrame
    BY DEF TraceInit, DrawnSound, LinkNamesPublishedFrame
  <1>4. ThreadsSound
    BY DEF TraceInit, ThreadsSound, Idle
  <1>5. EntriesSound
    BY DEF TraceInit, EntriesSound, EmptyEntries
  <1> QED BY <1>1, <1>2, <1>3, <1>4, <1>5 DEF TraceInv

\* The clock does not begin before time 0.
LEMMA OffsetIsNat == Offset \in Nat
  BY TraceAssumption

\* Times before a are times before b.
LEMMA LaterTimes ==
    ASSUME NEW a \in Nat, NEW b \in Nat, NEW o \in Nat, a <= b
    PROVE  a - o <= b - o /\ a - o \in Int /\ b - o \in Int /\ 0 .. a - o \subseteq 0 .. b - o
  OBVIOUS

\* A word and the ids drawn stay sound as time goes on.
LEMMA LaterWords ==
    ASSUME TraceInv, latest' \in Nat, latest' >= latest, UNCHANGED <<word, drawn>>
    PROVE  WordsSound' /\ DrawnSound'
  <1>1. latest \in Nat /\ 0 .. latest - Offset \subseteq 0 .. latest' - Offset
    <2>1. latest \in Nat
      BY DEF TraceInv, TraceShape
    <2> QED BY <2>1, OffsetIsNat, LaterTimes
  <1>2. \A w : IsWord(w) => IsWord(w)'
    <2> SUFFICES ASSUME NEW w, IsWord(w) PROVE IsWord(w)'
      OBVIOUS
    <2>1. PICK ts \in 0 .. latest - Offset, s \in 0 .. MaxSequence : w = WordOf(ts, s)
      BY DEF IsWord
    <2>2. ts \in 0 .. latest' - Offset
      BY <1>1
    <2> QED BY <2>1, <2>2 DEF IsWord
  <1> QED BY <1>2 DEF TraceInv, WordsSound, DrawnSound

\* tp_tracelink_resolve_trace_id
LEMMA ResolveStep ==
    ASSUME TraceInv, NEW p \in Producers, NEW parents \in Parents, Resolve(p, parents) PROVE TraceInv'
  <1> DEFINE t == IF Len(parents) = 1 THEN [Idle EXCEPT !.pc = "have", !.id = parents[1]]
                  ELSE [Idle EXCEPT !.pc = "load", !.parents = parents]
  <1>1. thread' = [thread EXCEPT ![p] = t] /\ UNCHANGED <<word, prod, drawn, latest, sent, owed, links>>
    BY DEF Resolve
  <1>2. t \in ThreadRecord /\ t.pc \in {"have", "load"} /\ (t.pc = "have" => t.id # 0)
    <2>1. parents \in Seq(Nat)
      BY TraceAssumption
    <2>2. CASE Len(parents) = 1
      <3>1. 1 \in DOMAIN parents /\ parents[1] \in Nat
        BY <2>1, <2>2
      <3>2. parents[1] # 0
        BY <3>1 DEF Resolve, ParentsValid
      <3> QED BY <2>2, <3>1, <3>2, EmptySeq DEF Idle, ThreadRecord
    <2>3. CASE Len(parents) # 1
      BY <2>1, <2>3 DEF Idle, ThreadRecord
    <2> QED BY <2>2, <2>3
  <1> HIDE DEF t
  <1>3. TraceShape'
    BY <1>1, <1>2 DEF TraceInv, TraceShape
  <1>4. ThreadsSound'
    BY <1>1, <1>2 DEF TraceInv, TraceShape, ThreadsSound
  <1>5. WordsSound' /\ DrawnSound'
    BY <1>1, LaterWords DEF TraceInv, TraceShape
  <1>6. EntriesSound' /\ LinkNamesPublishedFrame'
    BY <1>1 DEF TraceInv, EntriesSound, LinkNamesPublishedFrame
  <1> QED BY <1>3, <1>4, <1>5, <1>6 DEF TraceInv

\* tp_trace_id_generator_next: the load
LEMMA LoadStep ==
    ASSUME TraceInv, NEW p \in Producers, Load(p) PROVE TraceInv'
  <1> DEFINE t == [thread[p] EXCEPT !.pc = "clock", !.old = word[GeneratorOf[p]]]
  <1>1. thread' = [thread EXCEPT ![p] = t] /\ UNCHANGED <<word, prod, drawn, latest, sent, owed, links>>
    BY DEF Load, TraceInv, TraceShape, ThreadRecord
  <1>2. t \in ThreadRecord /\ t.pc = "clock"
    BY TraceAssumption DEF TraceInv, TraceShape, ThreadRecord
  <1> HIDE DEF t
  <1>3. TraceShape'
    BY <1>1, <1>2 DEF TraceInv, TraceShape
  <1>4. ThreadsSound'
    BY <1>1, <1>2 DEF TraceInv, TraceShape, ThreadsSound
  <1>5. WordsSound' /\ DrawnSound'
    BY <1>1, LaterWords DEF TraceInv, TraceShape
  <1>6. EntriesSound' /\ LinkNamesPublishedFrame'
    BY <1>1 DEF TraceInv, EntriesSound, LinkNamesPublishedFrame
  <1> QED BY <1>3, <1>4, <1>5, <1>6 DEF TraceInv

\* ... the clock
LEMMA ReadClockStep ==
    ASSUME TraceInv, NEW p \in Producers, ReadClock(p) PROVE TraceInv'
  <1>0. PICK ms \in Offset .. MaxClock :
          /\ thread' = [thread EXCEPT ![p].pc = "cas", ![p].ts = ms - Offset]
          /\ latest' = IF ms > latest THEN ms ELSE latest
          /\ UNCHANGED <<word, prod, drawn, sent, owed, links>>
    BY DEF ReadClock
  <1> DEFINE t == [thread[p] EXCEPT !.pc = "cas", !.ts = ms - Offset]
  <1>1. thread' = [thread EXCEPT ![p] = t]
    BY <1>0 DEF TraceInv, TraceShape, ThreadRecord
  <1>2. latest' \in Nat /\ latest' >= latest /\ latest' >= Offset /\ ms - Offset \in Nat /\ ms - Offset <= latest' - Offset
    BY <1>0, TraceAssumption DEF TraceInv, TraceShape
  <1>3. t \in ThreadRecord /\ t.pc = "cas" /\ t.ts = ms - Offset
    BY <1>2 DEF TraceInv, TraceShape, ThreadRecord
  <1> HIDE DEF t
  <1>4. TraceShape'
    BY <1>0, <1>1, <1>2, <1>3 DEF TraceInv, TraceShape
  <1>5. ThreadsSound'
    <2>1. \A q \in Producers : q # p => thread'[q] = thread[q] /\ thread[q].ts \in Nat
      BY <1>1 DEF TraceInv, TraceShape, ThreadRecord
    <2>2. thread'[p] = t
      BY <1>1 DEF TraceInv, TraceShape
    <2>3. latest - Offset <= latest' - Offset /\ latest - Offset \in Int /\ latest' - Offset \in Int
      <3>1. latest \in Nat
        BY DEF TraceInv, TraceShape
      <3> QED BY <1>2, <3>1, OffsetIsNat, LaterTimes
    <2>4. \A q \in Producers : \A o \in owed'[q] : Len(o.parents) > 1
      BY <1>0 DEF TraceInv, ThreadsSound
    <2> QED BY <1>2, <1>3, <2>1, <2>2, <2>3, <2>4 DEF TraceInv, ThreadsSound
  <1>6. WordsSound' /\ DrawnSound'
    BY <1>0, <1>2, LaterWords
  <1>7. EntriesSound' /\ LinkNamesPublishedFrame'
    BY <1>0 DEF TraceInv, EntriesSound, LinkNamesPublishedFrame
  <1> QED BY <1>4, <1>5, <1>6, <1>7 DEF TraceInv

\* The word that follows another is greater, and a word.
LEMMA SuccessorSound ==
    ASSUME NEW g \in Generators, NEW old, IsWord(old), NEW ts \in 0 .. latest - Offset, NEW w \in Successor(old, ts),
           latest \in Nat, latest >= Offset
    PROVE  IsWord(w) /\ w \in Nat /\ old \in Nat /\ w > old
  <1>1. PICK t \in 0 .. latest - Offset, s \in 0 .. MaxSequence : old = WordOf(t, s)
    BY DEF IsWord
  <1>2. t \in Nat /\ old \in Nat /\ old \div Shift = t /\ (old % 2^SeqBits) = s
    BY <1>1, WordParts, TraceAssumption
  <1>3. CASE ts > old \div Shift
    <2>1. w = WordOf(ts, 0) /\ 0 \in 0 .. MaxSequence
      BY <1>3, Widths, TraceAssumption DEF Successor, WordOf
    <2>2. w \in Nat
      BY <2>1, WordParts, TraceAssumption
    <2>3. Shift * t + Shift <= Shift * ts
      <3>1. Shift \in Nat \ {0}
        BY Widths
      <3> QED BY <1>2, <1>3, <3>1, MultipleGap, TraceAssumption
    <2>4. s < Shift /\ s \in Nat /\ Shift \in Nat
      BY Widths
    <2>5. Shift * t = t * Shift /\ Shift * ts = ts * Shift /\ Shift * t \in Nat /\ Shift * ts \in Nat
      BY <1>2, <2>4
    <2> QED BY <1>1, <2>1, <2>2, <2>3, <2>4, <2>5, <1>2 DEF IsWord, WordOf
  <1>4. CASE ~(ts > old \div Shift) /\ s < MaxSequence
    <2>1. w = old + 1
      BY <1>2, <1>4 DEF Successor
    <2>2. s + 1 \in 0 .. MaxSequence /\ t * Shift \in Nat
      BY <1>4, <1>2, Widths
    <2>3. w = WordOf(t, s + 1)
      BY <2>1, <2>2, <1>1 DEF WordOf
    <2> QED BY <2>1, <2>2, <2>3, <1>2 DEF IsWord
  <1>5. CASE ~(ts > old \div Shift) /\ ~(s < MaxSequence)
    BY <1>2, <1>5 DEF Successor
  <1> QED BY <1>3, <1>4, <1>5

\* A compare-and-swap that succeeds draws an id above all that its generator drew: the
\* word has not moved since it was loaded.
LEMMA CasDraw ==
    ASSUME TraceInv, NEW p \in Producers, thread[p].pc = "cas",
           NEW g \in Generators, g = GeneratorOf[p], word[g] = thread[p].old,
           NEW w \in Successor(thread[p].old, thread[p].ts)
    PROVE  /\ IsWord(w) /\ w \in Nat /\ word[g] \in Nat /\ w > word[g]
           /\ TraceId(g, w) \in Nat /\ TraceId(g, w) >= w /\ TraceId(g, w) # 0
           /\ \A x \in drawn[g] : TraceId(g, w) > x
  <1>1. IsWord(word[g]) /\ thread[p].ts \in 0 .. latest - Offset /\ latest \in Nat /\ latest >= Offset
    BY TraceAssumption DEF TraceInv, WordsSound, ThreadsSound, TraceShape, ThreadRecord
  <1>2. IsWord(w) /\ w \in Nat /\ word[g] \in Nat /\ w > word[g]
    BY <1>1, SuccessorSound
  <1>3. NodeOf[g] * 2^SeqBits \in Nat
    <2>1. NodeOf[g] \in Nat /\ SeqSpan \in Nat
      BY TraceAssumption, Widths
    <2> QED BY <2>1 DEF SeqSpan
  <1>4. TraceId(g, w) \in Nat /\ TraceId(g, w) >= w /\ TraceId(g, w) # 0
    BY <1>2, <1>3 DEF TraceId
  <1>5. ASSUME NEW x \in drawn[g] PROVE TraceId(g, w) > x
    <2>1. PICK v \in 0 .. word[g] : x = TraceId(g, v)
      BY DEF TraceInv, DrawnSound
    <2> QED BY <2>1, <1>2, <1>3 DEF TraceId
  <1> QED BY <1>2, <1>4, <1>5

\* ... the compare-and-swap
LEMMA CasStep ==
    ASSUME TraceInv, NEW p \in Producers, Cas(p) PROVE TraceInv'
  <1> DEFINE g == GeneratorOf[p]
  <1>g. g \in Generators
    BY TraceAssumption
  <1>p. thread[p].pc = "cas" /\ UNCHANGED <<prod, latest, sent, owed, links>>
    BY DEF Cas
  <1>e. EntriesSound' /\ LinkNamesPublishedFrame'
    BY <1>p DEF TraceInv, EntriesSound, LinkNamesPublishedFrame
  <1>w. \A w : IsWord(w) => IsWord(w)'
    BY <1>p DEF IsWord
  <1>1. ASSUME word[g] = thread[p].old, NEW w \in Successor(thread[p].old, thread[p].ts),
               word' = [word EXCEPT ![g] = w],
               drawn' = [drawn EXCEPT ![g] = @ \cup {TraceId(g, w)}],
               thread' = [thread EXCEPT ![p] = Has(@, TraceId(g, w))]
        PROVE  TraceInv'
    <2> HIDE DEF g
    <2>1. /\ IsWord(w) /\ w \in Nat /\ word[g] \in Nat /\ w > word[g]
          /\ TraceId(g, w) \in Nat /\ TraceId(g, w) # 0
      BY <1>1, <1>g, <1>p, CasDraw DEF g
    <2> DEFINE t == Has(thread[p], TraceId(g, w))
    <2>2. t \in ThreadRecord /\ t.pc = "have" /\ t.id = TraceId(g, w)
      BY <2>1 DEF Has, Idle, ThreadRecord, TraceInv, TraceShape
    <2>3. thread' = [thread EXCEPT ![p] = t]
      BY <1>1
    <2> HIDE DEF t
    <2>4. TraceShape'
      BY <1>1, <1>g, <1>p, <2>1, <2>2, <2>3 DEF TraceInv, TraceShape
    <2>5. ThreadsSound'
      BY <1>p, <2>1, <2>2, <2>3 DEF TraceInv, TraceShape, ThreadsSound
    <2>6. WordsSound'
      BY <1>1, <1>g, <1>w, <2>1 DEF TraceInv, TraceShape, WordsSound
    <2>7. DrawnSound'
      <3> SUFFICES ASSUME NEW h \in Generators, NEW id \in drawn'[h]
                   PROVE  \E v \in 0 .. word'[h] : IsWord(v)' /\ id = TraceId(h, v)
        BY DEF DrawnSound
      <3>1. word'[h] \in Nat /\ word[h] \in Nat /\ word[h] <= word'[h]
        BY <1>1, <2>1 DEF TraceInv, TraceShape
      <3>2. CASE id \in drawn[h]
        <4>1. PICK v \in 0 .. word[h] : IsWord(v) /\ id = TraceId(h, v)
          BY <3>2 DEF TraceInv, DrawnSound
        <4> QED BY <3>1, <4>1, <1>w
      <3>3. CASE id \notin drawn[h]
        <4>1. h = g /\ id = TraceId(g, w) /\ word'[g] = w
          BY <3>3, <1>1, <1>g DEF TraceInv, TraceShape
        <4> QED BY <4>1, <2>1, <1>w
      <3> QED BY <3>2, <3>3
    <2> QED BY <1>e, <2>4, <2>5, <2>6, <2>7 DEF TraceInv
  <1>2. ASSUME thread' = [thread EXCEPT ![p] = Again(@)], UNCHANGED <<word, drawn>> PROVE TraceInv'
    <2> DEFINE t == Again(thread[p])
    <2>2. t \in ThreadRecord /\ t.pc = "load"
      BY DEF Again, Idle, ThreadRecord, TraceInv, TraceShape
    <2>3. thread' = [thread EXCEPT ![p] = t]
      BY <1>2
    <2> HIDE DEF t
    <2>4. TraceShape'
      BY <1>2, <1>p, <2>2, <2>3 DEF TraceInv, TraceShape
    <2>5. ThreadsSound'
      BY <1>p, <2>2, <2>3 DEF TraceInv, TraceShape, ThreadsSound
    <2>6. WordsSound' /\ DrawnSound'
      BY <1>p, <1>2, LaterWords DEF TraceInv, TraceShape
    <2> QED BY <1>e, <2>4, <2>5, <2>6 DEF TraceInv
  <1> QED BY <1>1, <1>2 DEF Cas

\* A descriptor, and the record of it.
LEMMA PublishStep ==
    ASSUME TraceInv, NEW p \in Producers, Publish(p) PROVE TraceInv'
  <1> DEFINE seq == prod[p].next_seq
             id == thread[p].id
             o == Owed(prod[p].epoch, seq, id, thread[p].parents)
  <1>0. PICK ok \in BOOLEAN :
            /\ thread[p].pc = "have"
            /\ prod' = [prod EXCEPT ![p] = Record(p, seq, id, ok)]
            /\ sent' = IF ok THEN sent \cup {[p |-> p, epoch |-> prod[p].epoch, seq |-> seq, id |-> id]} ELSE sent
            /\ thread' = [thread EXCEPT ![p] = Idle]
            /\ owed' = IF Len(thread[p].parents) > 1 THEN [owed EXCEPT ![p] = @ \cup {o}] ELSE owed
            /\ UNCHANGED <<word, drawn, latest, links>>
    BY DEF Publish
  <1>1. prod[p] \in ProducerRecord /\ thread[p] \in ThreadRecord
    BY DEF TraceInv, TraceShape
  <1>2. seq \in Nat /\ id \in Nat /\ id # 0
    BY <1>0, <1>1 DEF ProducerRecord, ThreadRecord, TraceInv, ThreadsSound
  <1>3. o \in OwedRecord /\ o.parents = thread[p].parents
    BY <1>1, <1>2 DEF ThreadRecord, ProducerRecord, OwedRecord, Owed
  <1> DEFINE r == Record(p, seq, id, ok)
             new == [seq |-> seq, id |-> id]
             at == seq % NSlots
  <1>4. at \in 0 .. NSlots - 1 /\ new \in EntryRecord
    BY <1>2, TraceAssumption DEF EntryRecord
  <1>5. /\ r \in ProducerRecord /\ r.epoch = prod[p].epoch
        /\ r.entries = IF ok THEN [prod[p].entries EXCEPT ![at] = new] ELSE prod[p].entries
    <2>1. r = [prod[p] EXCEPT !.next_seq = seq + 1,
                              !.entries = IF ok THEN [prod[p].entries EXCEPT ![at] = new] ELSE prod[p].entries]
      BY <1>1 DEF Record, ProducerRecord
    <2> HIDE DEF seq, at, new, r
    <2>2. (IF ok THEN [prod[p].entries EXCEPT ![at] = new] ELSE prod[p].entries) \in [0 .. NSlots - 1 -> EntryRecord]
      BY <1>1, <1>4 DEF ProducerRecord
    <2> DEFINE es == IF ok THEN [prod[p].entries EXCEPT ![at] = new] ELSE prod[p].entries
    <2>3. r = [prod[p] EXCEPT !.next_seq = seq + 1, !.entries = es] /\ es \in [0 .. NSlots - 1 -> EntryRecord]
      BY <2>1, <2>2
    <2>4. seq + 1 \in Nat
      BY <1>2
    <2> HIDE DEF es
    <2>5. r \in ProducerRecord /\ r.epoch = prod[p].epoch /\ r.entries = es
      BY <1>1, <2>3, <2>4 DEF ProducerRecord
    <2> QED BY <2>5 DEF es
  <1>6. TraceShape'
    <2> HIDE DEF r, o
    <2>1. owed' \in [Producers -> SUBSET OwedRecord]
      BY <1>0, <1>3 DEF TraceInv, TraceShape
    <2> QED BY <1>0, <1>5, <2>1, IdleTyped DEF TraceInv, TraceShape, r
  <1>7. ThreadsSound'
    <2> HIDE DEF o
    <2>1. Idle.pc = "idle"
      BY DEF Idle
    <2>2. \A q \in Producers : \A x \in owed'[q] : Len(x.parents) > 1
      BY <1>0, <1>3 DEF TraceInv, TraceShape, ThreadsSound
    <2> QED BY <1>0, <2>1, <2>2 DEF TraceInv, TraceShape, ThreadsSound
  <1>8. WordsSound' /\ DrawnSound'
    BY <1>0, LaterWords DEF TraceInv, TraceShape
  <1>9. EntriesSound'
    <2> SUFFICES ASSUME NEW q \in Producers, NEW i \in 0 .. NSlots - 1, prod'[q].entries[i] # NoEntry
                 PROVE  /\ (prod'[q].entries[i].seq % NSlots) = i
                        /\ [p |-> q, epoch |-> prod'[q].epoch, seq |-> prod'[q].entries[i].seq,
                            id |-> prod'[q].entries[i].id] \in sent'
      BY DEF EntriesSound
    <2>1. sent \subseteq sent'
      BY <1>0
    <2>2. CASE prod'[q].entries[i] = prod[q].entries[i] /\ prod'[q].epoch = prod[q].epoch
      BY <2>1, <2>2 DEF TraceInv, EntriesSound
    <2>3. CASE q = p /\ ok /\ i = at
      <3>1. prod'[p] = r
        BY <1>0 DEF TraceInv, TraceShape
      <3>2. r.entries[at] = new
        BY <1>1, <1>4, <1>5, <2>3 DEF ProducerRecord
      <3>3. [p |-> p, epoch |-> prod[p].epoch, seq |-> seq, id |-> id] \in sent'
        BY <1>0, <2>3
      <3>4. new.seq = seq /\ new.id = id
        OBVIOUS
      <3> HIDE DEF r, new, seq, id
      <3> QED BY <2>3, <3>1, <3>2, <3>3, <3>4, <1>5 DEF at
    <2>4. CASE ~(q = p /\ ok /\ i = at)
      <3> HIDE DEF new, at, seq, id, o
      <3>1. prod' = [prod EXCEPT ![p] = r]
        BY <1>0
      <3> HIDE DEF r
      <3>2. CASE q # p
        <4>1. prod'[q] = prod[q]
          BY <3>1, <3>2 DEF TraceInv, TraceShape
        <4> QED BY <4>1, <2>2
      <3>3. CASE q = p
        <4>1. prod'[q] = r
          BY <3>1, <3>3 DEF TraceInv, TraceShape
        <4>2. r.entries[i] = prod[p].entries[i]
          BY <2>4, <3>3, <1>1, <1>4, <1>5 DEF ProducerRecord
        <4> QED BY <4>1, <4>2, <3>3, <1>5, <2>2
      <3> QED BY <3>2, <3>3
    <2> QED BY <2>3, <2>4
  <1>10. LinkNamesPublishedFrame'
    <2>1. sent \subseteq sent' /\ links' = links
      BY <1>0
    <2> QED BY <2>1 DEF TraceInv, LinkNamesPublishedFrame
  <1> QED BY <1>6, <1>7, <1>8, <1>9, <1>10 DEF TraceInv

\* A list without repetitions has as many members as places.
LEMMA InjectiveList ==
    ASSUME NEW s \in Seq(Nat), IsInjective(s)
    PROVE  Cardinality(ToSet(s)) = Len(s)
  <1>1. Len(s) \in Nat /\ s \in [1 .. Len(s) -> ToSet(s)] /\ DOMAIN s = 1 .. Len(s)
    BY DEF ToSet
  <1>2. \A i, j \in 1 .. Len(s) : s[i] = s[j] => i = j
    BY <1>1 DEF IsInjective
  <1>3. \A x \in ToSet(s) : \E i \in 1 .. Len(s) : s[i] = x
    BY <1>1 DEF ToSet
  <1>4. s \in Bijection(1 .. Len(s), ToSet(s))
    BY <1>1, <1>2, <1>3, Fun_IsBij
  <1>5. ExistsBijection(1 .. Len(s), ToSet(s))
    BY <1>4 DEF ExistsBijection
  <1>6. IsFiniteSet(1 .. Len(s)) /\ Cardinality(1 .. Len(s)) = Len(s)
    BY <1>1, FS_Interval
  <1> QED BY <1>5, <1>6, FS_Bijection

\* tp_producer_send_tracelink_set
LEMMA SendLinkStep ==
    ASSUME TraceInv, NEW p \in Producers, SendLink(p) PROVE TraceInv'
  <1> DEFINE Link(o, e) == [p |-> p, epoch |-> e, seq |-> o.seq, id |-> o.id, parents |-> o.parents]
             Passes(l) == /\ l.epoch = prod[p].epoch /\ Validates(p, l) /\ SetEncodes(l)
                          /\ SetDecodes(Message(l)) # NoSet
             Sends(o, l) == /\ UNCHANGED <<word, thread, prod, drawn, latest, sent>>
                            /\ owed' = [owed EXCEPT ![p] = @ \ {o}]
                            /\ links' = IF Passes(l) THEN links \cup {SetDecodes(Message(l))} ELSE links
  <1>s. PICK t \in owed[p] : \E e \in {t.epoch, prod[p].epoch} : Sends(t, Link(t, e))
    BY DEF SendLink
  <1>u. PICK n \in {t.epoch, prod[p].epoch} : Sends(t, Link(t, n))
    BY <1>s
  <1> DEFINE set == Link(t, n)
  <1>0. Sends(t, set)
    BY <1>u
  <1>1. t \in OwedRecord /\ Len(t.parents) > 1
    BY <1>s DEF TraceInv, TraceShape, ThreadsSound
  <1>2. SetDecodes(Message(set)) \in {set, NoSet}
    BY DEF SetDecodes, Message
  <1>3. /\ set.p = p /\ set.seq = t.seq /\ set.id = t.id /\ set.parents = t.parents
        /\ t.seq \in Nat /\ t.id \in Nat /\ t.parents \in Seq(Nat)
    BY <1>1 DEF OwedRecord
  <1> HIDE DEF set
  <1>4. ASSUME set.epoch = prod[p].epoch, Validates(p, set), SetEncodes(set)
        PROVE  /\ [p |-> set.p, epoch |-> set.epoch, seq |-> set.seq, id |-> set.id] \in sent
               /\ Cardinality(ToSet(set.parents)) = Len(set.parents) /\ Len(set.parents) > 1
    <2> DEFINE i == set.seq % NSlots
               e == prod[p].entries[i]
    <2>1. i \in 0 .. NSlots - 1
      BY <1>3, TraceAssumption
    <2>2. e = [seq |-> set.seq, id |-> set.id]
      BY <1>4 DEF Validates
    <2>3. e.seq = set.seq /\ e.id = set.id /\ e # NoEntry
      BY <2>2, <1>3 DEF NoEntry
    <2>4. [p |-> p, epoch |-> prod[p].epoch, seq |-> e.seq, id |-> e.id] \in sent
      BY <2>1, <2>3 DEF TraceInv, EntriesSound
    <2>5. IsInjective(t.parents)
      BY <1>4, <1>3 DEF SetEncodes, ParentsValid
    <2>6. Cardinality(ToSet(t.parents)) = Len(t.parents)
      BY <1>3, <2>5, InjectiveList
    <2> HIDE DEF e
    <2> QED BY <1>1, <1>3, <1>4, <2>3, <2>4, <2>6
  <1>5. LinkNamesPublishedFrame'
    <2>1. ASSUME NEW l \in links', l \notin links
          PROVE  l = set /\ set.epoch = prod[p].epoch /\ Validates(p, set) /\ SetEncodes(set)
      BY <2>1, <1>0, <1>2
    <2> QED BY <2>1, <1>4, <1>0 DEF TraceInv, LinkNamesPublishedFrame
  <1>6. TraceShape'
    BY <1>0 DEF TraceInv, TraceShape
  <1>7. ThreadsSound'
    BY <1>0 DEF TraceInv, TraceShape, ThreadsSound
  <1>8. WordsSound' /\ DrawnSound'
    BY <1>0, LaterWords DEF TraceInv, TraceShape
  <1>9. EntriesSound'
    BY <1>0 DEF TraceInv, EntriesSound
  <1> QED BY <1>5, <1>6, <1>7, <1>8, <1>9 DEF TraceInv

\* An attach forgets the frames of the epoch before.
LEMMA AttachStep ==
    ASSUME TraceInv, NEW p \in Producers, Attach(p) PROVE TraceInv'
  <1> DEFINE r == [epoch |-> prod[p].epoch + 1, next_seq |-> 0, entries |-> EmptyEntries]
  <1>1. prod' = [prod EXCEPT ![p] = r] /\ UNCHANGED <<word, thread, drawn, latest, sent, owed, links>>
    BY DEF Attach
  <1>2. r \in ProducerRecord /\ \A i \in 0 .. NSlots - 1 : r.entries[i] = NoEntry
    <2>1. prod[p].epoch \in Nat
      BY DEF TraceInv, TraceShape, ProducerRecord
    <2>2. \A i \in 0 .. NSlots - 1 : EmptyEntries[i] = NoEntry
      BY DEF EmptyEntries
    <2> QED BY <2>1, <2>2, EmptyTyped DEF ProducerRecord
  <1> HIDE DEF r
  <1>3. TraceShape'
    BY <1>1, <1>2 DEF TraceInv, TraceShape
  <1>4. ThreadsSound' /\ LinkNamesPublishedFrame'
    BY <1>1 DEF TraceInv, ThreadsSound, LinkNamesPublishedFrame
  <1>5. WordsSound' /\ DrawnSound'
    BY <1>1, LaterWords DEF TraceInv, TraceShape
  <1>6. EntriesSound'
    <2>1. \A q \in Producers : q # p => prod'[q] = prod[q]
      BY <1>1 DEF TraceInv, TraceShape
    <2>2. prod'[p] = r
      BY <1>1 DEF TraceInv, TraceShape
    <2> QED BY <1>1, <1>2, <2>1, <2>2 DEF TraceInv, EntriesSound
  <1> QED BY <1>3, <1>4, <1>5, <1>6 DEF TraceInv

\* Every step keeps the invariant.
LEMMA TraceStep == TraceInv /\ [TraceNext]_traceVars => TraceInv'
  <1> SUFFICES ASSUME TraceInv, [TraceNext]_traceVars PROVE TraceInv'
    OBVIOUS
  <1>1. CASE UNCHANGED traceVars
    BY <1>1 DEF traceVars, TraceInv, TraceShape, WordsSound, IsWord, DrawnSound, ThreadsSound, EntriesSound,
       LinkNamesPublishedFrame
  <1>2. CASE TraceNext
    BY <1>2, ResolveStep, LoadStep, ReadClockStep, CasStep, PublishStep, SendLinkStep, AttachStep DEF TraceNext
  <1> QED BY <1>1, <1>2

\* The invariant says enough.
LEMMA TraceInvSound == TraceInv => TracesSound
  <1> SUFFICES ASSUME TraceInv PROVE TracesSound
    OBVIOUS
  <1>1. TraceTypeOK
    <2>1. \A g \in Generators : word[g] \in Nat
      BY DEF TraceInv, TraceShape
    <2>2. \A p \in Producers : /\ thread[p].pc \in {"idle", "load", "clock", "cas", "have"}
                               /\ thread[p].pc = "have" => thread[p].id # 0
      BY DEF TraceInv, TraceShape, ThreadRecord, ThreadsSound
    <2>3. \A p \in Producers : DOMAIN prod[p].entries = 0 .. NSlots - 1
      BY DEF TraceInv, TraceShape, ProducerRecord
    <2>4. \A p \in Producers : \A i \in DOMAIN prod[p].entries :
            prod[p].entries[i] # NoEntry => (prod[p].entries[i].seq % NSlots) = i
      BY <2>3 DEF TraceInv, EntriesSound
    <2> QED BY <2>1, <2>2, <2>4 DEF TraceTypeOK
  <1>2. IdsReadBack
    <2> SUFFICES ASSUME NEW g \in Generators, NEW id \in drawn[g]
                 PROVE  /\ ExtractNodeId(id) = NodeOf[g]
                        /\ ExtractTimestamp(id) \in 0 .. latest - Offset
                        /\ TraceId(g, ExtractTimestamp(id) * Shift + ExtractSequence(id)) = id
      BY DEF IdsReadBack
    <2>1. PICK ts \in 0 .. latest - Offset, s \in 0 .. MaxSequence : id = TraceId(g, WordOf(ts, s))
      BY DEF TraceInv, DrawnSound, IsWord
    <2>2. ts \in Nat
      BY TraceAssumption DEF TraceInv, TraceShape
    <2>3. ExtractTimestamp(id) = ts /\ ExtractNodeId(id) = NodeOf[g] /\ ExtractSequence(id) = s
      BY <2>1, <2>2, IdParts
    <2> QED BY <2>1, <2>3 DEF WordOf
  <1> QED BY <1>1, <1>2 DEF TracesSound, TraceInv

\* Whatever the clock shows and however the threads interleave: ids can be read back,
\* and a link that went out names a frame published with its id in its epoch.
THEOREM TracesCorrect == TraceInit /\ [][TraceNext]_traceVars => []TracesSound
  BY TraceInitial, TraceStep, TraceInvSound, PTL
\* Generators are given different node ids (the caller's part in tp_trace_id_generator_init).
DistinctNodes == \A g, h \in Generators : NodeOf[g] = NodeOf[h] => g = h

\* A draw is a compare-and-swap that succeeded.
LEMMA FreshStep ==
    ASSUME DistinctNodes, TraceInv, [TraceNext]_traceVars, NEW p \in Producers, DrawStep(p)
    PROVE  /\ \A g \in Generators : thread'[p].id \notin drawn[g]
           /\ \A x \in drawn[GeneratorOf[p]] : thread'[p].id > x
  <1>t. thread \in [Producers -> ThreadRecord]
    BY DEF TraceInv, TraceShape
  <1>d. thread[p].pc = "cas" /\ thread'[p].pc = "have"
    BY DEF DrawStep
  <1>1. PICK q \in Producers : \/ \E parents \in Parents : Resolve(q, parents)
                               \/ Load(q) \/ ReadClock(q) \/ Cas(q) \/ Publish(q) \/ SendLink(q) \/ Attach(q)
    BY <1>d DEF TraceNext, traceVars
  <1>2. q = p
    <2> SUFFICES ASSUME q # p PROVE thread'[p] = thread[p]
      BY <1>d
    <2>1. CASE \E parents \in Parents : Resolve(q, parents)
      BY <2>1, <1>t DEF Resolve
    <2>2. CASE Load(q) \/ ReadClock(q)
      BY <2>2, <1>t DEF Load, ReadClock
    <2>3. CASE Cas(q)
      BY <2>3, <1>t DEF Cas
    <2>4. CASE Publish(q) \/ SendLink(q) \/ Attach(q)
      BY <2>4, <1>t DEF Publish, SendLink, Attach
    <2> QED BY <1>1, <2>1, <2>2, <2>3, <2>4
  <1>3. Cas(p)
    BY <1>1, <1>2, <1>d DEF Resolve, Load, ReadClock, Publish, SendLink, Attach
  <1> DEFINE g == GeneratorOf[p]
  <1>g. g \in Generators
    BY TraceAssumption
  <1> HIDE DEF g
  <1>4. Again(thread[p]).pc = "load"
    BY DEF Again, Idle
  <1>5. PICK w \in Successor(thread[p].old, thread[p].ts) :
          word[g] = thread[p].old /\ thread' = [thread EXCEPT ![p] = Has(@, TraceId(g, w))]
    BY <1>3, <1>4, <1>d, <1>t DEF Cas, g
  <1>6. thread'[p].id = TraceId(g, w)
    BY <1>5, <1>t DEF Has, Idle
  <1>7. IsWord(w) /\ \A x \in drawn[g] : TraceId(g, w) > x
    BY <1>5, <1>d, <1>g, CasDraw DEF g
  <1>8. ASSUME NEW h \in Generators, TraceId(g, w) \in drawn[h] PROVE FALSE
    <2>1. ExtractNodeId(TraceId(g, w)) = NodeOf[h]
      BY <1>8, TraceInvSound DEF TracesSound, IdsReadBack
    <2>2. ExtractNodeId(TraceId(g, w)) = NodeOf[g]
      <3>1. PICK ts \in 0 .. latest - Offset, s \in 0 .. MaxSequence : w = WordOf(ts, s)
        BY <1>7 DEF IsWord
      <3>2. ts \in Nat
        BY OffsetIsNat DEF TraceInv, TraceShape
      <3> QED BY <3>1, <3>2, <1>g, IdParts
    <2>3. g = h
      BY <1>g, <2>1, <2>2 DEF DistinctNodes
    <2>4. drawn[g] \subseteq Nat
      BY <1>g DEF TraceInv, TraceShape
    <2> QED BY <1>7, <1>8, <2>3, <2>4
  <1> QED BY <1>6, <1>7, <1>8 DEF g

\* As long as no two generators have one node id, no id is given out twice, and those
\* of one generator grow.
THEOREM TraceIdsFresh == DistinctNodes => (TraceInit /\ [][TraceNext]_traceVars => DrawnFresh)
  <1> SUFFICES ASSUME DistinctNodes PROVE TraceInit /\ [][TraceNext]_traceVars => DrawnFresh
    OBVIOUS
  <1> DEFINE A == \A p \in Producers : DrawStep(p) =>
                    /\ \A g \in Generators : thread'[p].id \notin drawn[g]
                    /\ \A x \in drawn[GeneratorOf[p]] : thread'[p].id > x
  <1>1. TraceInv /\ [TraceNext]_traceVars => [A]_traceVars
    BY FreshStep
  <1>2. DrawnFresh <=> [][A]_traceVars
    BY DEF DrawnFresh
  <1> HIDE DEF A
  <1> QED BY TraceInitial, TraceStep, <1>1, <1>2, PTL

(***************************************************************************)
(* Progress reports                                                        *)
(***************************************************************************)
Index(f) == (f[2] % RingSlots[f[1]]) + 1
TrackEntry == [frame : Frame \cup {NoFrame}, bytes : Nat]
Tracker == [nslots : Nat, validates : BOOLEAN, cursor : Nat, entries : Seq(TrackEntry)]
SlotWord == [seq : -1 .. LastSeq, committed : BOOLEAN]

\* The header slots of an epoch, whose rings differ in length.
Places(e) == 0 .. RingSlots[e] - 1
SlotsTyped(words) ==
    /\ DOMAIN words = 1 .. LastEpoch
    /\ \A e \in 1 .. LastEpoch : words[e] \in [Places(e) -> SlotWord]
Held(i) == tracker.entries[i].frame
Size == Len(tracker.entries)

\* The types of the tracker's state.
ProgressShape ==
    /\ tracker \in Tracker
    /\ mapped \in 0 .. LastEpoch
    /\ SlotsTyped(slots)
    /\ given \in [Frame -> Nat]
    /\ back \in BOOLEAN

\* A frame is in its own slot.
SlotsSound ==
    \A e \in 1 .. LastEpoch : \A i \in Places(e) : slots[e][i].seq = -1 \/ (slots[e][i].seq % RingSlots[e]) = i

\* An entry holds what was last reported of its frame, and there is one entry of a frame.
EntriesTrue ==
    /\ \A i \in 1 .. Size : Held(i) # NoFrame => given[Held(i)] = tracker.entries[i].bytes /\ given[Held(i)] > 0
    /\ \A i, j \in 1 .. Size : Held(i) = Held(j) /\ Held(i) # NoFrame => i = j

\* A plain table forgets nothing before it is full, and fills from the front.
PlainSound ==
    ~tracker.validates =>
        /\ tracker.nslots = 0 /\ Size = TrackerCapacity /\ tracker.cursor < TrackerCapacity
        /\ \/ \A i \in 1 .. Size : Held(i) # NoFrame
           \/ /\ \A i \in 1 .. Size : Held(i) = NoFrame <=> i > tracker.cursor
              /\ \A f \in Frame : given[f] > 0 => \E i \in 1 .. Size : Held(i) = f

\* A consumer's entry is that of the slot; what was reported of a frame is still there
\* unless the slot has moved on or a later epoch is reported.
ConsumerSound ==
    tracker.validates =>
        /\ tracker.nslots = 0 => mapped = 0 /\ \A f \in Frame : given[f] = 0
        /\ mapped # 0 => tracker.nslots = RingSlots[mapped] /\ Size >= RingSlots[mapped]
        /\ \A f \in Frame : given[f] > 0 => Size >= RingSlots[f[1]]
        /\ \A i \in 1 .. Size : Held(i) # NoFrame => i = Index(Held(i))
        /\ \A f \in Frame : given[f] > 0 => slots[f[1]][f[2] % RingSlots[f[1]]].seq >= f[2]
        /\ ~back /\ mapped # 0 => \A f \in Frame : given[f] > 0 => f[1] <= mapped
        /\ ~back => \A f \in Frame : given[f] > 0 =>
              \/ Held(Index(f)) = f
              \/ Held(Index(f))[1] > f[1]
              \/ Held(Index(f))[1] = f[1] /\ slots[f[1]][f[2] % RingSlots[f[1]]].seq > f[2]

ProgressInv == ProgressShape /\ SlotsSound /\ EntriesTrue /\ PlainSound /\ ConsumerSound

-----------------------------------------------------------------------------
\* What a frame is, and where its entry is in a consumer's table.
LEMMA FrameParts ==
    ASSUME NEW f \in Frame
    PROVE  /\ f[1] \in 1 .. LastEpoch /\ f[2] \in 0 .. LastSeq /\ f # NoFrame
           /\ f = <<f[1], f[2]>>
           /\ RingSlots[f[1]] \in Nat \ {0} /\ (f[2] % RingSlots[f[1]]) \in Places(f[1])
           /\ Index(f) \in 1 .. RingSlots[f[1]] /\ Index(f) \in Nat
           /\ \A g \in Frame : g[1] = f[1] /\ g[2] = f[2] => g = f
  <1>1. f[1] \in 1 .. LastEpoch /\ f[2] \in 0 .. LastSeq /\ f = <<f[1], f[2]>>
    BY DEF Frame
  <1>2. f # NoFrame
    BY <1>1, ProgressAssumption DEF NoFrame
  <1>3. RingSlots[f[1]] \in Nat \ {0} /\ (f[2] % RingSlots[f[1]]) \in Places(f[1])
    <2>1. RingSlots[f[1]] \in Nat \ {0} /\ f[2] \in Nat
      BY <1>1, ProgressAssumption
    <2> QED BY <2>1 DEF Places
  <1>4. Index(f) \in 1 .. RingSlots[f[1]] /\ Index(f) \in Nat
    BY <1>3 DEF Index, Places
  <1>5. \A g \in Frame : g[1] = f[1] /\ g[2] = f[2] => g = f
    BY <1>1 DEF Frame
  <1> QED BY <1>1, <1>2, <1>3, <1>4, <1>5

\* The table of a tracker.
LEMMA TableTyped ==
    ASSUME ProgressShape
    PROVE  /\ Size \in Nat /\ tracker.entries \in [1 .. Size -> TrackEntry] /\ DOMAIN tracker.entries = 1 .. Size
           /\ \A i \in 1 .. Size : Held(i) \in Frame \cup {NoFrame} /\ tracker.entries[i].bytes \in Nat
  <1>1. tracker.entries \in Seq(TrackEntry)
    BY DEF ProgressShape, Tracker
  <1>2. Size \in Nat /\ tracker.entries \in [1 .. Size -> TrackEntry] /\ DOMAIN tracker.entries = 1 .. Size
    BY <1>1, LenProperties DEF Size
  <1>3. \A i \in 1 .. Size : Held(i) \in Frame \cup {NoFrame} /\ tracker.entries[i].bytes \in Nat
    BY <1>2 DEF Held, TrackEntry
  <1> QED BY <1>2, <1>3

\* tp_progress_poller_init
LEMMA ProgressInitial == ProgressInit => ProgressInv
  <1> SUFFICES ASSUME ProgressInit PROVE ProgressInv
    OBVIOUS
  <1> DEFINE table == [i \in 1 .. TrackerCapacity |-> Blank]
  <1>1. /\ table \in Seq(TrackEntry) /\ Len(table) = TrackerCapacity
        /\ \A i \in 1 .. TrackerCapacity : table[i].frame = NoFrame
    <2>1. Blank \in TrackEntry /\ Blank.frame = NoFrame
      BY DEF Blank, TrackEntry
    <2>2. table \in [1 .. TrackerCapacity -> TrackEntry]
      BY <2>1
    <2> QED BY <2>1, <2>2, ProgressAssumption, IsASeq
  <1> HIDE DEF table
  <1>2. PICK v \in BOOLEAN : tracker = [nslots |-> 0, validates |-> v, cursor |-> 0, entries |-> table]
    BY DEF ProgressInit, table
  <1>3. /\ tracker.nslots = 0 /\ tracker.validates = v /\ tracker.cursor = 0 /\ Size = TrackerCapacity
        /\ tracker.entries = table
    BY <1>1, <1>2 DEF Size
  <1>4. \A i \in 1 .. Size : Held(i) = NoFrame
    BY <1>1, <1>3 DEF Held
  <1>5. /\ mapped = 0 /\ given \in [Frame -> Nat] /\ \A f \in Frame : given[f] = 0
        /\ back = FALSE
    BY DEF ProgressInit
  <1>6. /\ SlotsTyped(slots)
        /\ \A e \in 1 .. LastEpoch : \A i \in Places(e) : slots[e][i].seq = -1
    <2>1. [seq |-> -1, committed |-> FALSE] \in SlotWord
      BY ProgressAssumption DEF SlotWord
    <2> QED BY <2>1 DEF ProgressInit, Places, SlotsTyped
  <1>7. ProgressShape
    <2>1. tracker \in Tracker
      BY <1>1, <1>2 DEF Tracker
    <2>2. 0 \in 0 .. LastEpoch
      BY ProgressAssumption
    <2> QED BY <2>1, <2>2, <1>5, <1>6 DEF ProgressShape
  <1>8. SlotsSound /\ EntriesTrue
    BY <1>4, <1>6 DEF SlotsSound, EntriesTrue
  <1>9. PlainSound
    BY <1>3, <1>4, <1>5, ProgressAssumption DEF PlainSound
  <1>10. ConsumerSound
    BY <1>3, <1>4, <1>5 DEF ConsumerSound
  <1> QED BY <1>7, <1>8, <1>9, <1>10 DEF ProgressInv

-----------------------------------------------------------------------------
\* Any nonempty set of sequence numbers has a greatest.
LEMMA GreatestSeq ==
    ASSUME NEW S \in SUBSET (-1 .. LastSeq), S # {}
    PROVE  \E s \in S : \A o \in S : o <= s
  <1> DEFINE R == OpToRel(<, Nat)
             T == {LastSeq - s : s \in S}
  <1>1. IsWellFoundedOn(R, Nat)
    BY NatLessThanWellFounded
  <1>2. \A j, k \in Nat : j < k => <<j, k>> \in R
    BY DEF OpToRel
  <1>3. T \subseteq Nat /\ T # {}
    <2>1. LastSeq \in Nat /\ \A x \in S : LastSeq - x \in Nat
      BY ProgressAssumption
    <2> QED BY <2>1
  <1> HIDE DEF R
  <1>4. \E k \in T : \A j \in T : ~(<<j, k>> \in R)
    BY <1>1, <1>3, WFMin
  <1>5. PICK s \in S : \A j \in T : ~(<<j, LastSeq - s>> \in R)
    BY <1>4
  <1>6. \A o \in S : ~(LastSeq - o < LastSeq - s)
    BY <1>2, <1>3, <1>5
  <1> QED BY <1>6, ProgressAssumption

\* A slot only moves on.
LEMMA WriteFrameStep ==
    ASSUME ProgressInv, NEW e \in 1 .. LastEpoch, WriteFrame(e) PROVE ProgressInv'
  <1> DEFINE held == {slots[e][i].seq : i \in Places(e)}
             top == CHOOSE s \in held : \A o \in held : o <= s
             s == NextOf(e)
             at == s % RingSlots[e]
             new == [seq |-> s, committed |-> slots[e][at].seq = s]
  <1>1. /\ slots' = [slots EXCEPT ![e][at] = new] /\ s <= LastSeq
        /\ UNCHANGED <<tracker, mapped, given, back>>
    BY DEF WriteFrame
  <1>2. \A i \in Places(e) : slots[e][i] \in SlotWord /\ slots[e][i].seq \in -1 .. LastSeq
    BY DEF ProgressInv, ProgressShape, SlotWord, SlotsTyped
  <1>3. held \in SUBSET (-1 .. LastSeq) /\ held # {}
    <2>1. 0 \in Places(e)
      BY ProgressAssumption DEF Places
    <2> QED BY <1>2, <2>1
  <1>4. top \in held /\ \A o \in held : o <= top
    <2>1. \E x \in held : \A o \in held : o <= x
      BY <1>3, GreatestSeq
    <2> HIDE DEF held
    <2> QED BY <2>1
  <1>5. s = (IF slots[e][top % RingSlots[e]].committed \/ top < 0 THEN top + 1 ELSE top)
    BY DEF NextOf, Places
  <1> HIDE DEF top, s
  <1>6. top \in Int /\ top >= -1 /\ s \in Int /\ s >= 0 /\ s \in 0 .. LastSeq
    <2>1. top \in -1 .. LastSeq /\ LastSeq \in Nat
      BY <1>3, <1>4, ProgressAssumption
    <2>2. s = top + 1 \/ (s = top /\ ~(top < 0))
      BY <1>5
    <2> QED BY <1>1, <2>1, <2>2
  <1>7. at \in Places(e)
    BY <1>6, ProgressAssumption DEF Places
  <1>8. \A i \in Places(e) : slots[e][i].seq <= s
    <2>1. \A i \in Places(e) : slots[e][i].seq <= top /\ slots[e][i].seq \in Int
      BY <1>2, <1>4
    <2> QED BY <2>1, <1>5, <1>6
  <1> HIDE DEF held
  <1>9. new \in SlotWord /\ new.seq = s
    BY <1>6 DEF SlotWord
  <1> HIDE DEF new, at
  <1>10. /\ SlotsTyped(slots')
         /\ slots'[e][at] = new
         /\ \A d \in 1 .. LastEpoch : \A i \in Places(d) :
              slots'[d][i] = slots[d][i] \/ (d = e /\ i = at)
    <2>1. SlotsTyped(slots)
      BY DEF ProgressInv, ProgressShape
    <2> QED BY <1>1, <1>7, <1>9, <2>1 DEF SlotsTyped
  <1>11. \A d \in 1 .. LastEpoch : \A i \in Places(d) :
            slots[d][i].seq \in Int /\ slots'[d][i].seq \in Int /\ slots[d][i].seq <= slots'[d][i].seq
    <2>1. \A d \in 1 .. LastEpoch : \A i \in Places(d) : slots[d][i].seq \in Int /\ slots'[d][i].seq \in Int
      <3>1. \A w \in SlotWord : w.seq \in Int
        BY DEF SlotWord
      <3>2. SlotsTyped(slots)
        BY DEF ProgressInv, ProgressShape
      <3> QED BY <1>10, <3>1, <3>2 DEF SlotsTyped
    <2> QED BY <2>1, <1>7, <1>8, <1>9, <1>10
  <1>12. ProgressShape'
    BY <1>1, <1>10 DEF ProgressInv, ProgressShape
  <1>13. SlotsSound'
    BY <1>9, <1>10 DEF ProgressInv, SlotsSound, at
  <1>14. EntriesTrue' /\ PlainSound'
    BY <1>1 DEF ProgressInv, EntriesTrue, PlainSound, Held, Size
  <1>15. ConsumerSound'
    <2>1. \A f \in Frame : /\ f[1] \in 1 .. LastEpoch /\ (f[2] % RingSlots[f[1]]) \in Places(f[1]) /\ f[2] \in Int
      BY FrameParts
    <2>2. \A i : Held(i)' = Held(i)
      BY <1>1 DEF Held
    <2>3. Size' = Size
      BY <1>1 DEF Size
    <2> QED BY <1>1, <1>11, <2>1, <2>2, <2>3 DEF ProgressInv, ConsumerSound
  <1> QED BY <1>12, <1>13, <1>14, <1>15 DEF ProgressInv

-----------------------------------------------------------------------------
\* A consumer's table after tp_progress_poller_set_consumer: what was there is there.
LEMMA SetConsumerKeeps ==
    ASSUME ProgressInv, NEW e \in 1 .. LastEpoch, NEW t, t = SetConsumer(tracker, e)
    PROVE  /\ t \in Tracker /\ t.nslots = RingSlots[e] /\ t.validates = tracker.validates
           /\ Len(t.entries) >= RingSlots[e] /\ Len(t.entries) >= Size /\ Len(t.entries) \in Nat
           /\ \A i \in 1 .. Size : t.entries[i] = tracker.entries[i]
           /\ \A i \in 1 .. Len(t.entries) : i > Size => t.entries[i].frame = NoFrame
  <1>1. /\ Size \in Nat /\ tracker.entries \in [1 .. Size -> TrackEntry] /\ DOMAIN tracker.entries = 1 .. Size
        /\ tracker.entries \in Seq(TrackEntry) /\ RingSlots[e] \in Nat \ {0} /\ tracker \in Tracker
        /\ Size = Len(tracker.entries)
    BY TableTyped, ProgressAssumption DEF ProgressInv, ProgressShape, Tracker, Size
  <1>2. CASE Size < RingSlots[e]
    <2> DEFINE es == [i \in 1 .. RingSlots[e] |-> IF i <= Size THEN tracker.entries[i] ELSE Blank]
    <2>1. t = [[tracker EXCEPT !.entries = es] EXCEPT !.nslots = RingSlots[e]]
      BY <1>1, <1>2 DEF SetConsumer, Resize, Size, Tracker
    <2>2. Blank \in TrackEntry /\ Blank.frame = NoFrame
      BY DEF Blank, TrackEntry
    <2>3. es \in [1 .. RingSlots[e] -> TrackEntry]
      BY <1>1, <2>2
    <2>4. es \in Seq(TrackEntry) /\ Len(es) = RingSlots[e]
      BY <1>1, <2>3, IsASeq
    <2>5. /\ \A i \in 1 .. Size : es[i] = tracker.entries[i]
          /\ \A i \in 1 .. RingSlots[e] : i > Size => es[i].frame = NoFrame
      BY <1>1, <1>2, <2>2
    <2> HIDE DEF es
    <2>6. t \in Tracker /\ t.nslots = RingSlots[e] /\ t.validates = tracker.validates /\ t.entries = es
      BY <1>1, <2>1, <2>4 DEF Tracker
    <2> QED BY <1>1, <1>2, <2>4, <2>5, <2>6
  <1>3. CASE ~(Size < RingSlots[e])
    <2>1. t = [tracker EXCEPT !.nslots = RingSlots[e]]
      BY <1>3 DEF SetConsumer, Size
    <2>2. t \in Tracker /\ t.nslots = RingSlots[e] /\ t.validates = tracker.validates /\ t.entries = tracker.entries
      BY <1>1, <2>1 DEF Tracker
    <2> QED BY <1>1, <1>3, <2>2 DEF Size
  <1> QED BY <1>2, <1>3

\* tp_progress_poller_set_consumer: nothing reported is lost; going back is remembered.
LEMMA MapEpochStep ==
    ASSUME ProgressInv, NEW e \in 0 .. LastEpoch, MapEpoch(e) PROVE ProgressInv'
  <1>1. /\ tracker.validates /\ mapped' = e /\ UNCHANGED <<slots, given>>
        /\ tracker' = IF e = 0 THEN tracker ELSE SetConsumer(tracker, e)
        /\ back' = (back \/ \E f \in Frame : f[1] > e /\ e # 0 /\ given[f] > 0)
    BY DEF MapEpoch
  <1>2. ~back' => ~back /\ (e # 0 => \A f \in Frame : given[f] > 0 => f[1] <= e)
    <2>1. \A f \in Frame : f[1] \in Int
      BY FrameParts
    <2>2. e \in Int
      OBVIOUS
    <2>3. ~back' => ~back /\ ~(\E f \in Frame : f[1] > e /\ e # 0 /\ given[f] > 0)
      BY <1>1
    <2> QED BY <2>1, <2>2, <2>3
  <1>s. SlotsSound'
    BY <1>1 DEF ProgressInv, SlotsSound
  <1>3. CASE e = 0
    <2>1. tracker' = tracker
      BY <1>1, <1>3
    <2>2. ProgressShape'
      BY <1>1, <2>1, ProgressAssumption DEF ProgressInv, ProgressShape
    <2>3. EntriesTrue' /\ PlainSound'
      BY <1>1, <2>1 DEF ProgressInv, EntriesTrue, PlainSound, Held, Size
    <2>4. \A i : Held(i)' = Held(i)
      BY <2>1 DEF Held
    <2>5. Size' = Size
      BY <2>1 DEF Size
    <2>6. ConsumerSound'
      BY <1>1, <1>2, <1>3, <2>1, <2>4, <2>5 DEF ProgressInv, ConsumerSound
    <2> QED BY <1>s, <2>2, <2>3, <2>6 DEF ProgressInv
  <1>4. CASE e # 0
    <2>e. e \in 1 .. LastEpoch /\ RingSlots[e] \in Nat \ {0}
      BY <1>4, ProgressAssumption
    <2>1. /\ tracker' \in Tracker /\ tracker'.nslots = RingSlots[e] /\ tracker'.validates
          /\ Size' >= RingSlots[e] /\ Size' >= Size /\ Size' \in Nat /\ Size \in Nat
          /\ \A i \in 1 .. Size : tracker'.entries[i] = tracker.entries[i]
          /\ \A i \in 1 .. Size' : i > Size => tracker'.entries[i].frame = NoFrame
      BY <1>1, <1>4, <2>e, SetConsumerKeeps, TableTyped DEF Size, ProgressInv
    <2>2. /\ \A i \in 1 .. Size : Held(i)' = Held(i) /\ tracker'.entries[i].bytes = tracker.entries[i].bytes
          /\ \A i \in 1 .. Size' : i \in 1 .. Size \/ Held(i)' = NoFrame
      BY <2>1 DEF Held
    <2>3. ProgressShape'
      BY <1>1, <2>1 DEF ProgressInv, ProgressShape
    <2>4. EntriesTrue'
      BY <1>1, <2>1, <2>2 DEF ProgressInv, EntriesTrue
    <2>5. PlainSound'
      BY <2>1 DEF PlainSound
    <2>6. ConsumerSound'
      <3>1. \A f \in Frame : given'[f] > 0 => Size >= RingSlots[f[1]] /\ Size' >= RingSlots[f[1]]
        <4>1. \A f \in Frame : RingSlots[f[1]] \in Nat
          BY FrameParts
        <4> QED BY <1>1, <2>1, <4>1 DEF ProgressInv, ConsumerSound
      <3>2. \A f \in Frame : given[f] > 0 => Index(f) \in 1 .. Size
        <4>1. \A f \in Frame : Index(f) \in 1 .. RingSlots[f[1]] /\ RingSlots[f[1]] \in Nat
          BY FrameParts
        <4> QED BY <1>1, <2>1, <3>1, <4>1
      <3>3. \A i \in 1 .. Size' : Held(i)' # NoFrame => i = Index(Held(i)')
        BY <1>1, <2>2 DEF ProgressInv, ConsumerSound
      <3>4. \A f \in Frame : given'[f] > 0 => slots'[f[1]][f[2] % RingSlots[f[1]]].seq >= f[2]
        BY <1>1 DEF ProgressInv, ConsumerSound
      <3>5. ~back' => \A f \in Frame : given'[f] > 0 =>
              \/ Held(Index(f))' = f
              \/ Held(Index(f))'[1] > f[1]
              \/ Held(Index(f))'[1] = f[1] /\ slots'[f[1]][f[2] % RingSlots[f[1]]].seq > f[2]
        BY <1>1, <1>2, <2>2, <3>2 DEF ProgressInv, ConsumerSound
      <3> QED BY <1>1, <1>2, <1>4, <2>e, <2>1, <3>1, <3>3, <3>4, <3>5 DEF ConsumerSound
    <2> QED BY <1>s, <2>3, <2>4, <2>5, <2>6 DEF ProgressInv
  <1> QED BY <1>3, <1>4

-----------------------------------------------------------------------------
\* Where a report is recorded.
LEMMA EntryForSound ==
    ASSUME ProgressInv, NEW f \in Frame, tracker.validates => mapped = f[1]
    PROVE  /\ EntryFor(tracker, f) \in 1 .. Size
           /\ tracker.validates => EntryFor(tracker, f) = Index(f)
           /\ ~tracker.validates => \/ Held(EntryFor(tracker, f)) = f
                                    \/ /\ \A i \in 1 .. Size : Held(i) # f
                                       /\ EntryFor(tracker, f) = tracker.cursor + 1
  <1> DEFINE same == {i \in DOMAIN tracker.entries : tracker.entries[i].frame = f}
  <1>1. DOMAIN tracker.entries = 1 .. Size /\ Size \in Nat /\ same = {i \in 1 .. Size : Held(i) = f}
    BY TableTyped DEF ProgressInv, Held
  <1>2. EntryFor(tracker, f) = IF tracker.nslots > 0 THEN (f[2] % tracker.nslots) + 1
                               ELSE IF same # {} THEN CHOOSE i \in same : TRUE ELSE tracker.cursor + 1
    BY DEF EntryFor
  <1> HIDE DEF same
  <1>t. tracker.nslots \in Nat /\ tracker.validates \in BOOLEAN /\ tracker.cursor \in Nat
    BY DEF ProgressInv, ProgressShape, Tracker
  <1>3. CASE tracker.validates
    <2>1. Index(f) \in 1 .. RingSlots[f[1]] /\ RingSlots[f[1]] \in Nat \ {0} /\ f[1] # 0
      BY FrameParts
    <2>2. tracker.nslots = RingSlots[f[1]] /\ Size >= RingSlots[f[1]]
      BY <1>3, <2>1 DEF ProgressInv, ConsumerSound
    <2> QED BY <1>1, <1>2, <1>3, <2>1, <2>2 DEF Index
  <1>4. CASE ~tracker.validates
    <2>1. tracker.nslots = 0 /\ tracker.cursor + 1 \in 1 .. Size
      BY <1>4, <1>t, ProgressAssumption DEF ProgressInv, PlainSound
    <2>2. CASE same # {}
      <3>1. EntryFor(tracker, f) \in same
        BY <1>2, <2>1, <2>2
      <3> QED BY <1>1, <1>4, <3>1
    <2>3. CASE same = {}
      BY <1>1, <1>2, <1>4, <2>1, <2>3
    <2> QED BY <2>2, <2>3
  <1> QED BY <1>3, <1>4

\* What a report is, when it is accepted.
LEMMA AcceptedFacts ==
    ASSUME ProgressInv, NEW f \in Frame, NEW n \in 1 .. PayloadLength + 1, OnProgress([frame |-> f, bytes |-> n]),
           NEW i, i = EntryFor(tracker, f)
    PROVE  /\ n \in Nat \ {0}
           /\ tracker.validates => tracker.nslots # 0
           /\ i \in 1 .. Size
           /\ Held(i) = f => n >= given[f]
           /\ tracker.validates => mapped = f[1] /\ slots[f[1]][f[2] % RingSlots[f[1]]].seq = f[2]
           /\ tracker'.entries = [tracker.entries EXCEPT ![i] = [frame |-> f, bytes |-> n]]
           /\ tracker' \in Tracker /\ Size' = Size
           /\ tracker'.nslots = tracker.nslots /\ tracker'.validates = tracker.validates
           /\ tracker'.cursor = IF tracker.nslots = 0 /\ Held(i) # f THEN (tracker.cursor + 1) % Size
                                ELSE tracker.cursor
           /\ given' = [given EXCEPT ![f] = n]
           /\ UNCHANGED <<mapped, slots, back>>
  <1> DEFINE p == [frame |-> f, bytes |-> n]
  <1>1. p.frame = f /\ p.bytes = n /\ n \in Nat \ {0}
    BY ProgressAssumption
  <1>2. Accepted(p) /\ tracker' = Recorded(p) /\ given' = [given EXCEPT ![f] = n] /\ UNCHANGED <<mapped, slots, back>>
    BY <1>1 DEF OnProgress
  <1>3. p \in TrackEntry
    BY <1>1 DEF TrackEntry
  <1> HIDE DEF p
  <1>4. tracker.validates => mapped = f[1] /\ slots[f[1]][f[2] % RingSlots[f[1]]].seq = f[2]
    BY <1>1, <1>2 DEF Accepted, SlotConfirms
  <1>5. tracker.validates => tracker.nslots # 0
    <2>1. f[1] # 0 /\ RingSlots[f[1]] # 0
      BY FrameParts
    <2> QED BY <1>4, <2>1 DEF ProgressInv, ConsumerSound
  <1>6. i \in 1 .. Size
    BY <1>4, EntryForSound
  <1>7. Held(i) = f => n >= given[f]
    <2> SUFFICES ASSUME Held(i) = f PROVE n >= given[f]
      OBVIOUS
    <2>1. n >= tracker.entries[i].bytes
      BY <1>1, <1>2 DEF Accepted, Held
    <2>2. given[f] = tracker.entries[i].bytes
      BY <1>6, FrameParts DEF ProgressInv, EntriesTrue
    <2> QED BY <2>1, <2>2
  <1> DEFINE es == [tracker.entries EXCEPT ![i] = p]
             c == IF tracker.nslots = 0 /\ Held(i) # f THEN (tracker.cursor + 1) % Size ELSE tracker.cursor
  <1>8. tracker \in Tracker /\ Size \in Nat /\ tracker.entries \in Seq(TrackEntry) /\ Size = Len(tracker.entries)
    BY TableTyped DEF ProgressInv, ProgressShape, Tracker, Size
  <1>9. es \in Seq(TrackEntry) /\ Len(es) = Size
    BY <1>3, <1>6, <1>8, ExceptSeq
  <1>10. c \in Nat
    <2>1. tracker.cursor \in Nat /\ Size >= 1
      BY <1>6, <1>8 DEF Tracker
    <2> QED BY <1>8, <2>1
  <1>11. tracker' = [tracker EXCEPT !.entries = es, !.cursor = c]
    <2>1. tracker' = [tracker EXCEPT !.entries[i] = p, !.cursor = c]
      BY <1>1, <1>2, <1>8 DEF Recorded, Held, Size, Tracker
    <2> QED BY <2>1, <1>8 DEF Tracker
  <1> HIDE DEF es, c
  <1>12. /\ tracker' \in Tracker /\ tracker'.entries = es /\ tracker'.nslots = tracker.nslots
         /\ tracker'.validates = tracker.validates /\ tracker'.cursor = c
    BY <1>8, <1>9, <1>10, <1>11 DEF Tracker
  <1>13. Size' = Size
    BY <1>9, <1>12 DEF Size
  <1> QED BY <1>1, <1>2, <1>4, <1>5, <1>6, <1>7, <1>12, <1>13 DEF es, c, p

\* tp_progress_poller_handler
LEMMA OnProgressStep ==
    ASSUME ProgressInv, NEW f \in Frame, NEW n \in 1 .. PayloadLength + 1, OnProgress([frame |-> f, bytes |-> n])
    PROVE  ProgressInv'
  <1>i. PICK i : i = EntryFor(tracker, f)
    OBVIOUS
  <1>1. /\ n \in Nat \ {0} /\ (tracker.validates => tracker.nslots # 0)
        /\ i \in 1 .. Size
        /\ tracker.validates => mapped = f[1] /\ slots[f[1]][f[2] % RingSlots[f[1]]].seq = f[2]
        /\ tracker' \in Tracker /\ Size' = Size
        /\ tracker'.nslots = tracker.nslots /\ tracker'.validates = tracker.validates
        /\ UNCHANGED <<mapped, slots, back>>
    BY <1>i, AcceptedFacts
  <1>c. tracker'.cursor = IF tracker.nslots = 0 /\ Held(i) # f THEN (tracker.cursor + 1) % Size ELSE tracker.cursor
    BY <1>i, AcceptedFacts
  <1>g. given' = [given EXCEPT ![f] = n]
    BY <1>i, AcceptedFacts
  <1>e. tracker'.entries = [tracker.entries EXCEPT ![i] = [frame |-> f, bytes |-> n]]
    BY <1>i, AcceptedFacts
  <1>2. /\ Size \in Nat /\ DOMAIN tracker.entries = 1 .. Size
        /\ \A j \in 1 .. Size : Held(j) \in Frame \cup {NoFrame} /\ tracker.entries[j].bytes \in Nat
        /\ given \in [Frame -> Nat] /\ f # NoFrame
    BY TableTyped, FrameParts DEF ProgressInv, ProgressShape
  <1>3. /\ \A j \in 1 .. Size : j # i => Held(j)' = Held(j) /\ tracker'.entries[j].bytes = tracker.entries[j].bytes
        /\ Held(i)' = f /\ tracker'.entries[i].bytes = n
    BY <1>1, <1>2, <1>e DEF Held
  <1>4. /\ given'[f] = n /\ \A g \in Frame : g # f => given'[g] = given[g]
        /\ given' \in [Frame -> Nat]
    BY <1>1, <1>2, <1>g
  <1>5. /\ tracker.validates => i = Index(f)
        /\ ~tracker.validates => \/ Held(i) = f
                                 \/ (\A j \in 1 .. Size : Held(j) # f) /\ i = tracker.cursor + 1
    BY <1>i, <1>1, EntryForSound
  <1>6. ProgressShape'
    BY <1>1, <1>4 DEF ProgressInv, ProgressShape
  <1>7. SlotsSound'
    BY <1>1 DEF ProgressInv, SlotsSound
  <1>8. \A j \in 1 .. Size : j # i => Held(j) # f
    <2>1. \A j \in 1 .. Size : Held(j) = f /\ tracker.validates => j = Index(f)
      BY <1>2 DEF ProgressInv, ConsumerSound
    <2>2. tracker.validates \in BOOLEAN
      BY DEF ProgressInv, ProgressShape, Tracker
    <2> QED BY <1>1, <1>2, <1>5, <2>1, <2>2 DEF ProgressInv, EntriesTrue
  <1>9. EntriesTrue'
    <2>1. \A j \in 1 .. Size : Held(j)' # NoFrame => given'[Held(j)'] = tracker'.entries[j].bytes /\ given'[Held(j)'] > 0
      BY <1>1, <1>2, <1>3, <1>4, <1>8, SMTT(40) DEF ProgressInv, EntriesTrue
    <2>2. \A j, k \in 1 .. Size : Held(j)' = Held(k)' /\ Held(j)' # NoFrame => j = k
      BY <1>2, <1>3, <1>8 DEF ProgressInv, EntriesTrue
    <2> QED BY <1>1, <2>1, <2>2 DEF EntriesTrue
  <1>10. PlainSound'
    <2> SUFFICES ASSUME ~tracker.validates PROVE PlainSound'
      BY <1>1 DEF PlainSound
    <2>1. /\ tracker.nslots = 0 /\ Size = TrackerCapacity /\ tracker.cursor < TrackerCapacity
          /\ tracker.cursor \in Nat /\ TrackerCapacity \in Nat \ {0}
      BY ProgressAssumption DEF ProgressInv, PlainSound, ProgressShape, Tracker
    <2>2. tracker'.cursor < TrackerCapacity
      BY <1>c, <2>1
    <2>3. CASE \A j \in 1 .. Size : Held(j) # NoFrame
      <3>1. \A j \in 1 .. Size : Held(j)' # NoFrame
        BY <2>3, <1>2, <1>3
      <3> QED BY <1>1, <2>1, <2>2, <3>1 DEF PlainSound
    <2>4. CASE /\ \A j \in 1 .. Size : Held(j) = NoFrame <=> j > tracker.cursor
               /\ \A g \in Frame : given[g] > 0 => \E j \in 1 .. Size : Held(j) = g
      <3>1. CASE Held(i) = f
        <4>1. \A j \in 1 .. Size : Held(j)' = Held(j)
          BY <3>1, <1>3
        <4>2. tracker'.cursor = tracker.cursor
          BY <3>1, <1>c
        <4>3. \A g \in Frame : given'[g] > 0 => \E j \in 1 .. Size : Held(j)' = g
          BY <1>1, <1>3, <1>4, <2>4, <4>1
        <4> QED BY <1>1, <2>1, <2>2, <2>4, <4>1, <4>2, <4>3 DEF PlainSound
      <3>2. CASE Held(i) # f
        <4>1. i = tracker.cursor + 1 /\ Held(i) = NoFrame
          BY <1>1, <1>5, <2>1, <2>4, <3>2
        <4>2. \A g \in Frame : given'[g] > 0 => \E j \in 1 .. Size : Held(j)' = g
          <5> SUFFICES ASSUME NEW g \in Frame, given'[g] > 0 PROVE \E j \in 1 .. Size : Held(j)' = g
            OBVIOUS
          <5>1. CASE g = f
            BY <5>1, <1>1, <1>3
          <5>2. CASE g # f
            <6>1. PICK j \in 1 .. Size : Held(j) = g
              BY <5>2, <1>4, <2>4
            <6>2. j # i
              BY <6>1, <4>1, FrameParts
            <6> QED BY <6>1, <6>2, <1>3
          <5> QED BY <5>1, <5>2
        <4>3. CASE tracker.cursor + 1 = Size
          <5>1. \A j \in 1 .. Size : Held(j)' # NoFrame
            BY <4>1, <4>3, <1>2, <1>3, <2>1, <2>4
          <5> QED BY <5>1, <1>1, <2>1, <2>2 DEF PlainSound
        <4>4. CASE tracker.cursor + 1 # Size
          <5>1. tracker'.cursor = tracker.cursor + 1
            BY <4>4, <3>2, <1>c, <2>1
          <5>2. \A j \in 1 .. Size : Held(j)' = NoFrame <=> j > tracker'.cursor
            <6> SUFFICES ASSUME NEW j \in 1 .. Size PROVE Held(j)' = NoFrame <=> j > tracker.cursor + 1
              BY <5>1
            <6>1. CASE j = i
              BY <6>1, <4>1, <1>2, <1>3, <2>1
            <6>2. CASE j # i
              <7>1. Held(j)' = Held(j) /\ (Held(j) = NoFrame <=> j > tracker.cursor)
                BY <6>2, <1>3, <2>4
              <7> QED BY <7>1, <6>2, <4>1, <2>1, <1>2
            <6> QED BY <6>1, <6>2
          <5> QED BY <5>2, <4>2, <1>1, <2>1, <2>2 DEF PlainSound
        <4> QED BY <4>3, <4>4
      <3> QED BY <3>1, <3>2
    <2> QED BY <2>3, <2>4 DEF ProgressInv, PlainSound
  <1>11. ConsumerSound'
    <2> SUFFICES ASSUME tracker.validates PROVE ConsumerSound'
      BY <1>1 DEF ConsumerSound
    <2>0. /\ tracker.nslots # 0 /\ mapped = f[1] /\ mapped # 0 /\ slots[f[1]][f[2] % RingSlots[f[1]]].seq = f[2]
          /\ i = Index(f) /\ f[1] \in Int /\ f[2] \in Int
      BY <1>1, <1>5, FrameParts
    <2>1. tracker'.nslots = RingSlots[mapped'] /\ Size' >= RingSlots[mapped']
      BY <1>1, <2>0 DEF ProgressInv, ConsumerSound
    <2>2. \A j \in 1 .. Size' : Held(j)' # NoFrame => j = Index(Held(j)')
      BY <1>1, <1>3, <2>0 DEF ProgressInv, ConsumerSound
    <2>3. \A g \in Frame : given'[g] > 0 => slots'[g[1]][g[2] % RingSlots[g[1]]].seq >= g[2]
      BY <1>1, <1>4, <2>0 DEF ProgressInv, ConsumerSound
    <2>4. ~back' /\ mapped' # 0 => \A g \in Frame : given'[g] > 0 => g[1] <= mapped'
      BY <1>1, <1>4, <2>0 DEF ProgressInv, ConsumerSound
    <2>6. \A g \in Frame : given'[g] > 0 => Size' >= RingSlots[g[1]]
      BY <1>1, <1>4, <2>0, <2>1 DEF ProgressInv, ConsumerSound
    <2>5. ASSUME ~back', NEW g \in Frame, given'[g] > 0
          PROVE  \/ Held(Index(g))' = g
                 \/ Held(Index(g))'[1] > g[1]
                 \/ Held(Index(g))'[1] = g[1] /\ slots'[g[1]][g[2] % RingSlots[g[1]]].seq > g[2]
      <3>1. CASE g = f
        BY <3>1, <2>0, <1>3
      <3>2. CASE g # f /\ Index(g) = i
        <4>1. Held(Index(g))' = f
          BY <3>2, <1>3
        <4>2. given[g] > 0 /\ g[1] <= f[1] /\ slots[g[1]][g[2] % RingSlots[g[1]]].seq >= g[2]
          BY <2>5, <3>2, <1>1, <1>4, <2>0 DEF ProgressInv, ConsumerSound
        <4>3. g[1] \in Int /\ g[2] \in Int /\ (g[1] = f[1] => g[2] # f[2])
          BY <3>2, FrameParts
        <4>5. CASE g[1] = f[1]
          <5>1. (g[2] % RingSlots[g[1]]) \in Int /\ (f[2] % RingSlots[f[1]]) \in Int
            BY FrameParts DEF Places
          <5>2. (g[2] % RingSlots[g[1]]) = (f[2] % RingSlots[f[1]])
            BY <5>1, <3>2, <2>0 DEF Index
          <5>3. slots[g[1]][g[2] % RingSlots[g[1]]].seq = f[2]
            BY <5>2, <4>5, <2>0
          <5> QED BY <5>3, <4>1, <4>2, <4>3, <4>5, <2>0, <1>1
        <4>6. CASE g[1] # f[1]
          BY <4>1, <4>2, <4>3, <4>6, <2>0
        <4> QED BY <4>5, <4>6
      <3>3. CASE g # f /\ Index(g) # i
        <4>1. Index(g) \in 1 .. Size
          <5>1. Index(g) \in 1 .. RingSlots[g[1]] /\ RingSlots[g[1]] \in Nat
            BY FrameParts
          <5>2. Size >= RingSlots[g[1]]
            BY <3>3, <2>5, <1>4, <1>1 DEF ProgressInv, ConsumerSound
          <5> QED BY <5>1, <5>2, <1>2
        <4>2. Held(Index(g))' = Held(Index(g)) /\ given[g] > 0
          BY <4>1, <3>3, <2>5, <1>3, <1>4
        <4> QED BY <4>2, <2>5, <1>1 DEF ProgressInv, ConsumerSound
      <3> QED BY <3>1, <3>2, <3>3
    <2> QED BY <2>1, <2>2, <2>3, <2>4, <2>5, <2>6, <2>0, <1>1 DEF ConsumerSound
  <1> QED BY <1>6, <1>7, <1>9, <1>10, <1>11 DEF ProgressInv

\* Every step keeps the invariant.
LEMMA ProgressStep == ProgressInv /\ [ProgressNext]_progressVars => ProgressInv'
  <1> SUFFICES ASSUME ProgressInv, [ProgressNext]_progressVars PROVE ProgressInv'
    OBVIOUS
  <1>1. CASE UNCHANGED progressVars
    BY <1>1 DEF progressVars, ProgressInv, ProgressShape, SlotsSound, EntriesTrue, PlainSound, ConsumerSound, Held, Size
  <1>2. CASE ProgressNext
    BY <1>2, OnProgressStep, MapEpochStep, WriteFrameStep DEF ProgressNext
  <1> QED BY <1>1, <1>2

\* A table that is full of other frames has reported as many as it has entries.
LEMMA FullTable ==
    ASSUME ProgressInv, NEW f \in Frame, ~tracker.validates,
           \A i \in 1 .. Size : Held(i) # NoFrame /\ Held(i) # f
    PROVE  Cardinality({o \in Frame \ {f} : given[o] > 0}) >= TrackerCapacity
  <1> DEFINE others == {o \in Frame \ {f} : given[o] > 0}
             h == [i \in 1 .. TrackerCapacity |-> Held(i)]
  <1>1. Size = TrackerCapacity /\ TrackerCapacity \in Nat
    BY ProgressAssumption DEF ProgressInv, PlainSound
  <1>2. h \in [1 .. TrackerCapacity -> others]
    <2>1. \A i \in 1 .. Size : Held(i) \in Frame /\ Held(i) # f /\ given[Held(i)] > 0
      BY TableTyped DEF ProgressInv, EntriesTrue
    <2> QED BY <1>1, <2>1
  <1>3. \A i, j \in 1 .. TrackerCapacity : h[i] = h[j] => i = j
    BY <1>1 DEF ProgressInv, EntriesTrue
  <1>4. IsFiniteSet(others)
    <2>1. IsFiniteSet(1 .. LastEpoch) /\ IsFiniteSet(0 .. LastSeq)
      BY ProgressAssumption, FS_Interval
    <2>2. IsFiniteSet(Frame)
      BY <2>1, FS_Product DEF Frame
    <2>3. others \subseteq Frame
      OBVIOUS
    <2> QED BY <2>2, <2>3, FS_Subset
  <1> HIDE DEF h, others
  <1>5. h \in Injection(1 .. TrackerCapacity, others)
    BY <1>2, <1>3, Fun_IsInj
  <1>6. Cardinality(1 .. TrackerCapacity) <= Cardinality(others)
    BY <1>4, <1>5, FS_Injection
  <1>7. Cardinality(1 .. TrackerCapacity) = TrackerCapacity /\ Cardinality(others) \in Nat
    BY <1>1, <1>4, FS_Interval, FS_CardinalityType
  <1> QED BY <1>1, <1>6, <1>7 DEF others

\* The only report that shrinks is of a frame a plain table has forgotten.
LEMMA ShrinkOnlyForgotten ==
    ASSUME ProgressInv, [ProgressNext]_progressVars, NEW f \in Frame, ~(given'[f] >= given[f]), ~back
    PROVE  ~tracker.validates /\ Cardinality({o \in Frame \ {f} : given[o] > 0}) >= TrackerCapacity
  <1>g. given \in [Frame -> Nat] /\ given[f] \in Nat /\ tracker.validates \in BOOLEAN
    BY DEF ProgressInv, ProgressShape, Tracker
  <1>1. PICK g \in Frame, n \in 1 .. PayloadLength + 1 : OnProgress([frame |-> g, bytes |-> n])
    <2> SUFFICES ASSUME given' = given PROVE FALSE
      BY DEF ProgressNext, MapEpoch, WriteFrame, progressVars
    <2> QED BY <1>g
  <1>2. g = f
    <2>1. given' = [given EXCEPT ![g] = n]
      BY <1>1, AcceptedFacts, ZenonT(30)
    <2> QED BY <2>1, <1>g
  <1>i. PICK i : i = EntryFor(tracker, f)
    OBVIOUS
  <1>3. /\ n \in Nat /\ (tracker.validates => tracker.nslots # 0) /\ i \in 1 .. Size
        /\ given' = [given EXCEPT ![f] = n]
        /\ Held(i) = f => n >= given[f]
        /\ tracker.validates => mapped = f[1] /\ slots[f[1]][f[2] % RingSlots[f[1]]].seq = f[2]
    BY <1>1, <1>2, <1>i, AcceptedFacts
  <1>4. Held(i) # f /\ given[f] > 0
    BY <1>3, <1>g
  <1>5. ~tracker.validates
    <2> SUFFICES ASSUME tracker.validates PROVE FALSE
      BY <1>g
    <2>1. i = Index(f)
      BY <1>3, <1>i, EntryForSound
    <2>2. mapped = f[1] /\ f[1] # 0 /\ f[1] \in Int /\ f[2] \in Int
      BY <1>3, FrameParts
    <2>3. Held(i)[1] > f[1] \/ (Held(i)[1] = f[1] /\ slots[f[1]][f[2] % RingSlots[f[1]]].seq > f[2])
      BY <1>4, <2>1 DEF ProgressInv, ConsumerSound
    <2>4. Held(i)[1] > f[1]
      BY <1>3, <2>2, <2>3
    <2>5. CASE Held(i) = NoFrame
      BY <2>4, <2>5, FrameParts DEF NoFrame
    <2>6. CASE Held(i) \in Frame
      <3>1. Held(i) # NoFrame /\ Held(i)[1] \in Int
        BY <2>6, FrameParts
      <3>2. given[Held(i)] > 0
        BY <3>1, <1>3 DEF ProgressInv, EntriesTrue
      <3>3. Held(i)[1] <= f[1]
        BY <2>2, <2>6, <3>2 DEF ProgressInv, ConsumerSound
      <3> QED BY <2>2, <2>4, <3>1, <3>3
    <2> QED BY <1>3, <2>5, <2>6, TableTyped DEF ProgressInv
  <1>6. \A j \in 1 .. Size : Held(j) # f
    BY <1>3, <1>4, <1>5, <1>i, EntryForSound
  <1>7. \A j \in 1 .. Size : Held(j) # NoFrame
    BY <1>4, <1>5, <1>6 DEF ProgressInv, PlainSound
  <1> QED BY <1>5, <1>6, <1>7, FullTable

\* For every ring, table and number of frames: what is reported of a frame does not
\* shrink, but for a consumer that went back to an older epoch, or a plain table that
\* forgot the frame among as many others as it has entries.
THEOREM ProgressMonotone == ProgressInit /\ [][ProgressNext]_progressVars => ProgressNeverShrinks
  <1> DEFINE A == \A f \in Frame :
                    \/ given'[f] >= given[f] \/ back
                    \/ /\ ~ tracker.validates
                       /\ Cardinality({o \in Frame \ {f} : given[o] > 0}) >= TrackerCapacity
  <1>1. ProgressInv /\ [ProgressNext]_progressVars => [A]_progressVars
    BY ShrinkOnlyForgotten
  <1>2. ProgressNeverShrinks <=> [][A]_progressVars
    BY DEF ProgressNeverShrinks
  <1> HIDE DEF A
  <1> QED BY ProgressInitial, ProgressStep, <1>1, <1>2, PTL

(***************************************************************************)
(* Merge maps and join barriers                                            *)
(***************************************************************************)

\* Decoding a rule undoes encoding it.
LEMMA EncodedRule ==
    ASSUME NEW r \in RuleRecords, IF r.type = "OFFSET" THEN r.window = 0 ELSE r.offset = 0
    PROVE  DecodeRule(EncodeRule(r)) = r
  BY DEF DecodeRule, EncodeRule, RuleRecords, Null

\* What the decoders make of the body of a frame they take.
Decoded(body) == [body EXCEPT !.rules = [i \in DOMAIN @ |-> DecodeRule(@[i])]]

\* The parts of an announcement, and that it decodes to the map it was made of.
LEMMA EncodedParts ==
    ASSUME NEW m \in Maps
    PROVE  /\ m \in MapRecords
           /\ Encode(m).frame = "good" /\ Encode(m).template = m.kind
           /\ Decoded(Encode(m).body) = m
  <1> DEFINE rules == [i \in DOMAIN m.rules |-> EncodeRule(m.rules[i])]
             body == [m EXCEPT !.rules = rules]
  <1>1. m \in MapRecords /\ m.rules \in Seq(RuleRecords)
    BY MapsAssumption DEF WellFormed, MapRecords
  <1>2. \A i \in DOMAIN m.rules : DecodeRule(EncodeRule(m.rules[i])) = m.rules[i]
    <2> SUFFICES ASSUME NEW i \in DOMAIN m.rules PROVE DecodeRule(EncodeRule(m.rules[i])) = m.rules[i]
      OBVIOUS
    <2>1. m.rules[i] \in RuleRecords
      BY <1>1
    <2>2. IF m.rules[i].type = "OFFSET" THEN m.rules[i].window = 0 ELSE m.rules[i].offset = 0
      BY MapsAssumption DEF WellFormed
    <2> QED
      BY <2>1, <2>2, EncodedRule
  <1>3. [i \in DOMAIN rules |-> DecodeRule(rules[i])] = m.rules
    <2>1. [i \in DOMAIN rules |-> DecodeRule(rules[i])] = [i \in DOMAIN m.rules |-> m.rules[i]]
      BY <1>2
    <2>2. m.rules = [i \in DOMAIN m.rules |-> m.rules[i]]
      BY <1>1
    <2> QED
      BY <2>1, <2>2
  <1> HIDE DEF rules
  <1>4. body.rules = rules
    BY <1>1 DEF MapRecords
  <1>5. [body EXCEPT !.rules = m.rules] = m
    BY <1>1 DEF MapRecords
  <1>6. Decoded(body) = m
    BY <1>3, <1>4, <1>5 DEF Decoded
  <1>7. Encode(m).frame = "good" /\ Encode(m).template = m.kind /\ Encode(m).body = body
    BY DEF Encode, rules
  <1> HIDE DEF body
  <1> QED
    BY <1>1, <1>6, <1>7

\* Two maps have the same announcement only if they are the same map.
LEMMA EncodeInjective ==
    ASSUME NEW m \in Maps, NEW n \in Maps, Encode(m) = Encode(n)
    PROVE  m = n
  BY EncodedParts

\* What the handler makes of a frame.
Received(msg) == IF DecodeSequenceMap(msg) # NoMap THEN DecodeSequenceMap(msg) ELSE DecodeTimestampMap(msg)

\* A map whose rules the encoders accept.
Valid(m) == m \in Maps /\ \A i \in DOMAIN m.rules : RuleValid(m.kind, m.rules[i])

\* A map is neither of the two placeholders.
LEMMA MapIsReal == \A m \in Maps : m # NoMap /\ m # Free /\ m.kind \in {"SEQUENCE", "TIMESTAMP"}
  BY MapsAssumption DEF WellFormed, MapRecords, NoMap, Free

\* A damaged frame is refused by both decoders.
LEMMA DamagedRefused ==
    ASSUME NEW msg \in Foreign
    PROVE  Received(msg) = NoMap
  <1>1. IsDamaged(msg)
    BY ForeignAssumption
  <1>2. CASE msg.frame \in Frames \ {"good"}
    BY <1>2 DEF Received, DecodeSequenceMap, DecodeTimestampMap, Decode, Frames
  <1>3. CASE \E i \in DOMAIN msg.body.rules : msg.body.rules[i].offset = Null <=> msg.body.rules[i].window = Null
    BY <1>3 DEF Received, DecodeSequenceMap, DecodeTimestampMap, RuleDecodes
  <1>4. CASE msg.template = "TIMESTAMP" /\ msg.body.clock = "INVALID"
    BY <1>4 DEF Received, DecodeSequenceMap, DecodeTimestampMap, Decode
  <1> QED
    BY <1>1, <1>2, <1>3, <1>4 DEF IsDamaged

\* What is received is what was announced, and the history names that map.
LEMMA ReceivedAnnounced ==
    ASSUME NEW msg \in Announcements \cup Foreign, Received(msg) # NoMap
    PROVE  /\ msg \in Announcements
           /\ Valid(Received(msg))
           /\ Announced(msg) = Received(msg)
  <1>1. msg \in Announcements
    BY DamagedRefused
  <1>2. PICK m \in Maps : Valid(m) /\ msg = Encode(m)
    BY <1>1 DEF Announcements, Valid
  <1>3. Received(msg) = m
    <2>1. DecodeSequenceMap(msg) \in {NoMap, Decoded(msg.body)} /\ DecodeTimestampMap(msg) \in {NoMap, Decoded(msg.body)}
      BY DEF DecodeSequenceMap, DecodeTimestampMap, Decoded
    <2>2. Decoded(msg.body) = m
      BY <1>2, EncodedParts
    <2> QED
      BY <2>1, <2>2 DEF Received
  <1>4. Announced(msg) \in Maps /\ Encode(Announced(msg)) = msg
    BY <1>2 DEF Announced
  <1>5. Announced(msg) = m
    BY <1>2, <1>4, EncodeInjective
  <1> QED
    BY <1>1, <1>2, <1>3, <1>5

-----------------------------------------------------------------------------
(* The registry                                                             *)

\* Each entry holds a map, no two entries one of the same kind and stream, and
\* the entries are the maps last accepted.
RegistryInv ==
    /\ registry \in [1 .. RegistryCapacity -> Maps \cup {Free}]
    /\ \A i, j \in 1 .. RegistryCapacity :
        registry[i] # Free /\ registry[j] # Free /\ Key(registry[i]) = Key(registry[j]) => i = j
    /\ \A m : m \in accepted <=> m # Free /\ \E i \in 1 .. RegistryCapacity : registry[i] = m

\* A set of indices has a least element.
LEMMA LeastIndex ==
    ASSUME NEW S \in SUBSET Nat, S # {}
    PROVE  Min(S) \in S /\ \A i \in S : Min(S) <= i
  <1> DEFINE R == OpToRel(<, Nat)
  <1>1. IsWellFoundedOn(R, Nat)
    BY NatLessThanWellFounded
  <1>2. \A j, k \in Nat : j < k => <<j, k>> \in R
    BY DEF OpToRel
  <1> HIDE DEF R
  <1>3. PICK k \in S : \A j \in S : ~(<<j, k>> \in R)
    BY <1>1, WFMin
  <1>4. k \in Nat /\ \A j \in S : j \in Nat /\ ~(j < k)
    BY <1>2, <1>3
  <1>5. \A j \in S : k <= j
    BY <1>4
  <1> QED
    BY <1>3, <1>5 DEF Min

\* The maps of one kind and stream.
LEMMA SameKey ==
    ASSUME NEW m, NEW n
    PROVE  Key(m) = Key(n) <=> m.kind = n.kind /\ m.out = n.out
  BY DEF Key

\* Every invalidated or replaced entry was of the new map's kind and stream, and
\* no other entry of it is left.
LEMMA RegistryTakes ==
    ASSUME RegistryInv, NEW m \in Maps,
           registry' = Upsert(registry, m),
           accepted' = IF FindSlot(InvalidateStream(registry, m), m) # 0
                       THEN {x \in accepted : Key(x) # Key(m)} \cup {m} ELSE accepted
    PROVE  RegistryInv'
  <1> DEFINE I == 1 .. RegistryCapacity
             clean == InvalidateStream(registry, m)
             same == RegistryFind(clean, m.kind, m.out, m.epoch)
             free == {i \in DOMAIN clean : clean[i] = Free}
             slot == FindSlot(clean, m)
  <1>1. registry \in [I -> Maps \cup {Free}] /\ I \subseteq Nat \ {0}
    BY CapacityAssumption DEF RegistryInv
  <1>2. m # Free /\ (\A x \in Maps : x # Free /\ x.kind # "free") /\ Free.kind = "free"
    BY MapsAssumption, MapIsReal DEF Free
  <1>3. \A i \in I : clean[i] = IF registry[i] # Free /\ Key(registry[i]) = Key(m) /\ registry[i].epoch # m.epoch
                                THEN Free ELSE registry[i]
    BY <1>1, <1>2, SameKey DEF InvalidateStream
  <1>4. clean \in [I -> Maps \cup {Free}]
    BY <1>1 DEF InvalidateStream
  <1>5. \A i \in I : i \in same <=> clean[i] # Free /\ Key(clean[i]) = Key(m)
    BY <1>1, <1>2, <1>3, <1>4, SameKey DEF RegistryFind
  <1>6. slot = IF same # {} THEN Min(same) ELSE IF free # {} THEN Min(free) ELSE 0
    BY DEF FindSlot
  <1>7. same \in SUBSET I /\ free \in SUBSET I /\ same \subseteq Nat /\ free \subseteq Nat
    BY <1>1, <1>4 DEF RegistryFind
  <1>8. slot = 0 => same = {} /\ free = {}
    BY <1>1, <1>6, <1>7, LeastIndex
  <1>9. slot # 0 => slot \in I /\ (same # {} => slot \in same) /\ (same = {} => clean[slot] = Free)
    BY <1>6, <1>7, LeastIndex
  <1>10. registry' = IF slot = 0 THEN clean ELSE [clean EXCEPT ![slot] = m]
    BY DEF Upsert
  <1>11. accepted' = IF slot # 0 THEN {x \in accepted : Key(x) # Key(m)} \cup {m} ELSE accepted
    OBVIOUS
  <1>12. \A i, j \in I : registry[i] # Free /\ registry[j] # Free /\ Key(registry[i]) = Key(registry[j]) => i = j
    BY DEF RegistryInv
  <1>13. \A x : x \in accepted <=> x # Free /\ \E i \in I : registry[i] = x
    BY DEF RegistryInv
  <1> HIDE DEF I, clean, same, free, slot
  <1>14. CASE slot = 0
    <2>1. \A i \in I : clean[i] # Free
      BY <1>14, <1>8, <1>4 DEF free
    <2>2. clean = registry
      <3>1. \A i \in I : clean[i] = registry[i]
        BY <2>1, <1>3
      <3>2. clean = [i \in I |-> clean[i]] /\ registry = [i \in I |-> registry[i]]
        BY <1>1, <1>4
      <3>3. [i \in I |-> clean[i]] = [i \in I |-> registry[i]]
        BY <3>1
      <3> QED
        BY <3>2, <3>3
    <2> QED
      BY <2>2, <1>1, <1>10, <1>11, <1>12, <1>13, <1>14 DEF RegistryInv, I
  <1>15. CASE slot # 0
    <2>1. slot \in I /\ registry' = [clean EXCEPT ![slot] = m]
      BY <1>9, <1>10, <1>15
    <2>2. registry' \in [I -> Maps \cup {Free}]
      BY <2>1, <1>4
    <2>3. registry'[slot] = m /\ \A i \in I \ {slot} : registry'[i] = clean[i]
      BY <2>1, <1>4
    <2>4. \A i \in same : i = slot
      <3>1. \A i, j \in same : i = j
        BY <1>3, <1>5, <1>7, <1>12
      <3> QED
        BY <3>1, <1>9, <1>15
    <2>5. \A i \in I \ {slot} : clean[i] = Free \/ Key(clean[i]) # Key(m)
      BY <2>4, <1>5
    <2>6. \A i \in I \ {slot} : clean[i] # Free => clean[i] = registry[i]
      BY <1>3
    <2>7. \A i, j \in I : registry'[i] # Free /\ registry'[j] # Free /\ Key(registry'[i]) = Key(registry'[j]) => i = j
      BY <2>3, <2>5, <2>6, <1>12
    <2>8. ASSUME NEW x
          PROVE  x \in accepted' <=> x # Free /\ \E i \in I : registry'[i] = x
      <3>1. ASSUME x \in accepted, Key(x) # Key(m)
            PROVE  x # Free /\ \E i \in I : registry'[i] = x
        <4>1. x # Free
          BY <3>1, <1>13
        <4>2. PICK i \in I : registry[i] = x
          BY <3>1, <1>13
        <4>3. clean[i] = x
          BY <3>1, <4>2, <1>3
        <4>4. i # slot
          BY <4>1, <4>3, <3>1, <1>5, <1>9, <1>15
        <4> QED
          BY <4>1, <4>3, <4>4, <2>3
      <3>2. ASSUME x # Free, NEW i \in I, registry'[i] = x, x # m
            PROVE  x \in accepted /\ Key(x) # Key(m)
        BY <3>2, <2>3, <2>5, <2>6, <1>13
      <3> QED
        BY <3>1, <3>2, <2>1, <2>3, <1>2, <1>11, <1>15
    <2> QED
      BY <2>2, <2>7, <2>8 DEF RegistryInv, I
  <1> QED
    BY <1>14, <1>15

\* The registry's invariant says it holds what it accepted last.
LEMMA RegistrySound == RegistryInv => RegistryHoldsLastAccepted
  <1> SUFFICES ASSUME RegistryInv PROVE RegistryHoldsLastAccepted
    OBVIOUS
  <1> DEFINE I == 1 .. RegistryCapacity
             used == {i \in DOMAIN registry : registry[i] # Free}
  <1>1. DOMAIN registry = I /\ registry \in [I -> Maps \cup {Free}] /\ IsFiniteSet(I)
    BY CapacityAssumption, FS_Interval DEF RegistryInv
  <1>2. {registry[i] : i \in DOMAIN registry} \ {Free} = accepted
    BY <1>1 DEF RegistryInv
  <1>3. Cardinality(used) = Cardinality(accepted)
    <2> DEFINE f == [i \in used |-> registry[i]]
    <2>1. IsFiniteSet(used)
      BY <1>1, FS_Subset
    <2>2. \A i, j \in used : f[i] = f[j] => i = j
      BY <1>1 DEF RegistryInv
    <2>3. f \in Surjection(used, accepted) /\ f \in Injection(used, accepted)
      <3>1. f \in [used -> accepted]
        BY <1>1 DEF RegistryInv
      <3>2. \A m \in accepted : \E i \in used : f[i] = m
        BY <1>1 DEF RegistryInv
      <3> QED
        BY <3>1, <3>2, <2>2, Fun_IsInj DEF Surjection
    <2>4. ExistsBijection(used, accepted)
      BY <2>3 DEF ExistsBijection, Bijection
    <2> QED
      BY <2>1, <2>4, FS_Bijection
  <1>4. \A m \in accepted : RegistryFind(registry, m.kind, m.out, m.epoch) # {}
    BY <1>1 DEF RegistryInv, RegistryFind
  <1> QED
    BY <1>2, <1>3, <1>4 DEF RegistryHoldsLastAccepted

-----------------------------------------------------------------------------
(* The barrier                                                              *)

\* The types of the barrier's state and of the history.
InputRecords ==
    [stream : Nat, source : {"NONE", "FRAME_DESCRIPTOR", "SLOT_HEADER"},
     observed_seq : Nat \cup {None}, processed_seq : Nat \cup {None}, observed_time : Nat \cup {None},
     processed_time : Nat \cup {None}, min_seq : Nat \cup {None}, observed_at : Nat, latest_valid : BOOLEAN]

BarrierRecords ==
    [type : Types, allow_stale : BOOLEAN, require_processed : BOOLEAN, ordering : {"SEQUENCE", "TIMESTAMP"},
     out : Nat, epoch : Nat, stale_timeout : Nat \cup {Null}, lateness : Nat \cup {Null}, clock : Clocks,
     last_out : Nat \cup {None}, rules : Seq(RuleRecords), inputs : Seq(InputRecords)]

FrameRecords ==
    [what : {"observed", "processed"}, key : {"seq", "time"}, stream : Streams, right : BOOLEAN, value : Nat]

SeenRecords == [frames : SUBSET FrameRecords, at : [Streams -> Nat], fresh : [Streams -> BOOLEAN]]

JoinShape ==
    /\ barrier \in BarrierRecords
    /\ Len(barrier.rules) <= RuleCapacity /\ Len(barrier.inputs) = Len(barrier.rules)
    /\ now \in 1 .. MaxNow
    /\ seen \in SeenRecords

\* The barrier is loaded with map m.
InForce(m) ==
    /\ Valid(m)
    /\ barrier.type = m.kind \/ barrier.type = "LATEST"
    /\ barrier.rules = m.rules /\ barrier.out = m.out /\ barrier.epoch = m.epoch
    /\ barrier.stale_timeout = m.stale_timeout
    /\ m.kind = "TIMESTAMP" => /\ barrier.clock = m.clock
                               /\ barrier.lateness = IF m.lateness = Null THEN 0 ELSE m.lateness
    /\ \A i \in DOMAIN barrier.inputs :
        /\ barrier.inputs[i].stream = m.rules[i].in
        /\ m.kind = "TIMESTAMP" => barrier.inputs[i].source = m.rules[i].source

AdoptedInForce == IF adopted = NoMap THEN barrier.rules = <<>> ELSE InForce(adopted)

\* The newest sequence number or timestamp an input state has.
LastOf(s, what, key) ==
    IF what = "observed" THEN (IF key = "seq" THEN s.observed_seq ELSE s.observed_time)
                         ELSE (IF key = "seq" THEN s.processed_seq ELSE s.processed_time)

Untouched(s) ==
    /\ s.observed_seq = None /\ s.processed_seq = None /\ s.observed_time = None /\ s.processed_time = None
    /\ s.min_seq = None /\ s.observed_at = 0 /\ ~s.latest_valid

\* Frames are entered into the first input state of their stream only; what it
\* has is what was seen of the stream since the map was loaded.
InputSeen(i) ==
    LET s == barrier.inputs[i]
    IN  /\ i = FindState(barrier, s.stream) \/ Untouched(s)
        /\ i = FindState(barrier, s.stream) =>
            /\ s.observed_at = seen.at[s.stream]
            /\ s.latest_valid => seen.fresh[s.stream]
            /\ \A what \in {"observed", "processed"}, key \in {"seq", "time"} :
                LastOf(s, what, key) # None =>
                    \E f \in seen.frames :
                        /\ f.what = what /\ f.key = key /\ f.stream = s.stream
                        /\ f.value = LastOf(s, what, key)
                        /\ key = "seq" \/ barrier.type = "TIMESTAMP" => f.right
        /\ s.min_seq # None => s.observed_seq # None

\* No frame seen is past what its stream's input state has.
FrameBelow(f) ==
    LET i == FindState(barrier, f.stream)
    IN  i # 0 /\ f.value <= LastOf(barrier.inputs[i], f.what, f.key)

JoinInv ==
    /\ JoinShape
    /\ AdoptedInForce
    /\ \A i \in DOMAIN barrier.inputs : InputSeen(i)
    /\ \A f \in seen.frames : FrameBelow(f)

\* The input state FindState names is one of that stream.
LEMMA FoundInput ==
    ASSUME NEW b \in BarrierRecords, NEW s
    PROVE  /\ FindState(b, s) # 0 => FindState(b, s) \in DOMAIN b.inputs /\ b.inputs[FindState(b, s)].stream = s
           /\ \A i \in DOMAIN b.inputs : b.inputs[i].stream = s => FindState(b, s) # 0
  <1> DEFINE found == {i \in DOMAIN b.inputs : b.inputs[i].stream = s}
  <1>1. found \in SUBSET Nat /\ 0 \notin found
    <2>1. b.inputs \in Seq(InputRecords)
      BY DEF BarrierRecords
    <2> QED
      BY <2>1
  <1>2. FindState(b, s) = IF found = {} THEN 0 ELSE Min(found)
    BY DEF FindState
  <1>3. found # {} => Min(found) \in found
    BY <1>1, LeastIndex
  <1> QED
    BY <1>1, <1>2, <1>3

\* FindState depends on the streams of the inputs only.
LEMMA FindSame ==
    ASSUME NEW b, NEW c, DOMAIN c.inputs = DOMAIN b.inputs,
           \A i \in DOMAIN b.inputs : c.inputs[i].stream = b.inputs[i].stream, NEW s
    PROVE  FindState(c, s) = FindState(b, s)
  <1>1. {i \in DOMAIN c.inputs : c.inputs[i].stream = s} = {i \in DOMAIN b.inputs : b.inputs[i].stream = s}
    OBVIOUS
  <1> QED
    BY <1>1 DEF FindState

\* Replacing one input state.
LEMMA InputReplaced ==
    ASSUME NEW b \in BarrierRecords, NEW i \in DOMAIN b.inputs, NEW t \in InputRecords,
           NEW c, c = [b EXCEPT !.inputs = [b.inputs EXCEPT ![i] = t]]
    PROVE  /\ c \in BarrierRecords
           /\ DOMAIN c.inputs = DOMAIN b.inputs /\ Len(c.inputs) = Len(b.inputs)
           /\ c.inputs[i] = t /\ \A j \in DOMAIN b.inputs \ {i} : c.inputs[j] = b.inputs[j]
           /\ c.type = b.type /\ c.allow_stale = b.allow_stale /\ c.require_processed = b.require_processed
           /\ c.ordering = b.ordering /\ c.out = b.out /\ c.epoch = b.epoch /\ c.stale_timeout = b.stale_timeout
           /\ c.lateness = b.lateness /\ c.clock = b.clock /\ c.last_out = b.last_out /\ c.rules = b.rules
  <1> DEFINE u == [b.inputs EXCEPT ![i] = t]
  <1>1. b.inputs \in Seq(InputRecords)
    BY DEF BarrierRecords
  <1>2. /\ u \in Seq(InputRecords) /\ DOMAIN u = DOMAIN b.inputs /\ Len(u) = Len(b.inputs)
        /\ u[i] = t /\ \A j \in DOMAIN b.inputs \ {i} : u[j] = b.inputs[j]
    BY <1>1
  <1> HIDE DEF u
  <1>3. c = [b EXCEPT !.inputs = u]
    BY DEF u
  <1> QED
    BY <1>2, <1>3 DEF BarrierRecords

\* An entry of the history.
FrameOf(what, key, stream, v, right) ==
    [what |-> what, key |-> key, stream |-> stream, right |-> right, value |-> v]

\* Noting a frame that is not older than the ones of its sort.
LEMMA Noted ==
    ASSUME seen \in SeenRecords, NEW stream \in Streams, NEW v \in Nat, NEW right \in BOOLEAN, now \in Nat,
           NEW what \in {"observed", "processed"}, NEW key \in {"seq", "time"},
           \A f \in seen.frames : f.what = what /\ f.key = key /\ f.stream = stream => f.value <= v,
           Note(what, key, stream, v, right)
    PROVE  /\ seen' \in SeenRecords
           /\ FrameOf(what, key, stream, v, right) \in seen'.frames
           /\ \A f \in seen'.frames : f = FrameOf(what, key, stream, v, right) \/ f \in seen.frames
           /\ \A f \in seen.frames : f.what # what \/ f.key # key \/ f.stream # stream => f \in seen'.frames
           /\ \A s \in Streams \ {stream} : seen'.at[s] = seen.at[s] /\ seen'.fresh[s] = seen.fresh[s]
           /\ seen'.at[stream] = IF what = "observed" THEN now ELSE seen.at[stream]
           /\ seen'.fresh[stream] = (seen.fresh[stream] \/ what = "observed")
  <1> DEFINE new == [what |-> what, key |-> key, stream |-> stream, right |-> right, value |-> v]
             same == {f \in seen.frames : f.what = what /\ f.key = key /\ f.stream = stream /\ f.right = right}
             vals == {f.value : f \in same} \cup {v}
             noted == [what |-> what, key |-> key, stream |-> stream, right |-> right, value |-> Max(vals)]
  <1>1. seen.frames \in SUBSET FrameRecords /\ seen.at \in [Streams -> Nat] /\ seen.fresh \in [Streams -> BOOLEAN]
    BY DEF SeenRecords
  <1>2. vals \subseteq Nat /\ v \in vals /\ \A x \in vals : x <= v
    BY <1>1 DEF FrameRecords
  <1>3. Max(vals) = v
    <2> HIDE DEF vals
    <2> DEFINE x == CHOOSE x \in vals : \A y \in vals : x >= y
    <2>1. x \in vals /\ \A y \in vals : x >= y
      BY <1>2
    <2>2. Max(vals) = x
      BY DEF Max
    <2> HIDE DEF x
    <2>3. x \in Nat /\ x <= v /\ x >= v
      BY <2>1, <1>2
    <2>4. x = v
      BY <2>3
    <2> QED
      BY <2>2, <2>4
  <1>4. new \in FrameRecords
    BY DEF FrameRecords
  <1>5. seen' = [seen EXCEPT !.frames = (@ \ same) \cup {noted},
                             !.at[stream] = IF what = "observed" THEN now ELSE @,
                             !.fresh[stream] = @ \/ what = "observed"]
    BY DEF Note
  <1>6. noted = new
    BY <1>3
  <1> HIDE DEF new, noted, same, vals
  <1>7. /\ seen'.frames = (seen.frames \ same) \cup {new}
        /\ seen'.at = [seen.at EXCEPT ![stream] = IF what = "observed" THEN now ELSE @]
        /\ seen'.fresh = [seen.fresh EXCEPT ![stream] = @ \/ what = "observed"]
        /\ seen' = [frames |-> seen'.frames, at |-> seen'.at, fresh |-> seen'.fresh]
    BY <1>5, <1>6 DEF SeenRecords
  <1>8. seen'.frames \in SUBSET FrameRecords /\ same \subseteq seen.frames
    BY <1>1, <1>4, <1>7 DEF same
  <1>9. seen'.at \in [Streams -> Nat]
    BY <1>1, <1>7
  <1>10. seen'.fresh \in [Streams -> BOOLEAN]
    BY <1>1, <1>7
  <1>11. seen' \in SeenRecords
    BY <1>7, <1>8, <1>9, <1>10 DEF SeenRecords
  <1>12. \A s \in Streams \ {stream} : seen'.at[s] = seen.at[s] /\ seen'.fresh[s] = seen.fresh[s]
    BY <1>1, <1>7
  <1>13. seen'.at[stream] = IF what = "observed" THEN now ELSE seen.at[stream]
    BY <1>1, <1>7
  <1>14. seen'.fresh[stream] = (seen.fresh[stream] \/ what = "observed")
    BY <1>1, <1>7
  <1>15. new = FrameOf(what, key, stream, v, right)
    BY DEF new, FrameOf
  <1> QED
    BY <1>7, <1>8, <1>11, <1>12, <1>13, <1>14, <1>15 DEF same

\* The inputs are of streams some map names.
LEMMA InputStreams ==
    ASSUME JoinInv, NEW j \in DOMAIN barrier.inputs
    PROVE  barrier.inputs[j].stream \in Streams
  <1>1. barrier.inputs \in Seq(InputRecords) /\ Len(barrier.inputs) = Len(barrier.rules)
    BY DEF JoinInv, JoinShape, BarrierRecords
  <1>2. adopted # NoMap
    BY <1>1 DEF JoinInv, AdoptedInForce
  <1>3. /\ adopted \in Maps /\ barrier.inputs[j].stream = adopted.rules[j].in /\ barrier.rules = adopted.rules
        /\ adopted.rules \in Seq(RuleRecords)
    BY <1>2, MapsAssumption DEF JoinInv, AdoptedInForce, InForce, Valid, WellFormed, MapRecords
  <1>4. j \in DOMAIN adopted.rules
    BY <1>1, <1>3
  <1> QED
    BY <1>3, <1>4 DEF Streams

\* The map in force stays in force while its inputs are entered.
LEMMA InForceKept ==
    ASSUME JoinInv, NEW i, i \in DOMAIN barrier.inputs, NEW t \in InputRecords,
           t.stream = barrier.inputs[i].stream, t.source = barrier.inputs[i].source,
           barrier' = [barrier EXCEPT !.inputs = [barrier.inputs EXCEPT ![i] = t]], adopted' = adopted
    PROVE  AdoptedInForce'
  <1>1. barrier \in BarrierRecords
    BY DEF JoinInv, JoinShape
  <1>2. /\ DOMAIN barrier'.inputs = DOMAIN barrier.inputs
        /\ barrier'.inputs[i] = t /\ \A j \in DOMAIN barrier.inputs \ {i} : barrier'.inputs[j] = barrier.inputs[j]
        /\ barrier'.type = barrier.type /\ barrier'.out = barrier.out /\ barrier'.epoch = barrier.epoch
        /\ barrier'.stale_timeout = barrier.stale_timeout /\ barrier'.lateness = barrier.lateness
        /\ barrier'.clock = barrier.clock /\ barrier'.rules = barrier.rules
    BY <1>1, InputReplaced
  <1>3. \A j \in DOMAIN barrier.inputs : /\ barrier'.inputs[j].stream = barrier.inputs[j].stream
                                         /\ barrier'.inputs[j].source = barrier.inputs[j].source
    BY <1>2
  <1>4. AdoptedInForce
    BY DEF JoinInv
  <1> QED
    BY <1>2, <1>3, <1>4 DEF AdoptedInForce, InForce

\* What an input state has was seen.
LEMMA SeenOf ==
    ASSUME NEW i, InputSeen(i), i = FindState(barrier, barrier.inputs[i].stream),
           NEW what \in {"observed", "processed"}, NEW key \in {"seq", "time"},
           LastOf(barrier.inputs[i], what, key) # None
    PROVE  \E f \in seen.frames : /\ f.what = what /\ f.key = key /\ f.stream = barrier.inputs[i].stream
                                  /\ f.value = LastOf(barrier.inputs[i], what, key)
                                  /\ key = "seq" \/ barrier.type = "TIMESTAMP" => f.right
  BY DEF InputSeen

\* Input state i is replaced by t, which has the value v of sort what and key of
\* stream, and the frame is noted in the history.
Enters(i, t, what, key, stream, v, right) ==
    /\ i = FindState(barrier, stream) /\ i # 0
    /\ t \in InputRecords /\ t.stream = barrier.inputs[i].stream /\ t.source = barrier.inputs[i].source
    /\ LastOf(barrier.inputs[i], what, key) <= v /\ LastOf(t, what, key) = v
    /\ \A w \in {"observed", "processed"}, k \in {"seq", "time"} :
         w # what \/ k # key => LastOf(t, w, k) = LastOf(barrier.inputs[i], w, k)
    /\ t.observed_at = IF what = "observed" THEN now ELSE barrier.inputs[i].observed_at
    /\ t.latest_valid => barrier.inputs[i].latest_valid \/ what = "observed"
    /\ t.min_seq # None => t.observed_seq # None
    /\ key = "seq" \/ barrier.type = "TIMESTAMP" => right
    /\ barrier' = [barrier EXCEPT !.inputs = [barrier.inputs EXCEPT ![i] = t]]
    /\ Note(what, key, stream, v, right)
    /\ now' = now /\ adopted' = adopted

\* A frame is entered into the first input state of its stream: what the four
\* update functions of the barrier do.
LEMMA InputUpdated ==
    ASSUME JoinInv, NEW stream \in Streams, NEW v \in Nat, NEW right \in BOOLEAN,
           NEW what \in {"observed", "processed"}, NEW key \in {"seq", "time"},
           NEW i, NEW t, Enters(i, t, what, key, stream, v, right)
    PROVE  JoinInv'
  <1> DEFINE D == DOMAIN barrier.inputs
             b == barrier.inputs
             c == barrier'.inputs
             new == FrameOf(what, key, stream, v, right)
  <1>a. /\ i = FindState(barrier, stream) /\ i # 0
        /\ t \in InputRecords /\ t.stream = barrier.inputs[i].stream /\ t.source = barrier.inputs[i].source
        /\ barrier' = [barrier EXCEPT !.inputs = [barrier.inputs EXCEPT ![i] = t]]
        /\ now' = now /\ adopted' = adopted /\ Note(what, key, stream, v, right)
    BY DEF Enters
  <1>b. /\ t.observed_at = IF what = "observed" THEN now ELSE barrier.inputs[i].observed_at
        /\ t.latest_valid => barrier.inputs[i].latest_valid \/ what = "observed"
        /\ t.min_seq # None => t.observed_seq # None
        /\ key = "seq" \/ barrier.type = "TIMESTAMP" => right
    BY DEF Enters
  <1>1. /\ barrier \in BarrierRecords /\ now \in 1 .. MaxNow /\ now \in Nat /\ seen \in SeenRecords
        /\ Len(barrier.rules) <= RuleCapacity /\ Len(barrier.inputs) = Len(barrier.rules)
        /\ \A j \in D : InputSeen(j)
        /\ \A f \in seen.frames : FrameBelow(f)
    BY ValuesAssumption DEF JoinInv, JoinShape
  <1>2. i \in D /\ b[i].stream = stream
    BY <1>a, <1>1, FoundInput
  <1>3. /\ barrier' \in BarrierRecords /\ DOMAIN c = D /\ Len(c) = Len(b)
        /\ c[i] = t /\ \A j \in D \ {i} : c[j] = b[j]
        /\ barrier'.type = barrier.type /\ barrier'.rules = barrier.rules
    BY <1>a, <1>1, <1>2, InputReplaced
  <1>4. \A j \in D : c[j].stream = b[j].stream
    BY <1>a, <1>3
  <1>5. ASSUME NEW s PROVE FindState(barrier', s) = FindState(barrier, s)
    <2>1. DOMAIN barrier'.inputs = DOMAIN barrier.inputs
      BY <1>3
    <2>2. \A j \in DOMAIN barrier.inputs : barrier'.inputs[j].stream = barrier.inputs[j].stream
      BY <1>4
    <2> QED
      BY ONLY <2>1, <2>2, FindSame
  <1>6. b \in Seq(InputRecords)
    BY <1>1 DEF BarrierRecords
  <1>7. \A j \in D, w \in {"observed", "processed"}, k \in {"seq", "time"} : LastOf(b[j], w, k) \in Int
    <2> SUFFICES ASSUME NEW j \in D PROVE /\ b[j].observed_seq \in Int /\ b[j].observed_time \in Int
                                          /\ b[j].processed_seq \in Int /\ b[j].processed_time \in Int
      BY DEF LastOf
    <2>1. b[j] \in InputRecords
      BY <1>6
    <2> QED
      BY <2>1 DEF InputRecords, None
  <1>8. \A f \in seen.frames : /\ f.value \in Nat /\ f.what \in {"observed", "processed"} /\ f.key \in {"seq", "time"}
                               /\ f.stream \in Streams
    BY <1>1 DEF SeenRecords, FrameRecords
  <1>16. /\ LastOf(t, what, key) = v /\ LastOf(b[i], what, key) <= v
         /\ \A w \in {"observed", "processed"}, k \in {"seq", "time"} :
              w # what \/ k # key => LastOf(t, w, k) = LastOf(b[i], w, k)
    BY DEF Enters
  <1>9. ASSUME NEW f \in seen.frames, f.what = what, f.key = key, f.stream = stream
        PROVE  f.value <= v
    <2>1. FrameBelow(f) /\ FindState(barrier, f.stream) = i
      BY <1>a, <1>1, <1>9
    <2>2. f.value <= LastOf(b[i], what, key)
      BY <2>1, <1>9 DEF FrameBelow
    <2>3. f.value \in Nat /\ LastOf(b[i], what, key) \in Int /\ LastOf(b[i], what, key) <= v
      BY <1>2, <1>7, <1>8, <1>16
    <2> HIDE DEF b
    <2> QED
      BY <2>2, <2>3
  <1>10. /\ seen' \in SeenRecords
         /\ new \in seen'.frames
         /\ \A f \in seen'.frames : f = new \/ f \in seen.frames
         /\ \A f \in seen.frames : f.what # what \/ f.key # key \/ f.stream # stream => f \in seen'.frames
         /\ \A s \in Streams \ {stream} : seen'.at[s] = seen.at[s] /\ seen'.fresh[s] = seen.fresh[s]
         /\ seen'.at[stream] = IF what = "observed" THEN now ELSE seen.at[stream]
         /\ seen'.fresh[stream] = (seen.fresh[stream] \/ what = "observed")
    BY <1>a, <1>1, <1>9, Noted
  <1>11. JoinShape'
    BY <1>a, <1>1, <1>3, <1>10 DEF JoinShape
  <1>12. AdoptedInForce'
    BY <1>a, <1>2, InForceKept
  <1>13. new.what = what /\ new.key = key /\ new.stream = stream /\ new.right = right /\ new.value = v
    BY DEF FrameOf
  <1> HIDE DEF D, b, c, new
  <1>14. ASSUME NEW j \in D PROVE InputSeen(j)'
    <2>1. CASE j # i
      <3>1. c[j] = b[j] /\ InputSeen(j)
        BY <2>1, <1>1, <1>3
      <3>2. j = FindState(barrier, b[j].stream) => b[j].stream # stream
        BY <2>1, <1>a
      <3>3. CASE j # FindState(barrier, b[j].stream)
        BY <3>1, <3>3, <1>5 DEF InputSeen, b, c
      <3>4. CASE j = FindState(barrier, b[j].stream)
        <4>1. b[j].stream \in Streams
          BY InputStreams DEF b, D
        <4> QED
          BY <3>1, <3>2, <3>4, <4>1, <1>3, <1>5, <1>10 DEF InputSeen, b, c
      <3> QED
        BY <3>3, <3>4
    <2>2. CASE j = i
      <3>1. InputSeen(i) /\ i = FindState(barrier, stream) /\ i = FindState(barrier', stream)
        BY <1>a, <1>1, <1>2, <1>5
      <3>2. seen'.at[stream] = t.observed_at /\ (t.latest_valid => seen'.fresh[stream])
        <4>1. b[i].observed_at = seen.at[stream] /\ (b[i].latest_valid => seen.fresh[stream])
          BY <3>1, <1>2 DEF InputSeen, b
        <4>2. /\ t.observed_at = IF what = "observed" THEN now ELSE b[i].observed_at
              /\ t.latest_valid => b[i].latest_valid \/ what = "observed"
          BY <1>b DEF b
        <4> QED
          BY <4>1, <4>2, <1>10
      <3>3. ASSUME NEW w \in {"observed", "processed"}, NEW k \in {"seq", "time"}, LastOf(t, w, k) # None
            PROVE  \E f \in seen'.frames :
                        /\ f.what = w /\ f.key = k /\ f.stream = stream
                        /\ f.value = LastOf(t, w, k)
                        /\ k = "seq" \/ barrier.type = "TIMESTAMP" => f.right
        <4>1. CASE w = what /\ k = key
          BY <4>1, <1>b, <1>10, <1>13, <1>16
        <4>2. CASE ~(w = what /\ k = key)
          <5>1. LastOf(t, w, k) = LastOf(b[i], w, k)
            BY <4>2, <1>16
          <5>2. PICK f \in seen.frames : /\ f.what = w /\ f.key = k /\ f.stream = stream
                                         /\ f.value = LastOf(t, w, k)
                                         /\ k = "seq" \/ barrier.type = "TIMESTAMP" => f.right
            <6>1. /\ barrier.inputs[i].stream = stream /\ LastOf(barrier.inputs[i], w, k) # None
                  /\ i = FindState(barrier, barrier.inputs[i].stream) /\ InputSeen(i)
              BY <5>1, <3>1, <3>3, <1>2 DEF b
            <6>2. \E f \in seen.frames : /\ f.what = w /\ f.key = k /\ f.stream = stream
                                         /\ f.value = LastOf(barrier.inputs[i], w, k)
                                         /\ k = "seq" \/ barrier.type = "TIMESTAMP" => f.right
              <7>1. \E f \in seen.frames : /\ f.what = w /\ f.key = k /\ f.stream = barrier.inputs[i].stream
                                           /\ f.value = LastOf(barrier.inputs[i], w, k)
                                           /\ k = "seq" \/ barrier.type = "TIMESTAMP" => f.right
                BY <6>1, SeenOf
              <7> QED
                BY <6>1, <7>1
            <6> QED
              BY <5>1, <6>2 DEF b
          <5>3. f \in seen'.frames
            BY <5>2, <4>2, <1>10
          <5> QED
            BY <5>2, <5>3
        <4> QED
          BY <4>1, <4>2
      <3>4. /\ barrier'.inputs[j] = t /\ t.stream = stream /\ barrier'.type = barrier.type
            /\ j = FindState(barrier', stream)
        BY <1>a, <2>2, <3>1, <1>2, <1>3 DEF b, c
      <3> QED
        BY <1>b, <3>2, <3>3, <3>4 DEF InputSeen
    <2> QED
      BY <2>1, <2>2
  <1>15. ASSUME NEW f \in seen'.frames PROVE FrameBelow(f)'
    <2>1. CASE f = new
      <3>1. FindState(barrier', f.stream) = i /\ LastOf(c[i], f.what, f.key) = v /\ f.value = v /\ i # 0
        BY <1>a, <2>1, <1>3, <1>5, <1>13, <1>16
      <3> QED
        BY <3>1 DEF FrameBelow, c
    <2>2. CASE f \in seen.frames
      <3> DEFINE j == FindState(barrier, f.stream)
      <3>1. j # 0 /\ f.value <= LastOf(b[j], f.what, f.key) /\ j \in D /\ b[j].stream = f.stream
        BY <2>2, <1>1, FoundInput DEF FrameBelow, b, D
      <3>2. FindState(barrier', f.stream) = j
        BY <1>5
      <3> HIDE DEF j
      <3>3. f.value <= LastOf(c[j], f.what, f.key)
        <4>1. CASE j # i
          BY <4>1, <3>1, <1>3
        <4>2. CASE j = i
          <5>1. /\ f.value \in Nat /\ LastOf(b[i], f.what, f.key) \in Int
                /\ f.value <= LastOf(b[i], f.what, f.key) /\ c[j] = t
            BY <4>2, <3>1, <2>2, <1>2, <1>3, <1>7, <1>8
          <5>2. CASE f.what = what /\ f.key = key
            BY <5>1, <5>2, <1>16
          <5>3. CASE f.what # what \/ f.key # key
            <6>1. LastOf(t, f.what, f.key) = LastOf(b[i], f.what, f.key)
              BY <5>3, <2>2, <1>8, <1>16
            <6> QED
              BY <5>1, <6>1
          <5> QED
            BY <5>2, <5>3
        <4> QED
          BY <4>1, <4>2
      <3> QED
        BY <3>1, <3>2, <3>3 DEF FrameBelow, c
    <2> QED
      BY <2>1, <2>2, <1>10
  <1> QED
    BY <1>3, <1>11, <1>12, <1>14, <1>15 DEF JoinInv, D, c

\* No input state loses a sequence number or timestamp it had.
Grew ==
    /\ barrier'.lateness = barrier.lateness
    /\ \A j \in DOMAIN barrier.inputs, w \in {"observed", "processed"}, k \in {"seq", "time"} :
        LastOf(barrier.inputs[j], w, k) <= LastOf(barrier'.inputs[j], w, k)

\* The numbers of an input state.
LEMMA LastTyped ==
    ASSUME NEW s \in InputRecords, NEW w \in {"observed", "processed"}, NEW k \in {"seq", "time"}
    PROVE  LastOf(s, w, k) \in Nat \cup {None}
  BY DEF InputRecords, LastOf

\* A step that leaves the input states alone.
LEMMA SameGrew ==
    ASSUME JoinInv, barrier'.lateness = barrier.lateness, barrier'.inputs = barrier.inputs
    PROVE  Grew
  <1>1. \A j \in DOMAIN barrier.inputs : barrier.inputs[j] \in InputRecords
    BY DEF JoinInv, JoinShape, BarrierRecords
  <1>2. \A j \in DOMAIN barrier.inputs, w \in {"observed", "processed"}, k \in {"seq", "time"} :
          LastOf(barrier.inputs[j], w, k) \in Int
    BY <1>1, LastTyped DEF None
  <1> QED
    BY <1>2 DEF Grew

\* Entering a frame raises one number of one input state.
LEMMA InputGrew ==
    ASSUME JoinInv, NEW stream, NEW v \in Nat, NEW right,
           NEW what \in {"observed", "processed"}, NEW key \in {"seq", "time"},
           NEW i, NEW t, Enters(i, t, what, key, stream, v, right)
    PROVE  Grew
  <1>1. /\ barrier \in BarrierRecords /\ \A j \in DOMAIN barrier.inputs : barrier.inputs[j] \in InputRecords
    BY DEF JoinInv, JoinShape, BarrierRecords
  <1>2. /\ i = FindState(barrier, stream) /\ i # 0 /\ t \in InputRecords
        /\ barrier' = [barrier EXCEPT !.inputs = [barrier.inputs EXCEPT ![i] = t]]
    BY DEF Enters
  <1>3. i \in DOMAIN barrier.inputs
    BY <1>1, <1>2, FoundInput
  <1>4. /\ barrier'.lateness = barrier.lateness
        /\ barrier'.inputs[i] = t /\ \A j \in DOMAIN barrier.inputs \ {i} : barrier'.inputs[j] = barrier.inputs[j]
    BY <1>1, <1>2, <1>3, InputReplaced
  <1>5. ASSUME NEW j \in DOMAIN barrier.inputs, NEW w \in {"observed", "processed"}, NEW k \in {"seq", "time"}
        PROVE  LastOf(barrier.inputs[j], w, k) <= LastOf(barrier'.inputs[j], w, k)
    <2>1. LastOf(barrier.inputs[j], w, k) \in Int
      BY <1>1, LastTyped DEF None
    <2>2. CASE j # i
      BY <2>1, <2>2, <1>4
    <2>3. CASE j = i /\ w = what /\ k = key
      BY <2>3, <1>4 DEF Enters
    <2>4. CASE j = i /\ (w # what \/ k # key)
      <3>1. LastOf(t, w, k) = LastOf(barrier.inputs[i], w, k)
        BY <2>4 DEF Enters
      <3> QED
        BY <3>1, <2>1, <2>4, <1>4
    <2> QED
      BY <2>2, <2>3, <2>4
  <1> QED
    BY <1>4, <1>5 DEF Grew

\* tp_join_barrier_update_observed_seq
LEMMA UpdateObservedSeqKeeps ==
    ASSUME JoinInv, NEW stream \in Streams, NEW v \in Values, UpdateObservedSeq(stream, v)
    PROVE  JoinInv' /\ Grew
  <1> DEFINE i == FindState(barrier, stream)
             s == barrier.inputs[i]
             t == [s EXCEPT !.observed_seq = v, !.min_seq = IF @ = None THEN v ELSE @,
                            !.latest_valid = TRUE, !.observed_at = now]
  <1>1. /\ i # 0 /\ s.observed_seq <= v /\ Note("observed", "seq", stream, v, TRUE)
        /\ now' = now /\ adopted' = adopted
    BY DEF UpdateObservedSeq
  <1>2. barrier \in BarrierRecords /\ now \in Nat /\ v \in Nat
    BY ValuesAssumption DEF JoinInv, JoinShape
  <1>3. i \in DOMAIN barrier.inputs /\ s \in InputRecords
    BY <1>1, <1>2, FoundInput DEF BarrierRecords
  <1>4. barrier' = [barrier EXCEPT !.inputs = [barrier.inputs EXCEPT ![i] = t]]
    BY DEF UpdateObservedSeq
  <1> HIDE DEF i, s
  <1>5. /\ t \in InputRecords /\ t.stream = s.stream /\ t.source = s.source
        /\ t.observed_seq = v /\ t.processed_seq = s.processed_seq
        /\ t.observed_time = s.observed_time /\ t.processed_time = s.processed_time
        /\ t.observed_at = now
    BY <1>2, <1>3 DEF InputRecords
  <1> HIDE DEF t
  <1>6. /\ LastOf(t, "observed", "seq") = v /\ LastOf(s, "observed", "seq") <= v
        /\ \A w \in {"observed", "processed"}, k \in {"seq", "time"} :
             w # "observed" \/ k # "seq" => LastOf(t, w, k) = LastOf(s, w, k)
    BY <1>1, <1>5 DEF LastOf
  <1>7. t.observed_seq # None
    BY <1>2, <1>5 DEF None
  <1>8. Enters(i, t, "observed", "seq", stream, v, TRUE)
    BY <1>1, <1>4, <1>5, <1>6, <1>7 DEF Enters, i, s
  <1> QED
    BY <1>2, <1>8, InputUpdated, InputGrew

\* tp_join_barrier_update_processed_seq
LEMMA UpdateProcessedSeqKeeps ==
    ASSUME JoinInv, NEW stream \in Streams, NEW v \in Values, UpdateProcessedSeq(stream, v)
    PROVE  JoinInv' /\ Grew
  <1> DEFINE i == FindState(barrier, stream)
             s == barrier.inputs[i]
             t == [s EXCEPT !.processed_seq = v]
  <1>1. /\ i # 0 /\ s.processed_seq <= v /\ Note("processed", "seq", stream, v, TRUE)
        /\ now' = now /\ adopted' = adopted
    BY DEF UpdateProcessedSeq
  <1>2. barrier \in BarrierRecords /\ v \in Nat
    BY ValuesAssumption DEF JoinInv, JoinShape
  <1>3. i \in DOMAIN barrier.inputs /\ s \in InputRecords
    BY <1>1, <1>2, FoundInput DEF BarrierRecords
  <1>4. barrier' = [barrier EXCEPT !.inputs = [barrier.inputs EXCEPT ![i] = t]]
    BY DEF UpdateProcessedSeq
  <1>5. s.min_seq # None => s.observed_seq # None
    BY <1>3 DEF JoinInv, InputSeen
  <1> HIDE DEF i, s
  <1>6. /\ t \in InputRecords /\ t.stream = s.stream /\ t.source = s.source
        /\ t.observed_seq = s.observed_seq /\ t.processed_seq = v
        /\ t.observed_time = s.observed_time /\ t.processed_time = s.processed_time
        /\ t.observed_at = s.observed_at /\ t.min_seq = s.min_seq /\ t.latest_valid = s.latest_valid
    BY <1>2, <1>3 DEF InputRecords
  <1> HIDE DEF t
  <1>7. /\ LastOf(t, "processed", "seq") = v /\ LastOf(s, "processed", "seq") <= v
        /\ \A w \in {"observed", "processed"}, k \in {"seq", "time"} :
             w # "processed" \/ k # "seq" => LastOf(t, w, k) = LastOf(s, w, k)
    BY <1>1, <1>6 DEF LastOf
  <1>8. Enters(i, t, "processed", "seq", stream, v, TRUE)
    BY <1>1, <1>4, <1>5, <1>6, <1>7 DEF Enters, i, s
  <1> QED
    BY <1>2, <1>8, InputUpdated, InputGrew

\* tp_join_barrier_validate_timestamp_update lets only timestamps of the map's
\* source and clock domain into a timestamp barrier.
LEMMA AllowedIsRight ==
    ASSUME JoinInv, NEW stream, NEW source, NEW clock, barrier.type = "TIMESTAMP",
           FindState(barrier, stream) # 0,
           TimestampAllowed(barrier, barrier.inputs[FindState(barrier, stream)], source, clock)
    PROVE  RightTime(stream, source, clock)
  <1> DEFINE i == FindState(barrier, stream)
  <1>1. /\ barrier \in BarrierRecords /\ barrier.inputs \in Seq(InputRecords)
        /\ Len(barrier.inputs) = Len(barrier.rules)
    BY DEF JoinInv, JoinShape, BarrierRecords
  <1>2. i \in DOMAIN barrier.inputs /\ barrier.inputs[i].stream = stream
    BY <1>1, FoundInput
  <1>3. adopted # NoMap
    BY <1>1, <1>2 DEF JoinInv, AdoptedInForce
  <1>4. InForce(adopted) /\ adopted.kind = "TIMESTAMP"
    BY <1>3, MapIsReal DEF JoinInv, AdoptedInForce, InForce, Valid
  <1>5. /\ barrier.rules = adopted.rules /\ barrier.clock = adopted.clock
        /\ barrier.inputs[i].stream = adopted.rules[i].in
        /\ barrier.inputs[i].source = adopted.rules[i].source
        /\ Valid(adopted)
    BY <1>2, <1>4 DEF InForce
  <1>6. adopted.clock # "NONE" /\ adopted.rules \in Seq(RuleRecords)
    BY <1>4, <1>5, MapsAssumption DEF Valid, WellFormed, MapRecords
  <1>7. i \in DOMAIN adopted.rules
    BY <1>1, <1>2, <1>5, <1>6
  <1>8. adopted.rules[i].source # "NONE"
    BY <1>4, <1>5, <1>7 DEF Valid, RuleValid
  <1> QED
    BY <1>2, <1>5, <1>6, <1>7, <1>8 DEF TimestampAllowed, RightTime

\* tp_join_barrier_update_observed_time
LEMMA UpdateObservedTimeKeeps ==
    ASSUME JoinInv, NEW stream \in Streams, NEW v \in Values, NEW source, NEW clock,
           UpdateObservedTime(stream, v, source, clock)
    PROVE  JoinInv' /\ Grew
  <1> DEFINE i == FindState(barrier, stream)
             s == barrier.inputs[i]
             t == [s EXCEPT !.observed_time = v, !.latest_valid = TRUE, !.observed_at = now]
             right == RightTime(stream, source, clock)
  <1>1. /\ i # 0 /\ s.observed_time <= v /\ Note("observed", "time", stream, v, right)
        /\ now' = now /\ adopted' = adopted
    BY DEF UpdateObservedTime
  <1>2. barrier \in BarrierRecords /\ now \in Nat /\ v \in Nat
    BY ValuesAssumption DEF JoinInv, JoinShape
  <1>3. i \in DOMAIN barrier.inputs /\ s \in InputRecords
    BY <1>1, <1>2, FoundInput DEF BarrierRecords
  <1>4. barrier' = [barrier EXCEPT !.inputs = [barrier.inputs EXCEPT ![i] = t]]
    BY DEF UpdateObservedTime
  <1>5. s.min_seq # None => s.observed_seq # None
    BY <1>3 DEF JoinInv, InputSeen
  <1>a. right \in BOOLEAN /\ (barrier.type = "TIMESTAMP" => right)
    <2>1. right \in BOOLEAN
      BY DEF RightTime
    <2>2. barrier.type = "TIMESTAMP" => right
      BY <1>1, AllowedIsRight DEF UpdateObservedTime
    <2> QED
      BY <2>1, <2>2
  <1> HIDE DEF i, s, right
  <1>6. /\ t \in InputRecords /\ t.stream = s.stream /\ t.source = s.source
        /\ t.observed_seq = s.observed_seq /\ t.processed_seq = s.processed_seq
        /\ t.observed_time = v /\ t.processed_time = s.processed_time
        /\ t.observed_at = now /\ t.min_seq = s.min_seq
    BY <1>2, <1>3 DEF InputRecords
  <1> HIDE DEF t
  <1>7. /\ LastOf(t, "observed", "time") = v /\ LastOf(s, "observed", "time") <= v
        /\ \A w \in {"observed", "processed"}, k \in {"seq", "time"} :
             w # "observed" \/ k # "time" => LastOf(t, w, k) = LastOf(s, w, k)
    BY <1>1, <1>6 DEF LastOf
  <1>8. Enters(i, t, "observed", "time", stream, v, right)
    BY <1>1, <1>4, <1>5, <1>6, <1>7, <1>a DEF Enters, i, s
  <1> QED
    BY <1>2, <1>8, <1>a, InputUpdated, InputGrew

\* tp_join_barrier_update_processed_time
LEMMA UpdateProcessedTimeKeeps ==
    ASSUME JoinInv, NEW stream \in Streams, NEW v \in Values, NEW source, NEW clock,
           UpdateProcessedTime(stream, v, source, clock)
    PROVE  JoinInv' /\ Grew
  <1> DEFINE i == FindState(barrier, stream)
             s == barrier.inputs[i]
             t == [s EXCEPT !.processed_time = v]
             right == RightTime(stream, source, clock)
  <1>1. /\ i # 0 /\ s.processed_time <= v /\ Note("processed", "time", stream, v, right)
        /\ now' = now /\ adopted' = adopted
    BY DEF UpdateProcessedTime
  <1>2. barrier \in BarrierRecords /\ v \in Nat
    BY ValuesAssumption DEF JoinInv, JoinShape
  <1>3. i \in DOMAIN barrier.inputs /\ s \in InputRecords
    BY <1>1, <1>2, FoundInput DEF BarrierRecords
  <1>4. barrier' = [barrier EXCEPT !.inputs = [barrier.inputs EXCEPT ![i] = t]]
    BY DEF UpdateProcessedTime
  <1>5. s.min_seq # None => s.observed_seq # None
    BY <1>3 DEF JoinInv, InputSeen
  <1>a. right \in BOOLEAN /\ (barrier.type = "TIMESTAMP" => right)
    <2>1. right \in BOOLEAN
      BY DEF RightTime
    <2>2. barrier.type = "TIMESTAMP" => right
      BY <1>1, AllowedIsRight DEF UpdateProcessedTime
    <2> QED
      BY <2>1, <2>2
  <1> HIDE DEF i, s, right
  <1>6. /\ t \in InputRecords /\ t.stream = s.stream /\ t.source = s.source
        /\ t.observed_seq = s.observed_seq /\ t.processed_seq = s.processed_seq
        /\ t.observed_time = s.observed_time /\ t.processed_time = v
        /\ t.observed_at = s.observed_at /\ t.min_seq = s.min_seq /\ t.latest_valid = s.latest_valid
    BY <1>2, <1>3 DEF InputRecords
  <1> HIDE DEF t
  <1>7. /\ LastOf(t, "processed", "time") = v /\ LastOf(s, "processed", "time") <= v
        /\ \A w \in {"observed", "processed"}, k \in {"seq", "time"} :
             w # "processed" \/ k # "time" => LastOf(t, w, k) = LastOf(s, w, k)
    BY <1>1, <1>6 DEF LastOf
  <1>8. Enters(i, t, "processed", "time", stream, v, right)
    BY <1>1, <1>4, <1>5, <1>6, <1>7, <1>a DEF Enters, i, s
  <1> QED
    BY <1>2, <1>8, <1>a, InputUpdated, InputGrew

\* A step that leaves the map in force, the input states and the history alone.
LEMMA SettingsKeep ==
    ASSUME JoinInv, barrier' \in BarrierRecords, now' \in 1 .. MaxNow, adopted' = adopted, seen' = seen,
           barrier'.type = barrier.type, barrier'.rules = barrier.rules, barrier'.inputs = barrier.inputs,
           barrier'.out = barrier.out, barrier'.epoch = barrier.epoch, barrier'.clock = barrier.clock,
           barrier'.stale_timeout = barrier.stale_timeout, barrier'.lateness = barrier.lateness
    PROVE  JoinInv'
  <1>1. ASSUME NEW s PROVE FindState(barrier', s) = FindState(barrier, s)
    BY DEF FindState
  <1>2. JoinShape'
    BY DEF JoinInv, JoinShape
  <1>3. AdoptedInForce'
    BY DEF JoinInv, AdoptedInForce, InForce
  <1>4. ASSUME NEW i \in DOMAIN barrier.inputs PROVE InputSeen(i)'
    <2>1. InputSeen(i) /\ FindState(barrier', barrier.inputs[i].stream) = FindState(barrier, barrier.inputs[i].stream)
      BY <1>1 DEF JoinInv
    <2> QED
      BY <2>1 DEF InputSeen
  <1>5. ASSUME NEW f \in seen.frames PROVE FrameBelow(f)'
    <2>1. FrameBelow(f) /\ FindState(barrier', f.stream) = FindState(barrier, f.stream)
      BY <1>1 DEF JoinInv
    <2> QED
      BY <2>1 DEF FrameBelow
  <1> QED
    BY <1>2, <1>3, <1>4, <1>5 DEF JoinInv

\* The setters, is_ready's note of the out time, and the clock.
LEMMA SettingsStep ==
    ASSUME JoinInv, Configure \/ (\E v \in Values : NoteOutTime(v)) \/ Tick
    PROVE  JoinInv'
  <1>1. barrier \in BarrierRecords /\ now \in 1 .. MaxNow /\ MaxNow \in Nat
    BY ValuesAssumption DEF JoinInv, JoinShape
  <1> DEFINE Same == /\ barrier' \in BarrierRecords
                     /\ barrier'.type = barrier.type /\ barrier'.rules = barrier.rules
                     /\ barrier'.inputs = barrier.inputs /\ barrier'.out = barrier.out
                     /\ barrier'.epoch = barrier.epoch /\ barrier'.clock = barrier.clock
                     /\ barrier'.stale_timeout = barrier.stale_timeout /\ barrier'.lateness = barrier.lateness
  <1>2. CASE Configure
    <2>1. ASSUME NEW x \in BOOLEAN, barrier' = [barrier EXCEPT !.allow_stale = x] PROVE Same
      BY <2>1, <1>1 DEF BarrierRecords
    <2>2. ASSUME NEW x \in BOOLEAN, barrier' = [barrier EXCEPT !.require_processed = x] PROVE Same
      BY <2>2, <1>1 DEF BarrierRecords
    <2>3. ASSUME NEW x \in {"SEQUENCE", "TIMESTAMP"}, barrier' = [barrier EXCEPT !.ordering = x] PROVE Same
      BY <2>3, <1>1 DEF BarrierRecords
    <2>4. (~barrier.allow_stale) \in BOOLEAN /\ (~barrier.require_processed) \in BOOLEAN
      OBVIOUS
    <2>5. Same /\ UNCHANGED <<now, adopted, seen>>
      BY <1>2, <2>1, <2>2, <2>3, <2>4 DEF Configure
    <2> QED
      BY <2>5, <1>1, SettingsKeep
  <1>3. ASSUME NEW v \in Values, NoteOutTime(v) PROVE JoinInv'
    <2>1. barrier' = [barrier EXCEPT !.last_out = v] /\ UNCHANGED <<now, adopted, seen>> /\ v \in Nat
      BY <1>3, ValuesAssumption DEF NoteOutTime
    <2>2. Same
      BY <2>1, <1>1 DEF BarrierRecords
    <2> QED
      BY <2>1, <2>2, <1>1, SettingsKeep
  <1>4. CASE Tick
    <2>1. now' \in 1 .. MaxNow /\ UNCHANGED <<barrier, adopted, seen>>
      BY <1>4, <1>1 DEF Tick
    <2> QED
      BY <2>1, <1>1, SettingsKeep
  <1> QED
    BY <1>2, <1>3, <1>4

\* tp_join_barrier_invalidate_latest
LEMMA InvalidateLatestKeeps ==
    ASSUME JoinInv, NEW stream \in Streams, InvalidateLatest(stream)
    PROVE  JoinInv' /\ Grew
  <1> DEFINE i == FindState(barrier, stream)
             s == barrier.inputs[i]
             t == [s EXCEPT !.latest_valid = FALSE]
             D == DOMAIN barrier.inputs
             b == barrier.inputs
             c == barrier'.inputs
  <1>1. i # 0 /\ now' = now /\ adopted' = adopted /\ seen' = [seen EXCEPT !.fresh[stream] = FALSE]
    BY DEF InvalidateLatest
  <1>2. /\ barrier \in BarrierRecords /\ now \in 1 .. MaxNow /\ seen \in SeenRecords
        /\ Len(barrier.rules) <= RuleCapacity /\ Len(barrier.inputs) = Len(barrier.rules)
        /\ \A j \in D : InputSeen(j)
        /\ \A f \in seen.frames : FrameBelow(f)
    BY DEF JoinInv, JoinShape
  <1>3. i \in D /\ s \in InputRecords /\ s.stream = stream
    BY <1>1, <1>2, FoundInput DEF BarrierRecords
  <1>4. barrier' = [barrier EXCEPT !.inputs = [barrier.inputs EXCEPT ![i] = t]]
    BY DEF InvalidateLatest
  <1> HIDE DEF s
  <1>5. /\ t \in InputRecords /\ t.stream = s.stream /\ t.source = s.source
        /\ t.observed_seq = s.observed_seq /\ t.processed_seq = s.processed_seq
        /\ t.observed_time = s.observed_time /\ t.processed_time = s.processed_time
        /\ t.observed_at = s.observed_at /\ t.min_seq = s.min_seq /\ ~t.latest_valid
    BY <1>3 DEF InputRecords
  <1> HIDE DEF t, i
  <1>6. /\ barrier' \in BarrierRecords /\ DOMAIN c = D /\ Len(c) = Len(b)
        /\ c[i] = t /\ \A j \in D \ {i} : c[j] = b[j]
        /\ barrier'.type = barrier.type /\ barrier'.rules = barrier.rules
    BY <1>2, <1>3, <1>4, <1>5, InputReplaced
  <1>7. \A j \in D : /\ c[j].stream = b[j].stream /\ (c[j].latest_valid => b[j].latest_valid /\ j # i)
                     /\ c[j].observed_seq = b[j].observed_seq /\ c[j].processed_seq = b[j].processed_seq
                     /\ c[j].observed_time = b[j].observed_time /\ c[j].processed_time = b[j].processed_time
                     /\ c[j].observed_at = b[j].observed_at /\ c[j].min_seq = b[j].min_seq
    BY <1>5, <1>6 DEF s
  <1>8. ASSUME NEW x PROVE FindState(barrier', x) = FindState(barrier, x)
    <2>1. DOMAIN barrier'.inputs = DOMAIN barrier.inputs
      BY <1>6
    <2>2. \A j \in DOMAIN barrier.inputs : barrier'.inputs[j].stream = barrier.inputs[j].stream
      BY <1>7
    <2> QED
      BY ONLY <2>1, <2>2, FindSame
  <1>9. /\ seen' \in SeenRecords /\ seen'.frames = seen.frames /\ seen'.at = seen.at
        /\ \A x \in Streams \ {stream} : seen'.fresh[x] = seen.fresh[x]
    BY <1>1, <1>2 DEF SeenRecords
  <1>10. AdoptedInForce'
    BY <1>1, <1>3, <1>4, <1>5, InForceKept DEF s
  <1>11. JoinShape'
    BY <1>1, <1>2, <1>6, <1>9 DEF JoinShape
  <1>12. \A j \in D, w \in {"observed", "processed"}, k \in {"seq", "time"} : LastOf(c[j], w, k) = LastOf(b[j], w, k)
    BY <1>7 DEF LastOf
  <1> HIDE DEF b, c, D
  <1>13. ASSUME NEW j \in D PROVE InputSeen(j)'
    <2>1. CASE j # FindState(barrier, b[j].stream)
      <3>1. Untouched(b[j])
        BY <2>1, <1>2 DEF InputSeen, b
      <3>2. Untouched(c[j]) /\ c[j].min_seq = None /\ j # FindState(barrier', c[j].stream)
        BY <2>1, <3>1, <1>7, <1>8 DEF Untouched
      <3> QED
        BY <3>2 DEF InputSeen, c
    <2>2. CASE j = FindState(barrier, b[j].stream)
      <3>1. InputSeen(j) /\ j = FindState(barrier', c[j].stream) /\ c[j].stream = b[j].stream
        BY <2>2, <1>2, <1>7, <1>8
      <3>2. /\ c[j].observed_at = seen'.at[c[j].stream]
            /\ c[j].min_seq # None => c[j].observed_seq # None
        BY <2>2, <3>1, <1>7, <1>9 DEF InputSeen, b
      <3>3. c[j].latest_valid => seen'.fresh[c[j].stream]
        <4>1. b[j].latest_valid => seen.fresh[b[j].stream]
          BY <2>2, <3>1 DEF InputSeen, b
        <4>2. j # i => b[j].stream # stream
          BY <2>2 DEF i
        <4>3. b[j].stream \in Streams
          BY InputStreams DEF b, D
        <4> QED
          BY <4>1, <4>2, <4>3, <1>7, <1>9
      <3>4. ASSUME NEW w \in {"observed", "processed"}, NEW k \in {"seq", "time"}, LastOf(c[j], w, k) # None
            PROVE  \E f \in seen.frames : /\ f.what = w /\ f.key = k /\ f.stream = c[j].stream
                                          /\ f.value = LastOf(c[j], w, k)
                                          /\ k = "seq" \/ barrier.type = "TIMESTAMP" => f.right
        <4>1. LastOf(c[j], w, k) = LastOf(barrier.inputs[j], w, k) /\ c[j].stream = barrier.inputs[j].stream
          BY <1>7, <1>12 DEF b
        <4>2. \E f \in seen.frames : /\ f.what = w /\ f.key = k /\ f.stream = barrier.inputs[j].stream
                                     /\ f.value = LastOf(barrier.inputs[j], w, k)
                                     /\ k = "seq" \/ barrier.type = "TIMESTAMP" => f.right
          BY <4>1, <3>4, <3>1, <2>2, SeenOf DEF b
        <4> QED
          BY <4>1, <4>2
      <3> QED
        BY <3>1, <3>2, <3>3, <3>4, <1>6, <1>9 DEF InputSeen, c
    <2> QED
      BY <2>1, <2>2
  <1>14. ASSUME NEW f \in seen.frames PROVE FrameBelow(f)'
    <2> DEFINE j == FindState(barrier, f.stream)
    <2>1. /\ FindState(barrier', f.stream) = j /\ j # 0 /\ j \in D
          /\ f.value <= LastOf(b[j], f.what, f.key)
          /\ f.what \in {"observed", "processed"} /\ f.key \in {"seq", "time"}
      BY <1>2, <1>8, FoundInput DEF FrameBelow, b, D, SeenRecords, FrameRecords
    <2> HIDE DEF j
    <2>2. LastOf(c[j], f.what, f.key) = LastOf(b[j], f.what, f.key)
      BY <2>1, <1>12
    <2> QED
      BY <2>1, <2>2 DEF FrameBelow, c
  <1>15. Grew
    <2>1. barrier'.lateness = barrier.lateness
      BY <1>2, <1>4 DEF BarrierRecords
    <2>2. \A j \in D, w \in {"observed", "processed"}, k \in {"seq", "time"} : LastOf(b[j], w, k) \in Int
      <3>1. \A j \in D : b[j] \in InputRecords
        BY <1>2 DEF BarrierRecords, b, D
      <3> QED
        BY <3>1, LastTyped DEF None
    <2> QED
      BY <2>1, <2>2, <1>12 DEF Grew, b, c, D
  <1> QED
    BY <1>6, <1>9, <1>10, <1>11, <1>13, <1>14, <1>15 DEF JoinInv, D, c

\* An input state as loading a rule leaves it.
LEMMA FreshInput ==
    ASSUME NEW m \in MapRecords, NEW r \in RuleRecords
    PROVE  /\ InputState(m, r) \in InputRecords /\ Untouched(InputState(m, r))
           /\ InputState(m, r).stream = r.in
           /\ m.kind = "TIMESTAMP" => InputState(m, r).source = r.source
  BY DEF InputState, InputRecords, RuleRecords, Untouched, None

\* Loading a map: the input states and the history start anew.
LEMMA MapLoaded ==
    ASSUME JoinInv, NEW m, Valid(m), Takes(barrier, m), barrier' = ApplyMap(barrier, m),
           adopted' = m, seen' = NothingSeen, now' = now
    PROVE  JoinInv'
  <1> DEFINE ins == [i \in DOMAIN m.rules |-> InputState(m, m.rules[i])]
  <1>1. m \in MapRecords /\ m.rules \in Seq(RuleRecords) /\ m # NoMap
    BY MapsAssumption, MapIsReal DEF Valid, WellFormed, MapRecords
  <1>2. barrier \in BarrierRecords /\ now \in 1 .. MaxNow
    BY DEF JoinInv, JoinShape
  <1>3. \A i \in DOMAIN m.rules : m.rules[i] \in RuleRecords
    BY <1>1
  <1>4. /\ DOMAIN ins = DOMAIN m.rules
        /\ \A i \in DOMAIN m.rules : /\ ins[i] \in InputRecords /\ Untouched(ins[i])
                                     /\ ins[i].stream = m.rules[i].in
                                     /\ m.kind = "TIMESTAMP" => ins[i].source = m.rules[i].source
    BY <1>1, <1>3, FreshInput
  <1>5. ins \in Seq(InputRecords) /\ Len(ins) = Len(m.rules)
    <2> DEFINE n == Len(m.rules)
    <2>1. n \in Nat /\ DOMAIN m.rules = 1 .. n
      BY <1>1
    <2>2. ins \in [1 .. n -> InputRecords]
      BY <1>4, <2>1
    <2> HIDE DEF ins, n
    <2> QED
      BY <2>1, <2>2 DEF n
  <1> DEFINE late == IF m.kind = "SEQUENCE" THEN Null ELSE IF m.lateness = Null THEN 0 ELSE m.lateness
             clk == IF m.kind = "SEQUENCE" THEN "NONE" ELSE m.clock
  <1>6. barrier' = [barrier EXCEPT !.out = m.out, !.epoch = m.epoch, !.stale_timeout = m.stale_timeout,
                                   !.lateness = late, !.clock = clk, !.last_out = None, !.rules = m.rules,
                                   !.inputs = ins]
    BY DEF ApplyMap
  <1>a. late \in Nat \cup {Null} /\ clk \in Clocks
    BY <1>1 DEF MapRecords, Clocks
  <1>b. m.kind = "TIMESTAMP" => clk = m.clock /\ late = IF m.lateness = Null THEN 0 ELSE m.lateness
    OBVIOUS
  <1>c. m.out \in Nat /\ m.epoch \in Nat /\ m.stale_timeout \in Nat \cup {Null}
    BY <1>1 DEF MapRecords
  <1> HIDE DEF ins, late, clk
  <1>7. /\ barrier'.type = barrier.type /\ barrier'.rules = m.rules /\ barrier'.inputs = ins
        /\ barrier'.out = m.out /\ barrier'.epoch = m.epoch /\ barrier'.stale_timeout = m.stale_timeout
        /\ m.kind = "TIMESTAMP" => /\ barrier'.clock = m.clock
                                   /\ barrier'.lateness = IF m.lateness = Null THEN 0 ELSE m.lateness
    BY <1>2, <1>6, <1>b DEF BarrierRecords
  <1>8. barrier' \in BarrierRecords
    <2> DEFINE RR == Seq(RuleRecords)
               II == Seq(InputRecords)
               NN == Nat \cup {Null}
               LL == Nat \cup {None}
    <2>1. m.rules \in RR /\ ins \in II /\ m.stale_timeout \in NN /\ late \in NN /\ None \in LL
      BY <1>1, <1>5, <1>a, <1>c
    <2>2. BarrierRecords =
              [type : Types, allow_stale : BOOLEAN, require_processed : BOOLEAN, ordering : {"SEQUENCE", "TIMESTAMP"},
               out : Nat, epoch : Nat, stale_timeout : NN, lateness : NN, clock : Clocks, last_out : LL, rules : RR,
               inputs : II]
      BY DEF BarrierRecords
    <2> HIDE DEF RR, II, NN, LL
    <2>3. m.out \in Nat /\ m.epoch \in Nat /\ clk \in Clocks /\ barrier \in BarrierRecords
      BY <1>2, <1>a, <1>c
    <2> QED
      BY ONLY <2>1, <2>2, <2>3, <1>6
  <1>9. seen' \in SeenRecords /\ seen'.frames = {} /\ \A s \in Streams : seen'.at[s] = 0
    BY DEF NothingSeen, SeenRecords
  <1>10. JoinShape'
    BY <1>2, <1>5, <1>7, <1>8, <1>9 DEF JoinShape, Takes
  <1>11. AdoptedInForce'
    BY <1>1, <1>4, <1>7 DEF AdoptedInForce, InForce, Takes
  <1>12. ASSUME NEW i \in DOMAIN m.rules PROVE InputSeen(i)'
    <2>1. Untouched(ins[i]) /\ ins[i].stream = m.rules[i].in /\ m.rules[i].in \in Streams
      BY <1>4 DEF Valid, Streams
    <2>2. /\ ins[i].observed_at = seen'.at[ins[i].stream] /\ ~ins[i].latest_valid /\ ins[i].min_seq = None
          /\ \A w \in {"observed", "processed"}, k \in {"seq", "time"} : LastOf(ins[i], w, k) = None
      BY <2>1, <1>9 DEF Untouched, LastOf
    <2> QED
      BY <2>1, <2>2, <1>7 DEF InputSeen
  <1> QED
    BY <1>4, <1>7, <1>9, <1>10, <1>11, <1>12 DEF JoinInv

\* The handler of a merge map frame.
LEMMA DeliverKeeps ==
    ASSUME JoinInv, RegistryInv, NEW msg \in Announcements \cup Foreign, Deliver(msg)
    PROVE  JoinInv' /\ RegistryInv'
  <1> DEFINE m == Received(msg)
  <1>1. /\ m # NoMap /\ registry' = Upsert(registry, m)
        /\ accepted' = IF FindSlot(InvalidateStream(registry, m), m) # 0
                       THEN {x \in accepted : Key(x) # Key(m)} \cup {m} ELSE accepted
        /\ IF Takes(barrier, m)
           THEN /\ barrier' = ApplyMap(barrier, m)
                /\ adopted' = IF msg \in Announcements THEN Announced(msg) ELSE NoMap
                /\ seen' = NothingSeen
           ELSE UNCHANGED <<barrier, adopted, seen>>
        /\ now' = now
    BY DEF Deliver, Received
  <1>2. msg \in Announcements /\ Valid(m) /\ Announced(msg) = m
    BY <1>1, ReceivedAnnounced
  <1> HIDE DEF m
  <1>3. RegistryInv'
    <2>1. m \in Maps
      BY <1>2 DEF Valid
    <2> QED
      BY <1>1, <2>1, RegistryTakes
  <1>4. CASE Takes(barrier, m)
    BY <1>1, <1>2, <1>3, <1>4, MapLoaded
  <1>5. CASE ~Takes(barrier, m)
    <2>1. barrier' = barrier /\ adopted' = adopted /\ seen' = seen /\ now' = now
      BY <1>1, <1>5
    <2>2. barrier \in BarrierRecords /\ now \in 1 .. MaxNow
      BY DEF JoinInv, JoinShape
    <2>3. JoinInv'
      BY <2>1, <2>2, SettingsKeep
    <2> QED
      BY <2>3, <1>3
  <1> QED
    BY <1>4, <1>5

\* The program starts with an empty barrier and an empty registry.
LEMMA JoinInit == Init => JoinInv /\ RegistryInv
  <1> SUFFICES ASSUME Init PROVE JoinInv /\ RegistryInv
    OBVIOUS
  <1>1. PICK type \in Types : barrier = BarrierInit(type)
    BY DEF Init
  <1>2. barrier \in BarrierRecords /\ barrier.rules = <<>> /\ barrier.inputs = <<>>
    <2>1. <<>> \in Seq(RuleRecords) /\ <<>> \in Seq(InputRecords)
      OBVIOUS
    <2> QED
      BY <1>1, <2>1 DEF BarrierInit, BarrierRecords, Clocks
  <1>3. seen \in SeenRecords /\ seen.frames = {}
    BY DEF Init, NothingSeen, SeenRecords
  <1>4. JoinInv
    BY <1>2, <1>3, CapacityAssumption, ValuesAssumption DEF Init, JoinInv, JoinShape, AdoptedInForce
  <1>5. RegistryInv
    BY CapacityAssumption DEF Init, RegistryInv
  <1> QED
    BY <1>4, <1>5

\* Every step keeps the two invariants.
LEMMA JoinNext == JoinInv /\ RegistryInv /\ [Next]_vars => JoinInv' /\ RegistryInv'
  <1> SUFFICES ASSUME JoinInv, RegistryInv, [Next]_vars PROVE JoinInv' /\ RegistryInv'
    OBVIOUS
  <1>1. ASSUME registry' = registry, accepted' = accepted PROVE RegistryInv'
    BY <1>1 DEF RegistryInv
  <1>2. ASSUME NEW msg \in Announcements \cup Foreign, Deliver(msg) PROVE JoinInv' /\ RegistryInv'
    BY <1>2, DeliverKeeps
  <1>3. ASSUME NEW s \in Streams, NEW v \in Values, UpdateObservedSeq(s, v) PROVE JoinInv' /\ RegistryInv'
    <2>1. JoinInv'
      BY <1>3, UpdateObservedSeqKeeps
    <2> QED
      BY <2>1, <1>1, <1>3 DEF UpdateObservedSeq
  <1>4. ASSUME NEW s \in Streams, NEW v \in Values, UpdateProcessedSeq(s, v) PROVE JoinInv' /\ RegistryInv'
    <2>1. JoinInv'
      BY <1>4, UpdateProcessedSeqKeeps
    <2> QED
      BY <2>1, <1>1, <1>4 DEF UpdateProcessedSeq
  <1>5. ASSUME NEW s \in Streams, NEW v \in Values, NEW source, NEW clock, UpdateObservedTime(s, v, source, clock)
        PROVE  JoinInv' /\ RegistryInv'
    <2>1. JoinInv'
      BY <1>5, UpdateObservedTimeKeeps
    <2> QED
      BY <2>1, <1>1, <1>5 DEF UpdateObservedTime
  <1>6. ASSUME NEW s \in Streams, NEW v \in Values, NEW source, NEW clock, UpdateProcessedTime(s, v, source, clock)
        PROVE  JoinInv' /\ RegistryInv'
    <2>1. JoinInv'
      BY <1>6, UpdateProcessedTimeKeeps
    <2> QED
      BY <2>1, <1>1, <1>6 DEF UpdateProcessedTime
  <1>7. ASSUME Configure \/ (\E v \in Values : NoteOutTime(v)) \/ Tick PROVE JoinInv' /\ RegistryInv'
    <2>1. JoinInv'
      BY <1>7, SettingsStep
    <2> QED
      BY <2>1, <1>1, <1>7 DEF Configure, NoteOutTime, Tick
  <1>8. ASSUME NEW s \in Streams, InvalidateLatest(s) PROVE JoinInv' /\ RegistryInv'
    <2>1. JoinInv'
      BY <1>8, InvalidateLatestKeeps
    <2> QED
      BY <2>1, <1>1, <1>8 DEF InvalidateLatest
  <1>9. ASSUME UNCHANGED vars PROVE JoinInv' /\ RegistryInv'
    <2>1. barrier \in BarrierRecords /\ now \in 1 .. MaxNow
      BY DEF JoinInv, JoinShape
    <2>2. JoinInv'
      BY <1>9, <2>1, SettingsKeep DEF vars
    <2> QED
      BY <2>2, <1>1, <1>9 DEF vars
  <1> QED
    BY <1>2, <1>3, <1>4, <1>5, <1>6, <1>7, <1>8, <1>9 DEF Next

-----------------------------------------------------------------------------
(* What the barrier answers                                                 *)

\* A loop over the rules says ready exactly when there are rules and all pass.
LEMMA VerdictReady ==
    ASSUME NEW D \in SUBSET Nat, NEW answers \in [D -> {"pass", "wait", "error"}]
    PROVE  Verdict(answers) = "ready" <=> D # {} /\ \A i \in D : answers[i] = "pass"
  <1> DEFINE stops == {i \in DOMAIN answers : answers[i] # "pass"}
  <1>1. stops \in SUBSET Nat /\ stops \subseteq D /\ DOMAIN answers = D
    OBVIOUS
  <1>2. Verdict(answers) = IF DOMAIN answers = {} THEN "wait"
                           ELSE IF stops = {} THEN "ready" ELSE answers[Min(stops)]
    BY DEF Verdict
  <1>3. stops # {} => answers[Min(stops)] \in {"wait", "error"}
    BY <1>1, LeastIndex
  <1> QED
    BY <1>1, <1>2, <1>3

\* When rule i lets an output frame pass, by the three sorts of barrier.
SequencePasses(b, i, out) ==
    \/ IsStale(b, i)
    \/ /\ b.inputs[i].observed_seq # None
       /\ ~(Needed(b.rules[i], out) < 0)
       /\ ~(b.rules[i].type = "WINDOW" /\ out + 1 < b.rules[i].window)
       /\ ~(b.inputs[i].observed_seq < Needed(b.rules[i], out))
       /\ ~(/\ b.require_processed
            /\ b.inputs[i].processed_seq = None \/ b.inputs[i].processed_seq < Needed(b.rules[i], out))

TimestampPasses(b, i, out) ==
    IsStale(b, i) \/ TimestampReadyForRule(b, b.inputs[i], b.rules[i], out) = "pass"

LatestPasses(b, i) ==
    \/ IsStale(b, i)
    \/ /\ b.ordering # "TIMESTAMP" => b.inputs[i].observed_seq # None
       /\ b.ordering = "TIMESTAMP" => b.inputs[i].observed_time # None /\ b.inputs[i].source # "NONE"
       /\ b.inputs[i].latest_valid /\ b.inputs[i].min_seq # None

\* tp_join_barrier_is_ready_sequence says ready when every rule passes.
LEMMA SequenceReady ==
    ASSUME NEW b, DOMAIN b.rules \in SUBSET Nat, NEW out
    PROVE  IsReadySequence(b, out) = "ready"
             <=> DOMAIN b.rules # {} /\ \A i \in DOMAIN b.rules : SequencePasses(b, i, out)
  <1> DEFINE D == DOMAIN b.rules
             answers == [i \in D |-> IF SequencePasses(b, i, out) THEN "pass" ELSE "wait"]
  <1>1. IsReadySequence(b, out) = Verdict(answers)
    BY DEF IsReadySequence, SequencePasses, Needed
  <1>2. answers \in [D -> {"pass", "wait", "error"}] /\ \A i \in D : answers[i] = "pass" <=> SequencePasses(b, i, out)
    OBVIOUS
  <1> HIDE DEF answers
  <1> QED
    BY <1>1, <1>2, VerdictReady

\* tp_join_barrier_is_ready_timestamp says ready when the out time does not go
\* back and every rule passes.
LEMMA TimestampReady ==
    ASSUME NEW b, b.rules \in Seq(RuleRecords), NEW out
    PROVE  IsReadyTimestamp(b, out) = "ready"
             <=> /\ b.rules # <<>> /\ ~(b.last_out # None /\ out < b.last_out)
                 /\ \A i \in DOMAIN b.rules : TimestampPasses(b, i, out)
  <1> DEFINE D == DOMAIN b.rules
             answers == [i \in D |-> IF IsStale(b, i) THEN "pass"
                                     ELSE TimestampReadyForRule(b, b.inputs[i], b.rules[i], out)]
  <1>1. IsReadyTimestamp(b, out) = IF b.rules = <<>> THEN "wait"
                                   ELSE IF b.last_out # None /\ out < b.last_out THEN "error" ELSE Verdict(answers)
    BY DEF IsReadyTimestamp
  <1>2. answers \in [D -> {"pass", "wait", "error"}]
    BY DEF TimestampReadyForRule
  <1>3. \A i \in D : answers[i] = "pass" <=> TimestampPasses(b, i, out)
    BY DEF TimestampPasses
  <1>4. D \in SUBSET Nat /\ (b.rules # <<>> => D # {})
    <2>1. b.rules # <<>> => Len(b.rules) # 0
      BY EmptySeq
    <2>2. D = 1 .. Len(b.rules) /\ Len(b.rules) \in Nat
      OBVIOUS
    <2>3. D \in SUBSET Nat
      BY <2>2
    <2>4. b.rules # <<>> => 1 \in D
      BY <2>1, <2>2
    <2> QED
      BY <2>3, <2>4
  <1> HIDE DEF answers, D
  <1>5. Verdict(answers) = "ready" <=> D # {} /\ \A i \in D : answers[i] = "pass"
    BY <1>2, <1>4, VerdictReady
  <1> QED
    BY <1>1, <1>3, <1>4, <1>5 DEF D

\* tp_join_barrier_is_ready_latest says ready only if every rule passes.
LEMMA LatestReady ==
    ASSUME NEW b, b.rules \in Seq(RuleRecords), NEW out, NEW clock, IsReadyLatest(b, out, clock) = "ready"
    PROVE  /\ b.ordering = "TIMESTAMP" => b.clock # "NONE"
           /\ \A i \in DOMAIN b.rules : LatestPasses(b, i)
  <1> DEFINE D == DOMAIN b.rules
             byTime == b.ordering = "TIMESTAMP"
             Answer(i) ==
                LET s == b.inputs[i]
                IN  IF IsStale(b, i) THEN "pass"
                    ELSE IF (~byTime /\ s.observed_seq = None) \/ (byTime /\ s.observed_time = None) THEN "wait"
                    ELSE IF (b.clock # "NONE" /\ clock # b.clock) \/ (byTime /\ s.source = "NONE") THEN "error"
                    ELSE IF \/ ~s.latest_valid
                            \/ b.clock # "NONE" /\ s.observed_time = None
                            \/ s.min_seq = None
                            \/ s.observed_seq # None /\ s.observed_seq < s.min_seq
                            \/ s.observed_time > 0 /\ out = 0
                    THEN "wait" ELSE "pass"
             answers == [i \in D |-> Answer(i)]
  <1>1. IsReadyLatest(b, out, clock) =
          IF b.rules = <<>> THEN "wait"
          ELSE IF byTime /\ (b.clock = "NONE" \/ (b.last_out # None /\ out < b.last_out)) THEN "error"
          ELSE Verdict(answers)
    BY DEF IsReadyLatest
  <1>2. answers \in [D -> {"pass", "wait", "error"}]
    OBVIOUS
  <1>3. \A i \in D : answers[i] = "pass" => LatestPasses(b, i)
    BY DEF LatestPasses
  <1>4. D \in SUBSET Nat
    OBVIOUS
  <1> HIDE DEF answers, D, Answer
  <1>5. Verdict(answers) = "ready" <=> D # {} /\ \A i \in D : answers[i] = "pass"
    BY <1>2, <1>4, VerdictReady
  <1>6. Verdict(answers) = "ready" /\ (byTime => b.clock # "NONE")
    BY <1>1
  <1> QED
    BY <1>3, <1>5, <1>6 DEF D

\* The input state of a rule of the map in force.
LEMMA RuleInput ==
    ASSUME JoinInv, NEW i \in DOMAIN barrier.rules
    PROVE  /\ InForce(adopted) /\ barrier.rules = adopted.rules /\ adopted.rules[i] \in RuleRecords
           /\ i \in DOMAIN barrier.inputs /\ barrier.inputs[i] \in InputRecords
           /\ barrier.inputs[i].stream = adopted.rules[i].in
           /\ InputSeen(i)
  <1>1. /\ barrier \in BarrierRecords /\ barrier.inputs \in Seq(InputRecords) /\ barrier.rules \in Seq(RuleRecords)
        /\ Len(barrier.inputs) = Len(barrier.rules)
    BY DEF JoinInv, JoinShape, BarrierRecords
  <1>2. InForce(adopted)
    BY <1>1 DEF JoinInv, AdoptedInForce
  <1>3. i \in DOMAIN barrier.inputs
    BY <1>1
  <1> QED
    BY <1>1, <1>2, <1>3 DEF InForce, JoinInv

\* What an input state has reached, a frame seen since the map was loaded has.
LEMMA InputReaches ==
    ASSUME JoinInv, NEW i \in DOMAIN barrier.rules,
           NEW what \in {"observed", "processed"}, NEW key \in {"seq", "time"},
           key = "seq" \/ barrier.type = "TIMESTAMP", NEW bound, NEW late,
           LastOf(barrier.inputs[i], what, key) # None,
           LastOf(barrier.inputs[i], what, key) + late >= bound
    PROVE  Reaches(what, key, adopted.rules[i], bound, late)
  <1>1. InputSeen(i) /\ barrier.inputs[i].stream = adopted.rules[i].in
    BY RuleInput
  <1>2. ~Untouched(barrier.inputs[i])
    BY DEF LastOf, Untouched
  <1>3. i = FindState(barrier, barrier.inputs[i].stream)
    BY <1>1, <1>2 DEF InputSeen
  <1>4. PICK f \in seen.frames : /\ f.what = what /\ f.key = key /\ f.stream = barrier.inputs[i].stream
                                 /\ f.value = LastOf(barrier.inputs[i], what, key)
                                 /\ key = "seq" \/ barrier.type = "TIMESTAMP" => f.right
    BY <1>1, <1>3, SeenOf
  <1> QED
    BY <1>1, <1>4 DEF Reaches

\* An input skipped as stale is one that has been silent for too long.
LEMMA StaleLapsed ==
    ASSUME JoinInv, NEW i \in DOMAIN barrier.rules, IsStale(barrier, i)
    PROVE  Lapsed(adopted.rules[i])
  <1>1. InputSeen(i) /\ barrier.inputs[i].stream = adopted.rules[i].in /\ InForce(adopted)
    BY RuleInput
  <1>2. ~Untouched(barrier.inputs[i])
    BY DEF IsStale, Untouched
  <1>3. barrier.inputs[i].observed_at = seen.at[adopted.rules[i].in]
    BY <1>1, <1>2 DEF InputSeen
  <1> QED
    BY <1>1, <1>3 DEF IsStale, Lapsed, InForce

\* What tp_join_barrier_is_ready_sequence answers is justified.
LEMMA SequenceSound ==
    ASSUME JoinInv, NEW out \in Values, IsReadySequence(barrier, out) = "ready", NEW i \in DOMAIN adopted.rules,
           barrier.type = "SEQUENCE"
    PROVE  \/ Lapsed(adopted.rules[i])
           \/ /\ Reaches("observed", "seq", adopted.rules[i], Needed(adopted.rules[i], out), 0)
              /\ barrier.require_processed
                   => Reaches("processed", "seq", adopted.rules[i], Needed(adopted.rules[i], out), 0)
              /\ adopted.rules[i].type = "WINDOW" => out >= adopted.rules[i].window - 1
  <1> DEFINE r == adopted.rules[i]
             s == barrier.inputs[i]
  <1>1. barrier.rules \in Seq(RuleRecords) /\ DOMAIN barrier.rules \in SUBSET Nat
    BY DEF JoinInv, JoinShape, BarrierRecords
  <1>2. DOMAIN barrier.rules # {} /\ \A j \in DOMAIN barrier.rules : SequencePasses(barrier, j, out)
    BY <1>1, SequenceReady
  <1>3. barrier.rules = adopted.rules
    BY <1>2, RuleInput
  <1>4. SequencePasses(barrier, i, out) /\ r \in RuleRecords /\ s \in InputRecords /\ i \in DOMAIN barrier.rules
    BY <1>2, <1>3, RuleInput
  <1>5. CASE IsStale(barrier, i)
    BY <1>4, <1>5, StaleLapsed
  <1>6. CASE ~IsStale(barrier, i)
    <2>1. out \in Nat /\ Needed(r, out) \in Int /\ r.window \in Nat
      BY <1>4, ValuesAssumption DEF RuleRecords, Needed
    <2>2. /\ s.observed_seq # None /\ ~(s.observed_seq < Needed(r, out))
          /\ r.type = "WINDOW" => ~(out + 1 < r.window)
          /\ barrier.require_processed => s.processed_seq # None /\ ~(s.processed_seq < Needed(r, out))
      BY <1>3, <1>4, <1>6 DEF SequencePasses
    <2>3. s.observed_seq \in Nat /\ (barrier.require_processed => s.processed_seq \in Nat)
      BY <1>4, <2>2 DEF InputRecords
    <2>4. /\ LastOf(s, "observed", "seq") = s.observed_seq
          /\ LastOf(s, "processed", "seq") = s.processed_seq
      BY DEF LastOf
    <2> HIDE DEF r, s
    <2>5. /\ s.observed_seq + 0 >= Needed(r, out)
          /\ barrier.require_processed => s.processed_seq + 0 >= Needed(r, out)
          /\ r.type = "WINDOW" => out >= r.window - 1
      BY <2>1, <2>2, <2>3
    <2>6. Reaches("observed", "seq", r, Needed(r, out), 0)
      BY <1>4, <2>2, <2>4, <2>5, InputReaches DEF r, s
    <2>7. barrier.require_processed => Reaches("processed", "seq", r, Needed(r, out), 0)
      BY <1>4, <2>2, <2>4, <2>5, InputReaches DEF r, s
    <2> QED
      BY <2>5, <2>6, <2>7 DEF r
  <1> QED
    BY <1>5, <1>6

\* What tp_join_barrier_is_ready_timestamp answers is justified.
LEMMA TimestampSound ==
    ASSUME JoinInv, NEW out \in Values, IsReadyTimestamp(barrier, out) = "ready", NEW i \in DOMAIN adopted.rules,
           barrier.type = "TIMESTAMP", NEW late, late = IF adopted.lateness = Null THEN 0 ELSE adopted.lateness
    PROVE  \/ Lapsed(adopted.rules[i])
           \/ /\ Reaches("observed", "time", adopted.rules[i], Needed(adopted.rules[i], out), late)
              /\ barrier.require_processed
                   => Reaches("processed", "time", adopted.rules[i], Needed(adopted.rules[i], out), late)
              /\ adopted.rules[i].type = "WINDOW" => out >= adopted.rules[i].window
  <1> DEFINE r == adopted.rules[i]
             s == barrier.inputs[i]
  <1>1. barrier.rules \in Seq(RuleRecords)
    BY DEF JoinInv, JoinShape, BarrierRecords
  <1>2. barrier.rules # <<>> /\ \A j \in DOMAIN barrier.rules : TimestampPasses(barrier, j, out)
    BY <1>1, TimestampReady
  <1>3. InForce(adopted) /\ barrier.rules = adopted.rules
    BY <1>2 DEF JoinInv, AdoptedInForce, InForce
  <1>4. TimestampPasses(barrier, i, out) /\ r \in RuleRecords /\ s \in InputRecords /\ i \in DOMAIN barrier.rules
    BY <1>2, <1>3, RuleInput
  <1>5. late \in Nat /\ barrier.lateness = late
    <2>1. adopted \in MapRecords /\ adopted.kind = "TIMESTAMP"
      BY <1>3, MapsAssumption DEF InForce, Valid, WellFormed
    <2> QED
      BY <1>3, <2>1 DEF InForce, MapRecords
  <1>6. CASE IsStale(barrier, i)
    BY <1>4, <1>6, StaleLapsed
  <1>7. CASE ~IsStale(barrier, i)
    <2>1. out \in Nat /\ Needed(r, out) \in Int /\ r.window \in Nat /\ r.offset \in Int
      BY <1>4, ValuesAssumption DEF RuleRecords, Needed
    <2> DEFINE required == IF Needed(r, out) < 0 THEN 0 ELSE Needed(r, out)
    <2>2. late # Null
      BY <1>5 DEF Null
    <2>3. /\ s.observed_time # None /\ ~(s.observed_time + late < required)
          /\ ~(r.type = "WINDOW" /\ out < r.window)
          /\ barrier.require_processed => s.processed_time # None /\ ~(s.processed_time + late < required)
      BY <1>3, <1>4, <1>5, <1>7, <2>2 DEF TimestampPasses, TimestampReadyForRule, Needed
    <2>4. s.observed_time \in Nat /\ (barrier.require_processed => s.processed_time \in Nat)
      BY <1>4, <2>3 DEF InputRecords
    <2>5. /\ LastOf(s, "observed", "time") = s.observed_time
          /\ LastOf(s, "processed", "time") = s.processed_time
      BY DEF LastOf
    <2>6. required \in Int /\ required >= Needed(r, out)
      BY <2>1
    <2> HIDE DEF r, s, required
    <2>7. /\ s.observed_time + late >= Needed(r, out)
          /\ barrier.require_processed => s.processed_time + late >= Needed(r, out)
          /\ r.type = "WINDOW" => out >= r.window
      BY <1>5, <2>1, <2>3, <2>4, <2>6
    <2>8. Reaches("observed", "time", r, Needed(r, out), late)
      BY <1>4, <2>3, <2>5, <2>7, InputReaches DEF r, s
    <2>9. barrier.require_processed => Reaches("processed", "time", r, Needed(r, out), late)
      BY <1>4, <2>3, <2>5, <2>7, InputReaches DEF r, s
    <2> QED
      BY <2>7, <2>8, <2>9 DEF r
  <1> QED
    BY <1>6, <1>7

\* What the latest-value barrier says and collects is of the map in force.
LEMMA LatestSound == JoinInv => LatestFromThisEpoch
  <1> SUFFICES ASSUME JoinInv, barrier.type = "LATEST" PROVE LatestFromThisEpoch
    BY DEF LatestFromThisEpoch
  <1>1. /\ barrier.rules \in Seq(RuleRecords) /\ barrier.ordering \in {"SEQUENCE", "TIMESTAMP"}
    BY DEF JoinInv, JoinShape, BarrierRecords
  <1>2. ASSUME NEW out \in Values, NEW clock \in {"MONOTONIC", "REALTIME"},
               IsReadyLatest(barrier, out, clock) = "ready", CollectStaleInputs(barrier) = {}
        PROVE  CanCollectLatest(barrier)
    <2>1. /\ barrier.ordering = "TIMESTAMP" => barrier.clock # "NONE"
          /\ \A i \in DOMAIN barrier.rules : LatestPasses(barrier, i)
      BY <1>1, <1>2, LatestReady
    <2>2. \A i \in DOMAIN barrier.rules : ~IsStale(barrier, i)
      BY <1>2 DEF CollectStaleInputs
    <2> QED
      BY <1>1, <2>1, <2>2 DEF CanCollectLatest, LatestPasses
  <1>3. ASSUME CanCollectLatest(barrier), NEW i \in DOMAIN barrier.rules
        PROVE  /\ seen.fresh[Selections(barrier)[i].stream]
               /\ \E f \in seen.frames : /\ f.stream = Selections(barrier)[i].stream /\ f.key = "seq"
                                         /\ f.value = Selections(barrier)[i].seq
    <2> DEFINE s == barrier.inputs[i]
    <2>1. InputSeen(i) /\ s.latest_valid /\ s.min_seq # None
      BY <1>3, RuleInput DEF CanCollectLatest
    <2>2. i = FindState(barrier, s.stream)
      BY <2>1 DEF InputSeen, Untouched
    <2>3. seen.fresh[s.stream] /\ s.observed_seq # None
      BY <2>1, <2>2 DEF InputSeen
    <2>4. LastOf(s, "observed", "seq") = s.observed_seq
      BY DEF LastOf
    <2>5. \E f \in seen.frames : /\ f.what = "observed" /\ f.key = "seq" /\ f.stream = s.stream
                                 /\ f.value = s.observed_seq
      BY <2>1, <2>2, <2>3, <2>4, SeenOf
    <2>6. Selections(barrier)[i].stream = s.stream /\ Selections(barrier)[i].seq = s.observed_seq
      BY DEF Selections
    <2> HIDE DEF s
    <2> QED
      BY <2>3, <2>5, <2>6
  <1> QED
    BY <1>2, <1>3 DEF LatestFromThisEpoch

\* The two invariants give every part of JoinSound.
LEMMA JoinInvSound == JoinInv /\ RegistryInv => JoinSound
  <1> SUFFICES ASSUME JoinInv, RegistryInv PROVE JoinSound
    OBVIOUS
  <1>1. TypeOK
    <2>1. /\ barrier.rules \in Seq(RuleRecords) /\ barrier.inputs \in Seq(InputRecords)
          /\ Len(barrier.inputs) = Len(barrier.rules) /\ Len(barrier.rules) <= RuleCapacity
          /\ barrier.type \in Types /\ now \in 1 .. MaxNow
      BY DEF JoinInv, JoinShape, BarrierRecords
    <2>2. \A i \in DOMAIN registry : registry[i] = Free \/ registry[i].kind \in {"SEQUENCE", "TIMESTAMP"}
      BY MapIsReal DEF RegistryInv
    <2>3. DOMAIN barrier.inputs = DOMAIN barrier.rules
      BY <2>1
    <2> QED
      BY <2>1, <2>2, <2>3 DEF TypeOK
  <1>2. BarrierFollowsAnnouncement
    BY DEF BarrierFollowsAnnouncement, JoinInv, AdoptedInForce, InForce, Valid
  <1>3. ReadyMeansReached
    BY SequenceSound, TimestampSound DEF ReadyMeansReached
  <1> QED
    BY <1>1, <1>2, <1>3, LatestSound, RegistrySound DEF JoinSound

\* Whatever the merge maps announced, the frames observed and the settings, a
\* barrier answers ready only for inputs seen under the map in force, follows the
\* last announcement it took, and the registry holds the maps last accepted: for
\* every set of well-formed maps and every capacity.
THEOREM JoinCorrect == Spec => []JoinSound
  <1>1. Init => JoinInv /\ RegistryInv
    BY JoinInit
  <1>2. JoinInv /\ RegistryInv /\ [Next]_vars => JoinInv' /\ RegistryInv'
    BY JoinNext
  <1>3. JoinInv /\ RegistryInv => JoinSound
    BY JoinInvSound
  <1> QED
    BY <1>1, <1>2, <1>3, PTL DEF Spec

-----------------------------------------------------------------------------
(* Readiness                                                                *)

\* Every step that changes no setting and keeps the map in force raises the
\* numbers of the input states, or leaves them alone.
LEMMA SteadyGrew ==
    ASSUME JoinInv, RegistryInv, [Next]_vars, Steady
    PROVE  Grew
  <1>1. ASSUME NEW msg \in Announcements \cup Foreign, Deliver(msg) PROVE Grew
    <2>1. seen' = NothingSeen \/ barrier' = barrier
      BY <1>1 DEF Deliver
    <2>2. seen' # NothingSeen
      BY DEF Steady, NothingSeen
    <2> QED
      BY <2>1, <2>2, SameGrew
  <1>2. ASSUME Configure \/ (\E v \in Values : NoteOutTime(v)) \/ Tick PROVE Grew
    <2>1. barrier'.lateness = barrier.lateness /\ barrier'.inputs = barrier.inputs
      <3>1. barrier \in BarrierRecords
        BY DEF JoinInv, JoinShape
      <3>2. CASE Configure
        <4>1. (~barrier.allow_stale) \in BOOLEAN /\ (~barrier.require_processed) \in BOOLEAN
          OBVIOUS
        <4>2. \E x : \/ barrier' = [barrier EXCEPT !.allow_stale = x]
                     \/ barrier' = [barrier EXCEPT !.require_processed = x]
                     \/ barrier' = [barrier EXCEPT !.ordering = x]
          BY <3>2, <4>1, Zenon DEF Configure
        <4> QED
          BY <3>1, <4>2 DEF BarrierRecords
      <3>3. CASE \E v \in Values : NoteOutTime(v)
        BY <3>1, <3>3 DEF NoteOutTime, BarrierRecords
      <3>4. CASE Tick
        BY <3>4 DEF Tick
      <3> QED
        BY <1>2, <3>2, <3>3, <3>4
    <2> QED
      BY <2>1, SameGrew
  <1>3. ASSUME UNCHANGED vars PROVE Grew
    BY <1>3, SameGrew DEF vars
  <1> QED
    BY <1>1, <1>2, <1>3, InvalidateLatestKeeps, UpdateObservedSeqKeeps, UpdateProcessedSeqKeeps, UpdateObservedTimeKeeps,
       UpdateProcessedTimeKeeps DEF Next

\* What the input states have reached they still have.
LEMMA SteadyInput ==
    ASSUME JoinInv, JoinInv', Steady, Grew, NEW i \in DOMAIN barrier.rules
    PROVE  /\ barrier'.rules = barrier.rules /\ barrier.rules[i] \in RuleRecords
           /\ barrier'.lateness = barrier.lateness /\ barrier.lateness \in Nat \cup {Null}
           /\ barrier'.require_processed = barrier.require_processed
           /\ ~IsStale(barrier, i) /\ ~IsStale(barrier', i)
           /\ barrier.inputs[i] \in InputRecords /\ barrier'.inputs[i] \in InputRecords
           /\ barrier.inputs[i].observed_seq <= barrier'.inputs[i].observed_seq
           /\ barrier.inputs[i].processed_seq <= barrier'.inputs[i].processed_seq
           /\ barrier.inputs[i].observed_time <= barrier'.inputs[i].observed_time
           /\ barrier.inputs[i].processed_time <= barrier'.inputs[i].processed_time
  <1>1. /\ barrier.inputs \in Seq(InputRecords) /\ barrier'.inputs \in Seq(InputRecords)
        /\ barrier.rules \in Seq(RuleRecords) /\ barrier.lateness \in Nat \cup {Null}
        /\ Len(barrier.inputs) = Len(barrier.rules) /\ Len(barrier'.inputs) = Len(barrier'.rules)
    BY DEF JoinInv, JoinShape, BarrierRecords
  <1>2. /\ barrier'.rules = barrier.rules /\ barrier'.require_processed = barrier.require_processed
        /\ ~barrier.allow_stale /\ ~barrier'.allow_stale
    BY DEF Steady
  <1>3. i \in DOMAIN barrier.inputs /\ i \in DOMAIN barrier'.inputs
    BY <1>1, <1>2
  <1>4. \A w \in {"observed", "processed"}, k \in {"seq", "time"} :
          LastOf(barrier.inputs[i], w, k) <= LastOf(barrier'.inputs[i], w, k)
    BY <1>3 DEF Grew
  <1>5. /\ LastOf(barrier.inputs[i], "observed", "seq") <= LastOf(barrier'.inputs[i], "observed", "seq")
        /\ LastOf(barrier.inputs[i], "processed", "seq") <= LastOf(barrier'.inputs[i], "processed", "seq")
        /\ LastOf(barrier.inputs[i], "observed", "time") <= LastOf(barrier'.inputs[i], "observed", "time")
        /\ LastOf(barrier.inputs[i], "processed", "time") <= LastOf(barrier'.inputs[i], "processed", "time")
    BY <1>4
  <1>6. ~IsStale(barrier, i) /\ ~IsStale(barrier', i)
    BY <1>2 DEF IsStale
  <1> QED
    BY <1>1, <1>2, <1>3, <1>5, <1>6 DEF LastOf, Grew

\* A sequence barrier does not take its answer back.
LEMMA SequenceStays ==
    ASSUME JoinInv, JoinInv', Steady, Grew, NEW out \in Values, IsReadySequence(barrier, out) = "ready"
    PROVE  IsReadySequence(barrier', out) = "ready"
  <1>1. DOMAIN barrier.rules \in SUBSET Nat /\ barrier'.rules = barrier.rules
    BY DEF JoinInv, JoinShape, BarrierRecords, Steady
  <1>2. DOMAIN barrier.rules # {} /\ \A i \in DOMAIN barrier.rules : SequencePasses(barrier, i, out)
    BY <1>1, SequenceReady
  <1>3. ASSUME NEW i \in DOMAIN barrier.rules PROVE SequencePasses(barrier', i, out)
    <2> DEFINE s == barrier.inputs[i]
               t == barrier'.inputs[i]
               r == barrier.rules[i]
    <2>1. /\ s \in InputRecords /\ t \in InputRecords /\ r \in RuleRecords /\ ~IsStale(barrier, i)
          /\ s.observed_seq <= t.observed_seq /\ s.processed_seq <= t.processed_seq
          /\ barrier'.require_processed = barrier.require_processed
      BY SteadyInput
    <2>2. /\ s.observed_seq # None /\ ~(Needed(r, out) < 0)
          /\ ~(r.type = "WINDOW" /\ out + 1 < r.window)
          /\ ~(s.observed_seq < Needed(r, out))
          /\ ~(barrier.require_processed /\ (s.processed_seq = None \/ s.processed_seq < Needed(r, out)))
      BY <1>2, <2>1 DEF SequencePasses
    <2>3. /\ s.observed_seq \in Nat \cup {None} /\ t.observed_seq \in Nat \cup {None}
          /\ s.processed_seq \in Nat \cup {None} /\ t.processed_seq \in Nat \cup {None}
          /\ Needed(r, out) \in Int
      BY <2>1, ValuesAssumption DEF InputRecords, RuleRecords, Needed
    <2> HIDE DEF s, t, r
    <2>4. /\ t.observed_seq # None /\ ~(t.observed_seq < Needed(r, out))
          /\ ~(barrier.require_processed /\ (t.processed_seq = None \/ t.processed_seq < Needed(r, out)))
      BY <2>1, <2>2, <2>3 DEF None
    <2> QED
      BY <2>1, <2>2, <2>4, <1>1 DEF SequencePasses, t, r
  <1> QED
    BY <1>1, <1>2, <1>3, SequenceReady

\* Nor does a timestamp barrier, but for output times before the last asked about.
LEMMA TimestampStays ==
    ASSUME JoinInv, JoinInv', Steady, Grew, NEW out \in Values, IsReadyTimestamp(barrier, out) = "ready"
    PROVE  IsReadyTimestamp(barrier', out) = "ready" \/ barrier'.last_out > out
  <1>1. /\ barrier.rules \in Seq(RuleRecords) /\ barrier'.rules = barrier.rules
        /\ barrier'.last_out \in Nat \cup {None} /\ out \in Nat
    BY ValuesAssumption DEF JoinInv, JoinShape, BarrierRecords, Steady
  <1>2. barrier.rules # <<>> /\ \A i \in DOMAIN barrier.rules : TimestampPasses(barrier, i, out)
    BY <1>1, TimestampReady
  <1>3. ASSUME NEW i \in DOMAIN barrier.rules PROVE TimestampPasses(barrier', i, out)
    <2> DEFINE s == barrier.inputs[i]
               t == barrier'.inputs[i]
               r == barrier.rules[i]
               late == IF barrier.lateness = Null THEN 0 ELSE barrier.lateness
               required == IF Needed(r, out) < 0 THEN 0 ELSE Needed(r, out)
               Short == \/ /\ r.type = "OFFSET" /\ Needed(r, out) < 0
                           /\ out < late + (IF r.offset < 0 THEN -r.offset ELSE 0)
                        \/ r.type = "WINDOW" /\ out < r.window
               Behind(u) == \/ u.observed_time = None \/ u.observed_time + late < required
                            \/ /\ barrier.require_processed
                               /\ u.processed_time = None \/ u.processed_time + late < required
    <2>1. /\ s \in InputRecords /\ t \in InputRecords /\ r \in RuleRecords /\ ~IsStale(barrier, i)
          /\ s.observed_time <= t.observed_time /\ s.processed_time <= t.processed_time
          /\ barrier'.require_processed = barrier.require_processed /\ barrier'.lateness = barrier.lateness
          /\ barrier.lateness \in Nat \cup {Null}
      BY SteadyInput
    <2>2. TimestampReadyForRule(barrier, s, r, out) = IF Short \/ Behind(s) THEN "wait" ELSE "pass"
      BY DEF TimestampReadyForRule, Needed
    <2>3. TimestampReadyForRule(barrier', t, r, out) = IF Short \/ Behind(t) THEN "wait" ELSE "pass"
      BY <2>1 DEF TimestampReadyForRule, Needed
    <2>4. TimestampReadyForRule(barrier, s, r, out) = "pass"
      BY <1>2, <2>1 DEF TimestampPasses
    <2>5. /\ s.observed_time \in Nat \cup {None} /\ t.observed_time \in Nat \cup {None}
          /\ s.processed_time \in Nat \cup {None} /\ t.processed_time \in Nat \cup {None}
          /\ required \in Int /\ late \in Int
      BY <2>1, ValuesAssumption DEF InputRecords, RuleRecords, Needed
    <2>6. TimestampReadyForRule(barrier, barrier.inputs[i], barrier.rules[i], out) = "pass"
      BY <2>4
    <2> HIDE DEF s, t, r, late, required, Short
    <2>7. ~Short /\ ~Behind(s)
      BY <2>2, <2>4
    <2>8. ~Behind(t)
      BY <2>1, <2>5, <2>7 DEF None
    <2>9. TimestampReadyForRule(barrier', t, r, out) = "pass"
      BY <2>3, <2>7, <2>8
    <2> QED
      BY <2>9, <1>1 DEF TimestampPasses, t, r
  <1>4. CASE barrier'.last_out # None /\ out < barrier'.last_out
    BY <1>1, <1>4 DEF None
  <1>5. CASE ~(barrier'.last_out # None /\ out < barrier'.last_out)
    BY <1>1, <1>2, <1>3, <1>5, TimestampReady
  <1> QED
    BY <1>4, <1>5

\* While a map is in force and no input may be skipped as stale, an output frame
\* a barrier declared ready is still ready when it is asked again.
THEOREM ReadyStays == Spec => ReadyIsStable
  <1> DEFINE Stable == \A out \in Values :
        /\ barrier.type = "SEQUENCE" /\ IsReadySequence(barrier, out) = "ready"
            => IsReadySequence(barrier', out) = "ready"
        /\ barrier.type = "TIMESTAMP" /\ IsReadyTimestamp(barrier, out) = "ready"
            => IsReadyTimestamp(barrier', out) = "ready" \/ barrier'.last_out > out
  <1>1. Init => JoinInv /\ RegistryInv
    BY JoinInit
  <1>2. JoinInv /\ RegistryInv /\ [Next]_vars => JoinInv' /\ RegistryInv'
    BY JoinNext
  <1>3. JoinInv /\ RegistryInv /\ [Next]_vars => [Steady => Stable]_vars
    <2> SUFFICES ASSUME JoinInv, RegistryInv, [Next]_vars, Steady PROVE Stable
      OBVIOUS
    <2>1. JoinInv'
      BY <1>2
    <2>2. Grew
      BY SteadyGrew
    <2> QED
      BY <2>1, <2>2, SequenceStays, TimestampStays
  <1>4. ReadyIsStable <=> [][Steady => Stable]_vars
    BY DEF ReadyIsStable
  <1> HIDE DEF Stable
  <1> QED
    BY <1>1, <1>2, <1>3, <1>4, PTL DEF Spec

(***************************************************************************)
(* Tensor headers                                                          *)
(***************************************************************************)

\* The sums of the first terms of t.
Sums(n, t) == CHOOSE f : f = [k \in 0 .. n |-> IF k = 0 THEN 0 ELSE f[k - 1] + t[k]]

\* There are such sums: a recursive function is defined at a position if it is at
\* the one before.
LEMMA SumsAre ==
    ASSUME NEW n \in Nat, NEW t \in [1 .. n -> Nat]
    PROVE  /\ Sums(n, t) \in [0 .. n -> Nat] /\ Sums(n, t)[0] = 0
           /\ \A k \in 1 .. n : Sums(n, t)[k] = Sums(n, t)[k - 1] + t[k]
  <1> DEFINE Adds(f, m) == f[0] = 0 /\ \A k \in 1 .. m : f[k] = f[k - 1] + t[k]
             Bad == {m \in 0 .. n : ~\E f \in [0 .. m -> Nat] : Adds(f, m)}
  <1>1. Bad = {}
    <2> SUFFICES ASSUME Bad # {} PROVE FALSE
      OBVIOUS
    <2> DEFINE m == Min(Bad)
    <2>0. Bad \in SUBSET Nat
      OBVIOUS
    <2> HIDE DEF Bad
    <2>1. m \in Bad /\ \A j \in Bad : m <= j
      BY <2>0, LeastIndex
    <2> HIDE DEF m
    <2>2. m \in 0 .. n /\ ~\E f \in [0 .. m -> Nat] : Adds(f, m)
      BY <2>1 DEF Bad
    <2>3. m # 0
      <3> DEFINE z == [k \in 0 .. 0 |-> 0]
      <3>1. z \in [0 .. 0 -> Nat] /\ Adds(z, 0)
        OBVIOUS
      <3> QED
        BY <3>1, <2>2
    <2>4. m - 1 \in 0 .. n /\ m - 1 \notin Bad
      BY <2>1, <2>2, <2>3
    <2>5. PICK f \in [0 .. m - 1 -> Nat] : Adds(f, m - 1)
      BY <2>4 DEF Bad
    <2> DEFINE g == [k \in 0 .. m |-> IF k = m THEN f[m - 1] + t[m] ELSE f[k]]
    <2>6. g \in [0 .. m -> Nat]
      <3>1. \A k \in 0 .. m : k # m => k \in 0 .. m - 1
        BY <2>2
      <3>2. m - 1 \in 0 .. m - 1 /\ m \in 1 .. n
        BY <2>2, <2>3
      <3> QED
        BY <3>1, <3>2
    <2>7. \A k \in 1 .. m : g[k] = g[k - 1] + t[k]
      <3> SUFFICES ASSUME NEW k \in 1 .. m PROVE g[k] = g[k - 1] + t[k]
        OBVIOUS
      <3>1. k - 1 \in 0 .. m /\ k \in 0 .. m /\ k - 1 # m
        BY <2>2
      <3>2. CASE k = m
        BY <3>1, <3>2
      <3>3. CASE k # m
        <4>1. k \in 1 .. m - 1
          BY <2>2, <3>3
        <4> QED
          BY <3>1, <3>3, <4>1, <2>5
      <3> QED
        BY <3>2, <3>3
    <2>8. g[0] = 0
      BY <2>2, <2>3, <2>5
    <2> HIDE DEF g
    <2> QED
      BY <2>2, <2>6, <2>7, <2>8
  <1>2. PICK f \in [0 .. n -> Nat] : Adds(f, n)
    <2>1. n \in 0 .. n
      OBVIOUS
    <2> QED
      BY <1>1, <2>1
  <1>3. f = [k \in 0 .. n |-> IF k = 0 THEN 0 ELSE f[k - 1] + t[k]]
    <2>1. \A k \in 0 .. n : f[k] = IF k = 0 THEN 0 ELSE f[k - 1] + t[k]
      BY <1>2
    <2>2. f = [k \in 0 .. n |-> f[k]]
      OBVIOUS
    <2> QED
      BY <2>1, <2>2
  <1> DEFINE F == Sums(n, t)
  <1>4. F = [k \in 0 .. n |-> IF k = 0 THEN 0 ELSE F[k - 1] + t[k]]
    BY <1>3 DEF Sums
  <1> HIDE DEF F
  <1>5. F[0] = 0 /\ \A k \in 1 .. n : F[k] = F[k - 1] + t[k]
    BY <1>4
  <1> DEFINE Odd == {k \in 0 .. n : F[k] \notin Nat}
  <1>6. Odd = {}
    <2> SUFFICES ASSUME Odd # {} PROVE FALSE
      OBVIOUS
    <2> DEFINE m == Min(Odd)
    <2>0. Odd \in SUBSET Nat
      OBVIOUS
    <2> HIDE DEF Odd
    <2>1. m \in Odd /\ \A j \in Odd : m <= j
      BY <2>0, LeastIndex
    <2> HIDE DEF m
    <2>a. m \in 0 .. n /\ F[m] \notin Nat
      BY <2>1 DEF Odd
    <2>2. m \in 1 .. n /\ m - 1 \in 0 .. n /\ m - 1 \notin Odd
      BY <2>1, <2>a, <1>5
    <2>3. F[m - 1] \in Nat /\ t[m] \in Nat /\ F[m] = F[m - 1] + t[m] /\ F[m] \notin Nat
      BY <2>a, <2>2, <1>5 DEF Odd
    <2> QED
      BY <2>3
  <1>7. F \in [0 .. n -> Nat]
    BY <1>4, <1>6
  <1> QED
    BY <1>5, <1>7 DEF F

\* Steps of arithmetic the proofs below take.
LEMMA Chained ==
    ASSUME NEW a \in Nat, NEW b \in Nat, NEW u \in Nat, NEW v \in Nat, NEW size \in Nat,
           a + size <= u, u <= v, b >= v
    PROVE  a + size <= b
  OBVIOUS

\* ... and
LEMMA SameGap ==
    ASSUME NEW a \in Nat, NEW b \in Nat, NEW u \in Nat, NEW v \in Nat, NEW size \in Nat,
           a - b = u - v, u + size <= v \/ v + size <= u
    PROVE  a + size <= b \/ b + size <= a
  OBVIOUS

\* Larger factors, larger products.
LEMMA ProductsGrow ==
    ASSUME NEW a \in Nat, NEW b \in Nat, NEW c \in Nat, a <= b
    PROVE  a * c \in Nat /\ b * c \in Nat /\ a * c <= b * c
  OBVIOUS

\* Strides s from the inside outwards over dimensions d clear each other, and the
\* elements have size bytes.
Nested(n, s, d, size) ==
    /\ n \in Nat \ {0} /\ size \in Nat \ {0}
    /\ s \in [1 .. n -> Nat] /\ d \in [1 .. n -> Nat]
    /\ s[1] >= size
    /\ \A k \in 2 .. n : s[k] >= d[k - 1] * s[k - 1]

\* An element's index, from the inside outwards.
IndexOf(n, d, x) == x \in [1 .. n -> Nat] /\ \A k \in 1 .. n : x[k] < d[k]

\* How far the first dimensions take an element.
Reach(n, s, x) == Sums(n, [k \in 1 .. n |-> x[k] * s[k]])

\* Each dimension adds its own part to the offset.
LEMMA ReachAdds ==
    ASSUME NEW n, NEW s, NEW d, NEW size, Nested(n, s, d, size), NEW x, IndexOf(n, d, x)
    PROVE  /\ Reach(n, s, x) \in [0 .. n -> Nat] /\ Reach(n, s, x)[0] = 0
           /\ \A k \in 1 .. n : x[k] * s[k] \in Nat /\ Reach(n, s, x)[k] = Reach(n, s, x)[k - 1] + x[k] * s[k]
  <1> DEFINE t == [k \in 1 .. n |-> x[k] * s[k]]
  <1>1. n \in Nat /\ \A k \in 1 .. n : x[k] \in Nat /\ s[k] \in Nat
    BY DEF Nested, IndexOf
  <1>2. \A k \in 1 .. n : x[k] * s[k] \in Nat
    BY <1>1, ProductsGrow
  <1>3. t \in [1 .. n -> Nat] /\ \A k \in 1 .. n : t[k] = x[k] * s[k]
    BY <1>2
  <1>4. Reach(n, s, x) = Sums(n, t)
    BY DEF Reach
  <1> HIDE DEF t
  <1> QED
    BY <1>1, <1>2, <1>3, <1>4, SumsAre

\* The inner dimensions stay within one step of the next one: an element lies,
\* whole, in the step its index in dimension k names.
LEMMA ReachWithin ==
    ASSUME NEW n, NEW s, NEW d, NEW size, Nested(n, s, d, size), NEW x, IndexOf(n, d, x), NEW k \in 1 .. n
    PROVE  /\ x[k] * s[k] \in Nat /\ (x[k] + 1) * s[k] \in Nat
           /\ Reach(n, s, x)[k] >= x[k] * s[k]
           /\ Reach(n, s, x)[k] + size <= (x[k] + 1) * s[k]
  <1> DEFINE r == Reach(n, s, x)
             Out == {j \in 1 .. n : ~(r[j] + size <= (x[j] + 1) * s[j])}
  <1>1. /\ n \in Nat \ {0} /\ size \in Nat \ {0} /\ s[1] >= size
        /\ \A j \in 1 .. n : x[j] \in Nat /\ d[j] \in Nat /\ s[j] \in Nat /\ x[j] < d[j]
        /\ \A j \in 2 .. n : s[j] >= d[j - 1] * s[j - 1]
    BY DEF Nested, IndexOf
  <1>2. /\ r \in [0 .. n -> Nat] /\ r[0] = 0
        /\ \A j \in 1 .. n : x[j] * s[j] \in Nat /\ r[j] = r[j - 1] + x[j] * s[j]
    BY ReachAdds
  <1> HIDE DEF r
  <1>3. \A j \in 1 .. n : (x[j] + 1) * s[j] = x[j] * s[j] + s[j] /\ (x[j] + 1) * s[j] \in Nat
    <2> SUFFICES ASSUME NEW j \in 1 .. n
                 PROVE  (x[j] + 1) * s[j] = x[j] * s[j] + s[j] /\ (x[j] + 1) * s[j] \in Nat
      OBVIOUS
    <2>1. x[j] \in Nat /\ s[j] \in Nat
      BY <1>1
    <2>2. (x[j] + 1) * s[j] = x[j] * s[j] + s[j]
      BY <2>1
    <2> QED
      BY <2>1, <2>2, <1>2
  <1>4. Out = {}
    <2> SUFFICES ASSUME Out # {} PROVE FALSE
      OBVIOUS
    <2> DEFINE m == Min(Out)
    <2>1. Out \in SUBSET Nat
      BY <1>1
    <2>2. m \in Out /\ \A j \in Out : m <= j
      BY <2>1, LeastIndex
    <2> HIDE DEF m
    <2>3. m \in 1 .. n /\ ~(r[m] + size <= (x[m] + 1) * s[m])
      BY <2>2
    <2>4. /\ r[m] = r[m - 1] + x[m] * s[m] /\ (x[m] + 1) * s[m] = x[m] * s[m] + s[m]
          /\ r[m - 1] \in Nat /\ x[m] * s[m] \in Nat /\ s[m] \in Nat
      <3>1. m - 1 \in 0 .. n
        BY <2>3, <1>1
      <3> QED
        BY <3>1, <2>3, <1>1, <1>2, <1>3
    <2>5. ~(r[m - 1] + size <= s[m])
      BY <2>3, <2>4, <1>1
    <2>6. CASE m = 1
      BY <2>5, <2>6, <1>1, <1>2
    <2>7. CASE m # 1
      <3> DEFINE j == m - 1
      <3>1. j \in 1 .. n /\ j \notin Out /\ m \in 2 .. n
        BY <2>2, <2>3, <2>7, <1>1
      <3>2. r[j] + size <= (x[j] + 1) * s[j] /\ s[m] >= d[j] * s[j]
        BY <3>1, <1>1
      <3>3. x[j] + 1 \in Nat /\ d[j] \in Nat /\ s[j] \in Nat /\ x[j] + 1 <= d[j]
        BY <3>1, <1>1
      <3>4. (x[j] + 1) * s[j] \in Nat /\ d[j] * s[j] \in Nat /\ (x[j] + 1) * s[j] <= d[j] * s[j]
        BY <3>3, ProductsGrow
      <3>5. r[j] \in Nat
        BY <2>4
      <3> HIDE DEF j
      <3>6. r[j] + size <= s[m]
        BY <3>2, <3>4, <3>5, <2>4, <1>1
      <3> QED
        BY <3>6, <2>5 DEF j
    <2> QED
      BY <2>6, <2>7
  <1>5. r[k] + size <= (x[k] + 1) * s[k]
    BY <1>4
  <1>6. r[k - 1] \in Nat /\ r[k] = r[k - 1] + x[k] * s[k] /\ x[k] * s[k] \in Nat
    <2>1. k - 1 \in 0 .. n
      BY <1>1
    <2> QED
      BY <2>1, <1>2
  <1>7. r[k] >= x[k] * s[k]
    BY <1>6
  <1> QED
    BY <1>3, <1>5, <1>6, <1>7 DEF r

\* Two elements do not share a byte: the outermost dimension in which they differ
\* takes them further apart than the ones inside can bring them together.
LEMMA ReachApart ==
    ASSUME NEW n, NEW s, NEW d, NEW size, Nested(n, s, d, size),
           NEW x, IndexOf(n, d, x), NEW y, IndexOf(n, d, y), x # y
    PROVE  /\ Reach(n, s, x)[n] \in Nat /\ Reach(n, s, y)[n] \in Nat
           /\ \/ Reach(n, s, x)[n] + size <= Reach(n, s, y)[n]
              \/ Reach(n, s, y)[n] + size <= Reach(n, s, x)[n]
  <1> DEFINE p == Reach(n, s, x)
             q == Reach(n, s, y)
             Differ == {j \in 0 .. n : j # n /\ x[n - j] # y[n - j]}
  <1>1. /\ n \in Nat \ {0} /\ size \in Nat \ {0}
        /\ \A j \in 1 .. n : x[j] \in Nat /\ y[j] \in Nat /\ s[j] \in Nat
        /\ x \in [1 .. n -> Nat] /\ y \in [1 .. n -> Nat]
    BY DEF Nested, IndexOf
  <1>2. /\ p \in [0 .. n -> Nat] /\ q \in [0 .. n -> Nat]
        /\ \A j \in 1 .. n : /\ x[j] * s[j] \in Nat /\ p[j] = p[j - 1] + x[j] * s[j]
                             /\ y[j] * s[j] \in Nat /\ q[j] = q[j - 1] + y[j] * s[j]
    BY ReachAdds
  <1>3. \A j \in 1 .. n : /\ p[j] >= x[j] * s[j] /\ p[j] + size <= (x[j] + 1) * s[j] /\ (x[j] + 1) * s[j] \in Nat
                          /\ q[j] >= y[j] * s[j] /\ q[j] + size <= (y[j] + 1) * s[j] /\ (y[j] + 1) * s[j] \in Nat
    BY ReachWithin
  <1> HIDE DEF p, q
  <1>4. Differ # {} /\ Differ \in SUBSET Nat
    <2>1. \E k \in 1 .. n : x[k] # y[k]
      <3> SUFFICES ASSUME \A k \in 1 .. n : x[k] = y[k] PROVE FALSE
        OBVIOUS
      <3>1. x = [k \in 1 .. n |-> x[k]] /\ y = [k \in 1 .. n |-> y[k]]
        BY <1>1
      <3> QED
        BY <3>1
    <2>2. PICK k \in 1 .. n : x[k] # y[k]
      BY <2>1
    <2>3. n - k \in 0 .. n /\ n - k # n /\ n - (n - k) = k
      BY <1>1
    <2> QED
      BY <2>2, <2>3
  <1> DEFINE j == Min(Differ)
             m == n - j
  <1>5. j \in Differ /\ \A i \in Differ : j <= i
    BY <1>4, LeastIndex
  <1> HIDE DEF j
  <1>6. j \in Nat /\ m \in 1 .. n /\ x[m] # y[m]
    BY <1>5, <1>1
  <1>7. \A k \in 1 .. n : k > m => x[k] = y[k]
    <2> SUFFICES ASSUME NEW k \in 1 .. n, k > m, x[k] # y[k] PROVE FALSE
      OBVIOUS
    <2>1. n - k \in 0 .. n /\ n - k # n /\ n - (n - k) = k
      BY <1>1
    <2>2. n - k \in Differ
      BY <2>1
    <2>3. j <= n - k /\ k > n - j
      BY <2>2, <1>5
    <2> QED
      BY <2>3, <1>1, <1>6
  <1> HIDE DEF m
  \* Above m both offsets grow alike.
  <1> DEFINE Parted == {k \in 0 .. n : k >= m /\ p[k] - q[k] # p[m] - q[m]}
  <1>8. Parted = {}
    <2> SUFFICES ASSUME Parted # {} PROVE FALSE
      OBVIOUS
    <2> DEFINE k == Min(Parted)
    <2>1. k \in Parted /\ \A i \in Parted : k <= i
      BY LeastIndex
    <2> HIDE DEF k
    <2>2. k \in 0 .. n /\ k >= m /\ p[k] - q[k] # p[m] - q[m] /\ k # m
      BY <2>1
    <2>3. k \in 1 .. n /\ k > m /\ k - 1 \in 0 .. n /\ k - 1 >= m /\ k - 1 < k
      BY <2>2, <1>1, <1>6
    <2>4. k - 1 \notin Parted
      BY <2>1, <2>3
    <2>5. p[k - 1] - q[k - 1] = p[m] - q[m]
      BY <2>3, <2>4
    <2>6. /\ p[k] = p[k - 1] + x[k] * s[k] /\ q[k] = q[k - 1] + x[k] * s[k]
          /\ p[k - 1] \in Nat /\ q[k - 1] \in Nat /\ x[k] * s[k] \in Nat
      BY <2>3, <1>2, <1>7
    <2>7. p[k] - q[k] = p[k - 1] - q[k - 1]
      BY <2>6
    <2> QED
      BY <2>2, <2>5, <2>7
  <1>9. p[n] - q[n] = p[m] - q[m]
    <2>1. n \in 0 .. n /\ n >= m
      BY <1>1, <1>6
    <2> QED
      BY <2>1, <1>8
  <1>10. p[m] \in Nat /\ q[m] \in Nat /\ p[n] \in Nat /\ q[n] \in Nat
    <2>1. m \in 0 .. n /\ n \in 0 .. n
      BY <1>1, <1>6
    <2> QED
      BY <2>1, <1>2
  <1>11. p[m] + size <= q[m] \/ q[m] + size <= p[m]
    <2>1. x[m] \in Nat /\ y[m] \in Nat /\ s[m] \in Nat
      BY <1>1, <1>6
    <2>2. CASE x[m] < y[m]
      <3>1. x[m] + 1 \in Nat /\ x[m] + 1 <= y[m]
        BY <2>1, <2>2
      <3> DEFINE u == (x[m] + 1) * s[m]
                 v == y[m] * s[m]
      <3>2. u <= v /\ u \in Nat /\ v \in Nat
        BY <2>1, <3>1, ProductsGrow
      <3>3. p[m] + size <= u /\ q[m] >= v
        BY <1>3, <1>6
      <3>4. p[m] \in Nat /\ q[m] \in Nat /\ size \in Nat
        BY <1>1, <1>10
      <3> HIDE DEF u, v
      <3>5. p[m] + size <= q[m]
        BY ONLY <3>2, <3>3, <3>4, Chained
      <3> QED
        BY <3>5
    <2>3. CASE y[m] < x[m]
      <3>1. y[m] + 1 \in Nat /\ y[m] + 1 <= x[m]
        BY <2>1, <2>3
      <3> DEFINE u == (y[m] + 1) * s[m]
                 v == x[m] * s[m]
      <3>2. u <= v /\ u \in Nat /\ v \in Nat
        BY <2>1, <3>1, ProductsGrow
      <3>3. q[m] + size <= u /\ p[m] >= v
        BY <1>3, <1>6
      <3>4. q[m] \in Nat /\ p[m] \in Nat /\ size \in Nat
        BY <1>1, <1>10
      <3> HIDE DEF u, v
      <3>5. q[m] + size <= p[m]
        BY ONLY <3>2, <3>3, <3>4, Chained
      <3> QED
        BY <3>5
    <2> QED
      BY <2>1, <2>2, <2>3, <1>6
  <1>12. p[n] + size <= q[n] \/ q[n] + size <= p[n]
    BY <1>1, <1>9, <1>10, <1>11, SameGap
  <1> QED
    BY <1>10, <1>12 DEF p, q

\* A product that stays in the width is not changed by it.
LEMMA NoWrap ==
    /\ 2^(Width - 1) \in Nat
    /\ \A v \in Nat : v < 2^(Width - 1) => Wrap(v) = v
    /\ \A v \in Int : Wrap(v) \in Int
  <1> DEFINE H == 2^(Width - 1)
  <1>1. Width - 1 \in Nat /\ 1 \in Nat /\ Width = (Width - 1) + 1
    BY TensorAssumption
  <1>2. 2^1 = 2
    <2>1. IsFiniteSet({1}) /\ Cardinality({1}) = 1
      BY FS_Singleton
    <2>2. Cardinality(SUBSET {1}) = 2^1
      BY <2>1, PowerIsSubsets
    <2>3. SUBSET {1} = {{}} \cup {{1}}
      OBVIOUS
    <2> DEFINE A == {{}}
               b == {1}
    <2>4. IsFiniteSet(A) /\ Cardinality(A) = 1 /\ b \notin A
      BY FS_Singleton
    <2> HIDE DEF A, b
    <2>5. Cardinality(A \cup {b}) = IF b \in A THEN Cardinality(A) ELSE Cardinality(A) + 1
      BY <2>4, FS_AddElement
    <2>6. Cardinality(A \cup {b}) = 2
      BY <2>4, <2>5
    <2>7. Cardinality({{}} \cup {{1}}) = 2
      BY <2>6 DEF A, b
    <2> QED
      BY <2>2, <2>3, <2>7
  <1>3. H \in Nat \ {0} /\ 2^Width = H * 2
    <2>1. 2^((Width - 1) + 1) = 2^(Width - 1) * 2^1
      BY <1>1, PowerOfSum
    <2> QED
      BY <1>1, <1>2, <2>1, PowerIsSubsets
  <1>4. \A v : Wrap(v) = ((v + H) % 2^Width) - H
    BY DEF Wrap
  <1> HIDE DEF H
  <1> DEFINE C == H * 2
  <1>5. C \in Nat \ {0} /\ H < C
    BY <1>3
  <1> HIDE DEF C
  <1>6. ASSUME NEW v \in Nat, v < H PROVE Wrap(v) = v
    <2>1. v + H \in 0 .. C - 1
      BY <1>6, <1>3 DEF C
    <2>2. ((C * 0 + (v + H)) % C) = v + H
      BY <2>1, <1>5, QuotientRemainder
    <2>3. C * 0 + (v + H) = v + H
      BY <1>5, <1>3
    <2>4. ((v + H) % C) - H = v
      BY <2>2, <2>3, <1>3
    <2> QED
      BY <2>4, <1>3, <1>4 DEF C
  <1>7. ASSUME NEW v \in Int PROVE Wrap(v) \in Int
    <2>1. ((v + H) % C) \in Int
      BY <1>3, <1>5
    <2> QED
      BY <2>1, <1>3, <1>4 DEF C
  <1> QED
    BY <1>3, <1>6, <1>7 DEF H

\* The distances are numbers.
LEMMA ExpectedIs ==
    ASSUME NEW a \in Int, NEW b \in Int
    PROVE  Expected(a, b) \in Int
  <1>1. a * (IF b > 0 THEN b ELSE 1) \in Int
    OBVIOUS
  <1> QED
    BY <1>1, NoWrap DEF Expected

\* f fills in, from the inside, what is 0 in g.
FillsIn(f, n, first, g, d) ==
    f[1] = first /\ \A k \in 2 .. n : f[k] = IF g[k] # 0 THEN g[k] ELSE Expected(f[k - 1], d[k - 1])

\* Filling in strides from the inside defines them all.
LEMMA FillsExist ==
    ASSUME NEW n \in Nat \ {0}, NEW first \in Int, NEW g \in [1 .. n -> Int], NEW d \in [1 .. n -> Int]
    PROVE  \E f \in [1 .. n -> Int] : FillsIn(f, n, first, g, d)
  <1> DEFINE Fills(f, m) == /\ f[1] = first
                            /\ \A k \in 2 .. m : f[k] = IF g[k] # 0 THEN g[k] ELSE Expected(f[k - 1], d[k - 1])
             Bad == {m \in 1 .. n : ~\E f \in [1 .. m -> Int] : Fills(f, m)}
  <1>1. Bad = {}
    <2> SUFFICES ASSUME Bad # {} PROVE FALSE
      OBVIOUS
    <2> DEFINE m == Min(Bad)
    <2>0. Bad \in SUBSET Nat
      OBVIOUS
    <2> HIDE DEF Bad
    <2>1. m \in Bad /\ \A j \in Bad : m <= j
      BY <2>0, LeastIndex
    <2> HIDE DEF m
    <2>2. m \in 1 .. n /\ ~\E f \in [1 .. m -> Int] : Fills(f, m)
      BY <2>1 DEF Bad
    <2>3. m # 1
      <3> DEFINE z == [k \in 1 .. 1 |-> first]
      <3>1. z \in [1 .. 1 -> Int] /\ Fills(z, 1)
        OBVIOUS
      <3> QED
        BY <3>1, <2>2
    <2>4. m - 1 \in 1 .. n /\ m - 1 \notin Bad /\ m \in 2 .. n
      BY <2>1, <2>2, <2>3
    <2>5. PICK f \in [1 .. m - 1 -> Int] : Fills(f, m - 1)
      BY <2>4 DEF Bad
    <2> DEFINE v == IF g[m] # 0 THEN g[m] ELSE Expected(f[m - 1], d[m - 1])
               h == [k \in 1 .. m |-> IF k = m THEN v ELSE f[k]]
    <2>6. v \in Int
      <3>1. f[m - 1] \in Int /\ d[m - 1] \in Int /\ g[m] \in Int
        BY <2>2, <2>4
      <3> QED
        BY <3>1, ExpectedIs
    <2>7. h \in [1 .. m -> Int]
      <3>1. \A k \in 1 .. m : k # m => k \in 1 .. m - 1
        BY <2>2
      <3> HIDE DEF v
      <3> QED
        BY <3>1, <2>6
    <2>8. \A k \in 2 .. m : h[k] = IF g[k] # 0 THEN g[k] ELSE Expected(h[k - 1], d[k - 1])
      <3> SUFFICES ASSUME NEW k \in 2 .. m PROVE h[k] = IF g[k] # 0 THEN g[k] ELSE Expected(h[k - 1], d[k - 1])
        OBVIOUS
      <3>1. k - 1 \in 1 .. m /\ k \in 1 .. m /\ k - 1 # m
        BY <2>2
      <3>2. h[k - 1] = f[k - 1]
        BY <3>1
      <3>3. CASE k = m
        <4>1. h[m] = v
          BY <2>2
        <4> QED
          BY <3>2, <3>3, <4>1
      <3>4. CASE k # m
        <4>1. k \in 2 .. m - 1 /\ h[k] = f[k]
          BY <2>2, <3>1, <3>4
        <4> QED
          BY <3>2, <4>1, <2>5
      <3> QED
        BY <3>3, <3>4
    <2>9. h[1] = first
      BY <2>2, <2>3, <2>5
    <2> HIDE DEF h
    <2> QED
      BY <2>2, <2>7, <2>8, <2>9
  <1>2. n \in 1 .. n
    OBVIOUS
  <1>3. \E f \in [1 .. n -> Int] : Fills(f, n)
    BY <1>1, <1>2
  <1> QED
    BY <1>3 DEF FillsIn

\* From the inside outwards and back.
LEMMA InwardsIs ==
    ASSUME NEW h, h.ndims \in Nat
    PROVE  /\ Inwards(h) \in [1 .. h.ndims -> 1 .. h.ndims]
           /\ \A k \in 1 .. h.ndims : Inwards(h)[Inwards(h)[k]] = k
  BY DEF Inwards

\* A header that can be taken.
Plausible(h) ==
    /\ h \in HeaderRecords /\ h.ndims \in 1 .. MaxDims /\ h.ndims <= Len(h.dims) /\ h.ndims <= Len(h.strides)
    /\ DtypeSizeBytes(h.dtype) \in Nat

\* What tp_tensor_fill_strides leaves.
LEMMA StridesAre ==
    ASSUME NEW h, Plausible(h)
    PROVE  /\ StridesInwards(h) \in [1 .. h.ndims -> Int]
           /\ \A k \in 2 .. h.ndims :
                StridesInwards(h)[k] = IF h.strides[Inwards(h)[k]] # 0 THEN h.strides[Inwards(h)[k]]
                                       ELSE Expected(StridesInwards(h)[k - 1], h.dims[Inwards(h)[k - 1]])
  <1> DEFINE n == h.ndims
             pos == Inwards(h)
             g == [k \in 1 .. n |-> h.strides[pos[k]]]
             d == [k \in 1 .. n |-> h.dims[pos[k]]]
             first == IF h.strides[pos[1]] = 0 THEN DtypeSizeBytes(h.dtype) ELSE h.strides[pos[1]]
             Fill(f, k) == IF k = 1 THEN first
                           ELSE IF h.strides[pos[k]] # 0 THEN h.strides[pos[k]]
                           ELSE Expected(f[k - 1], h.dims[pos[k - 1]])
             F == CHOOSE f : f = [k \in 1 .. n |-> Fill(f, k)]
  <1>1. StridesInwards(h) = F
    BY DEF StridesInwards
  <1>2. /\ n \in Nat \ {0} /\ h.dims \in Seq(Int) /\ h.strides \in Seq(Int) /\ n <= Len(h.dims) /\ n <= Len(h.strides)
        /\ DtypeSizeBytes(h.dtype) \in Int
    BY TensorAssumption DEF Plausible, HeaderRecords
  <1>3. pos \in [1 .. n -> 1 .. n]
    BY <1>2, InwardsIs
  <1>4. \A i \in 1 .. n : h.dims[i] \in Int /\ h.strides[i] \in Int
    <2> SUFFICES ASSUME NEW i \in 1 .. n PROVE h.dims[i] \in Int /\ h.strides[i] \in Int
      OBVIOUS
    <2> DEFINE p == h.dims
               q == h.strides
    <2>1. i \in 1 .. Len(p) /\ i \in 1 .. Len(q) /\ p \in Seq(Int) /\ q \in Seq(Int)
      BY <1>2
    <2> HIDE DEF p, q
    <2>2. p[i] \in Int /\ q[i] \in Int
      BY <2>1
    <2> QED
      BY <2>2 DEF p, q
  <1> HIDE DEF pos
  <1>5. \A k \in 1 .. n : h.dims[pos[k]] \in Int /\ h.strides[pos[k]] \in Int
    BY <1>3, <1>4
  <1>6. g \in [1 .. n -> Int] /\ d \in [1 .. n -> Int] /\ first \in Int
    <2>1. 1 \in 1 .. n
      BY <1>2
    <2>2. g \in [1 .. n -> Int] /\ d \in [1 .. n -> Int]
      BY <1>5
    <2>3. first \in Int
      BY <2>1, <1>2, <1>5
    <2> QED
      BY <2>2, <2>3
  <1>7. \A k \in 1 .. n : g[k] = h.strides[pos[k]] /\ d[k] = h.dims[pos[k]]
    OBVIOUS
  <1> HIDE DEF g, d, first, n
  <1>b. PICK f \in [1 .. n -> Int] : FillsIn(f, n, first, g, d)
    BY <1>2, <1>6, FillsExist
  <1>8. f[1] = first /\ \A k \in 2 .. n : f[k] = IF g[k] # 0 THEN g[k] ELSE Expected(f[k - 1], d[k - 1])
    BY <1>b DEF FillsIn
  <1>9. f = [k \in 1 .. n |-> Fill(f, k)]
    <2>1. \A k \in 1 .. n : f[k] = Fill(f, k)
      <3> SUFFICES ASSUME NEW k \in 1 .. n PROVE f[k] = Fill(f, k)
        OBVIOUS
      <3>1. CASE k = 1
        BY <3>1, <1>8
      <3>2. CASE k # 1
        <4>1. k \in 2 .. n /\ k - 1 \in 1 .. n
          BY <3>2, <1>2
        <4> QED
          BY <3>2, <4>1, <1>7, <1>8
      <3> QED
        BY <3>1, <3>2
    <2>2. f = [k \in 1 .. n |-> f[k]]
      OBVIOUS
    <2> HIDE DEF Fill
    <2> QED
      BY <2>1, <2>2
  <1>10. F = [k \in 1 .. n |-> Fill(F, k)]
    <2> HIDE DEF Fill
    <2> QED
      BY <1>9
  <1> HIDE DEF F
  <1>11. \A k \in 1 .. n : F[k] = Fill(F, k)
    BY <1>10
  <1>12. \A k \in 2 .. n : F[k] = IF h.strides[pos[k]] # 0 THEN h.strides[pos[k]]
                                  ELSE Expected(F[k - 1], h.dims[pos[k - 1]])
    <2>1. \A k \in 2 .. n : k \in 1 .. n /\ k # 1
      BY <1>2
    <2> QED
      BY <2>1, <1>11
  <1> DEFINE Odd == {k \in 1 .. n : F[k] \notin Int}
  <1>13. Odd = {}
    <2> SUFFICES ASSUME Odd # {} PROVE FALSE
      OBVIOUS
    <2> DEFINE m == Min(Odd)
    <2>0. Odd \in SUBSET Nat
      BY <1>2
    <2> HIDE DEF Odd, Fill
    <2>1. m \in Odd /\ \A j \in Odd : m <= j
      BY <2>0, LeastIndex
    <2> HIDE DEF m
    <2>2. m \in 1 .. n /\ F[m] \notin Int
      BY <2>1 DEF Odd
    <2>3. m # 1
      <3>1. 1 \in 1 .. n
        BY <1>2
      <3>2. F[1] = first
        BY <3>1, <1>11 DEF Fill
      <3> QED
        BY <3>2, <1>6, <2>2
    <2>4. m \in 2 .. n /\ m - 1 \in 1 .. n /\ m - 1 \notin Odd
      BY <2>1, <2>2, <2>3, <1>2
    <2>5. F[m - 1] \in Int /\ h.dims[pos[m - 1]] \in Int /\ h.strides[pos[m]] \in Int
      BY <2>2, <2>4, <1>5 DEF Odd
    <2>6. Expected(F[m - 1], h.dims[pos[m - 1]]) \in Int
      BY <2>5, ExpectedIs
    <2> QED
      BY <2>2, <2>4, <2>5, <2>6, <1>12
  <1>14. F \in [1 .. n -> Int]
    <2> HIDE DEF Fill
    <2> QED
      BY <1>10, <1>13
  <1> QED
    BY <1>1, <1>12, <1>14 DEF pos, n

\* Every type has a size.
LEMMA SizesAre ==
    ASSUME NEW t \in {"UINT8", "INT16", "FLOAT32", "FLOAT64", "UNKNOWN"}
    PROVE  DtypeSizeBytes(t) \in Nat
  BY DEF DtypeSizeBytes

\* The larger of a length and 1.
LEMMA LargerIs ==
    ASSUME NEW a \in Nat
    PROVE  Max({a, 1}) = IF a > 0 THEN a ELSE 1
  <1> DEFINE M == IF a > 0 THEN a ELSE 1
  <1>1. M \in {a, 1} /\ \A y \in {a, 1} : M >= y
    OBVIOUS
  <1>2. \A x \in {a, 1} : (\A y \in {a, 1} : x >= y) => x = M
    OBVIOUS
  <1> HIDE DEF M
  <1>3. Max({a, 1}) = M
    BY <1>1, <1>2 DEF Max
  <1> QED
    BY <1>3 DEF M

\* What is known of a header once it is taken: each stride, given or filled in, is
\* at least what the dimension inside it asks for.
TakenShape(h) ==
    /\ h.ndims \in Nat \ {0} /\ h.order \in {"ROW", "COLUMN"} /\ h.step \in Nat
    /\ DtypeSizeBytes(h.dtype) \in Nat \ {0}
    /\ h.strides \in [1 .. h.ndims -> Int] /\ \A i \in 1 .. h.ndims : h.dims[i] \in Nat
    /\ ProgressValid(h, h.strides)
    /\ \A k \in 2 .. h.ndims :
          h.strides[Inwards(h)[k]] >= Expected(h.strides[Inwards(h)[k - 1]], h.dims[Inwards(h)[k - 1]])

LayoutInv == /\ verdict = "open" => header \in Headers
             /\ verdict = "taken" => TakenShape(header)

\* What tp_tensor_header_validate fills in and checks is that shape.
LEMMA ShapeOfTaken ==
    ASSUME NEW h \in Headers, h.ndims \in 1 .. MaxDims, DtypeSizeBytes(h.dtype) > 0,
           \A i \in 1 .. h.ndims : h.dims[i] >= 0 /\ h.strides[i] >= 0,
           StridesConsistent(h, FilledStrides(h)), ProgressValid(h, FilledStrides(h))
    PROVE  TakenShape([h EXCEPT !.strides = FilledStrides(h)])
  <1> DEFINE t == [h EXCEPT !.strides = FilledStrides(h)]
             n == h.ndims
             pos == Inwards(h)
             full == FilledStrides(h)
             f == StridesInwards(h)
  <1>1. /\ h \in HeaderRecords /\ n \in Nat \ {0} /\ n <= Len(h.dims) /\ n <= Len(h.strides)
        /\ h.dims \in Seq(Int) /\ h.strides \in Seq(Int) /\ h.step \in Nat
    BY HeadersAssumption, TensorAssumption DEF HeaderRecords
  <1>2. DtypeSizeBytes(h.dtype) \in Nat \ {0}
    <2>1. h.dtype \in {"UINT8", "INT16", "FLOAT32", "FLOAT64", "UNKNOWN"}
      BY <1>1 DEF HeaderRecords
    <2>2. DtypeSizeBytes(h.dtype) \in Nat
      BY <2>1, SizesAre
    <2> QED
      BY <2>2
  <1>3. Plausible(h)
    BY <1>1, <1>2 DEF Plausible
  <1>4. /\ t.ndims = n /\ t.order = h.order /\ t.dtype = h.dtype /\ t.dims = h.dims
        /\ t.unit = h.unit /\ t.step = h.step /\ t.strides = full
    BY <1>1 DEF HeaderRecords
  <1>5. Inwards(t) = pos
    BY <1>4 DEF Inwards
  <1>6. pos \in [1 .. n -> 1 .. n] /\ \A k \in 1 .. n : pos[pos[k]] = k
    BY <1>1, InwardsIs
  <1>7. /\ f \in [1 .. n -> Int]
        /\ \A k \in 2 .. n : f[k] = IF h.strides[pos[k]] # 0 THEN h.strides[pos[k]]
                                    ELSE Expected(f[k - 1], h.dims[pos[k - 1]])
    BY <1>3, StridesAre
  <1>8. full = [i \in 1 .. n |-> f[pos[i]]]
    BY DEF FilledStrides
  <1>9. h.order \in {"ROW", "COLUMN"} /\ \A k \in 2 .. n :
            h.strides[pos[k]] # 0 => h.strides[pos[k]] >= Expected(full[pos[k - 1]], h.dims[pos[k - 1]])
    BY DEF StridesConsistent
  <1>10. ProgressValid(t, full)
    BY <1>4 DEF ProgressValid
  <1>11. \A i \in 1 .. n : h.dims[i] \in Nat
    <2> SUFFICES ASSUME NEW i \in 1 .. n PROVE h.dims[i] \in Nat
      OBVIOUS
    <2>1. h.dims[i] >= 0
      OBVIOUS
    <2> DEFINE q == h.dims
    <2>2. i \in 1 .. Len(q) /\ q \in Seq(Int)
      BY <1>1
    <2> HIDE DEF q
    <2>3. q[i] \in Int
      BY <2>2
    <2> QED
      BY <2>1, <2>3 DEF q
  <1> HIDE DEF t, pos, full, f, n
  <1>12. full \in [1 .. n -> Int] /\ \A k \in 1 .. n : full[pos[k]] = f[k]
    BY <1>6, <1>7, <1>8
  <1>13. ASSUME NEW k \in 2 .. n PROVE full[pos[k]] >= Expected(full[pos[k - 1]], h.dims[pos[k - 1]])
    <2>1. k \in 1 .. n /\ k - 1 \in 1 .. n
      BY <1>1
    <2>2. full[pos[k]] = f[k] /\ full[pos[k - 1]] = f[k - 1] /\ f[k - 1] \in Int
      BY <2>1, <1>7, <1>12
    <2>3. h.dims[pos[k - 1]] \in Int
      BY <2>1, <1>6, <1>11
    <2> DEFINE e == Expected(f[k - 1], h.dims[pos[k - 1]])
    <2>4. e \in Int
      BY <2>2, <2>3, ExpectedIs
    <2>5. /\ f[k] = IF h.strides[pos[k]] # 0 THEN h.strides[pos[k]] ELSE e
          /\ h.strides[pos[k]] # 0 => h.strides[pos[k]] >= e
      BY <2>2, <1>7, <1>9
    <2>6. Expected(full[pos[k - 1]], h.dims[pos[k - 1]]) = e
      BY <2>2
    <2> HIDE DEF e
    <2>7. f[k] >= e
      BY <2>4, <2>5
    <2> QED
      BY <2>2, <2>6, <2>7
  <1>14. TakenShape(t)
    BY <1>1, <1>2, <1>4, <1>5, <1>9, <1>10, <1>11, <1>12, <1>13 DEF TakenShape
  <1> QED
    BY <1>14 DEF t, full

\* The strides and the dimensions from the inside outwards, and an index likewise.
StridesOut(h) == [k \in 1 .. h.ndims |-> h.strides[Inwards(h)[k]]]
DimsOut(h) == [k \in 1 .. h.ndims |-> h.dims[Inwards(h)[k]]]
IndexOut(h, ix) == [k \in 1 .. h.ndims |-> ix[Inwards(h)[k]]]

\* One step outwards: a product in range is what it is, so the stride asked for is
\* the one inside times its dimension, and no stride is 0.
LEMMA OneOut ==
    ASSUME NEW s \in Nat \ {0}, NEW d \in Nat, NEW next \in Int,
           s * Max({d, 1}) < 2^(Width - 1), next >= Expected(s, d)
    PROVE  next \in Nat \ {0} /\ next >= d * s
  <1> DEFINE m == IF d > 0 THEN d ELSE 1
             v == s * m
             w == d * s
  <1>1. m \in Nat \ {0} /\ d <= m /\ 1 <= m /\ Max({d, 1}) = m
    BY LargerIs
  <1>2. Expected(s, d) = Wrap(v)
    BY DEF Expected
  <1> HIDE DEF m
  <1>3. v \in Nat /\ w \in Nat /\ w <= v
    <2>1. d * s \in Nat /\ m * s \in Nat /\ d * s <= m * s
      BY <1>1, ProductsGrow
    <2>2. m * s = s * m
      BY <1>1
    <2> QED
      BY <2>1, <2>2
  <1>4. s <= v
    <2>1. 1 * s <= m * s
      BY <1>1, ProductsGrow
    <2>2. m * s = s * m /\ 1 * s = s
      BY <1>1
    <2> QED
      BY <2>1, <2>2
  <1>5. v < 2^(Width - 1)
    BY <1>1
  <1> HIDE DEF v, w
  <1>6. Wrap(v) = v
    BY <1>3, <1>5, NoWrap
  <1>7. next >= v
    BY <1>2, <1>6
  <1>8. next \in Nat \ {0} /\ next >= w
    BY <1>3, <1>4, <1>7
  <1> QED
    BY <1>8 DEF w

\* A header that is taken, whose innermost stride fits an element and whose products
\* are in range, has strides that clear each other.
LEMMA TakenNests ==
    ASSUME NEW h, TakenShape(h), InnerFits(h), InRange(h)
    PROVE  Nested(h.ndims, StridesOut(h), DimsOut(h), DtypeSizeBytes(h.dtype))
  <1> DEFINE n == h.ndims
             pos == Inwards(h)
             s == StridesOut(h)
             d == DimsOut(h)
             size == DtypeSizeBytes(h.dtype)
  <1>1. /\ n \in Nat \ {0} /\ size \in Nat \ {0}
        /\ h.strides \in [1 .. n -> Int] /\ \A i \in 1 .. n : h.dims[i] \in Nat
        /\ \A k \in 2 .. n : h.strides[pos[k]] >= Expected(h.strides[pos[k - 1]], h.dims[pos[k - 1]])
    BY DEF TakenShape
  <1>2. pos \in [1 .. n -> 1 .. n]
    BY <1>1, InwardsIs
  <1>3. h.strides[pos[1]] >= size /\ \A i \in 1 .. n : h.strides[i] * Max({h.dims[i], 1}) < 2^(Width - 1)
    BY DEF InnerFits, InRange
  <1>4. s = [k \in 1 .. n |-> h.strides[pos[k]]] /\ d = [k \in 1 .. n |-> h.dims[pos[k]]]
    BY DEF StridesOut, DimsOut
  <1> HIDE DEF n, pos, s, d, size
  <1>5. s \in [1 .. n -> Int] /\ d \in [1 .. n -> Nat]
    BY <1>1, <1>2, <1>4
  <1>6. \A k \in 1 .. n : s[k] * Max({d[k], 1}) < 2^(Width - 1)
    BY <1>2, <1>3, <1>4
  <1>7. s[1] >= size
    <2>1. 1 \in 1 .. n
      BY <1>1
    <2> QED
      BY <2>1, <1>3, <1>4
  <1>8. \A k \in 2 .. n : k \in 1 .. n /\ k - 1 \in 1 .. n /\ s[k] >= Expected(s[k - 1], d[k - 1])
    <2> SUFFICES ASSUME NEW k \in 2 .. n
                 PROVE  k \in 1 .. n /\ k - 1 \in 1 .. n /\ s[k] >= Expected(s[k - 1], d[k - 1])
      OBVIOUS
    <2>1. k \in 1 .. n /\ k - 1 \in 1 .. n
      BY <1>1
    <2>2. s[k] = h.strides[pos[k]] /\ s[k - 1] = h.strides[pos[k - 1]] /\ d[k - 1] = h.dims[pos[k - 1]]
      BY <2>1, <1>4
    <2> QED
      BY <2>1, <2>2, <1>1
  <1>9. \A k \in 2 .. n : s[k - 1] \in Nat \ {0} => s[k] \in Nat \ {0} /\ s[k] >= d[k - 1] * s[k - 1]
    <2> SUFFICES ASSUME NEW k \in 2 .. n, s[k - 1] \in Nat \ {0}
                 PROVE  s[k] \in Nat \ {0} /\ s[k] >= d[k - 1] * s[k - 1]
      OBVIOUS
    <2>1. k \in 1 .. n /\ k - 1 \in 1 .. n /\ s[k] >= Expected(s[k - 1], d[k - 1])
      BY <1>8
    <2>2. d[k - 1] \in Nat /\ s[k] \in Int /\ s[k - 1] * Max({d[k - 1], 1}) < 2^(Width - 1)
      BY <2>1, <1>5, <1>6
    <2> QED
      BY <2>1, <2>2, OneOut
  <1> DEFINE Odd == {k \in 1 .. n : s[k] \notin Nat \ {0}}
  <1>10. Odd = {}
    <2> SUFFICES ASSUME Odd # {} PROVE FALSE
      OBVIOUS
    <2> DEFINE m == Min(Odd)
    <2>0. Odd \in SUBSET Nat
      BY <1>1
    <2> HIDE DEF Odd
    <2>1. m \in Odd /\ \A j \in Odd : m <= j
      BY <2>0, LeastIndex
    <2> HIDE DEF m
    <2>2. m \in 1 .. n /\ s[m] \notin Nat \ {0}
      BY <2>1 DEF Odd
    <2>3. m # 1
      BY <2>2, <1>1, <1>5, <1>7
    <2>4. m \in 2 .. n /\ m - 1 \in 1 .. n /\ m - 1 \notin Odd
      BY <2>1, <2>2, <2>3, <1>1
    <2>5. s[m - 1] \in Nat \ {0}
      BY <2>4 DEF Odd
    <2> QED
      BY <2>2, <2>4, <2>5, <1>9
  <1>11. s \in [1 .. n -> Nat] /\ \A k \in 1 .. n : s[k] \in Nat \ {0}
    BY <1>5, <1>10
  <1>12. \A k \in 2 .. n : s[k] >= d[k - 1] * s[k - 1]
    BY <1>8, <1>9, <1>11
  <1>13. Nested(n, s, d, size)
    BY <1>1, <1>5, <1>7, <1>11, <1>12 DEF Nested
  <1> QED
    BY <1>13 DEF n, s, d, size

\* The address of an element is how far its index reaches.
LEMMA OffsetReaches ==
    ASSUME NEW h, NEW ix
    PROVE  ByteOffset(h, ix) = Reach(h.ndims, StridesOut(h), IndexOut(h, ix))[h.ndims]
  <1> DEFINE n == h.ndims
             pos == Inwards(h)
             s == StridesOut(h)
             x == IndexOut(h, ix)
             part == [k \in 1 .. n |-> ix[pos[k]] * h.strides[pos[k]]]
  <1>1. [k \in 1 .. n |-> x[k] * s[k]] = part
    BY DEF StridesOut, IndexOut
  <1>2. ByteOffset(h, ix) = (CHOOSE f : f = [k \in 0 .. n |-> IF k = 0 THEN 0 ELSE f[k - 1] + part[k]])[n]
    BY DEF ByteOffset
  <1>3. ByteOffset(h, ix) = Sums(n, part)[n]
    BY <1>2 DEF Sums
  <1>4. Reach(n, s, x) = Sums(n, part)
    BY <1>1 DEF Reach
  <1> QED
    BY <1>3, <1>4

\* An index of the header, from the inside outwards.
LEMMA IndexGoesOut ==
    ASSUME NEW h, TakenShape(h), NEW ix \in Indices(h)
    PROVE  /\ IndexOf(h.ndims, DimsOut(h), IndexOut(h, ix))
           /\ \A i \in 1 .. h.ndims : ix[i] = IndexOut(h, ix)[Inwards(h)[i]]
           /\ ix \in [1 .. h.ndims -> Nat]
  <1> DEFINE n == h.ndims
             pos == Inwards(h)
             x == IndexOut(h, ix)
             d == DimsOut(h)
             top == Max({h.dims[i] : i \in 1 .. h.ndims} \cup {1}) - 1
  <1>1. n \in Nat
    BY DEF TakenShape
  <1>2. ix \in [1 .. n -> 0 .. top] /\ \A i \in 1 .. n : ix[i] < h.dims[i]
    BY DEF Indices
  <1>3. pos \in [1 .. n -> 1 .. n] /\ \A k \in 1 .. n : pos[pos[k]] = k
    BY <1>1, InwardsIs
  <1>4. x = [k \in 1 .. n |-> ix[pos[k]]] /\ d = [k \in 1 .. n |-> h.dims[pos[k]]]
    BY DEF IndexOut, DimsOut
  <1> HIDE DEF n, pos, x, d, top
  <1>5. \A i \in 1 .. n : ix[i] \in Nat
    BY <1>2
  <1>6. ix \in [1 .. n -> Nat]
    BY <1>2, <1>5
  <1>7. x \in [1 .. n -> Nat] /\ \A k \in 1 .. n : x[k] < d[k]
    BY <1>2, <1>3, <1>4, <1>5
  <1>8. \A i \in 1 .. n : ix[i] = x[pos[i]]
    BY <1>3, <1>4
  <1> QED
    BY <1>6, <1>7, <1>8 DEF IndexOf, n, pos, x, d

\* A header that is taken is laid out as it should be.
LEMMA TakenIsSound ==
    ASSUME LayoutInv
    PROVE  LayoutSound
  <1> DEFINE h == header
             n == h.ndims
             s == StridesOut(h)
             d == DimsOut(h)
             size == DtypeSizeBytes(h.dtype)
             x(ix) == IndexOut(h, ix)
             at(ix) == Reach(n, s, x(ix))[n]
  <1>1. SUFFICES ASSUME verdict = "taken", InnerFits(header), InRange(header)
                 PROVE  ElementsDisjoint /\ PrefixHoldsWholeUnits
    BY DEF LayoutSound, ElementsDisjoint, PrefixHoldsWholeUnits
  <1>2. TakenShape(h)
    BY <1>1 DEF LayoutInv
  <1>3. Nested(n, s, d, size)
    BY <1>1, <1>2, TakenNests
  <1>4. n \in Nat \ {0} /\ size \in Nat \ {0}
    BY <1>3 DEF Nested
  <1>5. \A ix : ByteOffset(h, ix) = at(ix)
    BY OffsetReaches
  <1>6. \A ix \in Indices(h) : /\ IndexOf(n, d, x(ix)) /\ ix \in [1 .. n -> Nat]
                               /\ \A i \in 1 .. n : ix[i] = x(ix)[Inwards(h)[i]]
    BY <1>2, IndexGoesOut
  <1>7. ElementsDisjoint
    <2>1. ASSUME NEW a \in Indices(h), NEW b \in Indices(h), a # b
          PROVE  IF at(a) > at(b) THEN at(a) - at(b) >= size ELSE at(b) - at(a) >= size
      <3>1. x(a) # x(b)
        <4> SUFFICES ASSUME x(a) = x(b) PROVE FALSE
          OBVIOUS
        <4>1. \A i \in 1 .. n : a[i] = b[i]
          BY <1>6
        <4>2. a = [i \in 1 .. n |-> a[i]] /\ b = [i \in 1 .. n |-> b[i]]
          BY <1>6
        <4> QED
          BY <2>1, <4>1, <4>2
      <3>2. /\ at(a) \in Nat /\ at(b) \in Nat
            /\ at(a) + size <= at(b) \/ at(b) + size <= at(a)
        <4>1. IndexOf(n, d, x(a)) /\ IndexOf(n, d, x(b))
          BY <1>6
        <4> HIDE DEF n, s, d, size, x
        <4> QED
          BY <1>3, <3>1, <4>1, ReachApart
      <3> DEFINE p == at(a)
                 q == at(b)
      <3> HIDE DEF p, q, size
      <3>3. p \in Nat /\ q \in Nat /\ (p + size <= q \/ q + size <= p) /\ size \in Nat \ {0}
        BY <3>2, <1>4 DEF p, q
      <3>4. IF p > q THEN p - q >= size ELSE q - p >= size
        BY <3>3
      <3> QED
        BY <3>4 DEF p, q
    <2> HIDE DEF n, s, d, x
    <2> QED
      BY <2>1, <1>5 DEF ElementsDisjoint
  <1>8. PrefixHoldsWholeUnits
    <2> DEFINE outer == IF h.unit = "ROWS" THEN 1 ELSE 2
    <2> SUFFICES ASSUME OuterUnit(h), NEW ix \in Indices(h)
                 PROVE  /\ ByteOffset(h, ix) >= ix[outer] * h.step
                        /\ ByteOffset(h, ix) + size <= (ix[outer] + 1) * h.step
      BY DEF PrefixHoldsWholeUnits
    <2>1. n \in 1 .. n
      BY <1>4
    <2>2. Inwards(h)[n] = outer /\ outer \in 1 .. n
      <3>1. CASE h.order = "ROW" /\ h.unit = "ROWS"
        BY <3>1, <1>4 DEF Inwards
      <3>2. CASE h.order = "COLUMN" /\ h.unit = "COLUMNS" /\ h.ndims = 2
        BY <3>2 DEF Inwards
      <3> QED
        BY <3>1, <3>2 DEF OuterUnit
    <2>3. h.strides[outer] = h.step
      <3>1. h.unit = "ROWS" \/ h.unit = "COLUMNS"
        BY DEF OuterUnit
      <3> QED
        BY <3>1, <1>2 DEF TakenShape, ProgressValid
    <2>4. s[n] = h.step
      BY <2>1, <2>2, <2>3 DEF StridesOut
    <2>5. x(ix)[n] = ix[outer]
      BY <2>1, <2>2 DEF IndexOut
    <2>6. IndexOf(n, d, x(ix))
      BY <1>6
    <2>7. at(ix) >= x(ix)[n] * s[n] /\ at(ix) + size <= (x(ix)[n] + 1) * s[n]
      <3> HIDE DEF n, s, d, size, x
      <3> QED
        BY <1>3, <2>1, <2>6, ReachWithin
    <2>8. ByteOffset(h, ix) = at(ix)
      BY <1>5
    <2> HIDE DEF n, s, d, size, x, outer
    <2> QED
      BY <2>4, <2>5, <2>7, <2>8
  <1> QED
    BY <1>7, <1>8

\* A header that tp_tensor_header_validate takes can be relied on, whatever headers
\* arrive, however many dimensions they may have and however wide an integer is: no
\* two elements share a byte and a progress report counted in the outermost
\* dimension covers whole rows or columns, provided that the producer's innermost
\* stride fits an element and that its products stay in range.
THEOREM LayoutCorrect == TensorInit /\ [][Validate]_tensorVars => []LayoutSound
  <1>1. TensorInit => LayoutInv
    BY DEF TensorInit, LayoutInv
  <1>2. LayoutInv /\ [Validate]_tensorVars => LayoutInv'
    <2> SUFFICES ASSUME LayoutInv, [Validate]_tensorVars PROVE LayoutInv'
      OBVIOUS
    <2>1. CASE UNCHANGED tensorVars
      BY <2>1 DEF tensorVars, LayoutInv
    <2>2. CASE Validate
      <3>1. header \in Headers
        BY <2>2 DEF Validate, LayoutInv
      <3>2. CASE verdict' = "refused"
        BY <3>2 DEF LayoutInv
      <3>3. CASE verdict' = "taken"
        <4>1. /\ header.ndims \in 1 .. MaxDims /\ DtypeSizeBytes(header.dtype) > 0
              /\ \A i \in 1 .. header.ndims : header.dims[i] >= 0 /\ header.strides[i] >= 0
              /\ StridesConsistent(header, FilledStrides(header)) /\ ProgressValid(header, FilledStrides(header))
              /\ header' = [header EXCEPT !.strides = FilledStrides(header)]
          BY <2>2, <3>3 DEF Validate
        <4>2. TakenShape([header EXCEPT !.strides = FilledStrides(header)])
          BY <3>1, <4>1, ShapeOfTaken
        <4> DEFINE t == [header EXCEPT !.strides = FilledStrides(header)]
        <4> HIDE DEF t
        <4>3. TakenShape(t) /\ header' = t
          BY <4>1, <4>2 DEF t
        <4>4. TakenShape(header')
          BY <4>3
        <4> QED
          BY <3>3, <4>4 DEF LayoutInv
      <3> QED
        BY <2>2, <3>2, <3>3 DEF Validate
    <2> QED
      BY <2>1, <2>2
  <1>3. LayoutInv => LayoutSound
    BY TakenIsSound
  <1> QED
    BY <1>1, <1>2, <1>3, PTL

=============================================================================
