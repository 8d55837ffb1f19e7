------------------------- MODULE DriverClientProofs -------------------------
(***************************************************************************)
(* What a client believes of its lease, for any ids, grace, backoff and    *)
(* bounds on what is under way and on the faults.                          *)
(***************************************************************************)
EXTENDS DriverClient, SequenceTheorems, FiniteSetTheorems, FunctionTheorems,
        WellFoundedInduction, TLAPS

-----------------------------------------------------------------------------
(* The inductive invariant                                                 *)

\* The client: a call in progress has a correlation id and a client id, and only a
\* client without a lease asks for one.
ClientRecord ==
    [call : {"none", "sync", "async", "detach"}, corr : Nat, id : Ids \cup {0}, sent : BOOLEAN,
     lease : Nat, leaseId : Ids \cup {0}, left : 0 .. Grace, due : BOOLEAN,
     attached : BOOLEAN, mapped : Nat, wait : -1 .. 2 ^ MaxShift, failures : 0 .. MaxShift + 1]
Calling(c) == c.call \in {"sync", "async"}
OwnIds(k) == IF k = "producer" THEN {OwnId} ELSE Ids
ClientSound(c, k) ==
    /\ c \in ClientRecord
    /\ Calling(c) <=> c.corr > 0
    /\ Calling(c) => c.id \in OwnIds(k) /\ c.lease = 0
    /\ c.attached => k = "producer" /\ c.mapped # 0 /\ c.lease \in {0, c.mapped}

\* Requests name a lease of the client, if any.
RequestRecord == [what : {"ATTACH", "DETACH", "KEEPALIVE"}, corr : Nat, lease : Nat, id : Ids \cup {0}]
RequestSound(r, k) == r.what = "ATTACH" => r.corr > 0 /\ r.id \in OwnIds(k)

\* Answers to the client grant a lease of its own; a revocation is of a lease a producer
\* recognises as its own, or the rival's.
MessageRecord ==
    [template : {"ATTACH_RESPONSE", "DETACH_RESPONSE", "LEASE_REVOKED", "DRIVER_SHUTDOWN"}, frame : {"good", "newer"},
     corr : Int, code : {"none", "ok", "failed", "in use", "rejected"}, lease : Int, id : Ids \cup {0},
     role : {"none", "PRODUCER", "CONSUMER"}]
IsGrant(m) == m.template = "ATTACH_RESPONSE" /\ m.frame = "good" /\ m.code = "ok" /\ m.corr # Rival
Ends(m, n) == m.template = "LEASE_REVOKED" /\ m.lease = n
MessageSound(m, k) ==
    /\ IsGrant(m) => m.lease > 0
    /\ m.template = "LEASE_REVOKED" => m.frame = "good"
    /\ m.template = "LEASE_REVOKED" /\ m.lease # Rival /\ k = "producer" => m.id = OwnId /\ m.role = "PRODUCER"

\* A lease id names one lease of the client; the rival's have their own.
LeaseRecord == [lease : Nat \cup {Rival}, id : Ids, role : {"PRODUCER", "CONSUMER"}, left : -1 .. Grace]
LeasesSound(ls, k) ==
    /\ IsFiniteSet(ls) /\ ls \subseteq LeaseRecord
    /\ \A l \in ls : \A o \in ls : l.lease = o.lease /\ l.lease # Rival => l = o
    /\ \A l \in ls : l.lease # Rival => l.lease > 0 /\ (k = "producer" => l.id = OwnId /\ l.role = "PRODUCER")

RequestsSound(rs, k) ==
    /\ rs \in Seq(RequestRecord) /\ Len(rs) <= MaxRequests
    /\ \A i \in DOMAIN rs : RequestSound(rs[i], k)

InboxSound(box, k) ==
    /\ box \in Seq(MessageRecord) /\ Len(box) <= MaxInbox
    /\ \A i \in DOMAIN box : MessageSound(box[i], k)

\* Lease n is one of ls, or its end was missed, or waits in the inbox after place k.
Told(n, k, box, ls, missed) ==
    \/ \E l \in ls : l.lease = n
    \/ n \in missed
    \/ \E j \in DOMAIN box : j > k /\ Ends(box[j], n)

\* So it is for the lease of the client, and for those it is about to be granted.
Backed(lease, box, ls, missed) ==
    /\ lease # 0 => Told(lease, 0, box, ls, missed)
    /\ \A i \in DOMAIN box : IsGrant(box[i]) => Told(box[i].lease, i, box, ls, missed)

\* The inductive invariant.
IInv ==
    /\ kind \in {"producer", "direct"} /\ faults \in 0 .. MaxFaults
    /\ ClientSound(client, kind) /\ RequestsSound(requests, kind) /\ InboxSound(inbox, kind)
    /\ LeasesSound(leases, kind) /\ Backed(client.lease, inbox, leases, unheard)

-----------------------------------------------------------------------------
(* Sequences, sets and numbers                                             *)

\* A sequence with another one after it.
LEMMA Joined ==
    ASSUME NEW S, NEW s \in Seq(S), NEW t \in Seq(S)
    PROVE  /\ s \o t \in Seq(S) /\ Len(s \o t) = Len(s) + Len(t) /\ Len(s) \in Nat /\ Len(t) \in Nat
           /\ DOMAIN (s \o t) = 1 .. Len(s) + Len(t) /\ DOMAIN s = 1 .. Len(s) /\ DOMAIN t = 1 .. Len(t)
           /\ \A i \in DOMAIN s : i \in DOMAIN (s \o t) /\ (s \o t)[i] = s[i]
           /\ \A j \in DOMAIN t : /\ Len(s) + j \in DOMAIN (s \o t) /\ (s \o t)[Len(s) + j] = t[j]
           /\ \A i \in DOMAIN (s \o t) : i \in DOMAIN s \/ \E j \in DOMAIN t : i = Len(s) + j
  <1> DEFINE n == Len(s)
             m == Len(t)
             u == s \o t
  <1>1. /\ u \in Seq(S) /\ Len(u) = n + m /\ n \in Nat /\ m \in Nat
        /\ DOMAIN u = 1 .. n + m /\ DOMAIN s = 1 .. n /\ DOMAIN t = 1 .. m
        /\ \A i \in 1 .. n + m : u[i] = IF i <= n THEN s[i] ELSE t[i - n]
    BY ConcatProperties, LenProperties
  <1> HIDE DEF n, m, u
  <1>2. \A i \in 1 .. n : i \in 1 .. n + m /\ u[i] = s[i]
    BY <1>1
  <1>3. \A j \in 1 .. m : n + j \in 1 .. n + m /\ u[n + j] = t[j]
    <2> TAKE j \in 1 .. m
    <2>1. n + j \in 1 .. n + m /\ ~(n + j <= n) /\ (n + j) - n = j
      BY <1>1
    <2> QED BY <1>1, <2>1
  <1>4. \A i \in 1 .. n + m : i \in 1 .. n \/ \E j \in 1 .. m : i = n + j
    <2> TAKE i \in 1 .. n + m
    <2>1. CASE i > n
      <3>1. i - n \in 1 .. m /\ i = n + (i - n)
        BY <1>1, <2>1
      <3> QED BY <3>1
    <2> QED BY <1>1, <2>1
  <1> QED BY <1>1, <1>2, <1>3, <1>4 DEF n, m, u

\* A sequence with one element at its end.
LEMMA Added ==
    ASSUME NEW S, NEW s \in Seq(S), NEW x \in S
    PROVE  /\ <<x>> \in Seq(S) /\ Len(<<x>>) = 1 /\ DOMAIN <<x>> = {1} /\ <<x>>[1] = x
           /\ Append(s, x) = s \o <<x>>
  <1>1. <<x>> \in Seq(S) /\ Len(<<x>>) = 1 /\ DOMAIN <<x>> = {1} /\ <<x>>[1] = x
    OBVIOUS
  <1>2. Append(s, x) = s \o <<x>>
    BY AppendIsConcat
  <1> QED BY <1>1, <1>2

\* A sequence without one of its elements.
LEMMA Dropped ==
    ASSUME NEW S, NEW s \in Seq(S), NEW k \in DOMAIN s
    PROVE  /\ RemoveAt(s, k) \in Seq(S) /\ Len(RemoveAt(s, k)) = Len(s) - 1
           /\ \A i \in DOMAIN RemoveAt(s, k) : \E j \in DOMAIN s : RemoveAt(s, k)[i] = s[j]
           /\ \A j \in DOMAIN s : j # k => \E i \in DOMAIN RemoveAt(s, k) : RemoveAt(s, k)[i] = s[j]
  <1> DEFINE n == Len(s)
             a == SubSeq(s, 1, k - 1)
             b == SubSeq(s, k + 1, n)
             t == RemoveAt(s, k)
  <1>n. n \in Nat /\ k \in Nat /\ k <= n /\ k >= 1 /\ DOMAIN s = 1 .. n /\ \A i \in 1 .. n : s[i] \in S
    BY LenProperties
  <1>a. a \in Seq(S) /\ Len(a) = k - 1 /\ DOMAIN a = 1 .. k - 1 /\ \A i \in 1 .. k - 1 : a[i] = s[i]
    <2>1. 1 \in Int /\ k - 1 \in Int /\ \A i \in 1 .. k - 1 : s[i] \in S
      BY <1>n
    <2>2. /\ a \in Seq(S) /\ Len(a) = (IF 1 <= k - 1 THEN k - 1 - 1 + 1 ELSE 0)
          /\ \A i \in 1 .. k - 1 - 1 + 1 : a[i] = s[1 + i - 1]
      BY <2>1, SubSeqProperties
    <2>3. \A i \in 1 .. k - 1 : 1 + i - 1 = i
      BY <1>n
    <2>4. k - 1 - 1 + 1 = k - 1 /\ Len(a) = k - 1
      BY <1>n, <2>2
    <2> QED BY <2>2, <2>3, <2>4, LenProperties
  <1>b. b \in Seq(S) /\ Len(b) = n - k /\ DOMAIN b = 1 .. n - k /\ \A i \in 1 .. n - k : b[i] = s[i + k]
    <2>1. k + 1 \in Int /\ n \in Int /\ \A i \in k + 1 .. n : s[i] \in S
      BY <1>n
    <2>2. /\ b \in Seq(S) /\ Len(b) = (IF k + 1 <= n THEN n - (k + 1) + 1 ELSE 0)
          /\ \A i \in 1 .. n - (k + 1) + 1 : b[i] = s[(k + 1) + i - 1]
      BY <2>1, SubSeqProperties
    <2>3. \A i \in 1 .. n - k : (k + 1) + i - 1 = i + k
      BY <1>n
    <2>4. n - (k + 1) + 1 = n - k /\ Len(b) = n - k
      BY <1>n, <2>2
    <2> QED BY <2>2, <2>3, <2>4, LenProperties
  <1>t. t = a \o b
    BY DEF RemoveAt
  <1> HIDE DEF a, b, t, n
  <1>1. /\ t \in Seq(S) /\ Len(t) = Len(a) + Len(b)
        /\ \A i \in DOMAIN a : i \in DOMAIN t /\ t[i] = a[i]
        /\ \A j \in DOMAIN b : Len(a) + j \in DOMAIN t /\ t[Len(a) + j] = b[j]
        /\ \A i \in DOMAIN t : i \in DOMAIN a \/ \E j \in DOMAIN b : i = Len(a) + j
    <2>1. a \in Seq(S) /\ b \in Seq(S)
      BY <1>a, <1>b
    <2> QED BY <1>t, <2>1, Joined
  <1>2. Len(t) = n - 1
    BY <1>n, <1>a, <1>b, <1>1
  <1>3. \A i \in DOMAIN t : \E j \in 1 .. n : t[i] = s[j]
    <2> TAKE i \in DOMAIN t
    <2>1. CASE i \in DOMAIN a
      <3>1. i \in 1 .. n /\ t[i] = s[i]
        BY <1>n, <1>a, <1>1, <2>1
      <3> QED BY <3>1
    <2>2. ASSUME NEW j \in DOMAIN b, i = Len(a) + j PROVE \E o \in 1 .. n : t[i] = s[o]
      <3>1. j + k \in 1 .. n /\ t[i] = s[j + k]
        BY <1>n, <1>b, <1>1, <2>2
      <3> QED BY <3>1
    <2> QED BY <1>1, <2>1, <2>2
  <1>4. \A j \in 1 .. n : j # k => \E i \in DOMAIN t : t[i] = s[j]
    <2> SUFFICES ASSUME NEW j \in 1 .. n, j # k PROVE \E i \in DOMAIN t : t[i] = s[j]
      OBVIOUS
    <2>1. CASE j < k
      <3>1. j \in DOMAIN a
        BY <1>n, <1>a, <2>1
      <3> QED BY <1>a, <1>1, <3>1
    <2>2. CASE ~(j < k)
      <3>1. j - k \in DOMAIN b /\ (j - k) + k = j
        BY <1>n, <1>b, <2>2
      <3>2. t[Len(a) + (j - k)] = s[j] /\ Len(a) + (j - k) \in DOMAIN t
        BY <1>b, <1>1, <3>1
      <3> QED BY <3>2
    <2> QED BY <2>1, <2>2
  <1> QED BY <1>n, <1>1, <1>2, <1>3, <1>4 DEF t, n

\* SetToSeq lists the elements of a finite set.
LEMMA Listed ==
    ASSUME NEW S, IsFiniteSet(S)
    PROVE  /\ SetToSeq(S) \in Seq(S) /\ DOMAIN SetToSeq(S) = 1 .. Len(SetToSeq(S))
           /\ \A x \in S : \E i \in DOMAIN SetToSeq(S) : SetToSeq(S)[i] = x
  <1> DEFINE n == Cardinality(S)
             f == SetToSeq(S)
  <1>1. n \in Nat /\ ExistsBijection(1 .. n, S)
    BY FS_CardinalityType
  <1>2. \E g \in [1 .. n -> S] : IsInjective(g)
    BY <1>1 DEF ExistsBijection, Bijection, Injection
  <1>3. f \in [1 .. n -> S] /\ IsInjective(f)
    BY <1>2 DEF SetToSeq
  <1>4. f \in Injection(1 .. n, S)
    BY <1>3 DEF Injection
  <1>5. Cardinality(1 .. n) = n
    <2>1. 1 \in Int /\ n \in Int
      BY <1>1
    <2>2. Cardinality(1 .. n) = IF 1 > n THEN 0 ELSE n - 1 + 1
      BY <2>1, FS_Interval
    <2> QED BY <1>1, <2>2
  <1>6. f \in Surjection(1 .. n, S)
    BY <1>4, <1>5, FS_Injection
  <1> HIDE DEF f, n
  <1>7. \A x \in S : \E i \in 1 .. n : f[i] = x
    BY <1>6 DEF Surjection
  <1>8. f \in Seq(S) /\ DOMAIN f = 1 .. n /\ Len(f) = n
    <2>1. f \in Seq(S)
      BY <1>1, <1>3
    <2>2. DOMAIN f = 1 .. Len(f) /\ DOMAIN f = 1 .. n /\ Len(f) \in Nat
      BY <1>3, <2>1, LenProperties
    <2>3. (Len(f) >= 1 => Len(f) \in 1 .. n) /\ (n >= 1 => n \in 1 .. Len(f))
      BY <1>1, <2>2
    <2>4. Len(f) = n
      <3>1. PICK l \in Nat : l = Len(f)
        BY <2>2
      <3>2. (l >= 1 => l <= n) /\ (n >= 1 => n <= l)
        BY <1>1, <2>3, <3>1
      <3>3. l = n
        BY <1>1, <3>2
      <3> QED BY <3>1, <3>3
    <2> QED BY <2>1, <2>2, <2>4
  <1> QED BY <1>7, <1>8 DEF f

\* A number drawn is in no use.
LEMMA Fresh ==
    ASSUME NEW S, IsFiniteSet(S)
    PROVE  Unused(S) \in Nat \ {0} /\ Unused(S) \notin S
  <1> DEFINE n == Cardinality(S)
             T == 1 .. n + 1
  <1>1. n \in Nat
    BY FS_CardinalityType
  <1>2. Cardinality(T) = n + 1
    <2>1. 1 \in Int /\ n + 1 \in Int
      BY <1>1
    <2>2. Cardinality(T) = IF 1 > n + 1 THEN 0 ELSE (n + 1) - 1 + 1
      BY <2>1, FS_Interval
    <2> QED BY <1>1, <2>2
  <1>3. \E x \in T : x \notin S
    <2> SUFFICES ASSUME T \subseteq S PROVE FALSE
      OBVIOUS
    <2>1. Cardinality(T) <= n
      BY FS_Subset
    <2> QED BY <1>1, <1>2, <2>1
  <1>4. Unused(S) \in T /\ Unused(S) \notin S
    BY <1>3 DEF Unused
  <1> QED BY <1>1, <1>4

\* The values of a finite function are finitely many.
LEMMA FiniteValues ==
    ASSUME NEW D, IsFiniteSet(D), NEW f, DOMAIN f = D
    PROVE  IsFiniteSet({f[i] : i \in D})
  <1> DEFINE T == {f[i] : i \in D}
             g == [i \in D |-> f[i]]
  <1>1. g \in Surjection(D, T)
    BY Fun_IsSurj
  <1> QED BY <1>1, FS_Surjection

\* Powers of two grow.
LEMMA PowersGrow ==
    ASSUME NEW m \in Nat, NEW n \in Nat, m <= n
    PROVE  2 ^ m \in Nat \ {0} /\ 2 ^ m <= 2 ^ n /\ 2 ^ n \in Nat
  <1>1. \A k \in Nat : IsFiniteSet(1 .. k) /\ Cardinality(1 .. k) = k
    <2> TAKE k \in Nat
    <2>1. 1 \in Int /\ k \in Int
      OBVIOUS
    <2>2. IsFiniteSet(1 .. k) /\ Cardinality(1 .. k) = IF 1 > k THEN 0 ELSE k - 1 + 1
      BY <2>1, FS_Interval
    <2> QED BY <2>2
  <1>2. \A k \in Nat : IsFiniteSet(SUBSET (1 .. k)) /\ Cardinality(SUBSET (1 .. k)) = 2 ^ k
    BY <1>1, FS_SUBSET
  <1>3. \A k \in Nat : Cardinality(SUBSET (1 .. k)) \in Nat
    BY <1>2, FS_CardinalityType
  <1>4. SUBSET (1 .. m) \in SUBSET (SUBSET (1 .. n))
    <2>1. 1 .. m \subseteq 1 .. n
      OBVIOUS
    <2> QED BY <2>1
  <1>5. Cardinality(SUBSET (1 .. m)) <= Cardinality(SUBSET (1 .. n))
    BY <1>2, <1>4, FS_Subset
  <1>6. Cardinality(SUBSET (1 .. m)) # 0
    <2>1. {} \in SUBSET (1 .. m)
      OBVIOUS
    <2> QED BY <1>2, <2>1, FS_EmptySet
  <1> QED BY <1>2, <1>3, <1>5, <1>6

\* A set of places in a sequence has a first and a last one.
LEMMA FirstAndLast ==
    ASSUME NEW n \in Nat, NEW S \in SUBSET (1 .. n), S # {}
    PROVE  Min(S) \in S /\ Max(S) \in S
  <1> DEFINE R == OpToRel(<, Nat)
  <1>1. IsWellFoundedOn(R, Nat)
    BY NatLessThanWellFounded
  <1>2. \A j, k \in Nat : j < k => <<j, k>> \in R
    BY DEF OpToRel
  <1> HIDE DEF R
  <1>3. \A T \in SUBSET Nat : T # {} => \E k \in T : \A j \in T : ~(j < k)
    <2> SUFFICES ASSUME NEW T \in SUBSET Nat, T # {} PROVE \E k \in T : \A j \in T : ~(j < k)
      OBVIOUS
    <2>1. PICK k \in T : \A j \in T : ~(<<j, k>> \in R)
      BY <1>1, WFMin
    <2> QED BY <1>2, <2>1
  <1>4. \E k \in S : \A j \in S : k <= j
    BY <1>3
  <1>5. \E k \in S : \A j \in S : k >= j
    <2> DEFINE T == {n - j : j \in S}
    <2>1. T \subseteq Nat /\ T # {}
      <3>1. \A j \in 1 .. n : n - j \in Nat
        OBVIOUS
      <3> QED BY <3>1
    <2>2. \E k \in T : \A j \in T : ~(j < k)
      BY <1>3, <2>1
    <2>3. PICK k \in S : \A j \in S : ~(n - j < n - k)
      BY <2>2
    <2> QED BY <2>3
  <1>6. Min(S) \in S
    BY <1>4 DEF Min
  <1>7. Max(S) \in S
    BY <1>5 DEF Max
  <1> QED BY <1>6, <1>7
-----------------------------------------------------------------------------
(* Steps of the invariant's parts                                          *)

\* What waits and what is under way is typed.
LEMMA Typed ==
    ASSUME IInv
    PROVE  /\ DOMAIN inbox = 1 .. Len(inbox) /\ Len(inbox) \in Nat /\ inbox \in Seq(MessageRecord)
           /\ \A i \in DOMAIN inbox : inbox[i] \in MessageRecord /\ MessageSound(inbox[i], kind)
           /\ DOMAIN requests = 1 .. Len(requests) /\ Len(requests) \in Nat /\ requests \in Seq(RequestRecord)
           /\ \A i \in DOMAIN requests : requests[i] \in RequestRecord /\ RequestSound(requests[i], kind)
           /\ client \in ClientRecord /\ client.lease \in Nat
           /\ IsFiniteSet(leases) /\ \A l \in leases : l \in LeaseRecord
  <1>1. inbox \in Seq(MessageRecord) /\ requests \in Seq(RequestRecord)
    BY DEF IInv, InboxSound, RequestsSound
  <1>2. DOMAIN inbox = 1 .. Len(inbox) /\ Len(inbox) \in Nat /\ \A i \in 1 .. Len(inbox) : inbox[i] \in MessageRecord
    BY <1>1, LenProperties
  <1>3. /\ DOMAIN requests = 1 .. Len(requests) /\ Len(requests) \in Nat
        /\ \A i \in 1 .. Len(requests) : requests[i] \in RequestRecord
    BY <1>1, LenProperties
  <1>4. client \in ClientRecord /\ client.lease \in Nat
    BY DEF IInv, ClientSound, ClientRecord
  <1> QED BY <1>1, <1>2, <1>3, <1>4 DEF IInv, InboxSound, RequestsSound, LeasesSound

\* A correlation id drawn is a positive number.
LEMMA NextCorrelation ==
    ASSUME IInv PROVE NextCorrelationId \in Nat \ {0}
  <1> DEFINE I == {inbox[i].corr : i \in DOMAIN inbox}
             R == {requests[i].corr : i \in DOMAIN requests}
             f == [i \in DOMAIN inbox |-> inbox[i].corr]
             g == [i \in DOMAIN requests |-> requests[i].corr]
  <1>1. IsFiniteSet(DOMAIN inbox) /\ IsFiniteSet(DOMAIN requests)
    <2>1. 1 \in Int /\ Len(inbox) \in Int /\ Len(requests) \in Int
      BY Typed
    <2>2. IsFiniteSet(1 .. Len(inbox)) /\ IsFiniteSet(1 .. Len(requests))
      BY <2>1, FS_Interval
    <2> QED BY <2>2, Typed
  <1>2. IsFiniteSet({f[i] : i \in DOMAIN inbox}) /\ IsFiniteSet({g[i] : i \in DOMAIN requests})
    BY <1>1, FiniteValues
  <1>3. I = {f[i] : i \in DOMAIN inbox} /\ R = {g[i] : i \in DOMAIN requests}
    OBVIOUS
  <1>4. IsFiniteSet((I \cup R) \cup {client.corr})
    BY <1>2, <1>3, FS_Union, FS_Singleton
  <1>5. NextCorrelationId = Unused((I \cup R) \cup {client.corr})
    BY DEF NextCorrelationId, InUseBy
  <1> HIDE DEF I, R
  <1> QED BY <1>4, <1>5, Fresh

\* A lease id drawn is a positive number that no lease has.
LEMMA NextLease ==
    ASSUME IInv PROVE NextLeaseId \in Nat \ {0} /\ \A l \in leases : l.lease # NextLeaseId
  <1> DEFINE I == {inbox[i].lease : i \in DOMAIN inbox}
             R == {requests[i].lease : i \in DOMAIN requests}
             L == {l.lease : l \in leases}
             f == [i \in DOMAIN inbox |-> inbox[i].lease]
             g == [i \in DOMAIN requests |-> requests[i].lease]
             h == [l \in leases |-> l.lease]
             C == {client.lease, client.mapped}
  <1>1. IsFiniteSet(DOMAIN inbox) /\ IsFiniteSet(DOMAIN requests)
    <2>1. 1 \in Int /\ Len(inbox) \in Int /\ Len(requests) \in Int
      BY Typed
    <2>2. IsFiniteSet(1 .. Len(inbox)) /\ IsFiniteSet(1 .. Len(requests))
      BY <2>1, FS_Interval
    <2> QED BY <2>2, Typed
  <1>2. IsFiniteSet({f[i] : i \in DOMAIN inbox}) /\ IsFiniteSet({g[i] : i \in DOMAIN requests})
    BY <1>1, FiniteValues
  <1>3. IsFiniteSet({h[l] : l \in leases})
    BY FiniteValues, Typed
  <1>4. I = {f[i] : i \in DOMAIN inbox} /\ R = {g[i] : i \in DOMAIN requests} /\ L = {h[l] : l \in leases}
    OBVIOUS
  <1>5. IsFiniteSet(C)
    <2>1. C = {client.lease} \cup {client.mapped}
      OBVIOUS
    <2>2. IsFiniteSet({client.lease})
      BY FS_Singleton
    <2>3. IsFiniteSet({client.lease} \cup {client.mapped})
      BY <2>2, FS_AddElement
    <2> QED BY <2>1, <2>3
  <1>6. IsFiniteSet(I) /\ IsFiniteSet(R) /\ IsFiniteSet(L)
    BY <1>2, <1>3, <1>4
  <1>7. NextLeaseId = Unused((I \cup R) \cup C \cup L)
    BY DEF NextLeaseId, InUseBy
  <1>8. \A l \in leases : l.lease \in L
    OBVIOUS
  <1> HIDE DEF I, R, L, C
  <1>9. IsFiniteSet((I \cup R) \cup C \cup L)
    BY <1>5, <1>6, FS_Union
  <1> QED BY <1>7, <1>8, <1>9, Fresh

\* A request is offered, or the offer fails.
LEMMA Sent ==
    ASSUME IInv, NEW r \in RequestRecord, RequestSound(r, kind), Offered(r) \/ NotOffered
    PROVE  RequestsSound(requests', kind) /\ faults' \in 0 .. MaxFaults
  <1>1. CASE Offered(r)
    <2>1. Len(requests) < MaxRequests /\ requests' = Append(requests, r) /\ faults' = faults
      BY <1>1 DEF Offered
    <2>2. requests' = requests \o <<r>> /\ <<r>> \in Seq(RequestRecord) /\ Len(<<r>>) = 1
          /\ DOMAIN <<r>> = {1} /\ <<r>>[1] = r
      BY <2>1, Added, Typed
    <2>3. /\ requests' \in Seq(RequestRecord) /\ Len(requests') = Len(requests) + 1
          /\ \A i \in DOMAIN requests : requests'[i] = requests[i]
          /\ requests'[Len(requests) + 1] = r
          /\ \A i \in DOMAIN requests' : i \in DOMAIN requests \/ i = Len(requests) + 1
      BY <2>2, Joined, Typed
    <2>4. \A i \in DOMAIN requests' : RequestSound(requests'[i], kind)
      BY <2>3, Typed
    <2>5. Len(requests') <= MaxRequests
      BY <2>1, <2>3, Typed, LeaseAssumption
    <2> QED BY <2>1, <2>3, <2>4, <2>5 DEF IInv, RequestsSound
  <1>2. CASE NotOffered
    BY <1>2, LeaseAssumption DEF NotOffered, Fault, IInv
  <1> QED BY <1>1, <1>2

\* One more fault is within the bound.
LEMMA FaultTyped ==
    ASSUME IInv, Fault PROVE faults' \in 0 .. MaxFaults
  BY LeaseAssumption DEF Fault, IInv

\* What history keeps: what the client uses or may come to use.
LEMMA MissedKept ==
    ASSUME NEW S, Missed(S), NEW n \in unheard \cup S,
           n = client'.lease \/ \E i \in DOMAIN inbox' : inbox'[i].code = "ok" /\ inbox'[i].lease = n
    PROVE  n \in unheard'
  BY DEF Missed

\* Messages are added, leases come and go: a lease that ends is missed or revoked.
LEMMA Extended ==
    ASSUME IInv, UNCHANGED kind, ClientSound(client', kind), client'.lease \in {0, client.lease},
           RequestsSound(requests', kind), LeasesSound(leases', kind), faults' \in 0 .. MaxFaults,
           NEW ms \in Seq(MessageRecord), \A j \in DOMAIN ms : MessageSound(ms[j], kind),
           inbox' = inbox \o ms, Len(inbox) + Len(ms) <= MaxInbox,
           NEW S, Missed(S) \/ (S = {} /\ unheard' = unheard),
           \A l \in leases : \/ l.lease = Rival \/ (\E o \in leases' : o.lease = l.lease) \/ l.lease \in S
                             \/ \E j \in DOMAIN ms : Ends(ms[j], l.lease),
           \A j \in DOMAIN ms : IsGrant(ms[j]) => \E o \in leases' : o.lease = ms[j].lease
    PROVE  IInv'
  <1>1. /\ inbox' \in Seq(MessageRecord) /\ Len(inbox') = Len(inbox) + Len(ms) /\ Len(inbox) \in Nat /\ Len(ms) \in Nat
        /\ DOMAIN inbox = 1 .. Len(inbox) /\ DOMAIN ms = 1 .. Len(ms)
        /\ \A i \in DOMAIN inbox : i \in DOMAIN inbox' /\ inbox'[i] = inbox[i]
        /\ \A j \in DOMAIN ms : Len(inbox) + j \in DOMAIN inbox' /\ inbox'[Len(inbox) + j] = ms[j]
        /\ \A i \in DOMAIN inbox' : i \in DOMAIN inbox \/ \E j \in DOMAIN ms : i = Len(inbox) + j
    BY Joined, Typed
  <1>2. InboxSound(inbox', kind)
    <2>1. \A i \in DOMAIN inbox' : MessageSound(inbox'[i], kind)
      BY <1>1, Typed
    <2> QED BY <1>1, <2>1 DEF InboxSound
  <1>3. ASSUME NEW n \in Nat \ {0}, NEW k \in Nat, k <= Len(inbox), Told(n, k, inbox, leases, unheard),
               n = client'.lease \/ \E i \in DOMAIN inbox' : inbox'[i].code = "ok" /\ inbox'[i].lease = n
        PROVE  Told(n, k, inbox', leases', unheard')
    <2>1. CASE n \in unheard \cup S
      <3>1. n \in unheard'
        BY <1>3, <2>1, MissedKept
      <3> QED BY <3>1 DEF Told
    <2>2. CASE \E j \in DOMAIN inbox : j > k /\ Ends(inbox[j], n)
      BY <1>1, <2>2 DEF Told
    <2>3. ASSUME NEW l \in leases, l.lease = n, n \notin S PROVE Told(n, k, inbox', leases', unheard')
      <3>1. l.lease # Rival
        BY <2>3 DEF Rival
      <3>2. CASE \E o \in leases' : o.lease = l.lease
        BY <2>3, <3>2 DEF Told
      <3>3. ASSUME NEW j \in DOMAIN ms, Ends(ms[j], l.lease) PROVE Told(n, k, inbox', leases', unheard')
        <4>1. Len(inbox) + j \in DOMAIN inbox' /\ Ends(inbox'[Len(inbox) + j], n) /\ Len(inbox) + j > k
          BY <1>1, <1>3, <2>3, <3>3
        <4> QED BY <4>1 DEF Told
      <3> QED BY <2>3, <3>1, <3>2, <3>3
    <2> QED BY <1>3, <2>1, <2>2, <2>3 DEF Told
  <1>4. client'.lease # 0 => Told(client'.lease, 0, inbox', leases', unheard')
    <2> SUFFICES ASSUME client'.lease # 0 PROVE Told(client'.lease, 0, inbox', leases', unheard')
      OBVIOUS
    <2>1. client'.lease = client.lease /\ client.lease \in Nat \ {0}
      BY Typed
    <2>2. Told(client.lease, 0, inbox, leases, unheard)
      BY <2>1 DEF IInv, Backed
    <2> QED BY <1>1, <1>3, <2>1, <2>2, SMTT(30)
  <1>5. \A i \in DOMAIN inbox' : IsGrant(inbox'[i]) => Told(inbox'[i].lease, i, inbox', leases', unheard')
    <2> SUFFICES ASSUME NEW i \in DOMAIN inbox', IsGrant(inbox'[i])
                 PROVE  Told(inbox'[i].lease, i, inbox', leases', unheard')
      OBVIOUS
    <2>1. CASE i \in DOMAIN inbox
      <3>1. inbox'[i] = inbox[i] /\ i \in Nat /\ i <= Len(inbox)
        BY <1>1, <2>1
      <3>2. inbox[i].lease \in Nat \ {0} /\ inbox[i].code = "ok"
        <4>1. inbox[i] \in MessageRecord /\ MessageSound(inbox[i], kind) /\ IsGrant(inbox[i])
          BY <2>1, <3>1, Typed
        <4>2. inbox[i].lease > 0
          BY <4>1 DEF MessageSound
        <4>3. inbox[i].lease \in Int
          BY <4>1 DEF MessageRecord
        <4>4. inbox[i].code = "ok"
          BY <4>1 DEF IsGrant
        <4> QED BY <4>2, <4>3, <4>4
      <3>3. Told(inbox[i].lease, i, inbox, leases, unheard)
        BY <2>1, <3>1 DEF IInv, Backed
      <3> QED BY <1>3, <3>1, <3>2, <3>3
    <2>2. ASSUME NEW j \in DOMAIN ms, i = Len(inbox) + j PROVE Told(inbox'[i].lease, i, inbox', leases', unheard')
      <3>1. inbox'[i] = ms[j]
        BY <1>1, <2>2
      <3> QED BY <3>1 DEF Told
    <2> QED BY <1>1, <2>1, <2>2
  <1>6. Backed(client'.lease, inbox', leases', unheard')
    BY <1>4, <1>5 DEF Backed
  <1> QED BY <1>2, <1>6 DEF IInv

\* Nothing is added to the inbox and no lease ends.
LEMMA Quiet ==
    ASSUME IInv, UNCHANGED <<kind, inbox>>, ClientSound(client', kind), client'.lease \in {0, client.lease},
           RequestsSound(requests', kind), LeasesSound(leases', kind), faults' \in 0 .. MaxFaults,
           Missed({}) \/ unheard' = unheard,
           \A l \in leases : \E o \in leases' : o.lease = l.lease
    PROVE  IInv'
  <1> DEFINE ms == <<>>
             S == {}
  <1>1. ms \in Seq(MessageRecord) /\ Len(ms) = 0 /\ DOMAIN ms = {} /\ inbox \o ms = inbox
    BY EmptySeq, ConcatEmptySeq, Typed
  <1>2. Len(inbox) + Len(ms) <= MaxInbox
    BY <1>1, Typed DEF IInv, InboxSound
  <1>3. inbox' = inbox \o ms
    BY <1>1
  <1>4. Missed(S) \/ (S = {} /\ unheard' = unheard)
    OBVIOUS
  <1> HIDE DEF ms, S
  <1> QED BY <1>1, <1>2, <1>3, <1>4, Extended

\* A poll takes everything there is: the client's lease is what it was, gone, or one
\* that was granted.
LEMMA Polled ==
    ASSUME IInv, UNCHANGED <<kind, leases>>, ClientSound(client', kind), RequestsSound(requests', kind),
           faults' \in 0 .. MaxFaults, inbox' = <<>>, Missed(Overheard),
           \/ client'.lease \in {0, client.lease}
           \/ \E i \in DOMAIN inbox : IsGrant(inbox[i]) /\ client'.lease = inbox[i].lease
    PROVE  IInv'
  <1>1. <<>> \in Seq(MessageRecord) /\ Len(<<>>) = 0 /\ DOMAIN <<>> = {} /\ 0 <= MaxInbox
    BY EmptySeq, LeaseAssumption
  <1>2. InboxSound(inbox', kind)
    BY <1>1 DEF InboxSound
  <1>3. client'.lease # 0 => \E k \in Nat : Told(client'.lease, k, inbox, leases, unheard)
    <2>1. CASE client'.lease = client.lease
      BY <2>1 DEF IInv, Backed
    <2>2. ASSUME NEW i \in DOMAIN inbox, IsGrant(inbox[i]), client'.lease = inbox[i].lease
          PROVE  \E k \in Nat : Told(client'.lease, k, inbox, leases, unheard)
      <3>1. i \in Nat
        BY Typed
      <3> QED BY <2>2, <3>1 DEF IInv, Backed
    <2> QED BY <2>1, <2>2
  <1>4. client'.lease # 0 => Told(client'.lease, 0, inbox', leases', unheard')
    <2> SUFFICES ASSUME client'.lease # 0, NEW k \in Nat, Told(client'.lease, k, inbox, leases, unheard)
                 PROVE  Told(client'.lease, 0, inbox', leases', unheard')
      BY <1>3
    <2> DEFINE n == client'.lease
    <2>1. CASE \E l \in leases : l.lease = n
      BY <2>1 DEF Told
    <2>2. CASE n \in unheard \cup Overheard
      <3>1. n \in unheard'
        BY <2>2, MissedKept
      <3> QED BY <3>1 DEF Told
    <2>3. CASE \E j \in DOMAIN inbox : j > k /\ Ends(inbox[j], n)
      <3>1. n \in Overheard
        BY <2>3 DEF Overheard, Ends
      <3> QED BY <2>2, <3>1
    <2> QED BY <2>1, <2>2, <2>3 DEF Told
  <1>5. Backed(client'.lease, inbox', leases', unheard')
    BY <1>1, <1>4 DEF Backed
  <1> QED BY <1>2, <1>5 DEF IInv
-----------------------------------------------------------------------------
(* The client's calls                                                      *)

\* A poll that finds an answer OK to the call in progress has a grant in the inbox.
LEMMA AnswerFacts ==
    ASSUME IInv, Calling(client), NEW a, a = ResponseHandler \/ a = AsyncAttachHandler, a.code = "ok"
    PROVE  \E i \in DOMAIN inbox : IsGrant(inbox[i]) /\ a.lease = inbox[i].lease /\ a.lease \in Nat \ {0}
  <1>1. client.corr > 0 /\ client.corr \in Nat
    BY Typed DEF IInv, ClientSound, ClientRecord
  <1>2. a = AsyncAttachHandler
    BY DEF ResponseHandler
  <1>3. Grants \in SUBSET (1 .. Len(inbox)) /\ Answers \in SUBSET (1 .. Len(inbox)) /\ Len(inbox) \in Nat
    BY Typed DEF Grants, Answers
  <1>4. \E i \in Answers : a = AnswerAt(i)
    <2>1. Grants # {} => Min(Grants) \in Grants
      BY <1>3, FirstAndLast
    <2>2. Answers # {} => Max(Answers) \in Answers
      BY <1>3, FirstAndLast
    <2>3. \A i \in Grants : i \in Answers
      BY DEF Grants
    <2>4. a # NoAnswer
      BY DEF NoAnswer
    <2> QED BY <1>2, <2>1, <2>2, <2>3, <2>4 DEF AsyncAttachHandler
  <1>5. PICK i \in Answers : a = AnswerAt(i)
    BY <1>4
  <1>6. i \in DOMAIN inbox /\ DecodeAttachResponse(inbox[i], client.corr) = "ok"
    BY DEF Answers
  <1>7. a.code = inbox[i].code /\ a.lease = inbox[i].lease
    BY <1>5 DEF AnswerAt
  <1>8. Decode(inbox[i], "ATTACH_RESPONSE") = "ok" /\ inbox[i].corr = client.corr
    BY <1>6 DEF DecodeAttachResponse
  <1>9. inbox[i].template = "ATTACH_RESPONSE" /\ inbox[i].frame \notin {"short", "newer", "block"}
    BY <1>8 DEF Decode
  <1>10. inbox[i] \in MessageRecord /\ MessageSound(inbox[i], kind)
    BY <1>6, Typed
  <1>11. inbox[i].frame = "good" /\ inbox[i].lease \in Int
    BY <1>9, <1>10 DEF MessageRecord
  <1>12. inbox[i].corr # Rival
    BY <1>1, <1>8 DEF Rival
  <1>13. IsGrant(inbox[i])
    BY <1>7, <1>9, <1>11, <1>12 DEF IsGrant
  <1>14. inbox[i].lease > 0
    BY <1>10, <1>13 DEF MessageSound
  <1> QED BY <1>6, <1>7, <1>11, <1>13, <1>14

\* The client after an answer: it has the lease that was granted, or none.
LEMMA AfterAnswerSound ==
    ASSUME ClientSound(client, kind), Calling(client), NEW a, a.code = "ok" => a.lease \in Nat \ {0},
           NEW c \in AfterAnswer(a), kind \in {"producer", "direct"}
    PROVE  ClientSound(c, kind) /\ (c.lease = 0 \/ (a.code = "ok" /\ c.lease = a.lease))
  <1> DEFINE done == [client EXCEPT !.call = "none", !.corr = 0, !.id = 0, !.sent = FALSE]
             leased == [UpdateLease(client, a) EXCEPT !.call = "none", !.corr = 0, !.id = 0, !.sent = FALSE]
  <1>1. /\ client \in ClientRecord /\ client.lease = 0 /\ client.id \in Ids
        /\ client.attached => kind = "producer" /\ client.mapped # 0
    BY LeaseAssumption DEF ClientSound, OwnIds
  <1>2. /\ done \in ClientRecord /\ done.call = "none" /\ done.corr = 0 /\ done.lease = 0
        /\ done.attached = client.attached /\ done.mapped = client.mapped
    BY <1>1, ZenonT(30) DEF ClientRecord
  <1>3. CASE a.code # "ok"
    <2>1. c = done
      BY <1>3 DEF AfterAnswer
    <2> HIDE DEF done
    <2>2. ~Calling(c) /\ ~(c.corr > 0)
      BY <1>2, <2>1 DEF Calling
    <2>3. c.attached => kind = "producer" /\ c.mapped # 0
      BY <1>1, <1>2, <2>1
    <2>4. c \in ClientRecord /\ c.lease = 0
      BY <1>2, <2>1
    <2> QED BY <2>2, <2>3, <2>4 DEF ClientSound
  <1>4. CASE a.code = "ok"
    <2>1. UpdateLease(client, a) = [client EXCEPT !.lease = a.lease, !.leaseId = client.id, !.left = Grace]
      BY DEF UpdateLease
    <2>2. Grace \in 0 .. Grace /\ a.lease \in Nat
      BY <1>4, LeaseAssumption
    <2>3. /\ leased \in ClientRecord /\ leased.call = "none" /\ leased.corr = 0 /\ leased.lease = a.lease
          /\ leased.attached = client.attached /\ leased.mapped = client.mapped
      BY <1>1, <2>1, <2>2, ZenonT(30) DEF ClientRecord
    <2>4. CASE kind = "direct" /\ c = leased
      <3>1. ~Calling(c) /\ ~(c.corr > 0) /\ c \in ClientRecord /\ c.lease = a.lease
        BY <2>3, <2>4 DEF Calling
      <3>2. ~c.attached
        BY <2>3, <2>4 DEF ClientSound
      <3> QED BY <1>4, <3>1, <3>2 DEF ClientSound
    <2>5. CASE kind # "direct" /\ c \in AttachConfig(leased)
      <3> DEFINE cleared == ClearReattach(leased)
      <3>1. 0 \in 0 .. MaxShift + 1 /\ -1 \in -1 .. 2 ^ MaxShift
        BY PowersGrow, LeaseAssumption
      <3> HIDE DEF leased
      <3>2. cleared = [leased EXCEPT !.wait = -1, !.failures = 0]
        BY DEF ClearReattach
      <3>3. cleared \in ClientRecord /\ cleared.call = "none" /\ cleared.corr = 0 /\ cleared.lease = a.lease
        BY <2>3, <3>1, <3>2 DEF ClientRecord
      <3> HIDE DEF cleared
      <3>4. \/ c = [cleared EXCEPT !.attached = TRUE, !.mapped = leased.lease]
            \/ c = [leased EXCEPT !.attached = FALSE, !.mapped = 0]
            \/ c = [cleared EXCEPT !.attached = FALSE, !.mapped = 0]
        BY <2>5 DEF AttachConfig, cleared
      <3>5. /\ c \in ClientRecord /\ c.call = "none" /\ c.corr = 0 /\ c.lease = a.lease
            /\ c.attached => c.mapped = a.lease
        BY <2>2, <2>3, <3>3, <3>4, ZenonT(60) DEF ClientRecord
      <3>6. ~Calling(c) /\ ~(c.corr > 0)
        BY <3>5 DEF Calling
      <3>7. kind = "producer" /\ a.lease # 0
        BY <1>4, <2>5
      <3> QED BY <1>4, <3>5, <3>6, <3>7 DEF ClientSound
    <2> QED BY <1>4, <2>4, <2>5 DEF AfterAnswer
  <1> QED BY <1>3, <1>4

\* A call starts, or asks again under another id.
LEMMA Asks ==
    ASSUME IInv, NEW c \in ClientRecord, Calling(c), c.corr \in Nat \ {0}, c.id \in OwnIds(kind),
           client.lease = 0, c.lease = 0, c.attached = client.attached, c.mapped = client.mapped
    PROVE  ClientSound(c, kind)
  <1>1. client.attached => kind = "producer" /\ client.mapped # 0
    BY DEF IInv, ClientSound
  <1>2. c.corr > 0
    OBVIOUS
  <1> QED BY <1>1, <1>2 DEF ClientSound

\* An attach request names the id of the call.
LEMMA AttachRequest ==
    ASSUME NEW corr \in Nat \ {0}, NEW id \in OwnIds(kind)
    PROVE  /\ Request("ATTACH", corr, 0, id) \in RequestRecord
           /\ RequestSound(Request("ATTACH", corr, 0, id), kind)
  <1>1. id \in Ids
    BY LeaseAssumption DEF OwnIds
  <1> QED BY <1>1 DEF Request, RequestRecord, RequestSound

\* The other requests.
LEMMA OtherRequest ==
    ASSUME NEW what \in {"DETACH", "KEEPALIVE"}, NEW lease \in Nat, NEW id \in Ids \cup {0}
    PROVE  /\ Request(what, 0, lease, id) \in RequestRecord
           /\ RequestSound(Request(what, 0, lease, id), kind)
  BY DEF Request, RequestRecord, RequestSound

\* tp_driver_attach and tp_driver_attach_async start a call.
LEMMA AttachStep ==
    ASSUME IInv, Attach \/ AttachAsync PROVE IInv'
  <1> DEFINE n == NextCorrelationId
  <1>1. n \in Nat \ {0}
    BY NextCorrelation
  <1>2. client \in ClientRecord /\ client.lease = 0 /\ UNCHANGED <<inbox, leases, kind, unheard>>
    BY Typed DEF Attach, AttachAsync, MayAttach
  <1>3. PICK id \in RequestIds, call \in {"sync", "async"} :
          /\ client' = [client EXCEPT !.call = call, !.corr = n, !.id = id]
          /\ \/ Offered(Request("ATTACH", n, 0, id)) \/ NotOffered
             \/ UNCHANGED <<requests, faults>>
    BY DEF Attach, AttachAsync
  <1> HIDE DEF n
  <1>4. id \in OwnIds(kind) /\ id \in Ids
    BY LeaseAssumption DEF RequestIds, OwnIds
  <1>5. /\ client' \in ClientRecord /\ client'.call \in {"sync", "async"} /\ client'.corr = n /\ client'.id = id
        /\ client'.lease = 0 /\ client'.attached = client.attached /\ client'.mapped = client.mapped
    BY <1>1, <1>2, <1>3, <1>4 DEF ClientRecord
  <1>6. ClientSound(client', kind)
    BY <1>1, <1>2, <1>4, <1>5, Asks DEF Calling
  <1>7. RequestsSound(requests', kind) /\ faults' \in 0 .. MaxFaults
    <2>1. CASE UNCHANGED <<requests, faults>>
      BY <2>1 DEF IInv
    <2>2. CASE Offered(Request("ATTACH", n, 0, id)) \/ NotOffered
      BY <1>1, <1>4, <2>2, AttachRequest, Sent
    <2> QED BY <1>3, <2>1, <2>2
  <1>8. LeasesSound(leases', kind) /\ \A l \in leases : \E o \in leases' : o.lease = l.lease
    BY <1>2 DEF IInv
  <1> QED BY <1>2, <1>5, <1>6, <1>7, <1>8, Quiet

\* An answer is found.
LEMMA AnsweredStep ==
    ASSUME IInv, AttachAnswered \/ AttachPoll PROVE IInv'
  <1>1. /\ Calling(client) /\ inbox' = <<>> /\ Missed(Overheard) /\ UNCHANGED <<leases, kind>>
        /\ ClientSound(client, kind) /\ client \in ClientRecord /\ kind \in {"producer", "direct"}
    BY Typed DEF AttachAnswered, AttachPoll, Calling, IInv
  <1>2. client.lease = 0 /\ NextCorrelationId \in Nat \ {0}
    BY <1>1, NextCorrelation DEF ClientSound
  <1>3. PICK a : /\ a = ResponseHandler \/ a = AsyncAttachHandler
                 /\ \/ client' \in AfterAnswer(a) /\ UNCHANGED <<requests, faults>>
                    \/ UNCHANGED <<client, requests, faults>>
                    \/ /\ DrawAgain(a)
                       /\ \E id \in Ids : \E sent \in BOOLEAN :
                            /\ client' = [client EXCEPT !.corr = NextCorrelationId, !.id = id, !.sent = sent]
                            /\ \/ Offered(Request("ATTACH", NextCorrelationId, 0, id)) \/ NotOffered
                               \/ UNCHANGED <<requests, faults>>
    <2>1. CASE AttachAnswered
      <3>1. \A id \in Ids : [client EXCEPT !.corr = NextCorrelationId, !.id = id]
                             = [client EXCEPT !.corr = NextCorrelationId, !.id = id, !.sent = client.sent]
            /\ client.sent \in BOOLEAN
        BY <1>1 DEF ClientRecord
      <3> QED BY <2>1, <3>1 DEF AttachAnswered
    <2>2. CASE AttachPoll
      BY <2>2 DEF AttachPoll
    <2> QED BY <2>1, <2>2
  <1>4. a.code = "ok" => \E i \in DOMAIN inbox : IsGrant(inbox[i]) /\ a.lease = inbox[i].lease /\ a.lease \in Nat \ {0}
    BY <1>1, <1>3, AnswerFacts
  <1>5. CASE client' \in AfterAnswer(a) /\ UNCHANGED <<requests, faults>>
    <2>1. ClientSound(client', kind) /\ (client'.lease = 0 \/ (a.code = "ok" /\ client'.lease = a.lease))
      BY <1>1, <1>4, <1>5, AfterAnswerSound
    <2>2. RequestsSound(requests', kind) /\ faults' \in 0 .. MaxFaults
      BY <1>5 DEF IInv
    <2> QED BY <1>1, <1>4, <2>1, <2>2, Polled
  <1>6. CASE UNCHANGED <<client, requests, faults>>
    <2>1. ClientSound(client', kind) /\ RequestsSound(requests', kind) /\ faults' \in 0 .. MaxFaults /\ client'.lease = 0
      BY <1>2, <1>6 DEF IInv
    <2> QED BY <1>1, <2>1, Polled
  <1>7. ASSUME DrawAgain(a), NEW id \in Ids, NEW sent \in BOOLEAN,
               client' = [client EXCEPT !.corr = NextCorrelationId, !.id = id, !.sent = sent],
               \/ Offered(Request("ATTACH", NextCorrelationId, 0, id)) \/ NotOffered
               \/ UNCHANGED <<requests, faults>>
        PROVE  IInv'
    <2> DEFINE n == NextCorrelationId
    <2>1. id \in OwnIds(kind) /\ n \in Nat \ {0}
      BY <1>2, <1>7 DEF DrawAgain, OwnIds
    <2>2. client' = [client EXCEPT !.corr = n, !.id = id, !.sent = sent]
      BY <1>7
    <2> HIDE DEF n
    <2>3. /\ client' \in ClientRecord /\ client'.call = client.call /\ client'.corr = n /\ client'.id = id
          /\ client'.lease = 0 /\ client'.attached = client.attached /\ client'.mapped = client.mapped
      BY <1>1, <1>2, <2>1, <2>2 DEF ClientRecord
    <2>4. ClientSound(client', kind)
      BY <1>1, <1>2, <2>1, <2>3, Asks DEF Calling
    <2>5. RequestsSound(requests', kind) /\ faults' \in 0 .. MaxFaults
      <3>1. CASE UNCHANGED <<requests, faults>>
        BY <3>1 DEF IInv
      <3>2. CASE Offered(Request("ATTACH", n, 0, id)) \/ NotOffered
        BY <2>1, <3>2, AttachRequest, Sent
      <3> QED BY <1>7, <3>1, <3>2 DEF n
    <2> QED BY <1>1, <2>3, <2>4, <2>5, Polled
  <1> QED BY <1>3, <1>5, <1>6, <1>7
\* The deadline, and another turn of the loop.
LEMMA WaitStep ==
    ASSUME IInv, AttachTimeout \/ AttachRetry PROVE IInv'
  <1>1. /\ Calling(client) /\ inbox' = <<>> /\ Missed(Overheard) /\ UNCHANGED <<leases, kind>>
        /\ ClientSound(client, kind) /\ client \in ClientRecord
    BY Typed DEF AttachTimeout, AttachRetry, Calling, IInv
  <1>2. client.lease = 0 /\ client.corr \in Nat \ {0} /\ client.id \in OwnIds(kind)
    BY <1>1 DEF ClientSound, ClientRecord
  <1>3. CASE AttachTimeout
    <2>1. client' = [client EXCEPT !.call = "none", !.corr = 0, !.id = 0] /\ requests' = requests
          /\ (faults' = faults \/ Fault)
      BY <1>3 DEF AttachTimeout
    <2>2. /\ client' \in ClientRecord /\ client'.call = "none" /\ client'.corr = 0 /\ client'.lease = 0
          /\ client'.attached = client.attached /\ client'.mapped = client.mapped
      BY <1>1, <1>2, <2>1, ZenonT(30) DEF ClientRecord
    <2>3. ClientSound(client', kind)
      <3>1. ~Calling(client') /\ ~(client'.corr > 0)
        BY <2>2 DEF Calling
      <3>2. client'.attached => kind = "producer" /\ client'.mapped # 0
        BY <1>1, <2>2 DEF ClientSound
      <3> QED BY <2>2, <3>1, <3>2 DEF ClientSound
    <2>4. RequestsSound(requests', kind) /\ faults' \in 0 .. MaxFaults
      BY <2>1, FaultTyped DEF IInv
    <2> QED BY <1>1, <2>2, <2>3, <2>4, Polled
  <1>4. CASE AttachRetry
    <2>1. client' = client /\ (Offered(Request("ATTACH", client.corr, 0, client.id)) \/ UNCHANGED <<requests, faults>>)
      BY <1>4 DEF AttachRetry
    <2>2. RequestsSound(requests', kind) /\ faults' \in 0 .. MaxFaults
      <3>1. CASE UNCHANGED <<requests, faults>>
        BY <3>1 DEF IInv
      <3>2. CASE Offered(Request("ATTACH", client.corr, 0, client.id))
        BY <1>2, <3>2, AttachRequest, Sent
      <3> QED BY <2>1, <3>1, <3>2
    <2> QED BY <1>1, <2>1, <2>2, Polled
  <1> QED BY <1>3, <1>4

\* Steps that leave the lease as it is.
LEMMA SameLease ==
    ASSUME IInv, NEW c \in ClientRecord, c.corr = client.corr, c.id = client.id, c.lease = client.lease,
           c.attached = client.attached, c.mapped = client.mapped, Calling(c) <=> Calling(client)
    PROVE  ClientSound(c, kind)
  BY DEF IInv, ClientSound

\* What is sent between calls.
LEMMA SendStep ==
    ASSUME IInv, AttachPollSend \/ DetachAsync \/ DetachActive \/ Keepalive PROVE IInv'
  <1>1. /\ client \in ClientRecord /\ client.lease \in Nat /\ client.leaseId \in Ids \cup {0}
        /\ UNCHANGED <<inbox, leases, kind, unheard>>
    BY Typed DEF AttachPollSend, DetachAsync, DetachActive, Keepalive, ClientRecord
  <1>2. Grace \in 0 .. Grace
    BY LeaseAssumption
  <1>3. /\ client' \in ClientRecord /\ client'.corr = client.corr /\ client'.id = client.id
        /\ client'.lease = client.lease /\ client'.attached = client.attached /\ client'.mapped = client.mapped
        /\ Calling(client') <=> Calling(client)
    <2>1. CASE AttachPollSend
      <3>1. client' = [client EXCEPT !.sent = TRUE]
        BY <2>1 DEF AttachPollSend
      <3> QED BY <1>1, <3>1 DEF ClientRecord, Calling
    <2>2. CASE DetachAsync
      <3>1. client.call = "none" /\ (client' = [client EXCEPT !.call = "detach", !.sent = TRUE] \/ client' = client)
        BY <2>2 DEF DetachAsync
      <3> QED BY <1>1, <3>1, ZenonT(60) DEF ClientRecord, Calling
    <2>3. CASE DetachActive
      BY <1>1, <2>3 DEF DetachActive
    <2>4. CASE Keepalive
      <3>1. client' = [client EXCEPT !.due = FALSE, !.left = Grace] \/ client' = client
        BY <2>4 DEF Keepalive
      <3> QED BY <1>1, <1>2, <3>1, ZenonT(60) DEF ClientRecord, Calling
    <2> QED BY <2>1, <2>2, <2>3, <2>4
  <1>4. PICK r \in RequestRecord : RequestSound(r, kind) /\ (Offered(r) \/ NotOffered)
    <2>1. CASE AttachPollSend
      <3>1. client.corr \in Nat \ {0} /\ client.id \in OwnIds(kind)
        BY <1>1, <2>1 DEF AttachPollSend, IInv, ClientSound, Calling, ClientRecord
      <3> QED BY <2>1, <3>1, AttachRequest DEF AttachPollSend
    <2>2. CASE DetachAsync \/ DetachActive
      <3>1. DetachRequest \in RequestRecord /\ RequestSound(DetachRequest, kind)
        BY <1>1, OtherRequest DEF DetachRequest
      <3> QED BY <2>2, <3>1 DEF DetachAsync, DetachActive
    <2>3. CASE Keepalive
      <3>1. /\ Request("KEEPALIVE", 0, client.lease, client.leaseId) \in RequestRecord
            /\ RequestSound(Request("KEEPALIVE", 0, client.lease, client.leaseId), kind)
        BY <1>1, OtherRequest
      <3> QED BY <2>3, <3>1 DEF Keepalive
    <2> QED BY <2>1, <2>2, <2>3
  <1>5. RequestsSound(requests', kind) /\ faults' \in 0 .. MaxFaults
    BY <1>4, Sent
  <1>6. ClientSound(client', kind)
    BY <1>3, SameLease
  <1>7. LeasesSound(leases', kind) /\ \A l \in leases : \E o \in leases' : o.lease = l.lease
    BY <1>1 DEF IInv
  <1> QED BY <1>1, <1>3, <1>5, <1>6, <1>7, Quiet

\* Any detach response ends the wait.
LEMMA DetachPollStep ==
    ASSUME IInv, DetachPoll PROVE IInv'
  <1>1. /\ client.call = "detach" /\ inbox' = <<>> /\ Missed(Overheard) /\ UNCHANGED <<requests, leases, kind, faults>>
        /\ client' = [client EXCEPT !.call = "none", !.sent = FALSE] \/ client' = client
        /\ client \in ClientRecord
    BY Typed DEF DetachPoll
  <1>2. /\ client' \in ClientRecord /\ client'.corr = client.corr /\ client'.id = client.id
        /\ client'.lease = client.lease /\ client'.attached = client.attached /\ client'.mapped = client.mapped
        /\ Calling(client') <=> Calling(client)
    BY <1>1, ZenonT(60) DEF ClientRecord, Calling
  <1>3. ClientSound(client', kind)
    BY <1>2, SameLease
  <1>4. RequestsSound(requests', kind) /\ faults' \in 0 .. MaxFaults
    BY <1>1 DEF IInv
  <1> QED BY <1>1, <1>2, <1>3, <1>4, Polled

\* A client that has just been opened.
LEMMA OpenedSound ==
    Opened \in ClientRecord /\ Opened.lease = 0 /\ \A k : ClientSound(Opened, k)
  <1>1. -1 \in -1 .. 2 ^ MaxShift /\ 0 \in 0 .. MaxShift + 1 /\ 0 \in 0 .. Grace
    BY PowersGrow, LeaseAssumption
  <1>2. Opened \in ClientRecord /\ Opened.call = "none" /\ Opened.corr = 0 /\ Opened.lease = 0 /\ ~Opened.attached
    BY <1>1 DEF Opened, ClientRecord
  <1>3. ~Calling(Opened) /\ ~(Opened.corr > 0)
    BY <1>2 DEF Calling
  <1> QED BY <1>2, <1>3 DEF ClientSound

\* The lease is forgotten, the client closed, or its process dies.
LEMMA EndStep ==
    ASSUME IInv, LeaseExpired \/ Close \/ Crash PROVE IInv'
  <1>1. client \in ClientRecord /\ client.lease \in Nat /\ client.leaseId \in Ids \cup {0} /\ UNCHANGED <<leases, kind>>
    BY Typed DEF LeaseExpired, Close, Crash, ClientRecord
  <1>2. LeasesSound(leases', kind) /\ \A l \in leases : \E o \in leases' : o.lease = l.lease
    BY <1>1 DEF IInv
  <1>3. CASE LeaseExpired
    <2>1. client' = [client EXCEPT !.lease = 0, !.leaseId = 0] /\ UNCHANGED <<requests, inbox, faults>> /\ Missed({})
      BY <1>3 DEF LeaseExpired
    <2>2. /\ client' \in ClientRecord /\ client'.corr = client.corr /\ client'.id = client.id /\ client'.call = client.call
          /\ client'.lease = 0 /\ client'.attached = client.attached /\ client'.mapped = client.mapped
      BY <1>1, <2>1 DEF ClientRecord
    <2>3. ClientSound(client', kind)
      BY <2>2 DEF IInv, ClientSound, Calling
    <2>4. RequestsSound(requests', kind) /\ faults' \in 0 .. MaxFaults
      BY <2>1 DEF IInv
    <2> QED BY <1>1, <1>2, <2>1, <2>2, <2>3, <2>4, Quiet
  <1>4. CASE Close
    <2>1. /\ client' = Opened /\ UNCHANGED inbox /\ Missed({})
          /\ Offered(DetachRequest) \/ NotOffered \/ UNCHANGED <<requests, faults>>
      BY <1>4 DEF Close
    <2>2. DetachRequest \in RequestRecord /\ RequestSound(DetachRequest, kind)
      BY <1>1, OtherRequest DEF DetachRequest
    <2>3. RequestsSound(requests', kind) /\ faults' \in 0 .. MaxFaults
      <3>1. CASE UNCHANGED <<requests, faults>>
        BY <3>1 DEF IInv
      <3>2. CASE Offered(DetachRequest) \/ NotOffered
        BY <2>2, <3>2, Sent
      <3> QED BY <2>1, <3>1, <3>2
    <2> QED BY <1>1, <1>2, <2>1, <2>3, OpenedSound, Quiet
  <1>5. CASE Crash
    <2>1. client' = Opened /\ inbox' = <<>> /\ Fault /\ requests' = requests /\ Missed({})
      BY <1>5 DEF Crash
    <2>2. <<>> \in Seq(MessageRecord) /\ Len(<<>>) = 0 /\ DOMAIN <<>> = {} /\ 0 <= MaxInbox
      BY EmptySeq, LeaseAssumption
    <2>3. InboxSound(inbox', kind)
      BY <2>1, <2>2 DEF InboxSound
    <2>4. Backed(client'.lease, inbox', leases', unheard')
      BY <2>1, <2>2, OpenedSound DEF Backed
    <2>5. ClientSound(client', kind) /\ faults' \in 0 .. MaxFaults
      BY <2>1, OpenedSound, FaultTyped
    <2> QED BY <1>1, <1>2, <2>1, <2>3, <2>4, <2>5 DEF IInv
  <1> QED BY <1>3, <1>4, <1>5

\* The reaction to a revocation.
LEMMA DropSound ==
    ASSUME NEW k, ClientSound(client, k)
    PROVE  ClientSound(DropLease(client), k) /\ DropLease(client).lease = 0
  <1> DEFINE b == [client EXCEPT !.attached = FALSE, !.mapped = 0, !.lease = 0, !.leaseId = 0, !.left = 0]
             w == Backoff(b.failures)
             n == IF b.failures > MaxShift THEN b.failures ELSE b.failures + 1
             c == DropLease(client)
  <1>1. 0 \in 0 .. Grace /\ client \in ClientRecord
    BY LeaseAssumption DEF ClientSound
  <1>2. /\ b \in ClientRecord /\ b.call = client.call /\ b.corr = client.corr /\ b.id = client.id /\ b.lease = 0
        /\ ~b.attached /\ b.failures \in 0 .. MaxShift + 1
    BY <1>1 DEF ClientRecord
  <1> HIDE DEF b
  <1>3. w \in -1 .. 2 ^ MaxShift
    <2> DEFINE e == IF b.failures > MaxShift THEN MaxShift ELSE b.failures
    <2>1. e \in Nat /\ e <= MaxShift /\ MaxShift \in Nat
      BY <1>2, LeaseAssumption
    <2>2. w = 2 ^ e
      BY DEF Backoff
    <2> HIDE DEF e
    <2>3. 2 ^ e \in Nat /\ 2 ^ e <= 2 ^ MaxShift /\ 2 ^ MaxShift \in Nat
      BY <2>1, PowersGrow
    <2> QED BY <2>2, <2>3
  <1>4. n \in 0 .. MaxShift + 1
    BY <1>2, LeaseAssumption
  <1>5. c = [b EXCEPT !.wait = w, !.failures = n]
    BY DEF DropLease, ScheduleReattach, b
  <1> HIDE DEF w, n, c
  <1>6. /\ c \in ClientRecord /\ c.call = client.call /\ c.corr = client.corr /\ c.id = client.id /\ c.lease = 0
        /\ ~c.attached
    BY <1>2, <1>3, <1>4, <1>5 DEF ClientRecord
  <1> QED BY <1>6 DEF ClientSound, Calling, c

\* The control poller takes the head of the inbox: a producer drops its lease when that
\* is revoked.
LEMMA ControlPollStep ==
    ASSUME IInv, ControlPoll PROVE IInv'
  <1> DEFINE m == Head(inbox)
             rest == Tail(inbox)
             S == IF kind = "direct" /\ m.template = "LEASE_REVOKED" THEN {m.lease} ELSE {}
             drops == Decode(m, "LEASE_REVOKED") = "ok" /\ Concerns(m)
  <1>1. /\ inbox # <<>> /\ client' = (IF drops THEN DropLease(client) ELSE client) /\ inbox' = rest /\ Missed(S)
        /\ UNCHANGED <<requests, leases, kind, faults>>
    BY DEF ControlPoll
  <1>2. /\ m \in MessageRecord /\ m = inbox[1] /\ rest \in Seq(MessageRecord) /\ Len(rest) = Len(inbox) - 1
        /\ DOMAIN rest = 1 .. Len(inbox) - 1 /\ Len(inbox) \in Nat /\ Len(inbox) >= 1 /\ DOMAIN inbox = 1 .. Len(inbox)
        /\ \A i \in 1 .. Len(inbox) - 1 : rest[i] = inbox[i + 1]
    BY <1>1, Typed, HeadTailProperties, LenProperties, EmptySeq
  <1>3. MessageSound(m, kind)
    BY <1>2, Typed
  <1>4. ClientSound(client, kind) /\ ClientSound(client', kind) /\ client'.lease \in {0, client.lease}
        /\ (drops => client'.lease = 0)
    BY <1>1, DropSound DEF IInv
  <1>5. \A i \in DOMAIN rest : i + 1 \in DOMAIN inbox /\ rest[i] = inbox[i + 1] /\ i \in Nat
    BY <1>2
  <1> HIDE DEF rest, m, drops, S
  <1>6. InboxSound(inbox', kind)
    <2>1. \A i \in DOMAIN rest : MessageSound(rest[i], kind)
      BY <1>5, Typed
    <2>2. Len(rest) <= MaxInbox
      BY <1>2, LeaseAssumption DEF IInv, InboxSound
    <2> QED BY <1>1, <1>2, <2>1, <2>2 DEF InboxSound
  <1>7. client'.lease # 0 => Told(client'.lease, 0, inbox', leases', unheard')
    <2> SUFFICES ASSUME client'.lease # 0 PROVE Told(client'.lease, 0, inbox', leases', unheard')
      OBVIOUS
    <2>1. client'.lease = client.lease /\ ~drops /\ Told(client.lease, 0, inbox, leases, unheard)
          /\ client.lease \in Nat \ {0}
      BY <1>4, Typed DEF IInv, Backed
    <2>2. CASE \E l \in leases : l.lease = client.lease
      BY <1>1, <2>1, <2>2 DEF Told
    <2>3. CASE client.lease \in unheard \cup S
      <3>1. client.lease \in unheard'
        BY <1>1, <2>1, <2>3, MissedKept
      <3> QED BY <2>1, <3>1 DEF Told
    <2>4. ASSUME NEW j \in DOMAIN inbox, Ends(inbox[j], client.lease)
          PROVE  Told(client'.lease, 0, inbox', leases', unheard')
      <3>1. CASE j = 1
        <4>1. m.template = "LEASE_REVOKED" /\ m.lease = client.lease /\ m.frame = "good"
          BY <1>2, <1>3, <2>4, <3>1 DEF Ends, MessageSound
        <4>2. m.lease # Rival
          BY <2>1, <4>1 DEF Rival
        <4>3. kind # "producer"
          <5> SUFFICES ASSUME kind = "producer" PROVE drops
            BY <2>1
          <5>1. Concerns(m)
            BY <1>3, <4>1, <4>2 DEF MessageSound, Concerns
          <5>2. Decode(m, "LEASE_REVOKED") = "ok"
            BY <4>1 DEF Decode
          <5> QED BY <5>1, <5>2 DEF drops
        <4>4. client.lease \in S
          BY <4>1, <4>3 DEF S, IInv
        <4> QED BY <2>3, <4>4
      <3>2. CASE j # 1
        <4>1. j - 1 \in DOMAIN rest /\ j - 1 > 0 /\ rest[j - 1] = inbox[(j - 1) + 1] /\ (j - 1) + 1 = j
          BY <1>2, <3>2
        <4>2. Ends(rest[j - 1], client.lease)
          BY <2>4, <4>1
        <4> QED BY <1>1, <2>1, <4>1, <4>2 DEF Told
      <3> QED BY <3>1, <3>2
    <2> QED BY <2>1, <2>2, <2>3, <2>4 DEF Told
  <1>8. \A i \in DOMAIN rest : IsGrant(rest[i]) => Told(rest[i].lease, i, rest, leases, unheard')
    <2> SUFFICES ASSUME NEW i \in DOMAIN rest, IsGrant(rest[i]) PROVE Told(rest[i].lease, i, rest, leases, unheard')
      OBVIOUS
    <2>1. Told(rest[i].lease, i + 1, inbox, leases, unheard)
      BY <1>5 DEF IInv, Backed
    <2>2. CASE \E l \in leases : l.lease = rest[i].lease
      BY <2>2 DEF Told
    <2>3. CASE rest[i].lease \in unheard
      <3>1. rest[i].code = "ok"
        BY DEF IsGrant
      <3>2. rest[i].lease \in unheard'
        BY <1>1, <2>3, <3>1, MissedKept
      <3> QED BY <3>2 DEF Told
    <2>4. ASSUME NEW j \in DOMAIN inbox, j > i + 1, Ends(inbox[j], rest[i].lease)
          PROVE  Told(rest[i].lease, i, rest, leases, unheard')
      <3>1. j - 1 \in DOMAIN rest /\ j - 1 > i /\ (j - 1) + 1 = j
        BY <1>2, <1>5, <2>4
      <3>2. Ends(rest[j - 1], rest[i].lease)
        BY <1>5, <2>4, <3>1
      <3> QED BY <3>1, <3>2 DEF Told
    <2> QED BY <2>1, <2>2, <2>3, <2>4 DEF Told
  <1>9. Backed(client'.lease, inbox', leases', unheard')
    BY <1>1, <1>7, <1>8 DEF Backed
  <1>10. RequestsSound(requests', kind) /\ faults' \in 0 .. MaxFaults /\ LeasesSound(leases', kind)
    BY <1>1 DEF IInv
  <1> QED BY <1>1, <1>4, <1>6, <1>9, <1>10 DEF IInv
-----------------------------------------------------------------------------
(* The driver                                                              *)

\* A client that stays as it is.
LEMMA ClientKept ==
    ASSUME IInv, UNCHANGED <<client, kind>>
    PROVE  ClientSound(client', kind) /\ client'.lease \in {0, client.lease}
  BY DEF IInv

\* What the driver sends reaches the inbox, but for one message perhaps, which is missed.
LEMMA BroadcastStep ==
    ASSUME IInv, UNCHANGED <<client, kind>>, RequestsSound(requests', kind), LeasesSound(leases', kind),
           NEW ms \in Seq(MessageRecord), \A j \in DOMAIN ms : MessageSound(ms[j], kind), Broadcast(ms),
           \A l \in leases : \/ l.lease = Rival \/ (\E o \in leases' : o.lease = l.lease)
                             \/ \E j \in DOMAIN ms : Ends(ms[j], l.lease),
           \A j \in DOMAIN ms : IsGrant(ms[j]) => \E o \in leases' : o.lease = ms[j].lease
    PROVE  IInv'
  <1>1. Len(ms) \in Nat /\ DOMAIN ms = 1 .. Len(ms) /\ Len(inbox) \in Nat
    BY LenProperties, Typed
  <1>2. ASSUME Room(Len(ms)), inbox' = inbox \o ms, UNCHANGED faults, Missed({}) PROVE IInv'
    <2>1. Len(inbox) + Len(ms) <= MaxInbox
      BY <1>2 DEF Room
    <2>2. faults' \in 0 .. MaxFaults
      BY <1>2 DEF IInv
    <2> DEFINE S == {}
    <2>3. Missed(S)
      BY <1>2
    <2> HIDE DEF S
    <2> QED BY <1>2, <2>1, <2>2, <2>3, ClientKept, Extended
  <1>3. ASSUME Fault, Room(Len(ms) - 1), NEW i \in DOMAIN ms, inbox' = inbox \o RemoveAt(ms, i),
               Missed(IF ms[i].template = "LEASE_REVOKED" THEN {ms[i].lease} ELSE {})
        PROVE  IInv'
    <2> DEFINE S == IF ms[i].template = "LEASE_REVOKED" THEN {ms[i].lease} ELSE {}
               rs == RemoveAt(ms, i)
    <2>1. /\ rs \in Seq(MessageRecord) /\ Len(rs) = Len(ms) - 1
          /\ \A j \in DOMAIN rs : \E k \in DOMAIN ms : rs[j] = ms[k]
          /\ \A k \in DOMAIN ms : k # i => \E j \in DOMAIN rs : rs[j] = ms[k]
      BY Dropped
    <2>2. Len(inbox) + Len(rs) <= MaxInbox
      BY <1>1, <1>3, <2>1 DEF Room
    <2>3. Missed(S) /\ inbox' = inbox \o rs /\ faults' \in 0 .. MaxFaults
      BY <1>3, FaultTyped
    <2>4. \A n : Ends(ms[i], n) => n \in S
      BY DEF Ends
    <2> HIDE DEF S, rs
    <2>5. \A j \in DOMAIN rs : MessageSound(rs[j], kind)
      BY <2>1
    <2>6. \A j \in DOMAIN rs : IsGrant(rs[j]) => \E o \in leases' : o.lease = rs[j].lease
      BY <2>1
    <2>7. \A l \in leases : \/ l.lease = Rival \/ (\E o \in leases' : o.lease = l.lease) \/ l.lease \in S
                            \/ \E j \in DOMAIN rs : Ends(rs[j], l.lease)
      <3> SUFFICES ASSUME NEW l \in leases, NEW k \in DOMAIN ms, Ends(ms[k], l.lease)
                   PROVE  l.lease \in S \/ \E j \in DOMAIN rs : Ends(rs[j], l.lease)
        OBVIOUS
      <3>1. CASE k = i
        BY <2>4, <3>1
      <3>2. CASE k # i
        BY <2>1, <3>2
      <3> QED BY <3>1, <3>2
    <2> QED BY <2>1, <2>2, <2>3, <2>5, <2>6, <2>7, ClientKept, Extended
  <1> QED BY <1>2, <1>3 DEF Broadcast

\* An attach response grants a lease when it says so and is not the rival's.
LEMMA ResponseSound ==
    ASSUME NEW k, NEW corr \in Int, NEW code \in {"failed", "in use", "rejected", "ok"}, NEW n \in Int,
           code = "ok" /\ corr # Rival => n > 0
    PROVE  /\ AttachResponse(corr, code, n) \in MessageRecord /\ MessageSound(AttachResponse(corr, code, n), k)
           /\ IsGrant(AttachResponse(corr, code, n)) => code = "ok" /\ corr # Rival
           /\ AttachResponse(corr, code, n).lease = n
  <1> DEFINE m == AttachResponse(corr, code, n)
  <1>1. m \in MessageRecord /\ m.lease = n /\ m.template = "ATTACH_RESPONSE" /\ m.code = code /\ m.corr = corr
    BY DEF AttachResponse, Message, MessageRecord
  <1> HIDE DEF m
  <1>2. IsGrant(m) => code = "ok" /\ corr # Rival
    BY <1>1 DEF IsGrant
  <1>3. MessageSound(m, k)
    BY <1>1, <1>2 DEF MessageSound
  <1> QED BY <1>1, <1>2, <1>3 DEF m

\* No other message grants anything.
LEMMA NoticeSound ==
    ASSUME NEW k, NEW corr \in Int, NEW m \in {DetachResponse(corr), Shutdown, Garbled}
    PROVE  m \in MessageRecord /\ MessageSound(m, k) /\ ~IsGrant(m)
  <1>1. DetachResponse(corr) \in MessageRecord /\ DetachResponse(corr).template = "DETACH_RESPONSE"
    BY DEF DetachResponse, Message, MessageRecord
  <1>2. Shutdown \in MessageRecord /\ Shutdown.template = "DRIVER_SHUTDOWN"
    BY DEF Shutdown, Message, MessageRecord
  <1>3. Garbled \in MessageRecord /\ Garbled.template = "ATTACH_RESPONSE" /\ Garbled.frame = "newer"
    BY DEF Garbled, Message, MessageRecord
  <1>4. m \in MessageRecord /\ m.template # "LEASE_REVOKED" /\ (m.template # "ATTACH_RESPONSE" \/ m.frame = "newer")
    BY <1>1, <1>2, <1>3
  <1>5. ~IsGrant(m)
    BY <1>4 DEF IsGrant
  <1> QED BY <1>4, <1>5 DEF MessageSound

\* A revocation names the lease and, to a producer, its own id.
LEMMA RevokedSound ==
    ASSUME IInv, NEW l \in leases
    PROVE  /\ Revoked(l) \in MessageRecord /\ MessageSound(Revoked(l), kind) /\ ~IsGrant(Revoked(l))
           /\ Ends(Revoked(l), l.lease)
  <1>1. l.lease \in Int /\ l.id \in Ids /\ l.role \in {"PRODUCER", "CONSUMER"}
    BY Typed DEF LeaseRecord, Rival
  <1>2. l.lease # Rival /\ kind = "producer" => l.id = OwnId /\ l.role = "PRODUCER"
    BY DEF IInv, LeasesSound
  <1>3. /\ Revoked(l) \in MessageRecord /\ Revoked(l).template = "LEASE_REVOKED" /\ Revoked(l).frame = "good"
        /\ Revoked(l).lease = l.lease /\ Revoked(l).id = l.id /\ Revoked(l).role = l.role
    BY <1>1 DEF Revoked, Message, MessageRecord
  <1> QED BY <1>2, <1>3 DEF MessageSound, IsGrant, Ends

\* The request at the head is taken.
LEMMA Taken ==
    ASSUME IInv, requests # <<>>, requests' = Tail(requests)
    PROVE  /\ RequestsSound(requests', kind) /\ Head(requests) \in RequestRecord /\ RequestSound(Head(requests), kind)
  <1>1. /\ Head(requests) \in RequestRecord /\ Head(requests) = requests[1] /\ requests' \in Seq(RequestRecord)
        /\ Len(requests') = Len(requests) - 1 /\ DOMAIN requests' = 1 .. Len(requests) - 1
        /\ Len(requests) \in Nat /\ Len(requests) >= 1 /\ DOMAIN requests = 1 .. Len(requests)
        /\ \A i \in 1 .. Len(requests) - 1 : requests'[i] = requests[i + 1]
    BY Typed, HeadTailProperties, LenProperties, EmptySeq
  <1>2. \A i \in DOMAIN requests' : i + 1 \in DOMAIN requests /\ requests'[i] = requests[i + 1]
    BY <1>1
  <1>3. \A i \in DOMAIN requests' : RequestSound(requests'[i], kind)
    BY <1>2, Typed
  <1>4. Len(requests') <= MaxRequests
    BY <1>1, LeaseAssumption DEF IInv, RequestsSound
  <1>5. RequestSound(Head(requests), kind)
    BY <1>1, Typed
  <1> QED BY <1>1, <1>3, <1>4, <1>5 DEF RequestsSound

\* Fewer leases.
LEMMA FewerLeases ==
    ASSUME IInv, NEW ls, ls \subseteq leases PROVE LeasesSound(ls, kind)
  <1>1. IsFiniteSet(ls)
    BY FS_Subset, Typed
  <1> QED BY <1>1 DEF IInv, LeasesSound

\* One more, of an id of its own or the rival's.
LEMMA MoreLeases ==
    ASSUME IInv, NEW l \in LeaseRecord,
           l.lease # Rival => /\ l.lease > 0 /\ \A o \in leases : o.lease # l.lease
                              /\ kind = "producer" => l.id = OwnId /\ l.role = "PRODUCER"
    PROVE  LeasesSound(leases \cup {l}, kind)
  <1>1. IsFiniteSet(leases \cup {l})
    BY FS_AddElement, Typed
  <1> QED BY <1>1 DEF IInv, LeasesSound

\* One message as a sequence.
LEMMA OneMessage ==
    ASSUME NEW m \in MessageRecord
    PROVE  <<m>> \in Seq(MessageRecord) /\ Len(<<m>>) = 1 /\ DOMAIN <<m>> = {1} /\ <<m>>[1] = m
  OBVIOUS

\* Two messages.
LEMMA TwoMessages ==
    ASSUME NEW m \in MessageRecord, NEW n \in MessageRecord
    PROVE  /\ <<m, n>> \in Seq(MessageRecord) /\ Len(<<m, n>>) = 2 /\ DOMAIN <<m, n>> = {1, 2}
           /\ <<m, n>>[1] = m /\ <<m, n>>[2] = n
  OBVIOUS

\* A request to attach is refused, granted or fails.
LEMMA HandleAttachStep ==
    ASSUME IInv, UNCHANGED <<client, kind>>, NEW r \in RequestRecord, RequestSound(r, kind), r.what = "ATTACH",
           RequestsSound(requests', kind), HandleAttach(r)
    PROVE  IInv'
  <1>1. 0 \in Int /\ r.corr \in Int /\ r.corr # Rival /\ r.id \in OwnIds(kind) /\ r.id \in Ids
    BY LeaseAssumption DEF RequestRecord, RequestSound, Rival, OwnIds
  <1>2. ASSUME Refusal(r) # "none", Broadcast(<<AttachResponse(r.corr, Refusal(r), 0)>>), UNCHANGED leases PROVE IInv'
    <2>1. PICK code \in {"failed", "in use", "rejected", "ok"} : code = Refusal(r) /\ code # "ok"
      BY <1>2 DEF Refusal
    <2> DEFINE m == AttachResponse(r.corr, code, 0)
    <2>2. m \in MessageRecord /\ MessageSound(m, kind) /\ ~IsGrant(m)
      BY <1>1, <2>1, ResponseSound
    <2>3. LeasesSound(leases', kind) /\ Broadcast(<<m>>)
      BY <1>2, <2>1 DEF IInv
    <2> HIDE DEF m
    <2>4. <<m>> \in Seq(MessageRecord) /\ DOMAIN <<m>> = {1} /\ <<m>>[1] = m
      BY <2>2, OneMessage
    <2>5. PICK ms : ms = <<m>>
      OBVIOUS
    <2> QED BY <1>2, <2>2, <2>3, <2>4, <2>5, BroadcastStep
  <1>3. ASSUME leases' = leases \cup {[lease |-> NextLeaseId, id |-> r.id, role |-> Role, left |-> Grace]},
               Broadcast(<<AttachResponse(r.corr, "ok", NextLeaseId)>>)
        PROVE  IInv'
    <2>1. PICK n \in Nat \ {0} : n = NextLeaseId /\ \A l \in leases : l.lease # n
      BY NextLease
    <2> DEFINE m == AttachResponse(r.corr, "ok", n)
               l == [lease |-> n, id |-> r.id, role |-> Role, left |-> Grace]
    <2>2. m \in MessageRecord /\ MessageSound(m, kind) /\ m.lease = n
      <3>1. n \in Int /\ n > 0 /\ "ok" \in {"failed", "in use", "rejected", "ok"}
        OBVIOUS
      <3> QED BY <1>1, <3>1, ResponseSound
    <2>3. l \in LeaseRecord /\ l.lease = n /\ l.id = r.id /\ l.role = Role
      <3>1. Role \in {"PRODUCER", "CONSUMER"} /\ Grace \in -1 .. Grace
        BY LeaseAssumption DEF Role
      <3> QED BY <1>1, <3>1 DEF LeaseRecord
    <2>4. leases' = leases \cup {l} /\ Broadcast(<<m>>)
      BY <1>3, <2>1
    <2> HIDE DEF m, l
    <2>5. kind = "producer" => l.id = OwnId /\ l.role = "PRODUCER"
      BY <1>1, <2>3 DEF OwnIds, Role
    <2>6. LeasesSound(leases', kind)
      BY <2>1, <2>3, <2>4, <2>5, MoreLeases
    <2>7. <<m>> \in Seq(MessageRecord) /\ DOMAIN <<m>> = {1} /\ <<m>>[1] = m
      BY <2>2, OneMessage
    <2>8. PICK ms : ms = <<m>>
      OBVIOUS
    <2> QED BY <2>2, <2>3, <2>4, <2>6, <2>7, <2>8, BroadcastStep
  <1>4. ASSUME Fault, Room(1), inbox' = Append(inbox, AttachResponse(r.corr, "failed", 0)), UNCHANGED leases, Missed({})
        PROVE  IInv'
    <2> DEFINE m == AttachResponse(r.corr, "failed", 0)
    <2>1. m \in MessageRecord /\ MessageSound(m, kind) /\ ~IsGrant(m)
      <3>1. 0 \in Int /\ "failed" \in {"failed", "in use", "rejected", "ok"} /\ "failed" # "ok"
        OBVIOUS
      <3> QED BY <1>1, <3>1, ResponseSound
    <2>2. inbox' = Append(inbox, m)
      BY <1>4
    <2> HIDE DEF m
    <2>3. inbox' = inbox \o <<m>> /\ <<m>> \in Seq(MessageRecord) /\ DOMAIN <<m>> = {1} /\ <<m>>[1] = m /\ Len(<<m>>) = 1
      BY <2>1, <2>2, Added, Typed
    <2>4. LeasesSound(leases', kind) /\ faults' \in 0 .. MaxFaults
      BY <1>4, FaultTyped DEF IInv
    <2>5. PICK ms : ms = <<m>>
      OBVIOUS
    <2>6. Len(inbox) + Len(ms) <= MaxInbox
      BY <1>4, <2>3, <2>5 DEF Room
    <2>7. PICK S : S = {}
      OBVIOUS
    <2>8. Missed(S)
      BY <1>4, <2>7
    <2> QED BY <1>4, <2>1, <2>3, <2>4, <2>5, <2>6, <2>8, ClientKept, Extended
  <1> QED BY <1>2, <1>3, <1>4 DEF HandleAttach

\* A lease that is found goes, and is revoked.
LEMMA HandleDetachStep ==
    ASSUME IInv, UNCHANGED <<client, kind>>, NEW r \in RequestRecord, RequestsSound(requests', kind), HandleDetach(r)
    PROVE  IInv'
  <1> DEFINE found == {l \in leases : l.lease = r.lease /\ l.id = r.id /\ l.role = Role}
             d == DetachResponse(r.corr)
  <1>1. r.corr \in Int /\ r.lease \in Nat
    BY DEF RequestRecord
  <1>2. d \in MessageRecord /\ MessageSound(d, kind) /\ ~IsGrant(d)
    BY <1>1, NoticeSound
  <1>3. /\ leases' = leases \ found
        /\ \/ found = {} /\ Broadcast(<<d>>)
           \/ \E l \in found : Broadcast(<<Revoked(l), d>>)
    BY DEF HandleDetach
  <1>4. \A l \in found : \A o \in found : l = o
    <2>1. \A l \in found : l \in leases /\ l.lease = r.lease /\ l.lease # Rival
      BY <1>1 DEF Rival
    <2> QED BY <2>1 DEF IInv, LeasesSound
  <1>5. found \subseteq leases /\ LeasesSound(leases', kind)
    BY <1>3, FewerLeases
  <1> HIDE DEF found, d
  <1>6. ASSUME found = {}, Broadcast(<<d>>) PROVE IInv'
    <2>1. <<d>> \in Seq(MessageRecord) /\ DOMAIN <<d>> = {1} /\ <<d>>[1] = d
      BY <1>2, OneMessage
    <2>2. PICK ms : ms = <<d>>
      OBVIOUS
    <2> QED BY <1>2, <1>3, <1>5, <1>6, <2>1, <2>2, BroadcastStep
  <1>7. ASSUME NEW l \in found, Broadcast(<<Revoked(l), d>>) PROVE IInv'
    <2>1. PICK m \in MessageRecord : m = Revoked(l) /\ MessageSound(m, kind) /\ ~IsGrant(m) /\ Ends(m, l.lease)
      BY <1>5, RevokedSound
    <2>2. PICK ms : ms = <<m, d>>
      OBVIOUS
    <2>3. ms \in Seq(MessageRecord) /\ DOMAIN ms = {1, 2} /\ ms[1] = m /\ ms[2] = d
      BY <1>2, <2>2, TwoMessages
    <2>4. Broadcast(ms)
      BY <1>7, <2>1, <2>2
    <2>5. \A j \in DOMAIN ms : MessageSound(ms[j], kind) /\ ~IsGrant(ms[j])
      BY <1>2, <2>1, <2>3
    <2>6. \A o \in leases : (\E x \in leases' : x.lease = o.lease) \/ Ends(ms[1], o.lease)
      <3> TAKE o \in leases
      <3>1. CASE o \in found
        BY <1>4, <2>1, <2>3, <3>1
      <3>2. CASE o \notin found
        BY <1>3, <3>2
      <3> QED BY <3>1, <3>2
    <2> QED BY <1>5, <2>3, <2>4, <2>5, <2>6, BroadcastStep
  <1> QED BY <1>3, <1>6, <1>7

\* Leases that get older or younger.
LEMMA Renewed ==
    ASSUME IInv, NEW f \in [leases -> LeaseRecord],
           \A l \in leases : f[l].lease = l.lease /\ f[l].id = l.id /\ f[l].role = l.role
    PROVE  /\ LeasesSound({f[l] : l \in leases}, kind)
           /\ \A l \in leases : \E o \in {f[x] : x \in leases} : o.lease = l.lease
  <1> DEFINE ls == {f[l] : l \in leases}
  <1>1. IsFiniteSet(ls)
    BY FiniteValues, Typed
  <1>2. ls \subseteq LeaseRecord
    OBVIOUS
  <1>3. \A l \in ls : \E x \in leases : l = f[x] /\ l.lease = x.lease /\ l.id = x.id /\ l.role = x.role
    OBVIOUS
  <1>4. \A l \in leases : \E o \in ls : o.lease = l.lease
    OBVIOUS
  <1> HIDE DEF ls
  <1>5. \A l \in ls : \A o \in ls : l.lease = o.lease /\ l.lease # Rival => l = o
    <2> SUFFICES ASSUME NEW l \in ls, NEW o \in ls, l.lease = o.lease, l.lease # Rival PROVE l = o
      OBVIOUS
    <2>1. PICK x \in leases : l = f[x] /\ l.lease = x.lease
      BY <1>3
    <2>2. PICK y \in leases : o = f[y] /\ o.lease = y.lease
      BY <1>3
    <2>3. x = y
      BY <2>1, <2>2 DEF IInv, LeasesSound
    <2> QED BY <2>1, <2>2, <2>3
  <1>6. \A l \in ls : l.lease # Rival => l.lease > 0 /\ (kind = "producer" => l.id = OwnId /\ l.role = "PRODUCER")
    BY <1>3 DEF IInv, LeasesSound
  <1>7. LeasesSound(ls, kind)
    BY <1>1, <1>2, <1>5, <1>6 DEF LeasesSound
  <1> QED BY <1>4, <1>7 DEF ls

\* A lease gets the full grace.
LEMMA HandleKeepaliveStep ==
    ASSUME IInv, UNCHANGED <<client, kind>>, NEW r \in RequestRecord, RequestsSound(requests', kind), HandleKeepalive(r)
    PROVE  IInv'
  <1> DEFINE f == [l \in leases |-> IF Renews(l, r) THEN [l EXCEPT !.left = Grace] ELSE l]
  <1>1. leases' = {f[l] : l \in leases} /\ UNCHANGED <<inbox, faults, unheard>>
    BY DEF HandleKeepalive
  <1>2. \A l \in LeaseRecord : /\ [l EXCEPT !.left = Grace] \in LeaseRecord
                               /\ [l EXCEPT !.left = Grace].lease = l.lease /\ [l EXCEPT !.left = Grace].id = l.id
                               /\ [l EXCEPT !.left = Grace].role = l.role
    <2>1. Grace \in -1 .. Grace
      BY LeaseAssumption
    <2> QED BY <2>1 DEF LeaseRecord
  <1>3. /\ f \in [leases -> LeaseRecord]
        /\ \A l \in leases : f[l].lease = l.lease /\ f[l].id = l.id /\ f[l].role = l.role
    BY <1>2, Typed
  <1> HIDE DEF f
  <1>4. LeasesSound(leases', kind) /\ \A l \in leases : \E o \in leases' : o.lease = l.lease
    BY <1>1, <1>3, Renewed
  <1>5. faults' \in 0 .. MaxFaults
    BY <1>1 DEF IInv
  <1> QED BY <1>1, <1>4, <1>5, ClientKept, Quiet

\* The driver handles a request.
LEMMA DriverHandleStep ==
    ASSUME IInv, DriverHandle PROVE IInv'
  <1>1. requests # <<>> /\ UNCHANGED <<client, kind>> /\ requests' = Tail(requests)
    BY DEF DriverHandle
  <1>2. PICK r \in RequestRecord : r = Head(requests) /\ RequestSound(r, kind) /\ RequestsSound(requests', kind)
    BY <1>1, Taken
  <1>3. CASE r.what = "ATTACH" /\ HandleAttach(r)
    BY <1>1, <1>2, <1>3, HandleAttachStep
  <1>4. CASE HandleDetach(r)
    BY <1>1, <1>2, <1>4, HandleDetachStep
  <1>5. CASE HandleKeepalive(r)
    BY <1>1, <1>2, <1>5, HandleKeepaliveStep
  <1> QED BY <1>2, <1>3, <1>4, <1>5 DEF DriverHandle

\* Leases that nobody kept alive go, and are revoked.
LEMMA ExpiredStep ==
    ASSUME IInv, HandleExpiredLeases PROVE IInv'
  <1> DEFINE expired == {l \in leases : IsExpired(l)}
             h == [l \in expired |-> Revoked(l)]
             R == {Revoked(l) : l \in expired}
             ms == SetToSeq(R)
  <1>1. UNCHANGED <<client, requests, kind>> /\ leases' = leases \ expired /\ Broadcast(ms)
    BY DEF HandleExpiredLeases
  <1>2. IsFiniteSet(R)
    <2>1. IsFiniteSet(expired)
      BY FS_Subset, Typed
    <2>2. IsFiniteSet({h[l] : l \in expired})
      BY <2>1, FiniteValues
    <2>3. R = {h[l] : l \in expired}
      OBVIOUS
    <2> QED BY <2>2, <2>3
  <1>3. \A m \in R : m \in MessageRecord /\ MessageSound(m, kind) /\ ~IsGrant(m)
    BY RevokedSound
  <1>4. \A l \in expired : \E m \in R : Ends(m, l.lease)
    BY RevokedSound
  <1>5. LeasesSound(leases', kind) /\ RequestsSound(requests', kind)
    BY <1>1, FewerLeases DEF IInv
  <1>6. \A l \in leases : l \in expired \/ \E o \in leases' : o.lease = l.lease
    BY <1>1
  <1> HIDE DEF R, expired
  <1>7. ms \in Seq(R) /\ DOMAIN ms = 1 .. Len(ms) /\ \A m \in R : \E i \in DOMAIN ms : ms[i] = m
    BY <1>2, Listed
  <1> HIDE DEF ms
  <1>8. ms \in Seq(MessageRecord) /\ \A j \in DOMAIN ms : MessageSound(ms[j], kind) /\ ~IsGrant(ms[j])
    <2>1. \A j \in DOMAIN ms : ms[j] \in R
      BY <1>7, LenProperties
    <2>2. Len(ms) \in Nat /\ R \subseteq MessageRecord
      BY <1>3, <1>7, LenProperties
    <2>3. ms \in Seq(MessageRecord)
      BY <1>7, <2>2
    <2> QED BY <1>3, <2>1, <2>3
  <1>9. \A l \in expired : \E j \in DOMAIN ms : Ends(ms[j], l.lease)
    BY <1>4, <1>7
  <1> QED BY <1>1, <1>5, <1>6, <1>8, <1>9, BroadcastStep

\* The leases of a driver that stops are gone, and nobody is told.
LEMMA RestartStep ==
    ASSUME IInv, DriverRestart PROVE IInv'
  <1> DEFINE S == {l.lease : l \in leases}
  <1>1. /\ Fault /\ Room(1) /\ UNCHANGED <<client, kind>> /\ leases' = {} /\ requests' = <<>> /\ Missed(S)
        /\ inbox' \in {inbox, Append(inbox, Shutdown)}
    BY DEF DriverRestart
  <1>2. \A l \in leases : l.lease \in S
    OBVIOUS
  <1> HIDE DEF S
  <1>3. LeasesSound(leases', kind) /\ faults' \in 0 .. MaxFaults
    BY <1>1, FewerLeases, FaultTyped
  <1>4. RequestsSound(requests', kind)
    <2>1. <<>> \in Seq(RequestRecord) /\ Len(<<>>) = 0 /\ DOMAIN <<>> = {} /\ 0 <= MaxRequests
      BY EmptySeq, LeaseAssumption
    <2> QED BY <1>1, <2>1 DEF RequestsSound
  <1>5. Len(inbox) + 1 <= MaxInbox /\ Len(inbox) \in Nat
    BY <1>1, Typed DEF Room
  <1>6. Shutdown \in MessageRecord /\ MessageSound(Shutdown, kind) /\ ~IsGrant(Shutdown)
    <2>1. 0 \in Int
      OBVIOUS
    <2> QED BY <2>1, NoticeSound
  <1>7. CASE inbox' = inbox
    <2>1. PICK ms : ms = <<>>
      OBVIOUS
    <2>2. ms \in Seq(MessageRecord) /\ Len(ms) = 0 /\ DOMAIN ms = {} /\ inbox' = inbox \o ms
      BY <1>7, <2>1, EmptySeq, ConcatEmptySeq, Typed
    <2>3. Len(inbox) + Len(ms) <= MaxInbox
      BY <1>5, <2>2, LeaseAssumption
    <2> QED BY <1>1, <1>2, <1>3, <1>4, <2>2, <2>3, ClientKept, Extended
  <1>8. CASE inbox' = Append(inbox, Shutdown)
    <2>1. PICK ms : ms = <<Shutdown>>
      OBVIOUS
    <2>2. /\ ms \in Seq(MessageRecord) /\ Len(ms) = 1 /\ DOMAIN ms = {1} /\ ms[1] = Shutdown /\ inbox' = inbox \o ms
      BY <1>6, <1>8, <2>1, Added, Typed
    <2>3. Len(inbox) + Len(ms) <= MaxInbox
      BY <1>5, <2>2
    <2> QED BY <1>1, <1>2, <1>3, <1>4, <1>6, <2>2, <2>3, ClientKept, Extended
  <1> QED BY <1>1, <1>7, <1>8

-----------------------------------------------------------------------------
(* Surroundings                                                            *)

\* The rival attaches: its answer is in the client's inbox too.
LEMMA RivalAttachStep ==
    ASSUME IInv, RivalAttach PROVE IInv'
  <1>1. /\ Fault /\ Room(1) /\ UNCHANGED <<client, requests, kind, unheard>>
        /\ inbox' = Append(inbox, AttachResponse(Rival, "ok", Rival))
    BY DEF RivalAttach
  <1>2. PICK id \in Ids, role \in {"PRODUCER", "CONSUMER"} :
            leases' = leases \cup {[lease |-> Rival, id |-> id, role |-> role, left |-> Grace]}
    BY DEF RivalAttach
  <1> DEFINE l == [lease |-> Rival, id |-> id, role |-> role, left |-> Grace]
  <1>3. l \in LeaseRecord /\ l.lease = Rival /\ leases' = leases \cup {l}
    <2>1. Grace \in -1 .. Grace
      BY LeaseAssumption
    <2> QED BY <1>2, <2>1 DEF LeaseRecord
  <1> HIDE DEF l
  <1>4. LeasesSound(leases', kind) /\ faults' \in 0 .. MaxFaults /\ RequestsSound(requests', kind)
    BY <1>1, <1>3, MoreLeases, FaultTyped DEF IInv
  <1>5. PICK m \in MessageRecord : m = AttachResponse(Rival, "ok", Rival) /\ MessageSound(m, kind) /\ ~IsGrant(m)
    <2>1. Rival \in Int /\ "ok" \in {"failed", "in use", "rejected", "ok"}
      BY DEF Rival
    <2> QED BY <2>1, ResponseSound
  <1>6. PICK ms : ms = <<m>>
    OBVIOUS
  <1>7. ms \in Seq(MessageRecord) /\ Len(ms) = 1 /\ DOMAIN ms = {1} /\ ms[1] = m /\ inbox' = inbox \o ms
    BY <1>1, <1>5, <1>6, Added, Typed
  <1>8. Len(inbox) + Len(ms) <= MaxInbox
    BY <1>1, <1>7 DEF Room
  <1>9. PICK S : S = {}
    OBVIOUS
  <1> QED BY <1>1, <1>3, <1>4, <1>5, <1>7, <1>8, <1>9, ClientKept, Extended

\* The rival detaches: its revocation is in the client's inbox too.
LEMMA RivalDetachStep ==
    ASSUME IInv, RivalDetach PROVE IInv'
  <1>1. Room(2) /\ UNCHANGED <<client, requests, kind, faults, unheard>>
    BY DEF RivalDetach
  <1>2. PICK l \in leases : l.lease = Rival /\ leases' = leases \ {l} /\ inbox' = inbox \o <<Revoked(l), DetachResponse(0)>>
    BY DEF RivalDetach
  <1>3. LeasesSound(leases', kind) /\ faults' \in 0 .. MaxFaults /\ RequestsSound(requests', kind)
    BY <1>1, <1>2, FewerLeases DEF IInv
  <1>4. PICK m \in MessageRecord : m = Revoked(l) /\ MessageSound(m, kind) /\ ~IsGrant(m)
    BY RevokedSound
  <1>5. PICK d \in MessageRecord : d = DetachResponse(0) /\ MessageSound(d, kind) /\ ~IsGrant(d)
    <2>1. 0 \in Int
      OBVIOUS
    <2> QED BY <2>1, NoticeSound
  <1>6. PICK ms : ms = <<m, d>>
    OBVIOUS
  <1>7. ms \in Seq(MessageRecord) /\ Len(ms) = 2 /\ DOMAIN ms = {1, 2} /\ ms[1] = m /\ ms[2] = d /\ inbox' = inbox \o ms
    BY <1>2, <1>4, <1>5, <1>6, TwoMessages
  <1>8. \A j \in DOMAIN ms : MessageSound(ms[j], kind) /\ ~IsGrant(ms[j])
    BY <1>4, <1>5, <1>7
  <1>9. Len(inbox) + Len(ms) <= MaxInbox
    BY <1>1, <1>7 DEF Room
  <1>10. PICK S : S = {}
    OBVIOUS
  <1>11. \A o \in leases : o.lease = Rival \/ \E x \in leases' : x.lease = o.lease
    BY <1>2
  <1> QED BY <1>1, <1>3, <1>7, <1>8, <1>9, <1>10, <1>11, ClientKept, Extended

\* A damaged frame says nothing.
LEMMA DamagedStep ==
    ASSUME IInv, DamagedFrame PROVE IInv'
  <1>1. Fault /\ Room(1) /\ inbox' = Append(inbox, Garbled) /\ UNCHANGED <<client, requests, leases, kind, unheard>>
    BY DEF DamagedFrame
  <1>2. LeasesSound(leases', kind) /\ faults' \in 0 .. MaxFaults /\ RequestsSound(requests', kind)
    BY <1>1, FaultTyped DEF IInv
  <1>3. PICK m \in MessageRecord : m = Garbled /\ MessageSound(m, kind) /\ ~IsGrant(m)
    <2>1. 0 \in Int
      OBVIOUS
    <2> QED BY <2>1, NoticeSound
  <1>4. PICK ms : ms = <<m>>
    OBVIOUS
  <1>5. ms \in Seq(MessageRecord) /\ Len(ms) = 1 /\ DOMAIN ms = {1} /\ ms[1] = m /\ inbox' = inbox \o ms
    BY <1>1, <1>3, <1>4, Added, Typed
  <1>6. Len(inbox) + Len(ms) <= MaxInbox
    BY <1>1, <1>5 DEF Room
  <1>7. PICK S : S = {}
    OBVIOUS
  <1> QED BY <1>1, <1>2, <1>3, <1>5, <1>6, <1>7, ClientKept, Extended

\* Time passes for the driver's leases and for the client's belief.
LEMMA TickStep ==
    ASSUME IInv, Tick PROVE IInv'
  <1> DEFINE f == [l \in leases |-> [l EXCEPT !.left = Older(@)]]
             a == IF client.left > 0 THEN client.left - 1 ELSE client.left
             w == IF client.wait > 0 THEN client.wait - 1 ELSE client.wait
             c == [client EXCEPT !.left = a, !.due = TRUE, !.wait = w]
  <1>1. leases' = {f[l] : l \in leases} /\ client' = c /\ UNCHANGED <<requests, inbox, kind, faults, unheard>>
    BY DEF Tick
  <1>2. /\ f \in [leases -> LeaseRecord]
        /\ \A l \in leases : f[l].lease = l.lease /\ f[l].id = l.id /\ f[l].role = l.role
    <2>1. \A n \in -1 .. Grace : Older(n) \in -1 .. Grace
      BY LeaseAssumption DEF Older
    <2>2. \A l \in LeaseRecord : l.left \in -1 .. Grace
      BY DEF LeaseRecord
    <2>3. \A l \in LeaseRecord : \A n \in -1 .. Grace :
              /\ [l EXCEPT !.left = n] \in LeaseRecord /\ [l EXCEPT !.left = n].lease = l.lease
              /\ [l EXCEPT !.left = n].id = l.id /\ [l EXCEPT !.left = n].role = l.role
      BY DEF LeaseRecord
    <2>4. \A l \in leases : f[l] = [l EXCEPT !.left = Older(l.left)] /\ l \in LeaseRecord
      BY Typed
    <2> HIDE DEF f
    <2>5. \A l \in leases : /\ f[l] \in LeaseRecord /\ f[l].lease = l.lease
                            /\ f[l].id = l.id /\ f[l].role = l.role
      <3> TAKE l \in leases
      <3>1. l \in LeaseRecord /\ l.left \in -1 .. Grace
        BY <2>2, <2>4
      <3>2. PICK n \in -1 .. Grace : n = Older(l.left)
        BY <2>1, <3>1
      <3>3. f[l] = [l EXCEPT !.left = n]
        BY <2>4, <3>2
      <3> QED BY <2>3, <3>1, <3>3
    <2> QED BY <2>5 DEF f
  <1> HIDE DEF f
  <1>3. LeasesSound(leases', kind) /\ \A l \in leases : \E o \in leases' : o.lease = l.lease
    BY <1>1, <1>2, Renewed
  <1>4. a \in 0 .. Grace /\ w \in -1 .. 2 ^ MaxShift
    <2>1. client.left \in 0 .. Grace /\ client.wait \in -1 .. 2 ^ MaxShift
      BY Typed DEF ClientRecord
    <2>2. 2 ^ MaxShift \in Nat /\ Grace \in Nat
      BY LeaseAssumption, PowersGrow
    <2> QED BY <2>1, <2>2
  <1> HIDE DEF a, w
  <1>5. /\ c \in ClientRecord /\ c.call = client.call /\ c.corr = client.corr /\ c.id = client.id
        /\ c.lease = client.lease /\ c.attached = client.attached /\ c.mapped = client.mapped
    BY <1>4, Typed DEF ClientRecord
  <1> HIDE DEF c
  <1>6. ClientSound(client', kind)
    BY <1>1, <1>5 DEF IInv, ClientSound, Calling
  <1>7. RequestsSound(requests', kind) /\ faults' \in 0 .. MaxFaults /\ client'.lease = client.lease
    BY <1>1, <1>5 DEF IInv
  <1> QED BY <1>1, <1>3, <1>6, <1>7, Quiet

-----------------------------------------------------------------------------
(* Theorems                                                                *)

\* A client that has just been opened, nothing under way, no leases.
LEMMA Initial == Init => IInv
  <1> SUFFICES ASSUME Init PROVE IInv
    OBVIOUS
  <1>1. /\ client = Opened /\ requests = <<>> /\ inbox = <<>> /\ leases = {} /\ faults = 0 /\ unheard = {}
        /\ kind \in {"producer", "direct"}
    BY DEF Init
  <1>2. ClientSound(client, kind) /\ client.lease = 0
    BY <1>1, OpenedSound
  <1>3. /\ requests \in Seq(RequestRecord) /\ Len(requests) = 0 /\ DOMAIN requests = {}
        /\ inbox \in Seq(MessageRecord) /\ Len(inbox) = 0 /\ DOMAIN inbox = {}
        /\ 0 <= MaxRequests /\ 0 <= MaxInbox /\ 0 \in 0 .. MaxFaults
    BY <1>1, EmptySeq, LeaseAssumption
  <1>4. RequestsSound(requests, kind) /\ InboxSound(inbox, kind)
    BY <1>3 DEF RequestsSound, InboxSound
  <1>5. LeasesSound(leases, kind)
    BY <1>1, FS_EmptySet DEF LeasesSound
  <1>6. Backed(client.lease, inbox, leases, unheard)
    BY <1>2, <1>3 DEF Backed
  <1> QED BY <1>1, <1>2, <1>3, <1>4, <1>5, <1>6 DEF IInv

\* Every step keeps the invariant.
LEMMA Step == IInv /\ [Next]_vars => IInv'
  <1> SUFFICES ASSUME IInv, [Next]_vars PROVE IInv'
    OBVIOUS
  <1>1. CASE UNCHANGED vars
    BY <1>1 DEF IInv, vars
  <1>2. CASE Attach \/ AttachAsync
    BY <1>2, AttachStep
  <1>3. CASE AttachAnswered \/ AttachPoll
    BY <1>3, AnsweredStep
  <1>4. CASE AttachTimeout \/ AttachRetry
    BY <1>4, WaitStep
  <1>5. CASE AttachPollSend \/ DetachAsync \/ DetachActive \/ Keepalive
    BY <1>5, SendStep
  <1>6. CASE DetachPoll
    BY <1>6, DetachPollStep
  <1>7. CASE LeaseExpired \/ Close \/ Crash
    BY <1>7, EndStep
  <1>8. CASE ControlPoll
    BY <1>8, ControlPollStep
  <1>9. CASE DriverHandle
    BY <1>9, DriverHandleStep
  <1>10. CASE HandleExpiredLeases
    BY <1>10, ExpiredStep
  <1>11. CASE DriverRestart
    BY <1>11, RestartStep
  <1>12. CASE RivalAttach
    BY <1>12, RivalAttachStep
  <1>13. CASE RivalDetach
    BY <1>13, RivalDetachStep
  <1>14. CASE DamagedFrame
    BY <1>14, DamagedStep
  <1>15. CASE Tick
    BY <1>15, TickStep
  <1> QED BY <1>1, <1>2, <1>3, <1>4, <1>5, <1>6, <1>7, <1>8, <1>9, <1>10, <1>11, <1>12, <1>13, <1>14, <1>15 DEF Next

\* The invariant says what the runs check.
LEMMA InvSound == IInv => BeliefSound
  <1> SUFFICES ASSUME IInv PROVE BeliefSound
    OBVIOUS
  <1>1. client \in ClientRecord /\ ClientSound(client, kind)
    BY Typed DEF IInv
  <1>2. /\ client.call \in {"none", "sync", "async", "detach"} /\ client.left \in 0 .. Grace
        /\ client.wait \in -1 .. 2 ^ MaxShift /\ client.failures \in 0 .. MaxShift + 1
        /\ client.lease \in Nat /\ client.mapped \in Nat
    BY <1>1 DEF ClientRecord
  <1>3. client.call \in {"sync", "async"} <=> client.corr > 0 /\ client.id \in Ids
    BY <1>1, LeaseAssumption DEF ClientSound, Calling, OwnIds
  <1>4. \A l \in leases : l.id \in Ids /\ l.left \in -1 .. Grace
    BY Typed DEF LeaseRecord
  <1>5. Len(requests) <= MaxRequests /\ Len(inbox) <= MaxInbox /\ faults \in 0 .. MaxFaults
    BY DEF IInv, RequestsSound, InboxSound
  <1>6. TypeOK
    BY <1>2, <1>3, <1>4, <1>5 DEF TypeOK
  <1>7. OwnLeaseOnly
    BY <1>1, <1>2 DEF OwnLeaseOnly, ClientSound, Rival
  <1>8. BeliefBacked
    BY DEF IInv, Backed, Told, Ends, BeliefBacked, Held
  <1> QED BY <1>6, <1>7, <1>8 DEF BeliefSound

\* Whatever is lost, late, repeated, damaged or meant for the rival, the client never uses
\* a lease that is not its own, and it believes in a lease the driver has ended only while
\* the revocation waits for its control poller or was never shown to it.
THEOREM BeliefCorrect == Spec => []BeliefSound
  <1>1. Spec => []IInv
    BY Initial, Step, PTL DEF Spec
  <1> QED BY <1>1, InvSound, PTL

\* A step that leaves a producer without regions, while no call is in progress and nobody
\* closes it, is the control poller's.
LEMMA DropsFacts ==
    ASSUME IInv, Next, Drops, client' # Opened, client.call = "none"
    PROVE  /\ inbox # <<>> /\ Head(inbox).template = "LEASE_REVOKED"
           /\ Head(inbox).id = OwnId /\ Head(inbox).role = "PRODUCER"
  <1>1. client \in ClientRecord /\ client'.mapped # client.mapped
    BY Typed DEF Drops
  <1>2. ~Attach /\ ~AttachAsync
    <2> SUFFICES ASSUME Attach \/ AttachAsync PROVE client'.mapped = client.mapped
      BY <1>1
    <2>1. PICK id, corr, call : client' = [client EXCEPT !.call = call, !.corr = corr, !.id = id]
      BY DEF Attach, AttachAsync
    <2> QED BY <1>1, <2>1 DEF ClientRecord
  <1>3. ~AttachAnswered /\ ~AttachTimeout /\ ~AttachRetry /\ ~AttachPollSend /\ ~AttachPoll /\ ~DetachPoll
    BY DEF AttachAnswered, AttachTimeout, AttachRetry, AttachPollSend, AttachPoll, DetachPoll
  <1>4. ~DetachAsync /\ ~DetachActive /\ ~Keepalive /\ ~LeaseExpired
    BY <1>1 DEF DetachAsync, DetachActive, Keepalive, LeaseExpired, ClientRecord
  <1>5. ~Close /\ ~Crash
    BY DEF Close, Crash
  <1>6. ~DriverHandle /\ ~HandleExpiredLeases /\ ~DriverRestart /\ ~RivalAttach /\ ~RivalDetach /\ ~DamagedFrame
    BY <1>1 DEF DriverHandle, HandleExpiredLeases, DriverRestart, RivalAttach, RivalDetach, DamagedFrame
  <1>7. ~Tick
    <2> SUFFICES ASSUME Tick PROVE client'.mapped = client.mapped
      BY <1>1
    <2>1. PICK left, wait : client' = [client EXCEPT !.left = left, !.due = TRUE, !.wait = wait]
      BY DEF Tick
    <2> QED BY <1>1, <2>1 DEF ClientRecord
  <1>8. ControlPoll
    BY <1>2, <1>3, <1>4, <1>5, <1>6, <1>7 DEF Next
  <1>9. inbox # <<>> /\ Decode(Head(inbox), "LEASE_REVOKED") = "ok" /\ Concerns(Head(inbox))
    BY <1>1, <1>8 DEF ControlPoll
  <1> QED BY <1>9 DEF Decode, Concerns

\* A producer loses its regions only because its own client id was revoked, in the course
\* of a call of its own, or because it was closed or died.
THEOREM DroppedOnlyRevoked == Spec => DroppedOnlyIfRevoked
  <1> DEFINE A == Drops /\ client' # Opened =>
                      \/ /\ inbox # <<>> /\ Head(inbox).template = "LEASE_REVOKED"
                         /\ Head(inbox).id = OwnId /\ Head(inbox).role = "PRODUCER"
                      \/ client.call # "none"
  <1>1. Spec => []IInv
    BY Initial, Step, PTL DEF Spec
  <1>2. IInv /\ [Next]_vars => [A]_vars
    BY DropsFacts
  <1>3. DroppedOnlyIfRevoked <=> [][A]_vars
    BY DEF DroppedOnlyIfRevoked
  <1> HIDE DEF A
  <1> QED BY <1>1, <1>2, <1>3, PTL DEF Spec
=============================================================================
