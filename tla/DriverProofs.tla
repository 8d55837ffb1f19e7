----------------------------- MODULE DriverProofs -----------------------------
(***************************************************************************)
(* The driver's safety properties for every set of streams, node ids and    *)
(* attach requests, every configuration, and any number of leases and       *)
(* restarts.                                                                *)
(***************************************************************************)
EXTENDS DriverHistory, FiniteSetTheorems, FunctionTheorems, WellFoundedInduction, TLAPS

-----------------------------------------------------------------------------
(* The inductive invariant                                                  *)

\* The next lease id is new.
LeaseIdsDrawn == \A l \in leases : l.id <= lease_counter

\* A directory is of the stream's epoch, an earlier one, or of a time before
\* now (the driver that made it may have been restarted).
DirsBelow == \A s \in StreamIds : \A d \in dirs[s] : d.epoch <= epoch[s] \/ d.epoch < now

LeaseInv == LeaseIdsDrawn /\ DistinctIdentities /\ SingleProducer

IInv == TypeOK /\ LeaseInv /\ ProducerBacked /\ DirsBelow

-----------------------------------------------------------------------------
(* Operators                                                                *)

\* tp_driver_allocate_stream_id stays within the range.
LEMMA FirstFreeTyped ==
    ASSUME TypeOK, FreeOffsets # {}
    PROVE  FirstFree \in RangeStart .. RangeEnd /\ AfterId(FirstFree) \in RangeStart .. RangeEnd
  <1>1. FreeOffsets \subseteq Nat
    BY StreamsAssumption DEF FreeOffsets
  <1>2. \E k \in FreeOffsets : \A j \in FreeOffsets : ~(j < k)
    <2> DEFINE R == OpToRel(<, Nat)
    <2>1. IsWellFoundedOn(R, Nat)
      BY NatLessThanWellFounded
    <2>2. \A j, k \in Nat : j < k => <<j, k>> \in R
      BY DEF OpToRel
    <2> HIDE DEF R
    <2>3. \E k \in FreeOffsets : \A j \in FreeOffsets : ~(<<j, k>> \in R)
      BY <1>1, <2>1, WFMin
    <2> QED
      BY <1>1, <2>2, <2>3
  <1>3. \E k \in FreeOffsets : \A j \in FreeOffsets : k <= j
    BY <1>1, <1>2
  <1>4. PICK k \in FreeOffsets : FirstFree = Cyclic(k)
    BY <1>3 DEF FirstFree
  <1>5. FirstFree \in RangeStart .. RangeEnd
    <2>1. next_dynamic - RangeStart + k \in Nat /\ RangeEnd - RangeStart + 1 \in Nat \ {0}
      BY <1>1, <1>4, StreamsAssumption DEF TypeOK
    <2>2. (next_dynamic - RangeStart + k) % (RangeEnd - RangeStart + 1) \in 0 .. RangeEnd - RangeStart
      BY <2>1, StreamsAssumption
    <2> QED
      BY <1>4, <2>2, StreamsAssumption DEF Cyclic
  <1> QED
    BY <1>5, StreamsAssumption DEF AfterId

\* An admitted request is for a stream id, and the range cursor stays inside.
LEMMA AdmittedTyped ==
    ASSUME TypeOK, NEW req \in AttachRequests, Admitted(req)
    PROVE  /\ Target(req) \in StreamIds
           /\ req.stream = 0 => AfterId(FirstFree) \in RangeStart .. RangeEnd
           /\ req.role \in Roles /\ req.client \in Nat \ {0}
           /\ req.node \in NodeIds \cup {0, NullNode}
           /\ \A l \in leases : l.client # req.client
  <1>1. /\ req.stream \in StreamIds \cup {0} /\ req.client \in Nat
        /\ req.node \in NodeIds \cup {0, NullNode}
    BY RequestsAssumption
  <1>2. /\ req.role \in Roles /\ req.client # 0 /\ ~ClientIdInUse(req.client)
        /\ Unknown(req) /\ req.stream = 0 => FreeOffsets # {}
    BY DEF Admitted, EarlyCode, StreamCode
  <1>3. req.stream = 0 => FreeOffsets # {}
    BY <1>2, StreamsAssumption DEF Unknown, TypeOK
  <1>4. req.stream = 0 => /\ FirstFree \in StreamIds
                          /\ AfterId(FirstFree) \in RangeStart .. RangeEnd
    BY <1>3, FirstFreeTyped, StreamsAssumption
  <1> QED
    BY <1>1, <1>2, <1>4 DEF Target, ClientIdInUse

\* tp_driver_bump_epoch moves past the old epoch and past the clock.
LEMMA BumpForward ==
    ASSUME TypeOK, NEW s \in StreamIds
    PROVE  /\ BumpedEpoch(s) \in Nat \ {0}
           /\ BumpedEpoch(s) > epoch[s] /\ BumpedEpoch(s) >= now
  BY DEF TypeOK, BumpedEpoch

\* tp_driver_create_shm_epoch adds at most the new epoch's directory; when it
\* succeeds that directory is there, garbage collection included.
LEMMA CreateShmAdds ==
    ASSUME TypeOK, NEW D \in SUBSET DirRecords, NEW e \in Nat \ {0}, NEW made \in ShmOutcomes
    PROVE  /\ CreateShm(D, e, made) \in SUBSET DirRecords
           /\ \A d \in CreateShm(D, e, made) : d \in D \/ d.epoch = e
           /\ made = "whole" => \E d \in CreateShm(D, e, made) : d.epoch = e /\ d.whole
  <1> DEFINE rest == {d \in D : d.epoch # e}
             dir == [epoch |-> e, made |-> now, whole |-> made = "whole"]
  <1>1. dir \in DirRecords /\ dir.epoch = e /\ rest \subseteq D
    BY DEF DirRecords, TypeOK
  <1>2. CASE made = "none"
    <2>1. CreateShm(D, e, made) = D
      BY <1>2 DEF CreateShm
    <2> QED
      BY <1>2, <2>1
  <1>3. CASE made = "partial"
    <2>1. CreateShm(D, e, made) = rest \cup {dir}
      BY <1>3 DEF CreateShm
    <2> HIDE DEF rest, dir
    <2> QED
      BY <1>1, <1>3, <2>1
  <1>4. CASE made = "whole"
    <2>1. CreateShm(D, e, made) = Gc(rest \cup {dir}, e)
      BY <1>4 DEF CreateShm
    <2>2. dir.whole
      BY <1>4
    <2> HIDE DEF rest, dir
    <2>3. /\ Gc(rest \cup {dir}, e) \subseteq rest \cup {dir}
          /\ dir \in Gc(rest \cup {dir}, e)
      BY <1>1 DEF Gc, GcVictims
    <2> QED
      BY <1>1, <1>4, <2>1, <2>2, <2>3
  <1> QED
    BY <1>2, <1>3, <1>4 DEF ShmOutcomes

\* Entering an epoch, by whichever outcome of the file creation, leaves other
\* streams alone.
LEMMA EnterEpochTyped ==
    ASSUME TypeOK, NEW req \in AttachRequests, Admitted(req), NEW made \in ShmOutcomes,
           EnterEpoch(req, made)
    PROVE  /\ epoch' \in [StreamIds -> Nat] /\ huge' \in [StreamIds -> BOOLEAN]
           /\ dirs' \in [StreamIds -> SUBSET DirRecords]
           /\ \A s \in StreamIds \ {Target(req)} : epoch'[s] = epoch[s] /\ dirs'[s] = dirs[s]
           /\ epoch'[Target(req)] = AttachEpoch(req)
           /\ \A d \in dirs'[Target(req)] : \/ d \in dirs[Target(req)]
                                            \/ d.epoch = epoch'[Target(req)]
           /\ NeedsEpoch(req) /\ made = "whole" =>
                \E d \in dirs'[Target(req)] : d.epoch = AttachEpoch(req) /\ d.whole
           /\ ~NeedsEpoch(req) => UNCHANGED <<epoch, dirs>>
  <1> DEFINE s == Target(req)
  <1>1. /\ s \in StreamIds /\ BumpedEpoch(s) \in Nat \ {0}
        /\ epoch \in [StreamIds -> Nat] /\ dirs \in [StreamIds -> SUBSET DirRecords]
        /\ huge \in [StreamIds -> BOOLEAN] /\ dirs[s] \in SUBSET DirRecords
    BY AdmittedTyped, BumpForward DEF TypeOK
  <1>2. RequireHuge(req) \in BOOLEAN
    BY FlagsAssumption DEF RequireHuge
  <1>3. /\ CreateShm(dirs[s], BumpedEpoch(s), made) \in SUBSET DirRecords
        /\ \A d \in CreateShm(dirs[s], BumpedEpoch(s), made) : d \in dirs[s] \/ d.epoch = BumpedEpoch(s)
        /\ made = "whole" => \E d \in CreateShm(dirs[s], BumpedEpoch(s), made) :
                               d.epoch = BumpedEpoch(s) /\ d.whole
    BY <1>1, CreateShmAdds
  <1>4. CASE NeedsEpoch(req)
    <2>1. /\ epoch' = [epoch EXCEPT ![s] = BumpedEpoch(s)]
          /\ dirs' = [dirs EXCEPT ![s] = CreateShm(dirs[s], BumpedEpoch(s), made)]
          /\ AttachEpoch(req) = BumpedEpoch(s)
      BY <1>1, <1>4 DEF EnterEpoch, AttachEpoch
    <2>2. huge' \in [StreamIds -> BOOLEAN]
      <3>1. huge' = [huge EXCEPT ![s] = IF epoch[s] # 0 THEN huge[s] ELSE RequireHuge(req)]
        BY <1>4 DEF EnterEpoch
      <3>2. (IF epoch[s] # 0 THEN huge[s] ELSE RequireHuge(req)) \in BOOLEAN
        BY <1>1, <1>2
      <3> QED
        BY <1>1, <3>1, <3>2
    <2> HIDE DEF s
    <2> QED
      BY <1>1, <1>3, <1>4, <2>1, <2>2 DEF s
  <1>5. CASE ~NeedsEpoch(req)
    BY <1>1, <1>5 DEF EnterEpoch, AttachEpoch
  <1> QED
    BY <1>4, <1>5

-----------------------------------------------------------------------------
(* What every step does, with the invariant                                 *)

\* The bodies of ProducerEpochStable, EpochNeverReused and LeaseEndIsRevoked.
KeepsProducerEpoch ==
    \A l \in leases : \A m \in leases' :
      l.id = m.id /\ l.role = "PRODUCER" => epoch'[l.stream] = epoch[l.stream]
FreshEpoch ==
    \A s \in StreamIds : epoch'[s] # epoch[s] /\ epoch'[s] # 0 =>
      /\ epoch'[s] > epoch[s]
      /\ \A d \in dirs[s] : epoch'[s] > d.epoch
RevokesEnded ==
    \A l \in leases :
      restarts' = restarts /\ (\A m \in leases' : m.id # l.id) =>
        \/ LeaseRevoked(l, "DETACHED") \in out'
        \/ LeaseRevoked(l, "EXPIRED") \in out' /\ now > l.expiry

StepOK == IInv' /\ KeepsProducerEpoch /\ FreshEpoch /\ RevokesEnded

\* A step that changes only what the invariant does not read.
LEMMA TablesKept ==
    ASSUME IInv, TypeOK', UNCHANGED <<now, epoch, producer_lease_id, producer_client_id,
                                      leases, lease_counter, dirs>>
    PROVE  StepOK
  <1>1. IInv'
    BY DEF IInv, LeaseInv, LeaseIdsDrawn, DistinctIdentities, SingleProducer, ProducerBacked,
           DirsBelow
  <1>2. KeepsProducerEpoch /\ FreshEpoch /\ RevokesEnded
    BY DEF KeepsProducerEpoch, FreshEpoch, RevokesEnded
  <1> QED
    BY <1>1, <1>2 DEF StepOK

\* A stream whose epoch an accepted attach moves has no producer.
LEMMA NoProducerAt ==
    ASSUME IInv, NEW req \in AttachRequests, Accepted(req), NeedsEpoch(req),
           NEW l \in leases, l.role = "PRODUCER"
    PROVE  l.stream # Target(req)
  <1> SUFFICES ASSUME l.stream = Target(req) PROVE FALSE
    OBVIOUS
  <1>1. l.stream \in StreamIds /\ l.id \in Nat \ {0}
    BY DEF IInv, TypeOK, LeaseRecords
  <1>2. producer_lease_id[l.stream] = l.id
    BY <1>1 DEF IInv, LeaseInv, SingleProducer
  <1>3. req.role # "PRODUCER"
    BY <1>1, <1>2 DEF Accepted, LateCode
  <1>4. epoch[l.stream] = 0
    BY <1>3 DEF NeedsEpoch
  <1>5. PICK d \in dirs[l.stream] : d.epoch = epoch[l.stream]
    BY DEF IInv, ProducerBacked
  <1>6. d.epoch \in Nat \ {0}
    BY <1>1 DEF IInv, TypeOK, DirRecords
  <1> QED
    BY <1>4, <1>5, <1>6

\* New epochs are fresh, whatever becomes of their directories.
LEMMA EpochsForward ==
    ASSUME IInv, now' = now,
           \A s \in StreamIds :
             \/ epoch'[s] = epoch[s] /\ dirs'[s] = dirs[s]
             \/ /\ epoch'[s] = BumpedEpoch(s)
                /\ \A d \in dirs'[s] : d \in dirs[s] \/ d.epoch = epoch'[s]
    PROVE  DirsBelow' /\ FreshEpoch
  <1>1. ASSUME NEW s \in StreamIds
        PROVE  /\ \A d \in dirs'[s] : d.epoch <= epoch'[s] \/ d.epoch < now
               /\ epoch'[s] # epoch[s] => /\ epoch'[s] > epoch[s]
                                          /\ \A d \in dirs[s] : epoch'[s] > d.epoch
    <2>1. /\ epoch[s] \in Nat /\ now \in Nat /\ dirs[s] \subseteq DirRecords
          /\ \A d \in dirs[s] : d.epoch \in Nat /\ (d.epoch <= epoch[s] \/ d.epoch < now)
      BY DEF IInv, TypeOK, DirsBelow, DirRecords
    <2>2. CASE epoch'[s] = epoch[s] /\ dirs'[s] = dirs[s]
      BY <2>1, <2>2
    <2>3. CASE /\ epoch'[s] = BumpedEpoch(s)
               /\ \A d \in dirs'[s] : d \in dirs[s] \/ d.epoch = epoch'[s]
      <3>1. epoch'[s] \in Nat /\ epoch'[s] > epoch[s] /\ epoch'[s] >= now
        BY <2>3, BumpForward DEF IInv
      <3>2. \A d \in dirs[s] : epoch'[s] > d.epoch
        BY <2>1, <3>1
      <3> QED
        BY <2>1, <2>3, <3>1, <3>2
    <2> QED
      BY <2>2, <2>3
  <1> QED
    BY <1>1 DEF DirsBelow, FreshEpoch

\* An attach refused before the stream is looked up.
LEMMA RefusedEarlyStep ==
    ASSUME IInv, NEW req \in AttachRequests, AttachRefusedEarly(req)
    PROVE  StepOK
  <1>1. UNCHANGED <<now, known, epoch, producer_lease_id, producer_client_id, huge, leases,
                    lease_counter, cooldowns, next_announce, dirs, restarts, failures>>
    BY DEF AttachRefusedEarly, leaseVars
  <1>2. next_dynamic' \in RangeStart .. RangeEnd
    BY FirstFreeTyped DEF AttachRefusedEarly, IInv, TypeOK
  <1>3. TypeOK'
    BY <1>1, <1>2 DEF IInv, TypeOK
  <1> QED
    BY <1>1, <1>3, TablesKept

\* known and next_dynamic after the stream lookup.
LEMMA AddStreamTyped ==
    ASSUME TypeOK, NEW req \in AttachRequests, Admitted(req), AddStream(req)
    PROVE  known' \subseteq StreamIds /\ next_dynamic' \in RangeStart .. RangeEnd
  BY AdmittedTyped DEF AddStream, TypeOK

\* An attach refused after the stream was looked up.
LEMMA RefusedLateStep ==
    ASSUME IInv, NEW req \in AttachRequests, AttachRefusedLate(req)
    PROVE  StepOK
  <1>1. UNCHANGED <<now, epoch, producer_lease_id, producer_client_id, huge, leases,
                    lease_counter, cooldowns, next_announce, dirs, restarts, failures>>
    BY DEF AttachRefusedLate, leaseVars
  <1>2. known' \subseteq StreamIds /\ next_dynamic' \in RangeStart .. RangeEnd
    BY AddStreamTyped DEF AttachRefusedLate, IInv
  <1>3. TypeOK'
    BY <1>1, <1>2 DEF IInv, TypeOK
  <1> QED
    BY <1>1, <1>3, TablesKept

\* A step that may move a producerless stream to a new epoch and touches no
\* lease: what AttachShmFailed and AttachNoNodeId have in common.
LEMMA EpochOnlyStep ==
    ASSUME IInv, NEW req \in AttachRequests, Accepted(req), NEW made \in ShmOutcomes,
           EnterEpoch(req, made), TypeOK', lease_counter' >= lease_counter,
           UNCHANGED <<now, producer_lease_id, producer_client_id, leases>>
    PROVE  StepOK
  <1> DEFINE s == Target(req)
  <1>1. Admitted(req) /\ s \in StreamIds
    BY AdmittedTyped DEF Accepted, IInv
  <1>2. /\ \A t \in StreamIds \ {s} : epoch'[t] = epoch[t] /\ dirs'[t] = dirs[t]
        /\ epoch'[s] = AttachEpoch(req)
        /\ \A d \in dirs'[s] : d \in dirs[s] \/ d.epoch = epoch'[s]
        /\ ~NeedsEpoch(req) => UNCHANGED <<epoch, dirs>>
    BY <1>1, EnterEpochTyped DEF IInv
  <1>3. \A l \in leases : l.role = "PRODUCER" =>
          epoch'[l.stream] = epoch[l.stream] /\ dirs'[l.stream] = dirs[l.stream]
    <2> SUFFICES ASSUME NEW l \in leases, l.role = "PRODUCER"
                 PROVE  epoch'[l.stream] = epoch[l.stream] /\ dirs'[l.stream] = dirs[l.stream]
      OBVIOUS
    <2>1. l.stream \in StreamIds
      BY DEF IInv, TypeOK, LeaseRecords
    <2>2. NeedsEpoch(req) => l.stream # s
      BY NoProducerAt
    <2> QED
      BY <1>2, <2>1, <2>2
  <1>4. LeaseInv'
    <2>1. \A l \in leases : l.id \in Nat
      BY DEF IInv, TypeOK, LeaseRecords
    <2>2. lease_counter \in Nat /\ lease_counter' \in Nat
      BY DEF IInv, TypeOK
    <2> QED
      BY <2>1, <2>2 DEF IInv, LeaseInv, LeaseIdsDrawn, DistinctIdentities, SingleProducer
  <1>5. ProducerBacked'
    BY <1>3 DEF IInv, ProducerBacked
  <1>6. DirsBelow' /\ FreshEpoch
    <2>1. NeedsEpoch(req) => epoch'[s] = BumpedEpoch(s)
      BY <1>2 DEF AttachEpoch
    <2> QED
      BY <1>2, <2>1, EpochsForward
  <1>7. KeepsProducerEpoch /\ RevokesEnded
    BY <1>3 DEF KeepsProducerEpoch, RevokesEnded
  <1> QED
    BY <1>4, <1>5, <1>6, <1>7 DEF StepOK, IInv

\* An attach whose files cannot be made.
LEMMA ShmFailedStep ==
    ASSUME IInv, NEW req \in AttachRequests, NEW made \in ShmOutcomes, AttachShmFailed(req, made)
    PROVE  StepOK
  <1>1. /\ UNCHANGED <<now, producer_lease_id, producer_client_id, leases, lease_counter,
                       cooldowns, next_announce, restarts>>
        /\ failures' = failures + 1 /\ Accepted(req) /\ EnterEpoch(req, made) /\ AddStream(req)
    BY DEF AttachShmFailed, leaseVars
  <1>2. TypeOK'
    BY <1>1, AddStreamTyped, EnterEpochTyped DEF IInv, TypeOK, Accepted
  <1>3. lease_counter' >= lease_counter
    BY <1>1 DEF IInv, TypeOK
  <1> QED
    BY <1>1, <1>2, <1>3, EpochOnlyStep

\* An attach for which no node id is left.
LEMMA NoNodeIdStep ==
    ASSUME IInv, NEW req \in AttachRequests, AttachNoNodeId(req)
    PROVE  StepOK
  <1>1. /\ UNCHANGED <<now, producer_lease_id, producer_client_id, leases, cooldowns,
                       next_announce, restarts, failures>>
        /\ lease_counter' = lease_counter + 1
        /\ Accepted(req) /\ EnterEpoch(req, "whole") /\ AddStream(req)
    BY DEF AttachNoNodeId
  <1>2. "whole" \in ShmOutcomes
    BY DEF ShmOutcomes
  <1>3. TypeOK'
    BY <1>1, <1>2, AddStreamTyped, EnterEpochTyped DEF IInv, TypeOK, Accepted
  <1>4. lease_counter' >= lease_counter
    BY <1>1 DEF IInv, TypeOK
  <1> QED
    BY <1>1, <1>2, <1>3, <1>4, EpochOnlyStep

\* The node id of a new lease is in no other lease.
LEMMA NodeFree ==
    ASSUME IInv, NEW req \in AttachRequests, NEW node \in NodeIds \cup {0},
           AttachGranted(req, node)
    PROVE  \A l \in leases : l.node # node
  <1>1. CASE req.node = NullNode
    BY <1>1 DEF AttachGranted, NodeIdAvailable, NodeIdInUse
  <1>2. CASE req.node # NullNode
    <2>1. node = req.node /\ NodeIdAvailable(req.node)
      BY <1>2 DEF AttachGranted, Accepted, LateCode
    <2> QED
      BY <2>1 DEF NodeIdAvailable, NodeIdInUse
  <1> QED
    BY <1>1, <1>2

\* tp_driver_handle_attach that grants a lease.
LEMMA GrantedStep ==
    ASSUME IInv, NEW req \in AttachRequests, NEW node \in NodeIds \cup {0},
           AttachGranted(req, node)
    PROVE  StepOK
  <1> DEFINE s == Target(req)
             id == lease_counter + 1
             new == [id |-> id, stream |-> s, client |-> req.client, role |-> req.role,
                     node |-> node, expiry |-> now + LeaseTicks]
  <1>1. /\ UNCHANGED <<now, cooldowns, next_announce, restarts, failures>>
        /\ lease_counter' = id /\ leases' = leases \cup {new}
        /\ Accepted(req) /\ Admitted(req) /\ EnterEpoch(req, "whole") /\ AddStream(req)
    BY DEF AttachGranted, Accepted
  <1>2. IF req.role = "PRODUCER"
          THEN /\ producer_lease_id' = [producer_lease_id EXCEPT ![s] = id]
               /\ producer_client_id' = [producer_client_id EXCEPT ![s] = req.client]
          ELSE UNCHANGED <<producer_lease_id, producer_client_id>>
    BY DEF AttachGranted
  <1>3. /\ s \in StreamIds /\ req.role \in Roles /\ req.client \in Nat \ {0}
        /\ \A l \in leases : l.client # req.client
    BY <1>1, AdmittedTyped DEF IInv
  <1>4. \A l \in leases : l.node # node
    BY NodeFree
  <1>5. /\ lease_counter \in Nat /\ id \in Nat \ {0} /\ now \in Nat
        /\ producer_lease_id \in [StreamIds -> Nat] /\ producer_client_id \in [StreamIds -> Nat]
        /\ \A l \in leases : /\ l.id \in Nat \ {0} /\ l.id <= lease_counter /\ l.id # id
                             /\ l.stream \in StreamIds
    BY DEF IInv, TypeOK, LeaseInv, LeaseIdsDrawn, LeaseRecords
  <1>6. new \in LeaseRecords
    BY <1>3, <1>5, TimesAssumption DEF LeaseRecords
  <1>7. /\ new.id = id /\ new.stream = s /\ new.client = req.client /\ new.role = req.role
        /\ new.node = node
    OBVIOUS
  <1>8. /\ epoch' \in [StreamIds -> Nat] /\ huge' \in [StreamIds -> BOOLEAN]
        /\ dirs' \in [StreamIds -> SUBSET DirRecords]
        /\ \A t \in StreamIds \ {s} : epoch'[t] = epoch[t] /\ dirs'[t] = dirs[t]
        /\ epoch'[s] = AttachEpoch(req)
        /\ \A d \in dirs'[s] : d \in dirs[s] \/ d.epoch = epoch'[s]
        /\ NeedsEpoch(req) => \E d \in dirs'[s] : d.epoch = AttachEpoch(req) /\ d.whole
        /\ ~NeedsEpoch(req) => UNCHANGED <<epoch, dirs>>
    <2>1. "whole" \in ShmOutcomes
      BY DEF ShmOutcomes
    <2> QED
      BY <1>1, <2>1, EnterEpochTyped DEF IInv
  <1>9. /\ req.role = "PRODUCER" => producer_lease_id[s] = 0 /\ NeedsEpoch(req)
        /\ \A l \in leases : l.role = "PRODUCER" /\ NeedsEpoch(req) => l.stream # s
    <2>1. req.role = "PRODUCER" => producer_lease_id[s] = 0 /\ NeedsEpoch(req)
      BY <1>1 DEF Accepted, LateCode, NeedsEpoch
    <2>2. \A l \in leases : l.role = "PRODUCER" /\ NeedsEpoch(req) => l.stream # s
      BY <1>1, NoProducerAt
    <2> QED
      BY <2>1, <2>2
  <1>10. known' \subseteq StreamIds /\ next_dynamic' \in RangeStart .. RangeEnd
    BY <1>1, AddStreamTyped DEF IInv
  <1> HIDE DEF new, s, id
  <1>11. TypeOK'
    <2>1. leases' \subseteq LeaseRecords
      BY <1>1, <1>6 DEF IInv, TypeOK
    <2>2. producer_lease_id' \in [StreamIds -> Nat] /\ producer_client_id' \in [StreamIds -> Nat]
      BY <1>2, <1>3, <1>5
    <2> QED
      BY <1>1, <1>5, <1>8, <1>10, <2>1, <2>2 DEF IInv, TypeOK
  <1>12. LeaseIdsDrawn'
    BY <1>1, <1>5, <1>7 DEF LeaseIdsDrawn, id
  <1>13. DistinctIdentities'
    BY <1>1, <1>3, <1>4, <1>5, <1>7 DEF IInv, LeaseInv, DistinctIdentities
  <1>14. SingleProducer'
    <2> SUFFICES ASSUME NEW t \in StreamIds
                 PROVE  LET producers == {l \in leases' : l.stream = t /\ l.role = "PRODUCER"} IN
                          /\ \A l \in producers : /\ producer_lease_id'[t] = l.id
                                                  /\ producer_client_id'[t] = l.client
                          /\ producer_lease_id'[t] # 0 =>
                               \E l \in producers : producer_lease_id'[t] = l.id
      BY DEF SingleProducer
    <2>1. /\ \A l \in leases : l.stream = t /\ l.role = "PRODUCER" =>
               producer_lease_id[t] = l.id /\ producer_client_id[t] = l.client
          /\ producer_lease_id[t] # 0 =>
               \E l \in leases : l.stream = t /\ l.role = "PRODUCER" /\ producer_lease_id[t] = l.id
      BY DEF IInv, LeaseInv, SingleProducer
    <2>2. CASE req.role = "PRODUCER" /\ t = s
      BY <2>1, <2>2, <1>1, <1>2, <1>3, <1>5, <1>7, <1>9
    <2>3. CASE ~(req.role = "PRODUCER" /\ t = s)
      <3>1. producer_lease_id'[t] = producer_lease_id[t] /\ producer_client_id'[t] = producer_client_id[t]
        BY <2>3, <1>2, <1>5
      <3> QED
        BY <2>1, <2>3, <3>1, <1>1, <1>7
    <2> QED
      BY <2>2, <2>3
  <1>15. \A l \in leases : l.role = "PRODUCER" =>
           epoch'[l.stream] = epoch[l.stream] /\ dirs'[l.stream] = dirs[l.stream]
    BY <1>5, <1>8, <1>9
  <1>16. ProducerBacked'
    <2> SUFFICES ASSUME NEW l \in leases', l.role = "PRODUCER"
                 PROVE  \E d \in dirs'[l.stream] : d.epoch = epoch'[l.stream] /\ d.whole
      BY DEF ProducerBacked
    <2>1. CASE l \in leases
      BY <1>15, <2>1 DEF IInv, ProducerBacked
    <2>2. CASE l = new
      BY <1>7, <1>8, <1>9, <2>2
    <2> QED
      BY <1>1, <2>1, <2>2
  <1>17. DirsBelow' /\ FreshEpoch
    <2>1. NeedsEpoch(req) => epoch'[s] = BumpedEpoch(s)
      BY <1>8 DEF AttachEpoch, s
    <2> QED
      BY <1>1, <1>8, <2>1, EpochsForward
  <1>18. KeepsProducerEpoch /\ RevokesEnded
    BY <1>1, <1>15 DEF KeepsProducerEpoch, RevokesEnded
  <1> QED
    BY <1>11, <1>12, <1>13, <1>14, <1>16, <1>17, <1>18 DEF StepOK, IInv, LeaseInv

\* Leases end: the stream table forgets exactly the producers among them.
LEMMA LeasesEnd ==
    ASSUME IInv, NEW L \in SUBSET leases, leases' = leases \ L, ReleaseProducers(L),
           lease_counter' = lease_counter
    PROVE  /\ LeaseInv'
           /\ producer_lease_id' \in [StreamIds -> Nat]
           /\ producer_client_id' \in [StreamIds -> Nat]
  <1> DEFINE freed == {s \in StreamIds : \E l \in L : /\ l.stream = s
                                                      /\ producer_lease_id[s] = l.id}
  <1>1. /\ producer_lease_id' = [s \in StreamIds |-> IF s \in freed THEN 0 ELSE producer_lease_id[s]]
        /\ producer_client_id' = [s \in StreamIds |-> IF s \in freed THEN 0 ELSE producer_client_id[s]]
    BY DEF ReleaseProducers
  <1>2. /\ \A s \in freed : \E l \in L : l.stream = s /\ producer_lease_id[s] = l.id
        /\ \A l \in L : l.stream \in StreamIds /\ producer_lease_id[l.stream] = l.id
                          => l.stream \in freed
    OBVIOUS
  <1> HIDE DEF freed
  <1>3. LeaseIdsDrawn' /\ DistinctIdentities'
    BY DEF IInv, LeaseInv, LeaseIdsDrawn, DistinctIdentities
  <1>4. SingleProducer'
    <2> SUFFICES ASSUME NEW t \in StreamIds
                 PROVE  LET producers == {l \in leases' : l.stream = t /\ l.role = "PRODUCER"} IN
                          /\ \A l \in producers : /\ producer_lease_id'[t] = l.id
                                                  /\ producer_client_id'[t] = l.client
                          /\ producer_lease_id'[t] # 0 =>
                               \E l \in producers : producer_lease_id'[t] = l.id
      BY DEF SingleProducer
    <2>1. /\ \A l \in leases : l.stream = t /\ l.role = "PRODUCER" =>
               producer_lease_id[t] = l.id /\ producer_client_id[t] = l.client
          /\ producer_lease_id[t] # 0 =>
               \E l \in leases : l.stream = t /\ l.role = "PRODUCER" /\ producer_lease_id[t] = l.id
      BY DEF IInv, LeaseInv, SingleProducer
    <2>2. CASE t \in freed
      <3>1. PICK m \in L : m.stream = t /\ producer_lease_id[t] = m.id
        BY <1>2, <2>2
      <3>2. \A l \in leases' : ~(l.stream = t /\ l.role = "PRODUCER")
        BY <2>1, <3>1 DEF IInv, LeaseInv, DistinctIdentities
      <3> QED
        BY <1>1, <2>2, <3>2
    <2>3. CASE t \notin freed
      BY <1>1, <1>2, <2>1, <2>3
    <2> QED
      BY <2>2, <2>3
  <1>5. producer_lease_id' \in [StreamIds -> Nat] /\ producer_client_id' \in [StreamIds -> Nat]
    BY <1>1 DEF IInv, TypeOK
  <1> QED
    BY <1>3, <1>4, <1>5 DEF LeaseInv

\* The type of the cooldowns after a lease ends.
LEMMA CooldownsTyped ==
    ASSUME TypeOK, NEW L, RecordCooldowns(L)
    PROVE  cooldowns' \in [NodeIds \cup {0} -> Nat]
  BY TimesAssumption DEF TypeOK, RecordCooldowns

\* tp_driver_handle_detach of a matching lease.
LEMMA DetachedStep ==
    ASSUME IInv, NEW req \in LeaseRequests, NEW made \in ShmOutcomes, DetachGranted(req, made)
    PROVE  StepOK
  <1>1. PICK l \in leases : /\ leases' = leases \ {l}
                            /\ RecordCooldowns({l}) /\ ReleaseProducers({l})
                            /\ LeaseRevoked(l, "DETACHED") \in out'
    BY DEF DetachGranted
  <1>2. UNCHANGED <<now, known, huge, next_dynamic, lease_counter, next_announce, restarts,
                    epoch, dirs, failures>>
    BY DEF DetachGranted, DetachIsProducer
  <1>3. /\ LeaseInv'
        /\ producer_lease_id' \in [StreamIds -> Nat] /\ producer_client_id' \in [StreamIds -> Nat]
    BY <1>1, <1>2, LeasesEnd
  <1>4. TypeOK'
    BY <1>1, <1>2, <1>3, CooldownsTyped DEF IInv, TypeOK
  <1>5. ProducerBacked' /\ DirsBelow' /\ FreshEpoch /\ KeepsProducerEpoch
    BY <1>1, <1>2 DEF IInv, ProducerBacked, DirsBelow, FreshEpoch, KeepsProducerEpoch
  <1>6. RevokesEnded
    BY <1>1 DEF RevokesEnded
  <1> QED
    BY <1>3, <1>4, <1>5, <1>6 DEF StepOK, IInv

\* A detach that names no lease.
LEMMA DetachRefusedStep ==
    ASSUME IInv, NEW req \in LeaseRequests, DetachRefused(req)
    PROVE  StepOK
  <1>1. UNCHANGED <<now, known, epoch, producer_lease_id, producer_client_id, huge, next_dynamic,
                    leases, lease_counter, cooldowns, next_announce, dirs, restarts, failures>>
    BY DEF DetachRefused, streamVars, leaseVars
  <1>2. TypeOK'
    BY <1>1 DEF IInv, TypeOK
  <1> QED
    BY <1>1, <1>2, TablesKept

\* tp_driver_handle_keepalive changes nothing of a lease but its expiry.
LEMMA KeepaliveStep ==
    ASSUME IInv, NEW req \in LeaseRequests, Keepalive(req)
    PROVE  StepOK
  <1> DEFINE F(l) == IF Matches(l, req) THEN [l EXCEPT !.expiry = now + LeaseTicks] ELSE l
  <1>1. /\ UNCHANGED <<now, known, epoch, producer_lease_id, producer_client_id, huge,
                       next_dynamic, lease_counter, cooldowns, next_announce, dirs, restarts,
                       failures>>
        /\ leases' = {F(l) : l \in leases}
    BY DEF Keepalive, streamVars
  <1>2. ASSUME NEW l \in leases
        PROVE  /\ F(l) \in LeaseRecords /\ F(l).id = l.id /\ F(l).stream = l.stream
               /\ F(l).client = l.client /\ F(l).role = l.role /\ F(l).node = l.node
    <2>1. l \in LeaseRecords /\ now + LeaseTicks \in Nat
      BY TimesAssumption DEF IInv, TypeOK
    <2> QED
      BY <2>1 DEF LeaseRecords
  <1> HIDE DEF F
  <1>3. TypeOK'
    <2>1. leases' \subseteq LeaseRecords
      BY <1>1, <1>2
    <2> QED
      BY <1>1, <2>1 DEF IInv, TypeOK
  <1>4. LeaseIdsDrawn' /\ DistinctIdentities'
    BY <1>1, <1>2 DEF IInv, LeaseInv, LeaseIdsDrawn, DistinctIdentities
  <1>5. SingleProducer'
    <2> SUFFICES ASSUME NEW t \in StreamIds
                 PROVE  LET producers == {l \in leases' : l.stream = t /\ l.role = "PRODUCER"} IN
                          /\ \A l \in producers : /\ producer_lease_id[t] = l.id
                                                  /\ producer_client_id[t] = l.client
                          /\ producer_lease_id[t] # 0 =>
                               \E l \in producers : producer_lease_id[t] = l.id
      BY <1>1 DEF SingleProducer
    <2>1. /\ \A l \in leases : l.stream = t /\ l.role = "PRODUCER" =>
               producer_lease_id[t] = l.id /\ producer_client_id[t] = l.client
          /\ producer_lease_id[t] # 0 =>
               \E l \in leases : l.stream = t /\ l.role = "PRODUCER" /\ producer_lease_id[t] = l.id
      BY DEF IInv, LeaseInv, SingleProducer
    <2>2. ASSUME NEW m \in leases', m.stream = t, m.role = "PRODUCER"
          PROVE  producer_lease_id[t] = m.id /\ producer_client_id[t] = m.client
      BY <1>1, <1>2, <2>1, <2>2
    <2>3. ASSUME producer_lease_id[t] # 0
          PROVE  \E m \in leases' : /\ m.stream = t /\ m.role = "PRODUCER"
                                    /\ producer_lease_id[t] = m.id
      <3>1. PICK l \in leases : l.stream = t /\ l.role = "PRODUCER" /\ producer_lease_id[t] = l.id
        BY <2>1, <2>3
      <3> QED
        BY <1>1, <1>2, <3>1
    <2> QED
      BY <2>2, <2>3
  <1>6. ProducerBacked' /\ DirsBelow'
    BY <1>1, <1>2 DEF IInv, ProducerBacked, DirsBelow
  <1>7. FreshEpoch /\ KeepsProducerEpoch
    BY <1>1 DEF FreshEpoch, KeepsProducerEpoch
  <1>8. RevokesEnded
    <2>1. \A l \in leases : \E m \in leases' : m.id = l.id
      BY <1>1, <1>2
    <2> QED
      BY <2>1 DEF RevokesEnded
  <1> QED
    BY <1>3, <1>4, <1>5, <1>6, <1>7, <1>8 DEF StepOK, IInv, LeaseInv

\* tp_driver_do_work: a stream whose producer expired has no producer left, so
\* the epoch moves under nobody.
LEMMA DoWorkStep ==
    ASSUME IInv, NEW made \in [ExpiredProducers(Expired) -> ShmOutcomes], DoWork(made)
    PROVE  StepOK
  <1> DEFINE bumped == ExpiredProducers(Expired)
  <1>1. /\ leases' = leases \ Expired /\ RecordCooldowns(Expired) /\ ReleaseProducers(Expired)
        /\ UNCHANGED <<now, known, huge, next_dynamic, lease_counter, restarts>>
        /\ epoch' = [s \in StreamIds |-> IF s \in bumped THEN BumpedEpoch(s) ELSE epoch[s]]
        /\ dirs' = [s \in StreamIds |->
                      IF s \in bumped THEN CreateShm(dirs[s], BumpedEpoch(s), made[s])
                                      ELSE dirs[s]]
        /\ next_announce' = IF AnnounceDue THEN now + AnnounceTicks ELSE next_announce
        /\ failures' = failures + Cardinality({s \in bumped : made[s] # "whole"})
        /\ \A l \in Expired : LeaseRevoked(l, "EXPIRED") \in out'
    BY DEF DoWork
  <1>2. /\ LeaseInv'
        /\ producer_lease_id' \in [StreamIds -> Nat] /\ producer_client_id' \in [StreamIds -> Nat]
    BY <1>1, LeasesEnd DEF Expired
  <1>3. ASSUME NEW s \in bumped
        PROVE  /\ BumpedEpoch(s) \in Nat
               /\ CreateShm(dirs[s], BumpedEpoch(s), made[s]) \in SUBSET DirRecords
               /\ \A d \in CreateShm(dirs[s], BumpedEpoch(s), made[s]) :
                    d \in dirs[s] \/ d.epoch = BumpedEpoch(s)
    <2>1. s \in StreamIds /\ made[s] \in ShmOutcomes /\ dirs[s] \in SUBSET DirRecords
      BY DEF ExpiredProducers, IInv, TypeOK
    <2> QED
      BY <2>1, BumpForward, CreateShmAdds DEF IInv
  <1>4. \A l \in leases' : l.role = "PRODUCER" => l.stream \notin bumped /\ l.stream \in StreamIds
    <2> SUFFICES ASSUME NEW l \in leases', l.role = "PRODUCER",
                        NEW m \in Expired, m.stream = l.stream, m.role = "PRODUCER"
                 PROVE  FALSE
      BY <1>1 DEF ExpiredProducers, IInv, TypeOK, LeaseRecords
    <2>1. l \in leases /\ l \notin Expired /\ m \in leases /\ l.stream \in StreamIds
      BY <1>1 DEF Expired, IInv, TypeOK, LeaseRecords
    <2>2. l.id = m.id
      BY <2>1 DEF IInv, LeaseInv, SingleProducer
    <2> QED
      BY <2>1, <2>2 DEF IInv, LeaseInv, DistinctIdentities
  <1>5. failures' \in Nat /\ next_announce' \in Nat
    <2>1. {s \in bumped : made[s] # "whole"} \in SUBSET StreamIds
      BY DEF ExpiredProducers
    <2>2. Cardinality({s \in bumped : made[s] # "whole"}) \in Nat
      BY <2>1, StreamsAssumption, FS_Subset, FS_CardinalityType
    <2> QED
      BY <1>1, <2>2, TimesAssumption DEF IInv, TypeOK
  <1> HIDE DEF bumped
  <1>6. TypeOK'
    <2>1. epoch' \in [StreamIds -> Nat] /\ dirs' \in [StreamIds -> SUBSET DirRecords]
      BY <1>1, <1>3 DEF IInv, TypeOK
    <2> QED
      BY <1>1, <1>2, <1>5, <2>1, CooldownsTyped DEF IInv, TypeOK
  <1>7. \A l \in leases' : l.role = "PRODUCER" =>
          /\ l \in leases
          /\ epoch'[l.stream] = epoch[l.stream] /\ dirs'[l.stream] = dirs[l.stream]
    BY <1>1, <1>4
  <1>8. ProducerBacked'
    BY <1>7 DEF IInv, ProducerBacked
  <1>9. DirsBelow' /\ FreshEpoch
    <2>1. \A s \in StreamIds :
            \/ epoch'[s] = epoch[s] /\ dirs'[s] = dirs[s]
            \/ /\ epoch'[s] = BumpedEpoch(s)
               /\ \A d \in dirs'[s] : d \in dirs[s] \/ d.epoch = epoch'[s]
      BY <1>1, <1>3
    <2> QED
      BY <1>1, <2>1, EpochsForward
  <1>10. KeepsProducerEpoch
    <2> SUFFICES ASSUME NEW l \in leases, NEW m \in leases', l.id = m.id, l.role = "PRODUCER"
                 PROVE  epoch'[l.stream] = epoch[l.stream]
      BY DEF KeepsProducerEpoch
    <2>1. l = m
      BY <1>1 DEF IInv, LeaseInv, DistinctIdentities
    <2> QED
      BY <1>7, <2>1
  <1>11. RevokesEnded
    <2> SUFFICES ASSUME NEW l \in leases, \A m \in leases' : m.id # l.id
                 PROVE  LeaseRevoked(l, "EXPIRED") \in out' /\ now > l.expiry
      BY DEF RevokesEnded
    <2>1. l \in Expired
      BY <1>1
    <2> QED
      BY <1>1, <2>1 DEF Expired, IsExpired
  <1> QED
    BY <1>2, <1>6, <1>8, <1>9, <1>10, <1>11 DEF StepOK, IInv

\* Time passes.
LEMMA TickStep ==
    ASSUME IInv, Tick
    PROVE  StepOK
  <1>1. /\ now' = now + 1
        /\ UNCHANGED <<known, epoch, producer_lease_id, producer_client_id, huge, next_dynamic,
                       leases, lease_counter, cooldowns, next_announce, dirs, restarts, failures>>
    BY DEF Tick, streamVars, leaseVars
  <1>2. TypeOK'
    BY <1>1 DEF IInv, TypeOK
  <1>3. LeaseInv' /\ ProducerBacked'
    BY <1>1 DEF IInv, LeaseInv, LeaseIdsDrawn, DistinctIdentities, SingleProducer, ProducerBacked
  <1>4. DirsBelow'
    <2>1. now \in Nat /\ \A s \in StreamIds : \A d \in dirs[s] : d.epoch \in Nat
      BY DEF IInv, TypeOK, DirRecords
    <2> QED
      BY <1>1, <2>1 DEF IInv, DirsBelow
  <1>5. KeepsProducerEpoch /\ FreshEpoch /\ RevokesEnded
    BY <1>1 DEF KeepsProducerEpoch, FreshEpoch, RevokesEnded
  <1> QED
    BY <1>2, <1>3, <1>4, <1>5 DEF StepOK, IInv

\* The next process knows no lease; the directories it finds are older than the
\* clock.
LEMMA RestartStep ==
    ASSUME IInv, NEW graceful \in BOOLEAN, Restart(graceful)
    PROVE  StepOK
  <1>1. /\ known' = Configured /\ epoch' = [s \in StreamIds |-> 0]
        /\ producer_lease_id' = [s \in StreamIds |-> 0]
        /\ producer_client_id' = [s \in StreamIds |-> 0]
        /\ huge' = [s \in StreamIds |-> ConfigHuge]
        /\ next_dynamic' = RangeStart /\ leases' = {}
        /\ cooldowns' = [n \in DOMAIN cooldowns |-> 0]
        /\ next_announce' = now /\ restarts' = restarts + 1
        /\ UNCHANGED <<now, lease_counter, failures>>
        /\ \A s \in StreamIds : \A d \in dirs[s] : d.epoch < now
        /\ dirs' = [s \in StreamIds |-> IF GcOnStartup /\ s \in Configured THEN Gc(dirs[s], 0)
                                                                           ELSE dirs[s]]
    BY DEF Restart
  <1>2. \A s \in StreamIds : dirs'[s] \subseteq dirs[s]
    BY <1>1 DEF Gc
  <1>3. TypeOK'
    <2>1. dirs' \in [StreamIds -> SUBSET DirRecords]
      BY <1>1, <1>2 DEF IInv, TypeOK
    <2>2. huge' \in [StreamIds -> BOOLEAN]
      BY <1>1, FlagsAssumption
    <2> QED
      BY <1>1, <2>1, <2>2, StreamsAssumption DEF IInv, TypeOK
  <1>4. LeaseInv' /\ ProducerBacked'
    BY <1>1 DEF LeaseInv, LeaseIdsDrawn, DistinctIdentities, SingleProducer, ProducerBacked
  <1>5. DirsBelow'
    BY <1>1, <1>2 DEF DirsBelow
  <1>6. KeepsProducerEpoch /\ FreshEpoch
    BY <1>1 DEF KeepsProducerEpoch, FreshEpoch
  <1>7. RevokesEnded
    BY <1>1 DEF RevokesEnded, IInv, TypeOK
  <1> QED
    BY <1>3, <1>4, <1>5, <1>6, <1>7 DEF StepOK, IInv

-----------------------------------------------------------------------------
(* Theorems                                                                 *)

\* The invariant holds at first.
LEMMA DriverInit == Init => IInv
  <1> SUFFICES ASSUME Init PROVE IInv
    OBVIOUS
  <1>1. TypeOK
    BY StreamsAssumption, FlagsAssumption DEF Init, TypeOK
  <1>2. LeaseInv /\ ProducerBacked /\ DirsBelow
    BY DEF Init, LeaseInv, LeaseIdsDrawn, DistinctIdentities, SingleProducer, ProducerBacked,
           DirsBelow
  <1> QED
    BY <1>1, <1>2 DEF IInv

\* Every step keeps the invariant and the action properties.
LEMMA DriverNext ==
    IInv /\ [Next]_vars => IInv' /\ [KeepsProducerEpoch /\ FreshEpoch /\ RevokesEnded]_vars
  <1> SUFFICES ASSUME IInv, [Next]_vars
               PROVE  IInv' /\ [KeepsProducerEpoch /\ FreshEpoch /\ RevokesEnded]_vars
    OBVIOUS
  <1>1. ASSUME NEW req \in AttachRequests, HandleAttach(req) PROVE StepOK
    BY <1>1, RefusedEarlyStep, RefusedLateStep, ShmFailedStep, NoNodeIdStep, GrantedStep
    DEF HandleAttach
  <1>2. ASSUME NEW req \in LeaseRequests, HandleLeaseRequest(req) PROVE StepOK
    BY <1>2, DetachedStep, DetachRefusedStep, KeepaliveStep DEF HandleLeaseRequest
  <1>3. ASSUME NEW made \in [ExpiredProducers(Expired) -> ShmOutcomes], DoWork(made) PROVE StepOK
    BY <1>3, DoWorkStep
  <1>4. ASSUME Next PROVE StepOK
    BY <1>1, <1>2, <1>3, <1>4, TickStep, RestartStep DEF Next
  <1>5. CASE UNCHANGED vars
    <2>1. TypeOK'
      BY <1>5 DEF vars, streamVars, leaseVars, IInv, TypeOK
    <2> QED
      BY <1>5, <2>1, TablesKept DEF vars, streamVars, leaseVars, StepOK
  <1> QED
    BY <1>4, <1>5 DEF StepOK

\* Every reachable state of the driver satisfies the inductive invariant.
THEOREM DriverCorrect == Spec => []IInv
  BY DriverInit, DriverNext, PTL DEF Spec

\* Type correctness: leases, streams, epochs and directories stay well formed
\* whatever requests arrive.
THEOREM DriverTyped == Spec => []TypeOK
  <1>1. IInv => TypeOK
    BY DEF IInv
  <1> QED
    BY <1>1, DriverCorrect, PTL

\* At most one producer lease per stream, and the stream table names it.
THEOREM OneProducer == Spec => []SingleProducer
  <1>1. IInv => SingleProducer
    BY DEF IInv, LeaseInv
  <1> QED
    BY <1>1, DriverCorrect, PTL

\* Lease ids, client ids and node ids are unique among live leases.
THEOREM IdentitiesDistinct == Spec => []DistinctIdentities
  <1>1. IInv => DistinctIdentities
    BY DEF IInv, LeaseInv
  <1> QED
    BY <1>1, DriverCorrect, PTL

\* Neither an attach, an expiry nor garbage collection takes a live producer's
\* regions away.
THEOREM ProducersBacked == Spec => []ProducerBacked
  <1>1. IInv => ProducerBacked
    BY DEF IInv
  <1> QED
    BY <1>1, DriverCorrect, PTL

\* No step moves the epoch of a stream under a producer that keeps its lease.
THEOREM EpochStable == Spec => ProducerEpochStable
  <1>1. IInv /\ [Next]_vars => [KeepsProducerEpoch]_vars
    BY DriverNext
  <1>2. ProducerEpochStable <=> [][KeepsProducerEpoch]_vars
    BY DEF ProducerEpochStable, KeepsProducerEpoch
  <1> QED
    BY <1>1, <1>2, DriverCorrect, PTL DEF Spec

\* A new epoch is above the old one and above every epoch still on disk, across
\* restarts of the driver.
THEOREM EpochFresh == Spec => EpochNeverReused
  <1>1. IInv /\ [Next]_vars => [FreshEpoch]_vars
    BY DriverNext
  <1>2. EpochNeverReused <=> [][FreshEpoch]_vars
    BY DEF EpochNeverReused, FreshEpoch
  <1> QED
    BY <1>1, <1>2, DriverCorrect, PTL DEF Spec

\* Every lease that ends while the driver runs is reported as revoked, and an
\* expiry is never early.
THEOREM EndsAreRevoked == Spec => LeaseEndIsRevoked
  <1>1. IInv /\ [Next]_vars => [RevokesEnded]_vars
    BY DriverNext
  <1>2. LeaseEndIsRevoked <=> [][RevokesEnded]_vars
    BY DEF LeaseEndIsRevoked, RevokesEnded
  <1> QED
    BY <1>1, <1>2, DriverCorrect, PTL DEF Spec

-----------------------------------------------------------------------------
(* Garbage collection                                                       *)

\* A directory's name is its epoch, and directories were made in the past.
DirsOnDisk ==
    /\ now <= MaxTime
    /\ \A s \in StreamIds :
         /\ IsFiniteSet(dirs[s])
         /\ \A d, x \in dirs[s] : d.epoch = x.epoch => d = x
         /\ \A d \in dirs[s] : d.made <= now

GcInv == DirsOnDisk /\ GcBounded

\* Of a finite set of directories with different epochs, at most k have fewer
\* than k newer ones.
LEMMA NewestFew ==
    ASSUME NEW D, IsFiniteSet(D), \A d \in D : d.epoch \in Nat,
           \A d, x \in D : d.epoch = x.epoch => d = x, NEW k \in Nat
    PROVE  LET few == {d \in D : ~(Cardinality({x \in D : x.epoch > d.epoch}) >= k)}
           IN  IsFiniteSet(few) /\ Cardinality(few) <= k
  <1> DEFINE above(d) == {x \in D : x.epoch > d.epoch}
             few == {d \in D : ~(Cardinality(above(d)) >= k)}
             f == [d \in few |-> Cardinality(above(d))]
  <1>1. \A d \in D : IsFiniteSet(above(d)) /\ Cardinality(above(d)) \in Nat
    <2> TAKE d \in D
    <2>1. above(d) \in SUBSET D
      OBVIOUS
    <2> HIDE DEF above
    <2> QED BY <2>1, FS_Subset, FS_CardinalityType
  <1>2. \A d, x \in D : d.epoch < x.epoch => Cardinality(above(x)) < Cardinality(above(d))
    <2> SUFFICES ASSUME NEW d \in D, NEW x \in D, d.epoch < x.epoch
                 PROVE  Cardinality(above(x)) < Cardinality(above(d))
      OBVIOUS
    <2>1. above(x) \in SUBSET above(d) /\ x \in above(d) /\ x \notin above(x)
      OBVIOUS
    <2> HIDE DEF above
    <2>2. Cardinality(above(x)) <= Cardinality(above(d)) /\ Cardinality(above(x)) # Cardinality(above(d))
      BY <1>1, <2>1, FS_Subset
    <2> QED BY <1>1, <2>2
  <1> HIDE DEF above
  <1>3. f \in [few -> 0 .. k - 1] /\ \A d, x \in few : f[d] = f[x] => d = x
    <2>1. \A d \in few : Cardinality(above(d)) \in 0 .. k - 1
      BY <1>1
    <2>2. ASSUME NEW d \in few, NEW x \in few, f[d] = f[x] PROVE d = x
      <3>1. d \in D /\ x \in D /\ d.epoch \in Nat /\ x.epoch \in Nat
        OBVIOUS
      <3>2. Cardinality(above(d)) = Cardinality(above(x))
        BY <2>2
      <3>3. ~(d.epoch < x.epoch) /\ ~(x.epoch < d.epoch)
        BY <1>1, <1>2, <3>1, <3>2
      <3> QED BY <3>1, <3>3
    <2> QED BY <2>1, <2>2
  <1> HIDE DEF f, few
  <1>4. f \in Injection(few, 0 .. k - 1)
    BY <1>3 DEF Injection, IsInjective
  <1>5. IsFiniteSet(0 .. k - 1) /\ Cardinality(0 .. k - 1) = k
    BY FS_Interval
  <1>6. IsFiniteSet(few) /\ Cardinality(few) <= k
    BY <1>4, <1>5, FS_Injection
  <1> QED BY <1>6 DEF few, above

\* The age of a directory is never below epoch_gc_min_age: the wall clock time of
\* the directory is ahead of the monotonic clock, and the difference wraps.
LEMMA AlwaysOldEnough ==
    ASSUME NEW d \in DirRecords, now \in Nat, d.made <= now, now <= MaxTime
    PROVE  OldEnough(d)
  <1> DEFINE ahead == d.made + WallOffset - now
  <1>1. d.made \in Nat /\ WallOffset \in Nat /\ MaxTime \in Nat /\ Wrap \in Nat /\ GcMinAge \in Nat
        /\ WallOffset > MaxTime /\ Wrap > WallOffset + MaxTime + GcMinAge
    BY TimesAssumption, ClockAssumption DEF DirRecords
  <1>2. ahead \in Nat /\ ahead > 0 /\ ahead <= WallOffset /\ now - (d.made + WallOffset) = -ahead
    BY <1>1
  <1> HIDE DEF ahead
  <1>3. (-ahead) % Wrap = Wrap - ahead
    BY <1>1, <1>2
  <1> QED BY <1>1, <1>2, <1>3 DEF OldEnough, AgeNs

\* tp_driver_gc_stream leaves the current epoch's directory and GcKeep - 1 others.
LEMMA GcKeepsFew ==
    ASSUME NEW D \in SUBSET DirRecords, IsFiniteSet(D), \A d, x \in D : d.epoch = x.epoch => d = x,
           \A d \in D : d.made <= now, now \in Nat, now <= MaxTime, GcKeep > 0, NEW e
    PROVE  IsFiniteSet(Gc(D, e)) /\ Cardinality(Gc(D, e)) <= GcKeep
  <1> DEFINE old == {d \in D : d.epoch # e}
             few == {d \in old : ~(Cardinality({x \in old : x.epoch > d.epoch}) >= GcKeep - 1)}
             cur == {d \in D : d.epoch = e}
  <1>1. GcKeep \in Nat /\ GcKeep - 1 \in Nat
    BY TimesAssumption
  <1>2. IsFiniteSet(old) /\ IsFiniteSet(cur)
    <2>1. old \in SUBSET D /\ cur \in SUBSET D
      OBVIOUS
    <2> HIDE DEF old, cur
    <2> QED BY <2>1, FS_Subset
  <1>3. \A d \in old : d.epoch \in Nat
    BY DEF DirRecords
  <1>4. IsFiniteSet(few) /\ Cardinality(few) <= GcKeep - 1
    BY <1>1, <1>2, <1>3, NewestFew
  <1>5. Gc(D, e) = few \cup cur
    <2>1. \A d \in D : OldEnough(d)
      BY AlwaysOldEnough
    <2> QED BY <2>1 DEF Gc, GcVictims
  <1>6. Cardinality(cur) <= 1
    <2>1. CASE cur = {}
      BY <2>1, FS_EmptySet
    <2>2. CASE cur # {}
      <3>1. PICK d \in D : cur = {d}
        BY <2>2
      <3> QED BY <3>1, FS_Singleton
    <2> QED BY <2>1, <2>2
  <1> HIDE DEF few, cur
  <1>7. IsFiniteSet(few \cup cur) /\ IsFiniteSet(few \cap cur)
        /\ Cardinality(few \cup cur) = Cardinality(few) + Cardinality(cur) - Cardinality(few \cap cur)
    BY <1>2, <1>4, FS_Union, FS_Intersection
  <1>8. Cardinality(few) \in Nat /\ Cardinality(cur) \in Nat /\ Cardinality(few \cap cur) \in Nat
    BY <1>2, <1>4, <1>7, FS_CardinalityType
  <1> QED BY <1>1, <1>4, <1>5, <1>6, <1>7, <1>8

\* What a step does to the clock, the epoch and the directories of a stream.
DirsStep ==
    /\ now' \in {now, now + 1} /\ now' <= MaxTime
    /\ \A s \in StreamIds :
        \/ epoch'[s] = epoch[s] /\ dirs'[s] = dirs[s]
        \/ /\ epoch'[s] = BumpedEpoch(s) /\ now' = now
           /\ \E made \in ShmOutcomes : dirs'[s] = CreateShm(dirs[s], BumpedEpoch(s), made)
        \/ epoch'[s] = 0 /\ now' = now /\ dirs'[s] \in {dirs[s], Gc(dirs[s], 0)}

\* Every step does one of the three.
LEMMA DirsMove ==
    ASSUME IInv, GcInv, Next
    PROVE  DirsStep
  <1>1. /\ now \in Nat /\ now <= MaxTime /\ epoch \in [StreamIds -> Nat] /\ MaxTime \in Nat
        /\ dirs \in [StreamIds -> SUBSET DirRecords] /\ "whole" \in ShmOutcomes
    BY TimesAssumption DEF IInv, TypeOK, GcInv, DirsOnDisk, ShmOutcomes
  <1>2. ASSUME now' = now, epoch' = epoch, dirs' = dirs PROVE DirsStep
    BY <1>1, <1>2 DEF DirsStep
  <1>3. ASSUME NEW req \in AttachRequests, NEW made \in ShmOutcomes, EnterEpoch(req, made), Accepted(req), now' = now
        PROVE  DirsStep
    <2>1. Target(req) \in StreamIds
      BY <1>3, AdmittedTyped DEF Accepted, IInv
    <2>2. CASE NeedsEpoch(req)
      BY <1>1, <1>3, <2>1, <2>2 DEF EnterEpoch, DirsStep
    <2>3. CASE ~NeedsEpoch(req)
      BY <1>2, <1>3, <2>3 DEF EnterEpoch
    <2> QED BY <2>2, <2>3
  <1>4. ASSUME NEW req \in AttachRequests, HandleAttach(req) PROVE DirsStep
    <2>1. CASE AttachRefusedEarly(req)
      BY <1>2, <2>1 DEF AttachRefusedEarly
    <2>2. CASE AttachRefusedLate(req)
      BY <1>2, <2>2 DEF AttachRefusedLate
    <2>3. ASSUME NEW made \in ShmOutcomes, AttachShmFailed(req, made) PROVE DirsStep
      BY <1>3, <2>3 DEF AttachShmFailed
    <2>4. CASE AttachNoNodeId(req)
      BY <1>1, <1>3, <2>4 DEF AttachNoNodeId
    <2>5. ASSUME NEW node, AttachGranted(req, node) PROVE DirsStep
      BY <1>1, <1>3, <2>5 DEF AttachGranted
    <2> QED BY <1>4, <2>1, <2>2, <2>3, <2>4, <2>5 DEF HandleAttach
  <1>5. ASSUME NEW req \in LeaseRequests, HandleLeaseRequest(req) PROVE DirsStep
    <2>1. ASSUME NEW made \in ShmOutcomes, DetachGranted(req, made) PROVE DirsStep
      BY <1>2, <2>1 DEF DetachGranted, DetachIsProducer
    <2>2. CASE DetachRefused(req) \/ Keepalive(req)
      BY <1>2, <2>2 DEF DetachRefused, Keepalive, streamVars
    <2> QED BY <1>5, <2>1, <2>2 DEF HandleLeaseRequest
  <1>6. ASSUME NEW made \in [ExpiredProducers(Expired) -> ShmOutcomes], DoWork(made) PROVE DirsStep
    BY <1>1, <1>6 DEF DoWork, DirsStep
  <1>7. CASE Tick
    BY <1>1, <1>7 DEF Tick, DirsStep, streamVars
  <1>8. ASSUME NEW graceful \in BOOLEAN, Restart(graceful) PROVE DirsStep
    BY <1>1, <1>8 DEF Restart, DirsStep
  <1> QED BY <1>4, <1>5, <1>6, <1>7, <1>8 DEF Next

\* Creating the files of an epoch, with the garbage collection it ends in.
LEMMA CreateShmKeepsFew ==
    ASSUME TypeOK, DirsOnDisk, NEW s \in StreamIds, NEW e \in Nat \ {0}, NEW made \in ShmOutcomes,
           \A d \in dirs[s] : d.epoch < e,
           NEW D, D = CreateShm(dirs[s], e, made)
    PROVE  /\ IsFiniteSet(D)
           /\ \A d, x \in D : d.epoch = x.epoch => d = x
           /\ \A d \in D : d.made <= now
           /\ GcKeep > 0 /\ (\E d \in D : d.epoch = e /\ d.whole) => Cardinality(D) <= GcKeep
  <1> DEFINE rest == {d \in dirs[s] : d.epoch # e}
             dir == [epoch |-> e, made |-> now, whole |-> made = "whole"]
             E == rest \cup {dir}
  <1>1. /\ dir \in DirRecords /\ dir.epoch = e /\ dir.made = now /\ now \in Nat /\ now <= MaxTime
        /\ dirs[s] \in SUBSET DirRecords /\ IsFiniteSet(dirs[s])
        /\ \A d, x \in dirs[s] : d.epoch = x.epoch => d = x
        /\ \A d \in dirs[s] : d.made <= now /\ d.epoch \in Nat /\ d.made \in Nat
    BY DEF DirRecords, TypeOK, DirsOnDisk
  <1>2. rest = dirs[s]
    BY <1>1
  <1>w. made = "partial" => ~dir.whole
    OBVIOUS
  <1> HIDE DEF rest, dir
  <1>3. /\ E \in SUBSET DirRecords /\ IsFiniteSet(E)
        /\ \A d, x \in E : d.epoch = x.epoch => d = x
        /\ \A d \in E : d.made <= now
    <2>1. IsFiniteSet(E)
      BY <1>1, <1>2, FS_AddElement
    <2>2. \A d \in dirs[s] : d.epoch # e
      BY <1>1
    <2> QED BY <1>1, <1>2, <2>1, <2>2
  <1> HIDE DEF E
  <1>4. CASE made = "none"
    <2>1. D = dirs[s]
      BY <1>4 DEF CreateShm
    <2>2. \A d \in dirs[s] : d.epoch # e
      BY <1>1
    <2> QED BY <1>1, <2>1, <2>2
  <1>5. CASE made = "partial"
    <2>1. D = E
      BY <1>5 DEF CreateShm, E, rest, dir
    <2>2. ~dir.whole /\ \A d \in dirs[s] : d.epoch # e
      BY <1>1, <1>5, <1>w
    <2>3. \A d \in E : d.epoch = e => ~d.whole
      BY <1>2, <2>2 DEF E
    <2> QED BY <1>3, <2>1, <2>3
  <1>6. CASE made = "whole"
    <2>1. D = Gc(E, e)
      BY <1>6 DEF CreateShm, E, rest, dir
    <2>2. D \in SUBSET E
      BY <2>1 DEF Gc
    <2>3. IsFiniteSet(D)
      BY <1>3, <2>2, FS_Subset
    <2>4. GcKeep > 0 => Cardinality(D) <= GcKeep
      BY <1>1, <1>3, <2>1, GcKeepsFew
    <2> QED BY <1>3, <2>2, <2>3, <2>4
  <1> QED BY <1>4, <1>5, <1>6 DEF ShmOutcomes

\* Every step keeps the directories few.
LEMMA GcNext == IInv /\ GcInv /\ [Next]_vars => GcInv'
  <1> SUFFICES ASSUME IInv, GcInv, [Next]_vars PROVE GcInv'
    OBVIOUS
  <1>1. CASE UNCHANGED vars
    BY <1>1 DEF GcInv, DirsOnDisk, GcBounded, vars, streamVars
  <1>2. CASE Next
    <2>1. DirsStep /\ TypeOK /\ DirsOnDisk /\ GcBounded
      BY <1>2, DirsMove DEF IInv, GcInv
    <2>2. now \in Nat /\ now' \in Nat /\ now <= now' /\ now' <= MaxTime
      BY <2>1 DEF DirsStep, TypeOK
    <2>3. ASSUME NEW s \in StreamIds
          PROVE  /\ IsFiniteSet(dirs'[s])
                 /\ \A d, x \in dirs'[s] : d.epoch = x.epoch => d = x
                 /\ \A d \in dirs'[s] : d.made <= now'
                 /\ GcKeep > 0 /\ (\E d \in dirs'[s] : d.epoch = epoch'[s] /\ d.whole)
                      => Cardinality(dirs'[s]) <= GcKeep
      <3>1. /\ IsFiniteSet(dirs[s]) /\ dirs[s] \in SUBSET DirRecords
            /\ \A d, x \in dirs[s] : d.epoch = x.epoch => d = x
            /\ \A d \in dirs[s] : d.made <= now /\ d.made \in Nat /\ d.epoch \in Nat \ {0}
        BY <2>1 DEF DirsOnDisk, TypeOK, DirRecords
      <3>2. CASE epoch'[s] = epoch[s] /\ dirs'[s] = dirs[s]
        BY <2>1, <2>2, <3>1, <3>2 DEF GcBounded
      <3>3. ASSUME epoch'[s] = BumpedEpoch(s), now' = now,
                   NEW made \in ShmOutcomes, dirs'[s] = CreateShm(dirs[s], BumpedEpoch(s), made)
            PROVE  /\ IsFiniteSet(dirs'[s])
                   /\ \A d, x \in dirs'[s] : d.epoch = x.epoch => d = x
                   /\ \A d \in dirs'[s] : d.made <= now'
                   /\ GcKeep > 0 /\ (\E d \in dirs'[s] : d.epoch = epoch'[s] /\ d.whole)
                        => Cardinality(dirs'[s]) <= GcKeep
        <4>1. /\ BumpedEpoch(s) \in Nat \ {0} /\ BumpedEpoch(s) > epoch[s] /\ BumpedEpoch(s) >= now
              /\ epoch[s] \in Nat
          BY <2>1, BumpForward DEF TypeOK
        <4>2. \A d \in dirs[s] : d.epoch < BumpedEpoch(s)
          BY <2>2, <3>1, <4>1 DEF IInv, DirsBelow
        <4> QED BY <2>1, <3>3, <4>1, <4>2, CreateShmKeepsFew
      <3>4. CASE epoch'[s] = 0 /\ now' = now /\ dirs'[s] \in {dirs[s], Gc(dirs[s], 0)}
        <4>1. dirs'[s] \in SUBSET dirs[s]
          BY <3>4 DEF Gc
        <4>2. IsFiniteSet(dirs'[s])
          BY <3>1, <4>1, FS_Subset
        <4> QED BY <3>1, <3>4, <4>1, <4>2
      <3> QED BY <2>1, <3>2, <3>3, <3>4 DEF DirsStep
    <2> QED BY <2>2, <2>3 DEF GcInv, DirsOnDisk, GcBounded
  <1> QED BY <1>1, <1>2

\* tp_driver_gc_stream does its work although the age it computes means nothing:
\* a stream whose current epoch was created completely has at most epoch_gc_keep
\* directories, whatever failed before and however often the driver was restarted.
THEOREM DirectoriesFew == Spec => []GcBounded
  <1>1. Init => GcInv
    BY TimesAssumption, FS_EmptySet DEF Init, GcInv, DirsOnDisk, GcBounded
  <1>2. IInv /\ GcInv /\ [Next]_vars => GcInv'
    BY GcNext
  <1>3. GcInv => GcBounded
    BY DEF GcInv
  <1> QED BY <1>1, <1>2, <1>3, DriverCorrect, PTL DEF Spec

-----------------------------------------------------------------------------
(* Node ids                                                                 *)

\* A node id that was given up and is not held is in cooldown for the rest of
\* the time it has to wait.
Waits(n) == CooldownTicks = 0 \/ cooldowns[n] >= released[n] + CooldownTicks

WaitInv ==
    /\ released \in [NodeIds -> Nat]
    /\ \A n \in NodeIds : /\ released[n] <= now
                          /\ ~Holds(leases, n) /\ released[n] # 0 => Waits(n)

\* What a step of the driver that is not a restart does to a node id.
NodeStep(n) ==
    /\ now' = now \/ (now' = now + 1 /\ leases' = leases)
    /\ Holds(leases, n) /\ ~Holds(leases', n) => CooldownTicks = 0 \/ cooldowns'[n] = now + CooldownTicks
    /\ ~Holds(leases, n) => cooldowns'[n] = cooldowns[n]
    /\ ~Holds(leases, n) /\ Holds(leases', n) => cooldowns[n] <= now

\* The leases in L end, by detach or expiry.
LEMMA NodesGivenUp ==
    ASSUME IInv, NEW L \in SUBSET leases, leases' = leases \ L, RecordCooldowns(L), now' = now,
           NEW n \in NodeIds
    PROVE  NodeStep(n)
  <1>1. n # 0 /\ n \in DOMAIN cooldowns
    BY NodesAssumption DEF IInv, TypeOK
  <1>2. cooldowns'[n] = IF CooldownTicks # 0 /\ \E l \in L : l.node = n THEN now + CooldownTicks ELSE cooldowns[n]
    BY <1>1 DEF RecordCooldowns
  <1>3. Holds(leases, n) /\ ~Holds(leases', n) => \E l \in L : l.node = n
    BY DEF Holds
  <1>4. ~Holds(leases, n) => ~Holds(leases', n) /\ ~(\E l \in L : l.node = n)
    BY DEF Holds
  <1> QED BY <1>2, <1>3, <1>4 DEF NodeStep

\* tp_driver_handle_attach gives out a node id that is in use nowhere and whose
\* cooldown is over, whether it was asked for or drawn.
LEMMA NodeGranted ==
    ASSUME IInv, NEW req \in AttachRequests, NEW node \in NodeIds \cup {0}, AttachGranted(req, node),
           NEW n \in NodeIds
    PROVE  NodeStep(n)
  <1>1. /\ now' = now /\ cooldowns' = cooldowns /\ Accepted(req)
        /\ IF req.node = NullNode THEN NodeIdAvailable(node) ELSE node = req.node
        /\ \E l : l.node = node /\ leases' = leases \cup {l}
    BY DEF AttachGranted
  <1>2. NodeIdAvailable(node)
    BY <1>1 DEF Accepted, LateCode
  <1>3. n # 0 /\ cooldowns[n] \in Nat /\ now \in Nat
    BY NodesAssumption DEF IInv, TypeOK
  <1>4. ~Holds(leases, n) /\ Holds(leases', n) => n = node
    BY <1>1 DEF Holds
  <1>5. n = node => cooldowns[n] <= now
    BY <1>2, <1>3 DEF NodeIdAvailable, NodeIdInCooldown
  <1>6. Holds(leases, n) => Holds(leases', n)
    BY <1>1 DEF Holds
  <1> QED BY <1>1, <1>4, <1>5, <1>6 DEF NodeStep

\* Every step but a restart.
LEMMA NodesMove ==
    ASSUME IInv, Next, NEW n \in NodeIds
    PROVE  restarts' # restarts \/ NodeStep(n)
  <1>1. ASSUME now' = now, leases' = leases, cooldowns' = cooldowns PROVE NodeStep(n)
    BY <1>1 DEF NodeStep
  <1>2. ASSUME NEW req \in AttachRequests, HandleAttach(req) PROVE NodeStep(n)
    <2>1. CASE AttachRefusedEarly(req) \/ AttachRefusedLate(req)
      BY <1>1, <2>1 DEF AttachRefusedEarly, AttachRefusedLate, leaseVars
    <2>2. ASSUME NEW made \in ShmOutcomes, AttachShmFailed(req, made) PROVE NodeStep(n)
      BY <1>1, <2>2 DEF AttachShmFailed, leaseVars
    <2>3. CASE AttachNoNodeId(req)
      BY <1>1, <2>3 DEF AttachNoNodeId
    <2> QED BY <1>2, <2>1, <2>2, <2>3, NodeGranted DEF HandleAttach
  <1>3. ASSUME NEW req \in LeaseRequests, HandleLeaseRequest(req) PROVE NodeStep(n)
    <2>1. ASSUME NEW made \in ShmOutcomes, DetachGranted(req, made) PROVE NodeStep(n)
      <3>1. PICK l \in leases : leases' = leases \ {l} /\ RecordCooldowns({l}) /\ now' = now
        BY <2>1 DEF DetachGranted
      <3> QED BY <3>1, NodesGivenUp
    <2>2. CASE DetachRefused(req)
      BY <1>1, <2>2 DEF DetachRefused, leaseVars
    <2>3. CASE Keepalive(req)
      <3> DEFINE F(l) == IF Matches(l, req) THEN [l EXCEPT !.expiry = now + LeaseTicks] ELSE l
      <3>1. now' = now /\ cooldowns' = cooldowns /\ leases' = {F(l) : l \in leases}
        BY <2>3 DEF Keepalive
      <3>2. \A l \in leases : F(l).node = l.node
        BY DEF IInv, TypeOK, LeaseRecords
      <3> HIDE DEF F
      <3>3. Holds(leases', n) <=> Holds(leases, n)
        BY <3>1, <3>2 DEF Holds
      <3> QED BY <3>1, <3>3 DEF NodeStep
    <2> QED BY <1>3, <2>1, <2>2, <2>3 DEF HandleLeaseRequest
  <1>4. ASSUME NEW made \in [ExpiredProducers(Expired) -> ShmOutcomes], DoWork(made) PROVE NodeStep(n)
    <2>1. Expired \in SUBSET leases /\ leases' = leases \ Expired /\ RecordCooldowns(Expired) /\ now' = now
      BY <1>4 DEF DoWork, Expired
    <2> QED BY <2>1, NodesGivenUp
  <1>5. CASE Tick
    BY <1>5 DEF Tick, leaseVars, NodeStep
  <1>6. ASSUME NEW graceful \in BOOLEAN, Restart(graceful) PROVE restarts' # restarts
    BY <1>6 DEF Restart, IInv, TypeOK
  <1> QED BY <1>2, <1>3, <1>4, <1>5, <1>6 DEF Next

\* The body of NodeIdReuseWaits.
ReuseWaits ==
    \A n \in NodeIds :
      ~Holds(leases, n) /\ Holds(leases', n) /\ released[n] # 0 => now >= released[n] + CooldownTicks

\* Every step of the driver with its history.
LEMMA WaitStep ==
    ASSUME IInv, WaitInv, HistoryNext
    PROVE  WaitInv' /\ ReuseWaits
  <1>1. /\ Next /\ now \in Nat /\ CooldownTicks \in Nat /\ released \in [NodeIds -> Nat]
        /\ cooldowns \in [NodeIds \cup {0} -> Nat]
        /\ released' = [n \in NodeIds |->
                          IF restarts' # restarts THEN 0
                          ELSE IF Holds(leases, n) /\ ~Holds(leases', n) THEN now ELSE released[n]]
    BY TimesAssumption DEF HistoryNext, IInv, TypeOK, WaitInv
  <1>2. now' = now \/ now' = now + 1
    BY <1>1 DEF Next, HandleAttach, HandleLeaseRequest, AttachRefusedEarly, AttachRefusedLate, AttachShmFailed,
       AttachNoNodeId, AttachGranted, DetachGranted, DetachRefused, Keepalive, DoWork, Tick, Restart
  <1>3. released' \in [NodeIds -> Nat]
    BY <1>1
  <1>4. ASSUME NEW n \in NodeIds
        PROVE  /\ released'[n] <= now'
               /\ ~Holds(leases', n) /\ released'[n] # 0 => Waits(n)'
               /\ ~Holds(leases, n) /\ Holds(leases', n) /\ released[n] # 0 => now >= released[n] + CooldownTicks
    <2>1. /\ released[n] \in Nat /\ released[n] <= now /\ cooldowns[n] \in Nat
          /\ ~Holds(leases, n) /\ released[n] # 0 => Waits(n)
      BY <1>1 DEF WaitInv
    <2>2. CASE restarts' # restarts
      <3>1. \E graceful \in BOOLEAN : Restart(graceful)
        BY <1>1, <2>2 DEF Next, HandleAttach, HandleLeaseRequest, AttachRefusedEarly, AttachRefusedLate,
           AttachShmFailed, AttachNoNodeId, AttachGranted, DetachGranted, DetachRefused, Keepalive, DoWork, Tick
      <3>2. leases' = {} /\ released'[n] = 0
        BY <1>1, <2>2, <3>1 DEF Restart
      <3> QED BY <1>1, <1>2, <3>2 DEF Holds
    <2>3. CASE restarts' = restarts
      <3>1. NodeStep(n)
        BY <1>1, <2>3, NodesMove
      <3>2. released'[n] = IF Holds(leases, n) /\ ~Holds(leases', n) THEN now ELSE released[n]
        BY <1>1, <2>3
      <3> QED BY <1>1, <1>2, <2>1, <3>1, <3>2 DEF NodeStep, Waits
    <2> QED BY <2>2, <2>3
  <1> QED BY <1>3, <1>4 DEF WaitInv, ReuseWaits

\* tp_driver_record_node_id_cooldown and tp_driver_node_id_available: a node id
\* given up by detach or by expiry is out of use for the whole cooldown, whoever
\* asks for it and whoever draws it.
THEOREM NodeIdsWait == HistorySpec => NodeIdReuseWaits
  <1>1. HistoryInit => IInv /\ WaitInv
    <2> SUFFICES ASSUME HistoryInit PROVE IInv /\ WaitInv
      OBVIOUS
    <2>1. IInv
      BY DriverInit DEF HistoryInit
    <2>2. WaitInv
      BY DEF HistoryInit, Init, WaitInv
    <2> QED BY <2>1, <2>2
  <1>2. IInv /\ WaitInv /\ [HistoryNext]_<<vars, released>> => IInv' /\ WaitInv' /\ [ReuseWaits]_<<vars, released>>
    <2> SUFFICES ASSUME IInv, WaitInv, [HistoryNext]_<<vars, released>>
                 PROVE  IInv' /\ WaitInv' /\ [ReuseWaits]_<<vars, released>>
      OBVIOUS
    <2>1. [Next]_vars
      BY DEF HistoryNext
    <2>2. IInv'
      BY <2>1, DriverNext
    <2>3. CASE HistoryNext
      BY <2>2, <2>3, WaitStep
    <2>4. CASE UNCHANGED <<vars, released>>
      BY <2>2, <2>4 DEF WaitInv, Waits, vars, leaseVars
    <2> QED BY <2>3, <2>4
  <1>3. NodeIdReuseWaits <=> [][ReuseWaits]_<<vars, released>>
    BY DEF NodeIdReuseWaits, ReuseWaits
  <1> QED BY <1>1, <1>2, <1>3, PTL DEF HistorySpec

=============================================================================
