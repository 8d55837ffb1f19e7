------------------------------- MODULE Driver -------------------------------
(***************************************************************************)
(* The SHM driver (src/driver/tp_driver.c): the single-threaded process     *)
(* that owns stream epochs, their backing directories, and the leases under *)
(* which clients map them.                                                  *)
(*                                                                          *)
(* Each control message handler is one action; DoWork is what               *)
(* tp_driver_do_work does after polling.  Restart ends one driver process   *)
(* and starts the next on the same host and the same files.  `out' is the   *)
(* set of messages the last step sent; delivery is not modelled here.       *)
(*                                                                          *)
(* Time is CLOCK_MONOTONIC in coarse ticks, starting at 1.                  *)
(***************************************************************************)
EXTENDS Integers, FiniteSets

CONSTANTS
    StreamIds,          \* every stream id that is configured or asked for
    Configured,         \* streams of the configuration file
    RangeStart, RangeEnd, \* stream_id_range for dynamic streams
    AllowDynamic,       \* allow_dynamic_streams
    HasDefaultProfile,  \* default_profile names a profile
    ConfigHuge,         \* require_hugepages of the configuration
    HugeDir,            \* shm_base_dir is on a hugetlbfs
    NodeIds,            \* node ids the driver may draw (neither 0 nor null)
    NullNode,           \* desired_node_id absent
    AttachRequests,     \* the attach requests that arrive
    LeaseTicks,         \* lease_keepalive_interval * lease_expiry_grace_intervals
    CooldownTicks,      \* node_id_reuse_cooldown
    AnnounceTicks,      \* announce_period, never 0 after tp_driver_init
    GcKeep,             \* epoch_gc_keep; 0 when epoch_gc_enabled is false
    GcMinAge,           \* epoch_gc_min_age
    GcOnStartup,        \* epoch_gc_on_startup
    WallOffset,         \* CLOCK_REALTIME minus CLOCK_MONOTONIC
    Wrap,               \* 2^64 ns, the width of the age computation
    MaxTime,            \* bound: last tick
    MaxLeases,          \* bound: leases ever granted
    MaxRestarts,        \* bound: driver restarts
    MaxFailures         \* bound: failed creations of region files

Roles == {"PRODUCER", "CONSUMER"}
Policies == {"UNSPECIFIED", "STANDARD", "HUGEPAGES"}
Modes == {"REQUIRE_EXISTING", "EXISTING_OR_CREATE"}

ASSUME StreamsAssumption ==
    /\ StreamIds \subseteq Nat \ {0} /\ IsFiniteSet(StreamIds)
    /\ Configured \subseteq StreamIds
    /\ RangeStart \in Nat /\ RangeEnd \in Nat
    /\ RangeStart <= RangeEnd
    /\ RangeStart .. RangeEnd \subseteq StreamIds
ASSUME NodesAssumption == 0 \notin NodeIds /\ NullNode \notin NodeIds \cup {0}
ASSUME RequestsAssumption ==
    AttachRequests \subseteq
        [client : Nat, stream : StreamIds \cup {0}, role : Roles \cup {"INVALID"},
         mode : Modes, node : NodeIds \cup {0, NullNode}, policy : Policies,
         layout_ok : BOOLEAN]
ASSUME TimesAssumption ==
    /\ LeaseTicks \in Nat /\ CooldownTicks \in Nat /\ AnnounceTicks \in Nat \ {0}
    /\ GcKeep \in Nat /\ GcMinAge \in Nat
    /\ WallOffset \in Nat /\ Wrap \in Nat \ {0}
    /\ MaxTime \in Nat \ {0} /\ MaxLeases \in Nat /\ MaxRestarts \in Nat
    /\ MaxFailures \in Nat
\* The wall clock runs ahead of the uptime, and ages do not fill the integer.
ASSUME ClockAssumption == WallOffset > MaxTime /\ Wrap > WallOffset + MaxTime + GcMinAge
ASSUME FlagsAssumption ==
    {AllowDynamic, HasDefaultProfile, ConfigHuge, HugeDir, GcOnStartup} \subseteq BOOLEAN

VARIABLES
    now,                \* CLOCK_MONOTONIC
    known,              \* streams in the stream table
    epoch,              \* stream->epoch, 0 before the first
    producer_lease_id,  \* stream->producer_lease_id, 0 when there is none
    producer_client_id, \* stream->producer_client_id
    huge,               \* stream->require_hugepages
    next_dynamic,       \* range->next
    leases,             \* the lease table
    lease_counter,      \* driver->lease_counter
    cooldowns,          \* node id -> expires_ns of its cooldown, 0 for none
    next_announce,      \* driver->next_announce_ns
    dirs,               \* stream -> its epoch directories on disk
    restarts,           \* restarts so far
    failures,           \* failed creations of region files so far
    out                 \* messages sent by the last step

streamVars == <<known, epoch, producer_lease_id, producer_client_id, huge, next_dynamic>>
leaseVars == <<leases, lease_counter, cooldowns>>
vars == <<now, streamVars, leaseVars, next_announce, dirs, restarts, failures, out>>

LeaseRecords ==
    [id : Nat \ {0}, stream : StreamIds, client : Nat \ {0}, role : Roles,
     node : NodeIds \cup {0}, expiry : Nat]

\* whole: header ring and every pool were created.
DirRecords == [epoch : Nat \ {0}, made : Nat, whole : BOOLEAN]

TypeOK ==
    /\ now \in Nat \ {0}
    /\ known \subseteq StreamIds
    /\ epoch \in [StreamIds -> Nat]
    /\ producer_lease_id \in [StreamIds -> Nat]
    /\ producer_client_id \in [StreamIds -> Nat]
    /\ huge \in [StreamIds -> BOOLEAN]
    /\ next_dynamic \in RangeStart .. RangeEnd
    /\ leases \subseteq LeaseRecords
    /\ lease_counter \in Nat
    /\ cooldowns \in [NodeIds \cup {0} -> Nat]
    /\ next_announce \in Nat
    /\ dirs \in [StreamIds -> SUBSET DirRecords]
    /\ restarts \in Nat
    /\ failures \in Nat

\* tp_driver_init, no earlier files.
Init ==
    /\ now = 1
    /\ known = Configured
    /\ epoch = [s \in StreamIds |-> 0]
    /\ producer_lease_id = [s \in StreamIds |-> 0]
    /\ producer_client_id = [s \in StreamIds |-> 0]
    /\ huge = [s \in StreamIds |-> ConfigHuge]
    /\ next_dynamic = RangeStart
    /\ leases = {}
    /\ lease_counter = 0
    /\ cooldowns = [n \in NodeIds \cup {0} |-> 0]
    /\ next_announce = 1
    /\ dirs = [s \in StreamIds |-> {}]
    /\ restarts = 0
    /\ failures = 0
    /\ out = {}

-----------------------------------------------------------------------------
(* Messages                                                                 *)

AttachResponse(req, code, lease, e) ==
    [type |-> "attach_response", client |-> req.client, code |-> code, lease |-> lease,
     epoch |-> e]
DetachResponse(req, code) ==
    [type |-> "detach_response", client |-> req.client, code |-> code]
LeaseRevoked(l, reason) ==
    [type |-> "lease_revoked", lease |-> l.id, stream |-> l.stream, client |-> l.client,
     role |-> l.role, reason |-> reason]
Announce(s, e, client) ==
    [type |-> "announce", stream |-> s, epoch |-> e, producer |-> client]
Shutdown == [type |-> "shutdown"]

-----------------------------------------------------------------------------
(* Epochs and their directories                                             *)

\* Bugs these definitions could have had are kept beside them, named Bug...;
\* no definition uses them.

\* The epoch only counts, and so starts over when the driver does.
BugEpochCounts(s) == epoch[s] + 1

\* tp_driver_bump_epoch
BumpedEpoch(s) == IF now <= epoch[s] THEN epoch[s] + 1 ELSE now

\* now_ns - mtime_ns in unsigned 64-bit arithmetic: now_ns is read from the
\* monotonic clock, mtime_ns is the directory's wall clock time.
AgeNs(d) == (now - (d.made + WallOffset)) % Wrap

OldEnough(d) == GcMinAge = 0 \/ AgeNs(d) >= GcMinAge

\* One directory too many is kept.
BugGcKeepsOneMore(D, current) ==
    LET old == {d \in D : d.epoch # current} IN
      {d \in old : /\ Cardinality({x \in old : x.epoch > d.epoch}) >= GcKeep
                   /\ OldEnough(d)}

\* tp_driver_gc_stream: of the directories other than the current epoch's the
\* GcKeep - 1 newest stay.
GcVictims(D, current) ==
    LET old == {d \in D : d.epoch # current} IN
      {d \in old : /\ Cardinality({x \in old : x.epoch > d.epoch}) >= GcKeep - 1
                   /\ OldEnough(d)}

Gc(D, current) == IF GcKeep = 0 THEN D ELSE D \ GcVictims(D, current)

\* What creating the region files of an epoch may leave behind.
ShmOutcomes == {"whole", "partial", "none"}

\* tp_driver_create_shm_epoch: files of the same name are truncated.
CreateShm(D, e, made) ==
    LET rest == {d \in D : d.epoch # e}
        dir == [epoch |-> e, made |-> now, whole |-> made = "whole"]
    IN CASE made = "whole" -> Gc(rest \cup {dir}, e)
         [] made = "partial" -> rest \cup {dir}
         [] made = "none" -> D

-----------------------------------------------------------------------------
(* tp_driver_handle_attach                                                  *)

ClientIdInUse(client) == \E l \in leases : l.client = client
NodeIdInUse(node) == \E l \in leases : l.node = node
NodeIdInCooldown(node) == node # 0 /\ cooldowns[node] > now
\* Only the cooldown is looked at.
BugNodeInUse(node) == ~NodeIdInCooldown(node)

NodeIdAvailable(node) == ~NodeIdInUse(node) /\ ~NodeIdInCooldown(node)

\* tp_driver_allocate_stream_id: the first unknown id from range->next on,
\* cyclically.
Cyclic(k) == RangeStart + ((next_dynamic - RangeStart + k) % (RangeEnd - RangeStart + 1))
FreeOffsets == {k \in 0 .. RangeEnd - RangeStart : Cyclic(k) \notin known}
FirstFree == Cyclic(CHOOSE k \in FreeOffsets : \A j \in FreeOffsets : k <= j)
AfterId(id) == IF id = RangeEnd THEN RangeStart ELSE id + 1

EarlyCode(req) ==
    IF req.role \notin Roles THEN "INVALID_PARAMS"
    ELSE IF req.client = 0 THEN "INVALID_PARAMS"
    ELSE IF ClientIdInUse(req.client) \/ ~req.layout_ok THEN "REJECTED"
    ELSE "OK"

Unknown(req) == req.stream \notin known

\* The refusal of an invalid profile (tp_driver.c:1813) does not occur: a profile without
\* payload pools is refused when the configuration is loaded (tp_driver_config.c:692).
StreamCode(req) ==
    IF ~Unknown(req) THEN "OK"
    ELSE IF req.mode # "EXISTING_OR_CREATE" \/ ~AllowDynamic THEN "REJECTED"
    ELSE IF req.stream = 0 /\ FreeOffsets = {} THEN "INVALID_PARAMS"
    ELSE IF ~HasDefaultProfile THEN "INVALID_PARAMS"
    ELSE "OK"

\* The stream the request is for, once the checks above have passed.
Target(req) == IF req.stream = 0 THEN FirstFree ELSE req.stream

\* tp_driver_should_require_hugepages
RequireHuge(req) ==
    CASE req.policy = "HUGEPAGES" -> TRUE
      [] req.policy = "STANDARD" -> FALSE
      [] OTHER -> ConfigHuge

PagesUnavailable(req) ==
    \/ RequireHuge(req) /\ ~HugeDir
    \/ req.policy = "STANDARD" /\ HugeDir

\* A second producer is admitted.
BugSecondProducer(req) ==
    IF PagesUnavailable(req) THEN "REJECTED"
    ELSE IF req.node # NullNode /\ ~NodeIdAvailable(req.node) THEN "REJECTED"
    ELSE "OK"

LateCode(req) ==
    IF req.role = "PRODUCER" /\ producer_lease_id[Target(req)] # 0 THEN "REJECTED"
    ELSE IF PagesUnavailable(req) THEN "REJECTED"
    ELSE IF req.node # NullNode /\ ~NodeIdAvailable(req.node) THEN "REJECTED"
    ELSE "OK"

\* Streams and range cursor once the stream has been looked up or added.
AddStream(req) ==
    /\ known' = known \cup {Target(req)}
    /\ next_dynamic' = IF req.stream = 0 THEN AfterId(FirstFree) ELSE next_dynamic

\* Refused before the stream lookup, or by it.
AttachRefusedEarly(req) ==
    /\ \/ EarlyCode(req) # "OK" /\ out' = {AttachResponse(req, EarlyCode(req), 0, 0)}
       \/ /\ EarlyCode(req) = "OK" /\ StreamCode(req) # "OK"
          /\ out' = {AttachResponse(req, StreamCode(req), 0, 0)}
    \* Only a missing default profile leaves a trace: the id range has moved on.
    /\ next_dynamic' = IF /\ EarlyCode(req) = "OK" /\ req.stream = 0
                          /\ req.mode = "EXISTING_OR_CREATE" /\ AllowDynamic
                          /\ FreeOffsets # {}
                       THEN AfterId(FirstFree) ELSE next_dynamic
    /\ UNCHANGED <<now, known, epoch, producer_lease_id, producer_client_id, huge,
                   leaseVars, next_announce, dirs, restarts, failures>>

Admitted(req) == EarlyCode(req) = "OK" /\ StreamCode(req) = "OK"

\* Refused after the lookup: a dynamic stream stays in the table.
AttachRefusedLate(req) ==
    /\ Admitted(req)
    /\ LateCode(req) # "OK"
    /\ AddStream(req)
    /\ out' = {AttachResponse(req, LateCode(req), 0, 0)}
    /\ UNCHANGED <<now, epoch, producer_lease_id, producer_client_id, huge, leaseVars,
                   next_announce, dirs, restarts, failures>>

Accepted(req) == Admitted(req) /\ LateCode(req) = "OK"

\* A consumer's attach moves the epoch too.
BugConsumerBumps(req) == TRUE

\* A producer always gets a new epoch, a consumer only the stream's first one.
NeedsEpoch(req) == req.role = "PRODUCER" \/ epoch[Target(req)] = 0

AttachEpoch(req) == IF NeedsEpoch(req) THEN BumpedEpoch(Target(req)) ELSE epoch[Target(req)]

EnterEpoch(req, made) ==
    LET s == Target(req) IN
      IF NeedsEpoch(req)
        THEN /\ epoch' = [epoch EXCEPT ![s] = BumpedEpoch(s)]
             /\ huge' = [huge EXCEPT ![s] = IF epoch[s] # 0 THEN @ ELSE RequireHuge(req)]
             /\ dirs' = [dirs EXCEPT ![s] = CreateShm(@, BumpedEpoch(s), made)]
        ELSE UNCHANGED <<epoch, huge, dirs>>

\* tp_driver_create_shm_epoch fails: the epoch stays bumped, no lease.
AttachShmFailed(req, made) ==
    /\ Accepted(req)
    /\ NeedsEpoch(req)
    /\ made # "whole" /\ failures < MaxFailures
    /\ failures' = failures + 1
    /\ AddStream(req)
    /\ EnterEpoch(req, made)
    /\ out' = {AttachResponse(req, "INTERNAL_ERROR", 0, 0)}
    /\ UNCHANGED <<now, producer_lease_id, producer_client_id, leaseVars, next_announce,
                   restarts>>

\* tp_driver_next_node_id finds no node id: epoch bumped, files made, the
\* lease id drawn, no lease.
AttachNoNodeId(req) ==
    /\ Accepted(req)
    /\ req.node = NullNode
    /\ \A n \in NodeIds : ~NodeIdAvailable(n)
    /\ lease_counter < MaxLeases
    /\ AddStream(req)
    /\ EnterEpoch(req, "whole")
    /\ lease_counter' = lease_counter + 1
    /\ out' = {AttachResponse(req, "INTERNAL_ERROR", 0, 0)}
    /\ UNCHANGED <<now, producer_lease_id, producer_client_id, leases, cooldowns,
                   next_announce, restarts, failures>>

AttachGranted(req, node) ==
    LET s == Target(req)
        id == lease_counter + 1
    IN
    /\ Accepted(req)
    /\ lease_counter < MaxLeases
    /\ IF req.node = NullNode THEN node \in NodeIds /\ NodeIdAvailable(node)
                              ELSE node = req.node
    /\ AddStream(req)
    /\ EnterEpoch(req, "whole")
    /\ lease_counter' = id
    /\ leases' = leases \cup {[id |-> id, stream |-> s, client |-> req.client,
                               role |-> req.role, node |-> node,
                               expiry |-> now + LeaseTicks]}
    /\ IF req.role = "PRODUCER"
         THEN /\ producer_lease_id' = [producer_lease_id EXCEPT ![s] = id]
              /\ producer_client_id' = [producer_client_id EXCEPT ![s] = req.client]
         ELSE UNCHANGED <<producer_lease_id, producer_client_id>>
    /\ out' = {Announce(s, AttachEpoch(req), producer_client_id'[s]),
               AttachResponse(req, "OK", id, AttachEpoch(req))}
    /\ UNCHANGED <<now, cooldowns, next_announce, restarts, failures>>

-----------------------------------------------------------------------------
(* Ending leases                                                            *)

\* The node id is free again at once.
BugNoCooldown(L) == cooldowns' = cooldowns

\* tp_driver_record_node_id_cooldown for the nodes of the leases in L.
RecordCooldowns(L) ==
    cooldowns' = [n \in DOMAIN cooldowns |->
                    IF n # 0 /\ CooldownTicks # 0 /\ \E l \in L : l.node = n
                      THEN now + CooldownTicks ELSE cooldowns[n]]

\* The stream table keeps naming the producer that left.
BugProducerKept(L) == UNCHANGED <<producer_lease_id, producer_client_id>>

\* tp_driver_release_producer for the leases in L.
ReleaseProducers(L) ==
    LET released == {s \in StreamIds : \E l \in L : /\ l.stream = s
                                                    /\ producer_lease_id[s] = l.id}
        Cleared(f) == [s \in StreamIds |-> IF s \in released THEN 0 ELSE f[s]]
    IN /\ producer_lease_id' = Cleared(producer_lease_id)
       /\ producer_client_id' = Cleared(producer_client_id)

Matches(l, req) ==
    /\ l.id = req.lease /\ l.stream = req.stream
    /\ l.client = req.client /\ l.role = req.role

\* tp_driver_handle_detach of a lease that matches.  is_producer is computed
\* before the role is decoded, so it is false for every request.
DetachIsProducer(req) == FALSE

DetachGranted(req, made) ==
    LET bumps == DetachIsProducer(req) /\ req.stream \in known IN
    \E l \in leases :
      /\ Matches(l, req)
      /\ leases' = leases \ {l}
      /\ RecordCooldowns({l})
      /\ ReleaseProducers({l})
      /\ IF bumps
           THEN /\ epoch' = [epoch EXCEPT ![l.stream] = BumpedEpoch(l.stream)]
                /\ dirs' = [dirs EXCEPT ![l.stream] =
                              CreateShm(@, BumpedEpoch(l.stream), made)]
           ELSE UNCHANGED <<epoch, dirs>>
      /\ out' = {LeaseRevoked(l, "DETACHED"), DetachResponse(req, "OK")} \cup
                IF bumps /\ made = "whole"
                  THEN {Announce(l.stream, BumpedEpoch(l.stream), 0)} ELSE {}
      /\ failures' = IF bumps /\ made # "whole" THEN failures + 1 ELSE failures
      /\ failures' <= MaxFailures
      /\ UNCHANGED <<now, known, huge, next_dynamic, lease_counter, next_announce, restarts>>

DetachRefused(req) ==
    /\ \A l \in leases : ~Matches(l, req)
    /\ out' = {DetachResponse(req, IF req.role \in Roles THEN "REJECTED" ELSE "INVALID_PARAMS")}
    /\ UNCHANGED <<now, streamVars, leaseVars, next_announce, dirs, restarts, failures>>

\* tp_driver_handle_keepalive: no answer, unknown leases are ignored.
Keepalive(req) ==
    /\ leases' = {IF Matches(l, req) THEN [l EXCEPT !.expiry = now + LeaseTicks] ELSE l :
                    l \in leases}
    /\ out' = {}
    /\ UNCHANGED <<now, streamVars, lease_counter, cooldowns, next_announce, dirs, restarts, failures>>

-----------------------------------------------------------------------------
(* tp_driver_do_work after polling                                          *)

\* A lease ends at its expiry instead of after it.
BugExpiresEarly(l) == l.expiry # 0 /\ now >= l.expiry

\* Leases of one role only are looked at.
BugConsumersExpire(l) == l.expiry # 0 /\ now > l.expiry /\ l.role = "CONSUMER"

IsExpired(l) == l.expiry # 0 /\ now > l.expiry
Expired == {l \in leases : IsExpired(l)}

ExpiredProducers(L) == {s \in StreamIds : \E l \in L : l.stream = s /\ l.role = "PRODUCER"}

AnnounceDue == now >= next_announce

\* tp_driver_handle_expired_leases followed by the periodic announce.  `made'
\* says how the SHM creation goes for each stream that lost its producer.
DoWork(made) ==
    LET bumped == ExpiredProducers(Expired)
        NewEpoch(s) == IF s \in bumped THEN BumpedEpoch(s) ELSE epoch[s]
    IN
    /\ leases' = leases \ Expired
    /\ RecordCooldowns(Expired)
    /\ ReleaseProducers(Expired)
    /\ epoch' = [s \in StreamIds |-> NewEpoch(s)]
    /\ dirs' = [s \in StreamIds |->
                  IF s \in bumped THEN CreateShm(dirs[s], BumpedEpoch(s), made[s])
                                  ELSE dirs[s]]
    /\ next_announce' = IF AnnounceDue THEN now + AnnounceTicks ELSE next_announce
    /\ out' = {LeaseRevoked(l, "EXPIRED") : l \in Expired} \cup
              {Announce(s, epoch'[s], producer_client_id'[s]) :
                 s \in {t \in known : \/ t \in bumped /\ made[t] = "whole"
                                      \/ AnnounceDue /\ epoch'[t] # 0}}
    /\ failures' = failures + Cardinality({s \in bumped : made[s] # "whole"})
    /\ failures' <= MaxFailures
    /\ UNCHANGED <<now, known, huge, next_dynamic, lease_counter, restarts>>

-----------------------------------------------------------------------------
(* Time, and the end of a driver process                                    *)

Tick ==
    /\ now < MaxTime
    /\ now' = now + 1
    /\ out' = {}
    /\ UNCHANGED <<streamVars, leaseVars, next_announce, dirs, restarts, failures>>

\* tp_driver_close (graceful) or a crash, then the next process: tp_driver_init, as in
\* Init, and tp_driver_start, which sets next_announce and collects at startup.  The lease counter is seeded at random
\* from 63 bits: modelled as ids not used before.  A restart takes longer than
\* the few nanoseconds by which an epoch can be ahead of the clock.
Restart(graceful) ==
    /\ restarts < MaxRestarts
    /\ \A s \in StreamIds : /\ epoch[s] < now
                            /\ \A d \in dirs[s] : d.epoch < now
    /\ known' = Configured
    /\ epoch' = [s \in StreamIds |-> 0]
    /\ producer_lease_id' = [s \in StreamIds |-> 0]
    /\ producer_client_id' = [s \in StreamIds |-> 0]
    /\ huge' = [s \in StreamIds |-> ConfigHuge]
    /\ next_dynamic' = RangeStart
    /\ leases' = {}
    /\ cooldowns' = [n \in DOMAIN cooldowns |-> 0]
    /\ next_announce' = now
    /\ dirs' = [s \in StreamIds |-> IF GcOnStartup /\ s \in Configured THEN Gc(dirs[s], 0)
                                                                       ELSE dirs[s]]
    /\ restarts' = restarts + 1
    /\ out' = IF graceful THEN {Shutdown} ELSE {}
    /\ UNCHANGED <<now, lease_counter, failures>>

-----------------------------------------------------------------------------
\* Requests that name a lease: a client repeats what its attach response said,
\* or names a lease of another client or one that has ended (0 stands for
\* every id the lease table does not hold).
LeaseRequests ==
    [lease : {l.id : l \in leases} \cup {0}, stream : StreamIds,
     client : {req.client : req \in AttachRequests}, role : Roles \cup {"INVALID"}]

HandleAttach(req) ==
    \/ AttachRefusedEarly(req)
    \/ AttachRefusedLate(req)
    \/ \E made \in ShmOutcomes : AttachShmFailed(req, made)
    \/ AttachNoNodeId(req)
    \/ \E node \in NodeIds \cup {0} : AttachGranted(req, node)

HandleLeaseRequest(req) ==
    \/ \E made \in ShmOutcomes : DetachGranted(req, made)
    \/ DetachRefused(req)
    \/ Keepalive(req)

Next ==
    \/ \E req \in AttachRequests : HandleAttach(req)
    \/ \E req \in LeaseRequests : HandleLeaseRequest(req)
    \/ \E made \in [ExpiredProducers(Expired) -> ShmOutcomes] : DoWork(made)
    \/ Tick
    \/ \E graceful \in BOOLEAN : Restart(graceful)

\* The driver agent calls tp_driver_do_work over and over, and time passes.
Fairness ==
    /\ WF_vars(\E made \in [ExpiredProducers(Expired) -> ShmOutcomes] : DoWork(made))
    /\ WF_vars(Tick)

Spec == Init /\ [][Next]_vars /\ Fairness

-----------------------------------------------------------------------------
(* Properties                                                               *)

\* A stream has at most one producer lease, and the stream table names exactly
\* that lease and its client: no live producer is forgotten (a second one could
\* attach) and no dead one is remembered (none could attach again).
SingleProducer ==
    \A s \in StreamIds :
      LET producers == {l \in leases : l.stream = s /\ l.role = "PRODUCER"} IN
        /\ \A l \in producers : /\ producer_lease_id[s] = l.id
                                /\ producer_client_id[s] = l.client
        /\ producer_lease_id[s] # 0 => \E l \in producers : producer_lease_id[s] = l.id

\* No two leases share a lease id, a client id or a node id.
DistinctIdentities ==
    \A l, m \in leases : l.id = m.id \/ l.client = m.client \/ l.node = m.node => l = m

\* The epoch a producer was attached to stays the stream's epoch, fully backed
\* by files, for as long as its lease lives: neither another attach nor garbage
\* collection takes the regions it writes away.
ProducerBacked ==
    \A l \in leases : l.role = "PRODUCER" =>
        \E d \in dirs[l.stream] : d.epoch = epoch[l.stream] /\ d.whole

\* No step moves a stream to another epoch under a producer that keeps its
\* lease.
ProducerEpochStable ==
    [][\A l \in leases : \A m \in leases' :
         l.id = m.id /\ l.role = "PRODUCER" => epoch'[l.stream] = epoch[l.stream]]_vars

\* A new epoch is larger than every epoch that still has a directory, across
\* driver restarts too: region files a client may have mapped are never
\* truncated and a client never sees the epoch go back.
EpochNeverReused ==
    [][\A s \in StreamIds : epoch'[s] # epoch[s] /\ epoch'[s] # 0 =>
         /\ epoch'[s] > epoch[s]
         /\ \A d \in dirs[s] : epoch'[s] > d.epoch]_vars

\* With garbage collection on, a stream whose current epoch was created
\* completely holds at most epoch_gc_keep directories.
GcBounded ==
    \A s \in StreamIds :
      GcKeep > 0 /\ (\E d \in dirs[s] : d.epoch = epoch[s] /\ d.whole)
        => Cardinality(dirs[s]) <= GcKeep

\* A lease that ends while the driver keeps running is reported in a
\* ShmLeaseRevoked, and one that ends by expiry has really expired.
LeaseEndIsRevoked ==
    [][\A l \in leases :
         restarts' = restarts /\ (\A m \in leases' : m.id # l.id) =>
           \/ LeaseRevoked(l, "DETACHED") \in out'
           \/ LeaseRevoked(l, "EXPIRED") \in out' /\ now > l.expiry]_vars

\* An expired lease does not stay: it is revoked, or a late keepalive of its
\* client renewed it.
ExpiredLeaseEnds ==
    \A id \in 1 .. MaxLeases :
      (\E l \in leases : l.id = id /\ now > l.expiry)
        ~> ~(\E l \in leases : l.id = id /\ now > l.expiry)

\* A producer that stops sending keepalives does not lock its stream: its lease
\* is renewed or it stops being the stream's producer.
ProducerLockReleased ==
    \A s \in StreamIds, t \in 1 .. MaxTime - 1 :
      (\E l \in leases : l.id = producer_lease_id[s] /\ l.expiry = t)
        ~> ~(\E l \in leases : l.id = producer_lease_id[s] /\ l.expiry = t)

\* A client that falls silent, in whichever role, keeps neither its lease nor its
\* hold on the stream (tp_driver_handle_expired_leases).
SilentClientsLoseLeases == ExpiredLeaseEnds /\ ProducerLockReleased

=============================================================================
