# Verification of tensor_pool_c

TensorPool moves large tensors between processes on one host. A *driver*
process owns shared-memory (SHM) regions; a *producer* writes frames into a
ring of header slots and payload pools; *consumers* read them without locks.
Small control messages (attach, keepalive, announce, frame descriptors) travel
over Aeron. This directory holds TLA+ models of the code, TLC configurations
that check them on small instances, and TLAPS proofs for all instances.

Paths below are relative to the repository root.

## Inventory

| Part (source) | State | Operations | Hard behaviour | What makes it correct |
|---|---|---|---|---|
| SHM driver (`src/driver/tp_driver.c`) | stream table (epoch, producer, hugepages), lease table, node id cooldowns, epoch directories, announce timer | attach, detach, keepalive, expiry sweep, periodic announce, GC, start, close | partial failures inside attach, epochs taken from a clock, restart without memory of leases, silent clients | one producer per stream; its epoch stays backed and is never reused; ended leases are reported; dead clients lose their leases |
| Producer write path (`src/client/tp_producer.c`) | `next_seq`, claims, header ring, payload pools | offer, claim, commit, abort, queue | stores race the readers, ring laps, fixed buffers | a committed slot holds one whole frame |
| Consumer read path (`src/client/tp_consumer.c`) | frame view, drop counters | read_frame, validate_progress | loads race the producer, memory order, payload read after the call | nothing torn or wrong is accepted; no spurious drop |
| Driver client (`src/client/tp_driver_client.c`) | pending request, active lease, keepalive timer | attach (sync, async), detach, keepalive, event poll | lost responses, retries, timeouts, a control subscription shared by several pollers | a lease is held by the client that thinks it holds it, or expires |
| Producer and consumer life cycle (`tp_producer.c`, `tp_consumer.c`) | mapping, mapped epoch, reattach backoff, last seen announce | attach, announce, revoke, descriptor, unmap, reattach, close | messages of an old lease or epoch arriving late, descriptors overtaking announces, claims held across an unmap | a client uses only the epoch it is attached to, and comes back after a revocation |
| Client, conductor, MPSC queue (`tp_client*.c`, `tp_mpsc_queue.c`, `tp_agent.c`) | command queue, pending adds, poller list | async add, poll, register, do_work, close | several threads, first allocation of the queue, close with commands in flight | every accepted command completes exactly once |
| Consumer manager, registry (`tp_consumer_manager.c`, `tp_consumer_registry.c`) | entries with publications and policies | hello, touch, sweep, progress aggregation | full registry, stale entries, reuse of an entry | at most one entry per consumer, stale ones go |
| Progress poller (`tp_progress_poller.c`) | tracker of (stream, epoch, seq, bytes) | validate, resize | index change on resize, eviction | accepted progress never goes back |
| Join barrier, merge maps (`tp_join_barrier.c`, `tp_merge_map.c`) | rules, per-input progress, map registry | apply, update, is_ready, upsert | 64-bit boundaries, stale inputs, late maps | ready only when every fresh input has arrived |
| Trace ids and links (`tp_trace.c`, `tp_tracelink.c`) | one atomic word, link entries by slot | next, resolve, send link set | threads, clock going back, sequence exhausted, re-attach | ids are unique; a link names a published frame |
| Metadata blobs (`tp_metadata_poller.c`) | the blob being followed | announce, chunk, complete | lost and interleaved chunks | complete means whole |
| Tensor header (`tp_tensor.c`) | none | validate, fill strides | given and inferred strides, 32-bit products | elements do not overlap |
| Discovery (`src/discovery`, `tp_discovery_client.c`) | entries with expiry, pending request | apply announce, query, request, poll | expiry racing refresh, responses of earlier requests | results are current |
| Supervisor (`src/supervisor`) | registry, counters | hello, sweep | id assignment modulo a range | per-consumer streams are distinct |
| SHM mapping (`tp_shm.c`, `tp_uri.c`) | mapped regions | map, validate superblock, unmap | system calls | only the announced layout is mapped |
| Configuration, codecs, QoS poller, context, log, clock, Aeron wrappers | none of interest | parse, encode, dispatch | - | - |

Clients talk to the driver by Aeron messages only; the driver is single
threaded (one agent loop). Producer and consumers share the SHM mapping and
nothing else; descriptors tell consumers which slot to look at.

## Modules

| Module | Models |
|---|---|
| `FrameRing` | the header ring and payload pools: producer calls, each store of `tp_producer_publish_frame`, each load of `tp_consumer_read_frame` and `tp_consumer_validate_progress` |
| `FrameRingProofs`, `MCFrameRing` | theorems about `FrameRing`; its instances |
| `Driver` | the SHM driver process |
| `DriverHistory` | `Driver` with a history of when each node id was given up |
| `DriverProofs`, `MCDriver`, `MCDriverHistory` | theorems about `Driver` and `DriverHistory`; their instances |
| `DriverClient`, `DriverClientProofs`, `MCDriverClient` | a client's lease: driver client, producer life cycle and the driver's lease table, over an unreliable control channel; theorems; instance |
| `ConsumerMapping`, `ConsumerMappingProofs` | how a consumer follows the epochs of its stream, instance of its own; theorems |
| `MpscQueue`, `BoundedFifo`, `MpscQueueProofs`, `MCMpscQueue` | the client's command queue, each access to shared memory a step; what it promises; theorems; instances |
| `ClientConductor`, `ClientConductorProofs`, `MCClientConductor` | asynchronous adds, pending lists, pollers, nested `do_work`, start and close; theorem; instances |
| `ConsumerDirectory` | consumer registry, consumer manager, supervisor |
| `Discovery` | discovery service and client |
| `DirectoryProofs`, `MCDirectories` | theorems about the two directories; their instance |
| `MergeJoin`, `MCMergeJoin` | merge maps, their registry and the join barriers; instance |
| `TraceLinks` | trace id generator, trace link entries and sets |
| `MetadataBlobs` | metadata blobs and the poller that reassembles them |
| `ProgressPoller` | FrameProgress on the receiving side |
| `TensorLayout` | validation of tensor headers |
| `SideChannelProofs`, `MCSideChannels` | theorems about the last four and `MergeJoin`; instance of the last four |
| `Wire` | what a decoder does before it looks at the fields of a message |

Operators named `Bug...`, or preceded by a comment that starts with *Mutant*,
are plausible mistakes in the code, kept beside the definition they would
replace; no definition uses them. Replacing the definition by such a form makes
TLC report the property that guards against it, which shows that the property
is not vacuous.

How the modules relate: `DriverClient` contains the driver's lease table as far
as one stream needs it, because the product with the whole of `Driver` is too
large to explore; its grants, refusals, expiry and revocations are those of
`Driver`. `ConsumerMapping` takes the driver's epochs and announces as its
environment and leaves the slots to `FrameRing`. `ClientConductor` uses the
command queue as the FIFO that `MpscQueue` is shown to implement.
`ProgressPoller` reads commit words that `FrameRing` shows to be reliable.
`MCDirectories` and `MCSideChannels` check several small, independent parts in
one run: a behaviour is of one part and the others rest.

### FrameRing

`seq_commit`, `header` and `payload` are the shared memory. A word's content is
abstracted to the frame it belongs to: three header words stand for the slot
fields (`values_len_bytes`, `pool_id`, `header_bytes`), so that a mixture of
two frames is visible; a payload word holds the sequence number of its frame.
`claims` are the application's claim handles, `pub` is the
`tp_producer_publish_frame` call in flight with what it has stored so far, and
`rd` is, per consumer, the read in progress and afterwards the frame view.

Every store and every load is a step of its own. `MemoryOrder = "tso"` lets
them take effect in program order; `"weak"` keeps only what the code's
acquire loads and release stores guarantee: stores that follow the release
store of the in-progress mark may take effect before it, and loads that
precede the acquire load of the second check may take effect after it.

The producer API is single threaded: a call starts only when none is in
flight, while the application may fill a claimed buffer at any time (DMA).
The application is assumed to keep account of its claims: it starts no frame
in a slot that one of its claims still holds (`SlotFree`), because the library
does not check it, and it commits a claim after filling it. A descriptor offer
that fails (back pressure) is not repeated, as in the code.

### Driver

One action per handler outcome. `HandleAttach` has five: refused before the
stream lookup, refused after it (a dynamic stream stays in the table), SHM
creation failed (the epoch stays bumped), no node id left (epoch bumped, files
made, lease id drawn), granted. `DoWork` is the expiry sweep and the periodic
announce of one `tp_driver_do_work`. `Restart` is a close or a crash followed
by a new process on the same files: the lease table is gone, the directories
are not. `dirs` is the file system: per stream, the epoch directories, each
whole or left half made by a failed creation.

Time is the monotonic clock in coarse ticks. `WallOffset` separates it from
the wall clock, which stamps the directories, and `Wrap` is the width of the
unsigned age computation, so that garbage collection computes what the code
computes. Random draws (node ids, the seed of lease ids) are choices; lease
ids are not repeated by a restart (63 random bits). A restart is assumed to
take longer than the nanoseconds by which bumped epochs can be ahead of the
clock, and the host does not reboot (the directories live in memory).

Messages sent are the set `out` of the last step; what clients do with them
is in `DriverClient`.

### MpscQueue

`memory` holds every slot array ever allocated and `slots` says which one the
queue points to, because the first offer allocates the array without
synchronisation. Offerers are application threads in
`tp_client_conductor_async_add_*`, pollers the threads that run
`tp_client_conductor_do_work`. `Starters` are the threads whose offers may meet
a queue without slots: one when `tp_client_start` runs first, as its
subscriptions make the first offer before the application gets a started
client. The two retry loops have the same shape and share the actions that load
the counter, load the slot's sequence and lose the exchange. Positions do not
wrap. `claimed`, `accepted` and `delivered` are history.

`BoundedFifo` is implemented for any number of pollers: an offer takes effect
when it moves `tail`, a poll when it moves `head`, and the commands between are
the abstract queue. `PolledIntact` adds that the bytes copied are those of the
command claimed. With two pollers the order in which polls return is not the
order of claiming; each command is still returned once (`DeliveredOnce`).

### DriverClient

One client, one stream and a rival that attaches to the same stream, perhaps
with the same client id. `client` is `tp_driver_client_t`, the call in progress
and the producer's flags; `inbox` is the control subscription. It is **one**
Aeron subscription: the blocking attach, the asynchronous attach and detach and
the conductor's control poller all poll it, and whoever polls first consumes
the message. The driver's answers and revocations are heard by everybody. A
message to the driver may fail to be sent, an answer may be lost or consumed by
another poll, frames may be damaged, either side may crash. `kind` chooses
between a producer (configured client id) and a direct user of
`tp_driver_attach` with an automatic id.

The model keeps what the code does in the awkward places. A client renews its
own idea of the lease whenever it sends a keepalive, without an answer; when
that idea runs out it only forgets the lease id and leaves the mapping. A
mapping that fails after a granted attach keeps the lease. The asynchronous
attach and detach are sent once and have no timeout, and an asynchronous detach
takes any detach response for its own. The conductor's agent thread sends no
keepalives; `tp_client_do_work` does. `unheard` records the leases that ended
without the control poller being shown the revocation, which are exactly the
cases in which a client goes on believing in a lease it has lost.

### ConsumerMapping

Announces and descriptors are two streams, each in order, unordered against
each other. `PollAnnounce`, `PollDescriptor` and `PollNothing` are one
`tp_consumer_poll_*` each, with the liveness checks at its end; `AttachAnswered`
is the answer of a driver attach, which may come after the consumer has moved
on. What is found under an epoch's paths (`RegionKinds`) is checked by
`ValidateSuperblock`, header first, pools after. Re-announcing remaps, as in the
code, and so starts `last_seq_seen` and `drops_gap` afresh; the first announce
with a monotonic timestamp after joining is ignored. Activity timestamps and
the owner's pid are `world.quiet` and `world.owner`.

### ClientConductor

`do_work` is a stack of frames, because a poller may call it again. Within it a
step is one command drained, one pending add looked at (`StillPending`,
`Resolve`, then `Unlink`), one poller called. `handle` records whether the
memory of an asynchronous add is live and its status. `Apart` says whether the
callers have a thread of their own. Applications are assumed not to unregister
a poller that is running, not to close the client in a callback, and not to
poll a handle after closing: the library frees what these would touch.

### ConsumerDirectory

The registry is a fixed array in two copies: the producer's consumer manager
and the supervisor, which hear the same hellos and QoS messages, either missing
any of them. Timestamps are ages, so time is unbounded. A hello's channel and
stream id are one value that can be absent, incomplete or too long. Adding a
publication may fail, and then the assignment is withdrawn. The nested
`tp_client_do_work` while a publication is added (`tp_consumer_manager.c:46`) is
part of the handler's step. `told` is history: the destination a consumer was
last told and those it has named since it is present.

### Discovery

Entries hold the epoch, the epoch whose pools they list, names, tags and the
age of the last announce. The service reads the variable-length fields of a
request from the position *before* the tag group that precedes them on the wire
(`schemas/discovery-schema.xml`), so a decoded request has the fixed fields that
were sent and arbitrary channel, name and tags; the model says the same. Stream and
producer, which are fixed fields, filter as sent. A
response holds as many results as `max_results` and the 4096-byte buffer allow.
The client drops responses to other requests, fails on an unusable result, and
takes a frame that it cannot decode for the end of its poll.

### MergeJoin

`Deliver` is the control poller's merge map part: any announcement, sent any
number of times, or a damaged frame, is decoded (`Wire`, `RuleDecodes`) and
given to the registry and the barrier. The barrier's three types share the
input states. Readiness, stale inputs, collection and invalidation are the
functions of `tp_join_barrier.c` one by one; `adopted`, `seen` and `accepted`
are history against which the barrier's answers are compared. The barrier does
not ask of which type it is when it is updated, configured or invalidated
(`tp_join_barrier.c:326-480`, 857), so the model does not either: `Calls` are the
calls an application makes on a barrier of each type, its own and foreign ones.
The theorems hold for any `Calls`.

### TraceLinks, MetadataBlobs, ProgressPoller, TensorLayout

`TraceLinks` has a step for each load, clock reading and compare-and-exchange
of `tp_trace_id_generator_next`, a clock that may go back, generators shared by
several threads, and ids as bit fields of small width. `owed` are the links an
application still has to send for frames it has published: it may send one late,
after its thread has published more frames and lapped the entry, or after a
re-attach, with the epoch of the claim or the present one, of which
`tp_producer_send_tracelink_set` refuses all but the producer's own
(`tp_tracelink.c:340`). `MetadataBlobs` lets any
message be lost and the blobs of several producers and versions interleave.
`ProgressPoller` has the tracker in both forms, plain and by slot, its resize
with entries in place when the next epoch's ring is longer (`RingSlots` is by
epoch), the confirmation against the mapped slot, and an application that
reports what it likes. A consumer's poller accepts nothing before an epoch is
mapped, so its table is blank when it first goes by slot. The limit
`max_payload_bytes` is left out, as the library never sets it. `TensorLayout` computes strides in
integers of `Width` bits and compares them with the addresses of all elements.

## Runs

| Run | Shows | States, bounds |
|---|---|---|
| `ring_tso` | `CommittedFrameIntact`, `AcceptedHeaderUntorn`, `UnchangedCommitMeansIntactPayload`, `SlotNeverRegresses`, `DropOnlyLostFrames` | 3.0 million; 2 slots, 2 pools of different stride, 3 frames (the ring is lapped), 1 claim, 1 consumer |
| `ring_fixed_one` | `CommittedFrameIntact` for one fixed buffer that is re-queued | 0.9 million; 2 slots, 3 frames (the buffer publishes into the other slot; with 4 frames, 10.7 million states, commit words go back as well, and it still holds) |
| `driver_epochs` | `SingleProducer`, `DistinctIdentities`, `ProducerBacked`, `GcBounded`, `ProducerEpochStable`, `EpochNeverReused`, `LeaseEndIsRevoked` | 0.3 million; 1 stream, 2 clients, 2 node ids, 3 leases, 3 ticks, 1 restart, 1 failed creation |
| `driver_attach` | `NodeIdReuseWaits`, `SilentClientsLoseLeases` with dynamic streams, chosen node ids and requests that fail each check | 31 thousand; 2 streams, 1 node id, 3 ticks, 2 leases |
| `lease` | `BeliefSound`, `DroppedOnlyIfRevoked`, `LeaseProgress` | 0.2 million; a client and a rival, 1 request and 2 answers under way, 1 fault; time unbounded |
| `consumer` | `MappingSound`, `GapCountsMissedFrames`, `NeverBackToOlderEpoch`, `FollowsStream` | 0.4 million; 2 epochs, frames 0 to 3, 1 message under way per stream, 2 faults |
| `mpsc_fifo` | `QueueSound`, `ImplementsFifo`, `OffersServed` | 80 thousand; 2 offerers with 2 offers each, capacity 2 (two laps), 2 pollers |
| `conductor` | `ConductorSound`, `AddsResolved`, `PollersServed` | 0.2 million; 4 adds (2 shared), 3 pollers, queue of 2, `do_work` two deep, one thread |
| `directories` | `RegistriesSound`, `SilenceDecides`; `AnswersSound`, `AnswersCurrent`, `SoftStateEnds` | 0.3 million; 2 consumers, one of which names another destination later, a manager with room for one; 2 streams, 2 epochs, 2 requests |
| `join` | `JoinSound`, `ReadyIsStable` | 0.4 million; 2 inputs, maps of 2 epochs and both kinds, 2 values, 2 ticks; calls on a barrier of its own type and one foreign call each |
| `side_channels` | `DrawnFresh`, `TracesSound`; `BlobsSound`; `ProgressNeverShrinks`; `LayoutSound` | 1.5 million; 3 threads, 2 generators, 1-bit sequences (used up at once), links sent late over 1 entry and 1 re-attach; 3 blobs; 2 epochs of 3 frames, in 1 slot and then 2; headers of up to 3 dimensions in 8-bit arithmetic |

A property with several named parts is their conjunction:

| Property | Parts |
|---|---|
| `SilentClientsLoseLeases` | `ExpiredLeaseEnds`, `ProducerLockReleased` |
| `BeliefSound` | the types; `OwnLeaseOnly`: never the rival's lease or regions; `BeliefBacked`: a client believes in an ended lease only if nobody told it |
| `LeaseProgress` | `AttachReturns`, `AbandonedLeaseEnds`, `LeasedAgain` |
| `MappingSound` | the types; `MappedRegionsMatch` |
| `FollowsStream` | `SettlesOnCurrentEpoch`, `AbandonedMappingEnds` |
| `QueueSound` | the types; `PolledIntact`, `AcceptedInQueue`, `DeliveredOnce` |
| `OffersServed` | `RefusedOnlyWhenFull`, `AcceptedDelivered`, `OfferEnds` |
| `ConductorSound` | the types; `HandleInOnePlace`, `ReadsLiveHandles`, `RunsRegisteredPoller` |
| `RegistriesSound` | the types; `PolicyIsFinestAsked`, `PublicationsOwned`, `AssignedIsPublished`, `AssignedStreamsDistinct` |
| `SilenceDecides` | `OnlySilentLeave`, `SilentConsumerLeaves` |
| `AnswersSound` | the types; `PoolsMatchEpoch`, `AnswerIsUsable` |
| `AnswersCurrent` | `EpochNeverRegresses`, `ListedWasHeard` |
| `SoftStateEnds` | `PollEnds`, `SilentStreamForgotten` |
| `JoinSound` | the types; `BarrierFollowsAnnouncement`, `ReadyMeansReached`, `LatestFromThisEpoch`, `RegistryHoldsLastAccepted` |
| `TracesSound` | the types; `IdsReadBack`, `LinkNamesPublishedFrame` |
| `BlobsSound` | `CompleteIsWhole`, `ChunksArePrefix` |
| `LayoutSound` | `ElementsDisjoint`, `PrefixHoldsWholeUnits` |

The types of `FrameRing` and `Driver`, and `DescriptorAfterCommit`, are proved
(see *Theorems*).

Two slots and three frames are the smallest ring in which a slot is
overwritten while another is untouched; a reader of frame 0 can be lapped by
frame 2. Two pools of different stride are needed for a mixed header to fail
the length check. One consumer is enough for the read properties, because
consumers share nothing; the theorems hold for any number. In the driver, two
clients and three leases give a producer, its successor and a consumer in
every order; three ticks cover attach, expiry, the sweep and what follows. In
`lease`, two answers under way let a stale answer or revocation stand before a
current one, and one fault is enough for each of: an orphan lease, a missed
revocation, a restarted driver; lease, correlation and client ids that nothing
refers to are used again, so retries go on for ever. In `consumer`, two epochs
give every pair of an old and a new message; frames 0 to 3 give a gap after
frame 0 and a gap after a later one. In `directories` a manager with room for
one of two consumers is full while the supervisor is not, and a hello that names
another destination meets a publication at the first. In `side_channels` one
trace link entry is lapped by the next frame, and the longer ring of the
second epoch makes the tracker grow while it holds an entry.

Deadlock is checked where the system never stops (`lease`, `consumer`,
`directories`). Elsewhere the bounds on frames, time, offers or ids end every
behaviour, and a closed client (`conductor`) does stop.

Fairness. `FrameRing`: a publish call in flight goes on (`WF(PublishStep)`: it
contains no wait); no property depends on it. `Driver`: the agent loop keeps
calling `tp_driver_do_work` (`WF(DoWork)`) and time passes (`WF(Tick)`).
Nothing is assumed of clients there: they may stop at any time. `MpscQueue`: the
conductor polls in its duty cycle, a thread inside `offer` goes on, and a weak
compare-and-exchange does not fail spuriously for ever (`SF` of the two
successful exchanges). `DriverClient`: the driver's loop and the conductor's
loop run and time passes; the application asks for a lease when it has none;
`SF` of the driver's steps, because the bound on the inbox disables them now
and then, and `SF(AnsweredInTime)`: the race of an answer against its deadline
is not lost every time. Nothing obliges messages sent to arrive.
`ConsumerMapping`: the application polls both streams, the driver keeps
announcing, time passes. `ConsumerDirectory` and `Discovery`: time passes, the
sweeps run in their loops, a client inside its poll goes on; nothing obliges a
consumer or a producer to speak. `ClientConductor`: the loop that calls
`do_work` goes on and its steps end, callbacks return (`SF`, since they may
call `do_work` in between), and Aeron answers an add in the end
(`SF(Resolve)`). `MergeJoin` and the side channels have safety properties only.

## Known disagreements

One has a run of its own. `conductor_agent` is `conductor` with the callers on
a thread of their own, which is what the documents describe
(`docs/IMPLEMENTATION_GUIDE.md` section 3, `docs/CLIENT_CONDUCTOR_DESIGN.md`).
It ends with a counterexample to `ReadsLiveHandles`:
`tp_client_conductor_poll_pending` stores an add's outcome and only then reads
`async->next` to take it off its list; in between the caller can poll the
handle and free it.

The following are in the models, which do what the code does, and can be seen
with the settings named; the properties of the runs are stated so that they
hold in spite of them.

- `tp_driver_handle_detach` computes `is_producer` before the role is decoded
  (`tp_driver.c:1581`), so a producer's detach does not bump the epoch, though
  its expiry does; `docs/SHM_Driver_Model_Spec_v1.0.md` asks for both.
- `tp_driver_gc_stream` subtracts a wall clock time from a monotonic one,
  unsigned (`tp_driver.c:1110`); `epoch_gc_min_age_ns` never protects a
  directory. `WallOffset` and `Wrap` reproduce it.
- When SHM creation fails the bumped epoch stays (`tp_driver.c:1898`), and a
  consumer that attaches next is granted an epoch without files
  (`MaxFailures = 1`). `ProducerBacked` is therefore about producers.
- Acquire and release alone do not keep the header loads before the second
  check or the stores after the in-progress mark (`tp_seqlock.h:33`): with
  `MemoryOrder = "weak"` a torn header can be accepted. The runs and theorems
  are for total store order.
- A re-queued fixed buffer keeps its slot while `publish_frame` writes the slot
  of its sequence number (`tp_producer.c:1592`): with two claims and
  `FixedPool = TRUE` a committed slot can hold another buffer's bytes. One
  buffer is safe (`ring_fixed_one`, `BufferIntact`), although it may take a
  commit word back: a slot's frame can be older than the one before it.
- Two threads that make the first offers together (`Starters` of two) can lose
  an accepted command, because the slots are allocated without synchronisation
  (`tp_mpsc_queue.c:104`).
- A poller that unregisters itself, or an application that sets handlers of the
  client from a callback, frees the entry the walk stands on
  (`tp_client_conductor.c:434`). `tp_client_close` frees the pollers before the
  agent is stopped, and `tp_client_start` in agent mode runs `do_work` on two
  threads.
- An innermost stride that is given is not compared with the element size, and
  32-bit products are not checked (`tp_tensor.c:190`), so overlapping elements
  can be accepted; `docs/SHM_Tensor_Pool_Wire_Spec_v1.2.md` section 8.2 says
  they are rejected. `InnerFits` and `InRange` name the two conditions.
- A merge map of an older epoch that arrives late replaces the present one in
  registry and barrier (`tp_merge_map.c:1001`).
- A late driver answer maps an older epoch (`tp_consumer.c:1510`); the next
  announce puts it right. Re-attaching while mapped does not release the old
  mapping. A configuration whose slot count is not a power of two is refused
  without cleaning up what was already mapped.
- `last_seq_seen = 0` stands for nothing seen and for frame 0, so a gap after
  frame 0 is not counted (`tp_consumer.c:531`).
- The discovery service decodes the variable-length fields of a request in the
  wrong order, loses tags with every announce, and keeps entries for ever that
  were only tagged or had only a broken announce; one unusable result turns a
  response into an error, and a damaged foreign frame ends
  `tp_discovery_poll` with a zeroed response and success.
- The consumer manager keeps a consumer's old publication when a new hello
  names another channel, and still assigns the new one
  (`tp_consumer_manager.c:178-196`): the consumer is told of a destination on
  which nothing is published. `AssignedIsPublished` therefore says that there is
  a publication, at a destination this consumer has named, and that it is the
  assigned one if the consumer named no other. Manager and supervisor both
  answer a hello.
- The second check of the seqlock precedes the use of the payload, which the
  caller reads through the returned pointer; `UnchangedCommitMeansIntactPayload`
  says what the caller can do about it. A frame overwritten during the read may
  fail a header check first and is then not counted in `drops_late`.

## Theorems

The proofs hold for all values of the constants. They rest on the named
assumptions of the modules only, which TLC evaluates in every run, and, where
said below, on a *setting*: a condition on the constants under which the code is
meant to work and outside which the models show that it does not. Each proof has
the same form: an inductive invariant, a lemma per action that it is preserved
(and the action properties with it), and a lemma that it implies what is stated.
The invariants were checked with TLC on the runs' instances first.

| Theorem | Property | Setting |
|---|---|---|
| `TypeCorrect`, `DriverTyped` | types | - |
| `CommittedIntact`, `AcceptedUntorn`, `PayloadRecheck`, `SlotsAdvance`, `DescriptorsFollow`, `NoFrameDroppedEarly` | `CommittedFrameIntact`, `AcceptedHeaderUntorn`, `UnchangedCommitMeansIntactPayload`, `SlotNeverRegresses`, `DescriptorAfterCommit`, `DropOnlyLostFrames` | `OrderedRing` |
| `BufferIntact`, `BufferUntorn`, `BufferRecheck` | `CommittedFrameIntact`, `AcceptedHeaderUntorn`, `UnchangedCommitMeansIntactPayload` | `OneBuffer` |
| `OneProducer`, `IdentitiesDistinct`, `ProducersBacked`, `EpochStable`, `EpochFresh`, `EndsAreRevoked` | `SingleProducer`, `DistinctIdentities`, `ProducerBacked`, `ProducerEpochStable`, `EpochNeverReused`, `LeaseEndIsRevoked` | - |
| `DirectoriesFew`, `NodeIdsWait` | `GcBounded`, `NodeIdReuseWaits` | - |
| `QueueCorrect`, `RefusalMeansFull`, `QueueIsFifo` | `QueueSound`, `RefusedOnlyWhenFull`, `ImplementsFifo` | `StartedQueue` |
| `ConductorCorrect` | `ConductorSound` | `OneThread` |
| `BeliefCorrect`, `DroppedOnlyRevoked` | `BeliefSound`, `DroppedOnlyIfRevoked` | - |
| `MappingCorrect`, `GapCorrect`, `NeverBack` | `MappingSound`, `GapCountsMissedFrames`, `NeverBackToOlderEpoch` | - |
| `RegistriesCorrect`, `SilentOnlyLeaves` | `RegistriesSound`, `OnlySilentLeave` | - |
| `AnswersCorrect`, `AnswersStayCurrent` | `AnswersSound`, `AnswersCurrent` | - |
| `TraceIdsFresh` | `DrawnFresh` | `DistinctNodes` |
| `TracesCorrect`, `BlobsCorrect`, `ProgressMonotone` | `TracesSound`, `BlobsSound`, `ProgressNeverShrinks` | - |
| `JoinCorrect`, `ReadyStays` | `JoinSound`, `ReadyIsStable` | - |
| `LayoutCorrect` | `LayoutSound` | - |

`FrameRingProofs`. `TypeCorrect` holds in every mode. Most of the others assume
`OrderedRing`: program order and `fixed_pool_mode` off (neither can be dropped
with more than one claim, see *Known disagreements*). No property is inductive
by itself. The invariant `IInv` adds who owns a slot (`ClaimOwnsSlot`,
`ClaimsDisjoint`: an open claim's slot is marked in progress for it and no two
owners share a slot), how far the publish call has come (`PublishProgress`:
what it has stored is in its slot and the commit word says so) and what a
reader knows (`ReaderKnows`: the commit word never goes below what it loaded,
and as long as it is unchanged the fields loaded are the fields in the slot).
The argument: commit words only grow (`SlotAdvances`, proved with the
invariant), a committed slot is written only after its word has grown, so two
equal loads enclose a time in which the slot was not written.
`CommittedIntact`, `AcceptedUntorn`, `PayloadRecheck`, `SlotsAdvance` and
`DescriptorsFollow` follow. `NoFrameDroppedEarly` needs two facts more
(`DropInv`): every frame claimed, being published or committed fits its pool
(`FramesFit`), so no check of the header refuses a frame read whole, and as long
as the commit word is the one a read began with, every later load of it found it
too (`ReadersCurrent`).

The last part assumes `OneBuffer` instead: program order and at most one claim
handle, `fixed_pool_mode` on or off. A re-queued buffer is then filled in one slot
and published into another, and commit words do go back, so the argument above is
not available. What takes its place is that no commit word *comes* back: a frame
is committed once, and before that no slot shows it and no reader has met it
(`Unseen`, kept for the buffer and for the publish call in flight). So a reader
that finds its first value again has seen the slot at rest (`SlotMoves`,
`ReadersStay`). `BufferInv` says besides that the buffer being filled is in an
uncommitted slot that no publish call in flight touches (`BufferHeld`) and that
the source of a copy keeps the frame's bytes until the copy is done
(`BufferPublished`). TLC agrees with all three theorems on the instance of
`ring_fixed_one`, with 3 and with 4 frames.

`DriverProofs`. `IInv` adds to the properties that lease ids are drawn in
order (`LeaseIdsDrawn`) and that no directory is ahead of both its stream's
epoch and the clock (`DirsBelow`): with it a bumped epoch is larger than every
directory, also after a restart has reset the epoch to 0. `OneProducer`,
`IdentitiesDistinct`, `ProducersBacked`, `EpochStable`, `EpochFresh`,
`EndsAreRevoked` follow; each step lemma proves the action properties together
with the invariant. `DirectoriesFew` counts: of a finite set of directories with
different epochs at most `epoch_gc_keep` have fewer than that many newer ones
(`NewestFew`, by cardinality), and the age that `tp_driver_gc_stream` computes
never protects one: a directory was made in the past (`DirsOnDisk`), the wall
clock is ahead of the monotonic one, and the unsigned difference is more than any
minimum age (`ClockAssumption`). `NodeIdsWait` is about `DriverHistory`:
an id without a lease has a cooldown that reaches as far as the history asks
(`WaitInv`), and a step other than a restart gives out an id only when its
cooldown is over (`NodeStep`).

`MpscQueueProofs`. `StartedQueue`: one thread makes the first offers
(`Starters`; with two, see *Known disagreements*) and there is more than one slot.
With a single slot the number that publishes a command is the number that frees
the slot for the next lap, and a full queue would take another command; the
client allocates many. Positions are unbounded numbers, slots their remainders:
the proof needs division with remainder (`SameLap`, `SlotsApart`: positions less
than a lap apart have slots of their own). The invariant says for every position
between `head` and `tail` minus a lap which number its slot shows and whose
command it holds, depending on whether the offer that claimed it has published
and the poll that claimed it has released; and what a thread that has loaded a
number may still conclude from it, since numbers only grow. `QueueIsFifo` is the
refinement: the claim of a position is the enqueue of `BoundedFifo`, the claim of
`head` its dequeue, everything else stutters.

`ClientConductorProofs`. `OneThread` is `~Apart`: callers and conductor share a
thread; the run `conductor_agent` shows why it is needed. `do_work` can be
entered from a callback of `do_work`, so the state is a stack of calls. The
invariant: a nested call never calls back (`StackSound`, at most two frames), an
iteration over the pending lists or pollers stands on an entry that is still
linked (`CursorSound`), and an add is in the queue, in one list or resolved, never
in two (`ListsSound`).

`DriverClientProofs`. The invariant names what makes the belief of the client
right (`Backed`): for the lease it holds, and for every grant that still waits
in its inbox, the driver holds that lease, or its revocation waits behind, or
the client missed it. This needs that a lease id names one lease (`LeasesSound`)
although ids that nobody refers to are used again, and that an answer carries
the correlation id of one request (`RequestsSound`, `InboxSound`).

`ConsumerMappingProofs`. Descriptors arrive in the order of their frames, epoch
after epoch (`DescriptorsOrdered`), so that the frames handed are an increasing
sequence and `drops_gap` adds up the distances (`Counted`); the epoch mapped is
one that exists and that was announced (`EpochsKnown`, `Behind`).

`DirectoryProofs`. `RegistriesCorrect` says of publications that each open one
belongs to an entry in use, that a consumer told of a destination has one at a
destination it named, and that it is the one told when it named no other; not
that it is the one last asked for, which the code does not keep (see *Known
disagreements*). `DirectoryInv` adds that an entry's age is
the silence of its consumer, which makes `OnlySilentLeave` a fact about sweeps,
and that a stream is assigned by consumer id only. The policy is computed by one
pass over the entries, a recursive function; that it finds the minimum is proved
by giving the function in closed form and taking the least entry at which the
two differ (`AggregateIsFinest`). For discovery, `AnswersInv` says that every
entry, response and pending result is one the service could have listed when it
was last heard.

`SideChannelProofs`. An id is a number made of time, node and sequence;
`TracesCorrect` needs that the fields do not overlap, which is arithmetic with
powers of two (`Widths`, `IdParts`). `DrawnFresh` follows because the word of a generator
only grows and every id drawn was the word once; `DistinctNodes` separates the
generators. For blobs the invariant relates the poller's next offset with the
chunks handed over; for progress it says that a table entry is the last report
accepted for its frame, that a plain table which is full has no free entry, and
that a consumer's table has room for the ring of every epoch that was reported:
an entry is gone only if its slot moved on or a later epoch took its place.

For the join barrier `JoinInv` says that the barrier is loaded with the last map
it accepted (`AdoptedInForce`), that an input state has the newest of what was
seen of its stream since then (`InputSeen`) and that nothing seen is beyond it
(`FrameBelow`). A stream may be named by several rules: frames go into the first
input state of the stream and the other ones stay untouched, which is why a rule
is judged by the state `FindState` names. That registry and barrier have what was
announced needs that encoding a map loses nothing and that a damaged frame is
refused; the maps are assumed to be well formed (`MapsAssumption`: the number a
rule's type does not use is 0, a sequence map has no clock domain), as the
application's structures are. `ReadyStays` compares two states: without a new map
and without new settings input states only grow (`Grew`), and each readiness test
is monotone in them.

For tensor headers `LayoutInv` says of a header that is taken that every stride,
given or filled in, is at least what the dimension inside it asks for
(`TakenShape`). The two conditions left to the producer make that a chain of
products that do not wrap (`OneOut`, `TakenNests`). The rest is about nested
strides in general: the part of an offset that comes from the dimensions up to k
stays within one step of dimension k (`ReachWithin`, which at the outermost
dimension is `PrefixHoldsWholeUnits`), so the outermost dimension in which two
indices differ keeps them apart (`ReachApart`). Where a sum or a filling is
defined by recursion, that it exists and what it does at each position is proved
by looking at the least position at which it would fail (`SumsAre`, `FillsExist`).

Only model-checked: all liveness (`SilentClientsLoseLeases`, `LeaseProgress`,
`FollowsStream`, `OffersServed`, `AddsResolved`, `PollersServed`,
`SilenceDecides` and `SoftStateEnds`): TLAPS does not handle `ENABLED` and
fairness. The safety parts `RefusedOnlyWhenFull` and `OnlySilentLeave` are
proved.

## Not modelled

- Configuration parsing (`tp_driver_config.c`, `tp_discovery_config.c`,
  `tp_supervisor_config.c`): no state after start; the values are constants.
- The bytes of SBE messages: generated code. What a decoder accepts is modelled
  where a handler depends on it (`Wire` and the handlers).
- Merge map requests and the QoS, control and announce handlers that only pass
  a decoded message to a callback.
- Direct mode, in which a producer without a driver creates its own SHM files,
  and the sending of FrameProgress by the producer with its rate limits.
- Opening, mapping and locking of files, path canonicalisation, permissions,
  huge pages beyond what attach decides: system calls.
- Context, logging, clock, version and Aeron wrappers: setters and I/O.
- Tools, samples, tests and generated code.
- Memory allocation failures, except in the command queue, and two threads
  inside one conductor or one producer: data races on plain pointers, for which
  the code gives no outcome to model.

## Plan

1. The sending of FrameProgress, and direct mode.
2. `DriverClient` with several streams, when the state space allows it.
