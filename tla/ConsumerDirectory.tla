-------------------------- MODULE ConsumerDirectory --------------------------
(***************************************************************************)
(* Who listens to a stream: the consumer registry                          *)
(* (src/client/tp_consumer_registry.c) as the producer's consumer manager  *)
(* (src/client/tp_consumer_manager.c) and the supervisor                   *)
(* (src/supervisor/tp_supervisor.c) keep it, each its own, from the same   *)
(* ConsumerHello and QoS messages.  Either receiver may miss any of them.  *)
(*                                                                         *)
(* A timestamp is modelled by its age (now - last_seen_ns), which stops    *)
(* counting one tick past Stale, so that time itself is unbounded.         *)
(*                                                                         *)
(* The channel and stream id a hello asks for are one value: a destination *)
(* (a member of Dests), "none", "half" (one of the two is missing) or      *)
(* "long" (a channel that does not fit into the entry).                    *)
(***************************************************************************)
EXTENDS Integers, FiniteSets, FiniteSetsExt

CONSTANTS
    Ids,          \* consumer ids (positive numbers)
    Dests,        \* destinations for per-consumer streams
    Hellos,       \* the hello messages consumers may send
    Numbers,      \* the progress settings: interval, bytes, major units
    Default,      \* Default[k]: the policy when nobody asks
    Capacity,     \* entries of the manager's registry
    SupervisorCapacity,
    Stale,        \* ticks after which a silent consumer is swept
    AssignBase,   \* the supervisor's per-consumer stream ids, 0: not set
    AssignRange

Null == -1
NoPub == "nopub"
Free == [id |-> 0]
Untold == [dest |-> "none", named |-> {}]

ASSUME DirectoryAssumption ==
    /\ Ids \subseteq Nat \ {0} /\ Stale \in Nat /\ Capacity \in Nat \ {0}
    /\ SupervisorCapacity \in Nat \ {0}
    /\ AssignBase \in Nat /\ AssignRange \in Nat
    /\ \A h \in Hellos : /\ h.id \in Ids /\ h.progress \in BOOLEAN /\ h.asks \in [Numbers -> Nat \cup {Null}]
                        /\ h.desc \in Dests \cup {"none", "half", "long"}
                        /\ h.ctrl \in Dests \cup {"none", "half", "long"}

VARIABLES
    managed,     \* the manager's registry
    policy,      \* the manager's progress_policy
    supervised,  \* the supervisor's registry
    swept,       \* age of the supervisor's last_sweep_ns
    open,        \* history: publications opened and not closed
    told,        \* history: destination last assigned to a consumer, and those it named
    silent       \* history: ticks since a receiver last heard a consumer

directoryVars == <<managed, policy, supervised, swept, open, told, silent>>

InUse(reg) == {i \in DOMAIN reg : reg[i] # Free}

LongerAgo(age, bound) == IF age > bound THEN age ELSE age + 1

(***************************************************************************)
(* Registry                                                                *)
(***************************************************************************)

\* tp_consumer_request_validate
RequestValid(h) == h.desc # "half" /\ h.ctrl # "half"

\* tp_consumer_registry_find, tp_consumer_manager_find_entry
Find(reg, id) == {i \in InUse(reg) : reg[i].id = id}

\* tp_consumer_registry_find, else _alloc: the first entry not in use, cleared;
\* 0 when the registry is full.
SlotFor(reg, id) ==
    LET unused == DOMAIN reg \ InUse(reg)
    IN  IF Find(reg, id) # {} THEN Min(Find(reg, id))
        ELSE IF unused # {} THEN Min(unused) ELSE 0

\* tp_copy_string_view into the entry: what does not fit is not requested.
Fits(dest) == IF dest = "long" THEN "none" ELSE dest

\* tp_consumer_registry_update: the entry after a valid hello.  Publications of
\* an entry found stay as they are, a new entry has none.
Updated(reg, slot, h) ==
    [id |-> h.id, age |-> 0, progress |-> h.progress, asks |-> h.asks,
     desc |-> Fits(h.desc), ctrl |-> Fits(h.ctrl), stream |-> 0,
     desc_pub |-> IF reg[slot] = Free THEN NoPub ELSE reg[slot].desc_pub,
     ctrl_pub |-> IF reg[slot] = Free THEN NoPub ELSE reg[slot].ctrl_pub]

\* tp_consumer_registry_sweep
SweptOut(reg) == {i \in InUse(reg) : reg[i].age > Stale}
Sweep(reg) == [i \in DOMAIN reg |-> IF i \in SweptOut(reg) THEN Free ELSE reg[i]]

\* tp_consumer_registry_aggregate_progress: one pass over the entries, keeping
\* the smallest number asked for so far.
Aggregate(reg) ==
    LET Asking(k, n) == {i \in InUse(reg) : i <= n /\ reg[i].progress /\ reg[i].asks[k] # Null}
        Pass[n \in 0 .. Cardinality(DOMAIN reg)] ==
            IF n = 0 THEN Default
            ELSE [k \in Numbers |->
                    IF n \notin Asking(k, n) THEN Pass[n - 1][k]
                    ELSE IF Asking(k, n - 1) # {} /\ reg[n].asks[k] >= Pass[n - 1][k] THEN Pass[n - 1][k]
                    ELSE reg[n].asks[k]]
    IN  Pass[Cardinality(DOMAIN reg)]

(***************************************************************************)
(* Consumer manager                                                        *)
(***************************************************************************)

\* Both sides of tp_consumer_manager_handle_hello for one of the two streams: a
\* publication is added when there is none, which may fail, kept when there is
\* one, and closed when the hello does not ask for the stream (any more).
PublicationAfter(wanted, pub, added) ==
    IF wanted = "none" THEN NoPub
    ELSE IF pub # NoPub THEN pub
    ELSE IF added THEN wanted ELSE NoPub

\* The destination put into the ConsumerConfig.
AssignedTo(wanted, pub) == IF pub = NoPub THEN "none" ELSE wanted

\* What a consumer knows after a hello for its descriptors: the destination it is told
\* and those it has named, one after the other, since its entry was made or it last
\* asked for none.
ToldAfter(t, wanted, pub) ==
    [dest |-> AssignedTo(wanted, pub), named |-> IF wanted = "none" THEN {} ELSE t.named \cup {wanted}]

\* The publications the entries of a registry hold.
Held(reg) ==
    (UNION {{<<reg[i].id, "desc", reg[i].desc_pub>>, <<reg[i].id, "ctrl", reg[i].ctrl_pub>>} : i \in InUse(reg)})
        \ (Ids \X {"desc", "ctrl"} \X {NoPub})

\* tp_consumer_manager_handle_hello with its call of the registry, the progress
\* policy and tp_producer_send_consumer_config; a hello that asks for half a
\* stream, or finds the registry full, changes nothing.  The client's work done while
\* a publication is being added is left out.
ManagerHandleHello(h) ==
    \E descAdded, ctrlAdded \in BOOLEAN :
    LET slot == SlotFor(managed, h.id)
        entry == Updated(managed, slot, h)
        desc == PublicationAfter(entry.desc, entry.desc_pub, descAdded)
        ctrl == PublicationAfter(entry.ctrl, entry.ctrl_pub, ctrlAdded)
        after == [managed EXCEPT ![slot] = [entry EXCEPT !.desc_pub = desc, !.ctrl_pub = ctrl]]
        mine == {p \in open : p[1] = h.id}
    IN  /\ RequestValid(h)
        /\ slot # 0
        /\ managed' = after
        /\ policy' = Aggregate(after)
        /\ open' = (open \ {p \in mine : \/ p[2] = "desc" /\ desc = NoPub
                                         \/ p[2] = "ctrl" /\ ctrl = NoPub})
                   \cup ({<<h.id, "desc", desc>>, <<h.id, "ctrl", ctrl>>}
                         \ {<<h.id, "desc", NoPub>>, <<h.id, "ctrl", NoPub>>})
        /\ told' = [told EXCEPT ![h.id] = ToldAfter(@, entry.desc, desc)]
        /\ silent' = [silent EXCEPT !.manager[h.id] = 0]
        /\ UNCHANGED <<supervised, swept>>

\* tp_producer_qos_event_handler and tp_consumer_manager_touch: a QosConsumer
\* message of the producer's stream and epoch.
ManagerTouch(id) ==
    /\ Find(managed, id) # {}
    /\ managed' = [managed EXCEPT ![Min(Find(managed, id))].age = 0]
    /\ silent' = [silent EXCEPT !.manager[id] = 0]
    /\ UNCHANGED <<policy, supervised, swept, open, told>>

SweptIds(reg) == {reg[i].id : i \in SweptOut(reg)}

\* Mutant: the publications of a consumer that leaves stay open.
ManagerSweepLeavesOpen ==
    /\ managed' = Sweep(managed)
    /\ policy' = Aggregate(Sweep(managed))
    /\ told' = [id \in Ids |-> IF id \in SweptIds(managed) THEN Untold ELSE told[id]]
    /\ UNCHANGED <<open, supervised, swept, silent>>

\* tp_consumer_manager_sweep, as tp_producer_poll_control calls it every time.
ManagerSweep ==
    /\ managed' = Sweep(managed)
    /\ policy' = Aggregate(Sweep(managed))
    /\ open' = {p \in open : p[1] \notin SweptIds(managed)}
    /\ told' = [id \in Ids |-> IF id \in SweptIds(managed) THEN Untold ELSE told[id]]
    /\ UNCHANGED <<supervised, swept, silent>>

(***************************************************************************)
(* Supervisor                                                              *)
(***************************************************************************)

\* tp_supervisor_assign_stream_id
AssignStreamId(id) ==
    IF AssignBase = 0 \/ AssignRange = 0 THEN 0 ELSE AssignBase + (id % AssignRange)

\* tp_supervisor_handle_hello: the registry is updated first, then the entry is
\* given a stream of the supervisor's where it asked for one (stream stays 0 when it
\* keeps the stream it named, or gets none).  No publications are held here.
SupervisorHandleHello(h) ==
    LET slot == SlotFor(supervised, h.id)
        entry == Updated(supervised, slot, h)
        stream == AssignStreamId(h.id)
    IN  /\ RequestValid(h)
        /\ slot # 0
        /\ supervised' = [supervised EXCEPT ![slot] =
                            [entry EXCEPT !.stream = IF h.desc # "none" THEN stream ELSE 0]]
        /\ silent' = [silent EXCEPT !.supervisor[h.id] = 0]
        /\ UNCHANGED <<managed, policy, swept, open, told>>

\* tp_supervisor_on_qos_fragment, whatever stream and epoch the message is of.
SupervisorTouch(id) ==
    /\ Find(supervised, id) # {}
    /\ supervised' = [supervised EXCEPT ![Min(Find(supervised, id))].age = 0]
    /\ silent' = [silent EXCEPT !.supervisor[id] = 0]
    /\ UNCHANGED <<managed, policy, swept, open, told>>

\* Mutant: the sweep starts its interval and looks at nobody.
SupervisorSweepNobody ==
    /\ swept >= Stale
    /\ swept' = 0
    /\ UNCHANGED <<supervised, managed, policy, open, told, silent>>

\* The end of tp_supervisor_do_work: a sweep when one interval has gone by.
SupervisorSweep ==
    /\ swept >= Stale
    /\ supervised' = Sweep(supervised)
    /\ swept' = 0
    /\ UNCHANGED <<managed, policy, open, told, silent>>

(***************************************************************************)
(* Behaviour                                                               *)
(***************************************************************************)

Aged(reg) == [i \in DOMAIN reg |-> IF reg[i] = Free THEN Free ELSE [reg[i] EXCEPT !.age = LongerAgo(@, Stale)]]

DirectoryTick ==
    /\ managed' = Aged(managed)
    /\ supervised' = Aged(supervised)
    /\ swept' = LongerAgo(swept, Stale)
    /\ silent' = [r \in DOMAIN silent |-> [id \in Ids |-> LongerAgo(silent[r][id], Stale)]]
    /\ UNCHANGED <<policy, open, told>>

\* tp_consumer_manager_init, tp_producer_enable_consumer_manager, tp_supervisor_init
DirectoryInit ==
    /\ managed = [i \in 1 .. Capacity |-> Free]
    /\ policy = Default
    /\ supervised = [i \in 1 .. SupervisorCapacity |-> Free]
    /\ swept = 0
    /\ open = {}
    /\ told = [id \in Ids |-> Untold]
    /\ silent = [manager |-> [id \in Ids |-> 0], supervisor |-> [id \in Ids |-> 0]]

DirectoryNext ==
    \/ \E h \in Hellos : ManagerHandleHello(h) \/ SupervisorHandleHello(h)
    \/ \E id \in Ids : ManagerTouch(id) \/ SupervisorTouch(id)
    \/ ManagerSweep
    \/ SupervisorSweep
    \/ DirectoryTick

\* Time passes; the producer's and the supervisor's loops keep polling.
DirectoryFairness ==
    WF_directoryVars(DirectoryTick) /\ WF_directoryVars(ManagerSweep) /\ WF_directoryVars(SupervisorSweep)

DirectorySpec == DirectoryInit /\ [][DirectoryNext]_directoryVars /\ DirectoryFairness

(***************************************************************************)
(* Properties                                                              *)
(***************************************************************************)

\* The registries never exceed their capacity and know a consumer once.
DirectoryTypeOK ==
    /\ DOMAIN managed = 1 .. Capacity /\ DOMAIN supervised = 1 .. SupervisorCapacity
    /\ \A id \in Ids : Cardinality(Find(managed, id)) <= 1 /\ Cardinality(Find(supervised, id)) <= 1
    /\ \A i \in InUse(managed) : managed[i].id \in Ids /\ managed[i].age \in 0 .. Stale + 1
    /\ swept \in 0 .. Stale + 1

\* Whatever order consumers come, change their minds, fall silent and are swept
\* in, the progress policy in force is the finest one a present consumer that
\* reports progress asks for, and the default when none does.
PolicyIsFinestAsked ==
    \A k \in Numbers :
        LET asked == {managed[i].asks[k] : i \in {j \in InUse(managed) : managed[j].progress}} \ {Null}
        IN  policy[k] = IF asked = {} THEN Default[k] ELSE Min(asked)

\* Every per-consumer publication opened and not closed belongs to an entry in
\* use: none is lost when an entry is swept, reused or stops asking for it.
PublicationsOwned == open = Held(managed)

\* A consumer told of a stream of its own has a publication as long as its entry
\* lives, unless it said hello again: adding it may fail, and then the assignment is
\* withdrawn.  The publication is at a destination this consumer named, and at the
\* one it was told if it named no other.  After a hello that names another, the
\* publication stays where it was although the other one is assigned.
AssignedIsPublished ==
    \A i \in InUse(managed) :
        LET t == told[managed[i].id]
            pub == managed[i].desc_pub
        IN  /\ pub \in t.named \cup {NoPub}
            /\ t.dest # "none" => pub # NoPub
            /\ t.dest # "none" /\ t.named = {t.dest} => pub = t.dest

Left(before, after) == {before[i].id : i \in InUse(before)} \ {after[i].id : i \in InUse(after)}

\* A consumer leaves a registry only when nothing was heard from it for longer
\* than the stale time, and one that was heard is never displaced by another.
OnlySilentLeave ==
    [][/\ \A id \in Left(managed, managed') : silent.manager[id] > Stale
       /\ \A id \in Left(supervised, supervised') : silent.supervisor[id] > Stale]_directoryVars

\* Two consumers share a stream assigned by the supervisor only when their ids
\* are equal modulo the range.
AssignedStreamsDistinct ==
    \A i, j \in InUse(supervised) :
        /\ i # j
        /\ supervised[i].stream = supervised[j].stream
        /\ supervised[i].stream # 0
        => supervised[i].id % AssignRange = supervised[j].id % AssignRange

ManagerHears(id) == \E i \in InUse(managed') : managed'[i].id = id /\ managed'[i].age = 0
SupervisorHears(id) == \E i \in InUse(supervised') : supervised'[i].id = id /\ supervised'[i].age = 0

\* A consumer that is not heard of any more leaves both registries for good, so
\* that a full registry has room again.
SilentConsumerLeaves ==
    \A id \in Ids :
        /\ <>[][~ManagerHears(id)]_managed => <>[](Find(managed, id) = {})
        /\ <>[][~SupervisorHears(id)]_supervised => <>[](Find(supervised, id) = {})

\* Manager and supervisor know a consumer once.  The policy is the finest one a
\* consumer present asks for, every open publication is of a consumer present, at a
\* destination it named, and streams are assigned by consumer id.
RegistriesSound ==
    /\ DirectoryTypeOK
    /\ PolicyIsFinestAsked
    /\ PublicationsOwned
    /\ AssignedIsPublished
    /\ AssignedStreamsDistinct

\* A consumer leaves a registry if it falls silent, and only then.
SilenceDecides == OnlySilentLeave /\ SilentConsumerLeaves

=============================================================================
