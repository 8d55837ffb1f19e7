----------------------------- MODULE MpscQueue -----------------------------
(***************************************************************************)
(* The client's command queue (tp_mpsc_queue.c), one action per access to  *)
(* shared memory.  Offerers are the application threads inside             *)
(* tp_client_conductor_async_add_*; Pollers are the threads that run       *)
(* tp_client_conductor_do_work: the conductor agent's thread and, in       *)
(* tp_client_add_subscription and tp_client_do_work, the application's.    *)
(*                                                                         *)
(* The slot array is allocated by the first offer, without any lock or     *)
(* atomic.  Starters are the threads whose offers may meet a queue without *)
(* slots: one thread when tp_client_start makes the first offer, as its    *)
(* subscriptions do, and several when threads enqueue on a client that was *)
(* never started.  Plain stores become visible in program order (TSO).     *)
(*                                                                         *)
(* The 64-bit positions are numbers here: they do not wrap in a process's  *)
(* life.  Closing the queue belongs to the conductor's close.              *)
(***************************************************************************)
EXTENDS Naturals, Sequences

CONSTANTS
    Offerers, Pollers,  \* threads
    Starters,           \* offerers that may come before the slots are there
    Capacity,           \* TP_CLIENT_COMMAND_QUEUE_CAPACITY, a power of two
    MaxOffers           \* bound: offers per thread

ASSUME ThreadsAssumption ==
    Starters \subseteq Offerers /\ Starters # {} /\ Offerers \cap Pollers = {}
ASSUME CapacityAssumption == Capacity \in Nat \ {0} /\ MaxOffers \in Nat

Threads == Offerers \cup Pollers
Index == 0 .. Capacity - 1
Items == Offerers \X (1 .. MaxOffers)
NoItem == <<>>
SlotArrays == [Index -> [sequence : Nat, data : Items \cup {NoItem}]]
Labels == {"idle", "alloc", "set_size", "init", "size", "reload", "load", "cas", "copy",
           "publish", "release"}

VARIABLES
    memory,     \* every slot array allocated so far
    slots,      \* queue->slots: the array in use, 0 for NULL
    item_size,  \* queue->item_size is set
    head, tail,
    pc,         \* what each thread does next
    pos,        \* its local pos (and, while it allocates, its loop index)
    slot,       \* the array its local slot pointer points into
    out,        \* a poller's out buffer
    sent,       \* offers begun by each offerer: its latest item is the last
    claimed,    \* history: the items in the order tail was moved
    accepted,   \* history: the items whose offer has returned 0
    delivered   \* history: the items polls have returned, in order

vars == <<memory, slots, item_size, head, tail, pc, pos, slot, out, sent,
          claimed, accepted, delivered>>

queue == <<memory, slots, item_size, head, tail>>
locals == <<pos, slot, out, sent>>
history == <<claimed, accepted, delivered>>

-----------------------------------------------------------------------------
\* tp_mpsc_slot_at
SlotAt(p) == p % Capacity

\* The command of o's offer in progress.
Item(o) == <<o, sent[o]>>

\* calloc: all bytes zero, so every sequence reads 0.
FreshSlots == [i \in Index |-> [sequence |-> 0, data |-> NoItem]]

Store(a, p, field, value) == memory' = [memory EXCEPT ![a][SlotAt(p)][field] = value]

Goto(t, label) == pc' = [pc EXCEPT ![t] = label]

\* tp_mpsc_queue_init
Init ==
    /\ memory = << >> /\ slots = 0 /\ item_size = FALSE
    /\ head = 0 /\ tail = 0
    /\ pc = [t \in Threads |-> "idle"]
    /\ pos = [t \in Threads |-> 0]
    /\ slot = [t \in Threads |-> 0]
    /\ out = [p \in Pollers |-> NoItem]
    /\ sent = [o \in Offerers |-> 0]
    /\ claimed = << >> /\ accepted = {} /\ delivered = << >>

-----------------------------------------------------------------------------
(* tp_mpsc_queue_offer: entry and the first allocation                      *)

Offer(o) ==
    /\ pc[o] = "idle"
    /\ sent[o] < MaxOffers
    /\ o \in Starters \/ tail > 0
    /\ sent' = [sent EXCEPT ![o] = @ + 1]
    /\ Goto(o, IF slots = 0 THEN "alloc" ELSE "size")
    /\ UNCHANGED <<queue, pos, slot, out, history>>

\* tp_mpsc_queue_alloc_slots: calloc, and the store of queue->slots.
AllocSlots(o) ==
    /\ pc[o] = "alloc"
    /\ memory' = Append(memory, FreshSlots)
    /\ slots' = Len(memory) + 1
    /\ Goto(o, "set_size")
    /\ UNCHANGED <<item_size, head, tail, locals, history>>

\* calloc fails: the offer returns -1.
AllocFails(o) ==
    /\ pc[o] = "alloc"
    /\ Goto(o, "idle")
    /\ UNCHANGED <<queue, locals, history>>

SetItemSize(o) ==
    /\ pc[o] = "set_size"
    /\ item_size' = TRUE
    /\ pos' = [pos EXCEPT ![o] = 0]
    /\ Goto(o, "init")
    /\ UNCHANGED <<memory, slots, head, tail, slot, out, sent, history>>

\* One turn of the loop that numbers the slots; it reads queue->slots again.
InitSequence(o) ==
    /\ pc[o] = "init"
    /\ Store(slots, pos[o], "sequence", pos[o])
    /\ pos' = [pos EXCEPT ![o] = @ + 1]
    /\ Goto(o, IF pos[o] + 1 = Capacity THEN "size" ELSE "init")
    /\ UNCHANGED <<slots, item_size, head, tail, slot, out, sent, history>>

-----------------------------------------------------------------------------
(* The loops of tp_mpsc_queue_offer and tp_mpsc_queue_poll                  *)

\* The counter a thread competes for.
Counter(t) == IF t \in Offerers THEN tail ELSE head

\* The item size is compared and the counter read.  A poll that finds no slots,
\* or no item size yet, returns -1 and comes again.
LoadCounter(t) ==
    /\ \/ pc[t] \in {"size", "reload"}
       \/ t \in Pollers /\ pc[t] = "idle" /\ slots # 0 /\ item_size
    /\ pos' = [pos EXCEPT ![t] = IF item_size THEN Counter(t) ELSE @]
    /\ Goto(t, IF item_size THEN "load" ELSE "idle")
    /\ UNCHANGED <<queue, slot, out, sent, history>>

\* Bug: poll takes a slot that is not published yet.
BugExpected(t) == pos[t]

\* The sequence of a slot that is free to fill, or ready to read.
Expected(t) == IF t \in Offerers THEN pos[t] ELSE pos[t] + 1

\* diff = 0; diff < 0: full, or empty; otherwise another thread was faster.
Branch(seq, expected) ==
    IF seq = expected THEN "cas" ELSE IF seq < expected THEN "idle" ELSE "reload"

LoadSequence(t) ==
    /\ pc[t] = "load"
    /\ slot' = [slot EXCEPT ![t] = slots]
    /\ Goto(t, Branch(memory[slots][SlotAt(pos[t])].sequence, Expected(t)))
    /\ UNCHANGED <<queue, pos, out, sent, history>>

\* The weak exchange fails, for a reason or for none, and reloads pos.
ExchangeFails(t) ==
    /\ pc[t] = "cas"
    /\ pos' = [pos EXCEPT ![t] = Counter(t)]
    /\ Goto(t, "load")
    /\ UNCHANGED <<queue, slot, out, sent, history>>

\* Bug: the counter is moved by a load and a store instead of an exchange.
BugWins(t) == TRUE

Wins(t) == Counter(t) = pos[t]

ClaimTail(o) ==
    /\ pc[o] = "cas" /\ o \in Offerers /\ Wins(o)
    /\ tail' = pos[o] + 1
    /\ claimed' = Append(claimed, Item(o))
    /\ Goto(o, "copy")
    /\ UNCHANGED <<memory, slots, item_size, head, locals, accepted, delivered>>

CopyIn(o) ==
    /\ pc[o] = "copy" /\ o \in Offerers
    /\ Store(slot[o], pos[o], "data", Item(o))
    /\ Goto(o, "publish")
    /\ UNCHANGED <<slots, item_size, head, tail, locals, history>>

\* Bug: the slot keeps its number.
BugPublishedSequence(p) == p

PublishedSequence(p) == p + 1

Publish(o) ==
    /\ pc[o] = "publish"
    /\ Store(slot[o], pos[o], "sequence", PublishedSequence(pos[o]))
    /\ accepted' = accepted \cup {Item(o)}
    /\ Goto(o, "idle")
    /\ UNCHANGED <<slots, item_size, head, tail, locals, claimed, delivered>>

ClaimHead(p) ==
    /\ pc[p] = "cas" /\ p \in Pollers /\ Wins(p)
    /\ head' = pos[p] + 1
    /\ Goto(p, "copy")
    /\ UNCHANGED <<memory, slots, item_size, tail, locals, history>>

CopyOut(p) ==
    /\ pc[p] = "copy" /\ p \in Pollers
    /\ out' = [out EXCEPT ![p] = memory[slot[p]][SlotAt(pos[p])].data]
    /\ Goto(p, "release")
    /\ UNCHANGED <<queue, pos, slot, sent, history>>

ReleasedSequence(p) == p + Capacity

Release(p) ==
    /\ pc[p] = "release"
    /\ Store(slot[p], pos[p], "sequence", ReleasedSequence(pos[p]))
    /\ delivered' = Append(delivered, out[p])
    /\ Goto(p, "idle")
    /\ UNCHANGED <<slots, item_size, head, tail, locals, claimed, accepted>>

-----------------------------------------------------------------------------
OffererNext(o) ==
    \/ Offer(o) \/ AllocSlots(o) \/ AllocFails(o) \/ SetItemSize(o) \/ InitSequence(o)
    \/ LoadCounter(o) \/ LoadSequence(o) \/ ExchangeFails(o)
    \/ ClaimTail(o) \/ CopyIn(o) \/ Publish(o)

PollerNext(p) ==
    \/ LoadCounter(p) \/ LoadSequence(p) \/ ExchangeFails(p)
    \/ ClaimHead(p) \/ CopyOut(p) \/ Release(p)

Next == (\E o \in Offerers : OffererNext(o)) \/ (\E p \in Pollers : PollerNext(p))

Spec == Init /\ [][Next]_vars

\* The conductor polls in its duty cycle, a thread inside a call goes on, and
\* a weak exchange does not fail for no reason every time.
Fairness ==
    /\ \A p \in Pollers : WF_vars(PollerNext(p)) /\ SF_vars(ClaimHead(p))
    /\ \A o \in Offerers : WF_vars(pc[o] # "idle" /\ OffererNext(o)) /\ SF_vars(ClaimTail(o))

FairSpec == Spec /\ Fairness

-----------------------------------------------------------------------------
(* Properties                                                               *)

\* Types; in particular no poll returns a slot that was never filled.
TypeOK ==
    /\ memory \in Seq(SlotArrays)
    /\ slots \in 0 .. Len(memory)
    /\ item_size \in BOOLEAN
    /\ head \in Nat /\ tail \in Nat
    /\ pc \in [Threads -> Labels]
    /\ pos \in [Threads -> Nat]
    /\ slot \in [Threads -> 0 .. Len(memory)]
    /\ out \in [Pollers -> Items \cup {NoItem}]
    /\ sent \in [Offerers -> 0 .. MaxOffers]
    /\ claimed \in Seq(Items)
    /\ accepted \subseteq Items
    /\ delivered \in Seq(Items)

\* What poll copies out is the command of the offer that claimed that position:
\* never a slot claimed and not yet filled, and never one already filled again
\* for the next lap.
PolledIntact ==
    \A p \in Pollers : pc[p] = "release" =>
        pos[p] + 1 \in DOMAIN claimed /\ out[p] = claimed[pos[p] + 1]

\* A command whose offer has returned 0 and that no poll has claimed lies
\* published in the array that poll reads, whatever was allocated meanwhile.
AcceptedInQueue ==
    \A n \in head + 1 .. Len(claimed) :
        claimed[n] \in accepted =>
            memory[slots][SlotAt(n - 1)] = [sequence |-> n, data |-> claimed[n]]

\* No command is returned by two polls, and none that nobody offered, also when
\* the agent's thread and the application's poll at the same time.
DeliveredOnce ==
    /\ \A m, n \in DOMAIN delivered : m # n => delivered[m] # delivered[n]
    /\ \A m \in DOMAIN delivered : \E n \in DOMAIN claimed : delivered[m] = claimed[n]

\* An offer is refused with EAGAIN only if the slot is taken at that moment: its
\* command of the lap before is still inside, or a poll is copying it out.
RefusedOnlyWhenFull ==
    [][\A o \in Offerers :
         pc[o] = "load" /\ pc'[o] = "idle" =>
            \/ pos[o] >= head + Capacity
            \/ \E p \in Pollers : pc[p] \in {"copy", "release"} /\ pos[p] + Capacity = pos[o]]_vars

\* The queue is a bounded FIFO for any number of threads on either side: an offer
\* takes effect when it moves tail, a poll when it moves head.
Fifo == INSTANCE BoundedFifo WITH
            queue <- SubSeq(claimed, head + 1, Len(claimed)),
            delivered <- SubSeq(claimed, 1, head)

ImplementsFifo == Fifo!Spec

\* Every command whose offer returned 0 is returned by a poll: a slot claimed by
\* a slow thread delays the commands behind it and does not lose them.
AcceptedDelivered ==
    \A i \in Items : i \in accepted ~> \E n \in DOMAIN delivered : delivered[n] = i

\* The retry loop of offer ends, with or without the command being accepted.
OfferEnds == \A o \in Offerers : pc[o] # "idle" ~> pc[o] = "idle"

\* A command that was accepted is in the queue, is copied out whole and is
\* returned once, lap after lap and whatever threads interleave.
QueueSound == TypeOK /\ PolledIntact /\ AcceptedInQueue /\ DeliveredOnce

\* An offer ends, is refused only by a full queue, and what it put in is delivered.
OffersServed == RefusedOnlyWhenFull /\ AcceptedDelivered /\ OfferEnds

=============================================================================
