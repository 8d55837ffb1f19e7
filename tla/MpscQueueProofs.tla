-------------------------- MODULE MpscQueueProofs --------------------------
(***************************************************************************)
(* The command queue for every number of offering and polling threads,     *)
(* offers and slots, when one thread makes the first offer and there are   *)
(* at least two slots.  (With one slot the number of a published command   *)
(* is the number of the free slot of the next lap, and offers overwrite.)  *)
(***************************************************************************)
EXTENDS MpscQueue, SequenceTheorems, TLAPS

\* The setting of the theorems: tp_client_start's thread makes the first offer,
\* and the capacity is a power of two above one (1024 in the client).
StartedQueue == (\E o \in Offerers : Starters = {o}) /\ Capacity > 1

Starter == CHOOSE o \in Offerers : o \in Starters

-----------------------------------------------------------------------------
(* The inductive invariant                                                  *)

\* The slot that position p uses: its number and its command.
Number(p) == memory[slots][SlotAt(p)].sequence
Command(p) == memory[slots][SlotAt(p)].data

\* An offer has claimed position p and not published it yet; a poll has claimed
\* it and not released it yet.
Filling(o, p) == pc[o] \in {"copy", "publish"} /\ pos[o] = p
Emptying(q, p) == pc[q] \in {"copy", "release"} /\ pos[q] = p

\* The slots are being numbered, and that of position p is still to come.
Numbering == pc[Starter] \in {"set_size", "init"}
Unnumbered(p) == pc[Starter] = "set_size" \/ (pc[Starter] = "init" /\ p >= pos[Starter])

\* The first offer is one thread's business: nobody works on slots that are not
\* there or not numbered, except polls, which find them empty.
StartInv ==
    /\ slots \in {0, 1} /\ Len(memory) = slots
    /\ slots = 0 => /\ ~item_size
                    /\ tail = 0
                    /\ \A t \in Threads : pc[t] \in {"idle", "alloc"}
    /\ \A t \in Threads : pc[t] \in {"alloc", "set_size", "init"} => t = Starter
    /\ \A t \in Threads : pc[t] = "alloc" => slots = 0
    /\ slots = 1 /\ pc[Starter] # "set_size" => item_size
    /\ pc[Starter] = "set_size" => ~item_size
    /\ Numbering => /\ tail = 0
                    /\ \A q \in Pollers : pc[q] \in {"idle", "load"}
    /\ pc[Starter] = "init" => pos[Starter] < Capacity
    /\ tail = 0 => \A o \in Offerers \ {Starter} : pc[o] = "idle"

BoundsInv == head <= tail /\ tail <= head + Capacity /\ Len(claimed) = tail

\* The slot of a position inside the queue: claimed by an offer that fills it, or
\* published whole.
TakenSlot(p) ==
    \/ Number(p) = p /\ \E o \in Offerers : Filling(o, p)
    \/ Number(p) = p + 1 /\ Command(p) = claimed[p + 1]

\* The slot of a position yet to be claimed: free, not numbered yet, or still
\* being emptied by a poll of the lap before.
FreeSlot(p) ==
    \/ Number(p) = p
    \/ Unnumbered(p) /\ Number(p) = 0
    \/ p >= Capacity /\ Number(p) = p - Capacity + 1 /\ \E q \in Pollers : Emptying(q, p - Capacity)

SlotsInv ==
    slots = 1 => \A p \in head .. head + Capacity - 1 : IF p < tail THEN TakenSlot(p) ELSE FreeSlot(p)

\* What a thread that has claimed a position can rely on.
FillInv(o) ==
    pc[o] \in {"copy", "publish"} =>
        /\ slots = 1 /\ slot[o] = 1
        /\ head <= pos[o] /\ pos[o] < tail
        /\ Number(pos[o]) = pos[o]
        /\ claimed[pos[o] + 1] = Item(o)
        /\ pc[o] = "publish" => Command(pos[o]) = Item(o)

EmptyInv(q) ==
    pc[q] \in {"copy", "release"} =>
        /\ slots = 1 /\ slot[q] = 1
        /\ pos[q] < head /\ tail <= pos[q] + Capacity
        /\ Number(pos[q]) = pos[q] + 1
        /\ Command(pos[q]) = claimed[pos[q] + 1]
        /\ pc[q] = "release" => out[q] = claimed[pos[q] + 1]

HoldersInv ==
    /\ \A o \in Offerers : FillInv(o)
    /\ \A q \in Pollers : EmptyInv(q)
    /\ \A q, r \in Pollers : q # r /\ pc[q] \in {"copy", "release"} /\ pc[r] \in {"copy", "release"}
                                => pos[q] # pos[r]

\* What a thread about to compete for its counter can rely on: if nobody was
\* faster, the slot still has the number that was seen.
RaceInv(t) ==
    /\ pc[t] \in {"load", "cas"} => slots = 1 /\ pos[t] <= Counter(t)
    /\ pc[t] = "cas" => slot[t] = 1 /\ (pos[t] = Counter(t) => Number(pos[t]) = Expected(t))

RacersInv == \A t \in Threads : RaceInv(t)

\* An offer's command is claimed once, accepted once, and delivered once.
HistoryInv ==
    /\ \A o \in Offerers : pc[o] # "idle" => sent[o] > 0
    /\ \A n \in 1 .. Len(claimed) :
         /\ claimed[n][2] <= sent[claimed[n][1]]
         /\ claimed[n][2] = sent[claimed[n][1]] => pc[claimed[n][1]] \in {"idle", "copy", "publish"}
    /\ \A m, n \in 1 .. Len(claimed) : m # n => claimed[m] # claimed[n]
    /\ \A i \in accepted : /\ i[2] <= sent[i[1]]
                           /\ i[2] = sent[i[1]] => pc[i[1]] = "idle"

DeliveredInv ==
    /\ \A m \in 1 .. Len(delivered) :
         \E n \in 1 .. head : delivered[m] = claimed[n] /\ \A q \in Pollers : ~ Emptying(q, n - 1)
    /\ \A m, n \in 1 .. Len(delivered) : m # n => delivered[m] # delivered[n]

IInv ==
    /\ TypeOK
    /\ StartInv
    /\ BoundsInv
    /\ SlotsInv
    /\ HoldersInv
    /\ RacersInv
    /\ HistoryInv
    /\ DeliveredInv


-----------------------------------------------------------------------------
(* Positions and slots                                                      *)

\* Quotient and remainder.
LEMMA Division ==
    ASSUME NEW c \in Nat \ {0}, NEW a \in Nat
    PROVE  /\ a \div c \in Nat /\ (a % c) \in 0 .. c - 1
           /\ a = c * (a \div c) + (a % c)
  OBVIOUS

\* The starts of two laps are a lap apart.
LEMMA LapGap ==
    ASSUME NEW c \in Nat \ {0}, NEW x \in Nat, NEW y \in Nat, x < y
    PROVE  c * x + c <= c * y
  <1>1. PICK d \in Nat : y = x + 1 + d
    <2>1. y - x - 1 \in Nat
      OBVIOUS
    <2> QED
      BY <2>1
  <1>2. c * y = c * x + c + c * d
    BY <1>1
  <1>3. c * d >= 0 /\ c * x \in Int /\ c * d \in Int
    OBVIOUS
  <1> QED
    BY <1>2, <1>3

\* Numbers a and b that leave the same remainder, or are less than c apart, are
\* told apart by their quotients.
LEMMA SameLap ==
    ASSUME NEW c \in Nat \ {0}, NEW a \in Nat, NEW b \in Nat, a <= b, b < a + c, (a % c) = (b % c)
    PROVE  a = b
  <1> DEFINE x == a \div c
             y == b \div c
  <1>1. /\ x \in Nat /\ (a % c) \in 0 .. c - 1 /\ a = c * x + (a % c)
        /\ y \in Nat /\ (b % c) \in 0 .. c - 1 /\ b = c * y + (b % c)
    BY Division
  <1>2. ASSUME x < y PROVE FALSE
    <2>1. c * x + c <= c * y
      BY <1>1, <1>2, LapGap
    <2> QED
      BY <1>1, <2>1
  <1>3. ASSUME y < x PROVE FALSE
    <2>1. c * y + c <= c * x
      BY <1>1, <1>3, LapGap
    <2> QED
      BY <1>1, <2>1
  <1> QED
    BY <1>1, <1>2, <1>3

\* One lap on, the remainder is the same.
LEMMA NextLap ==
    ASSUME NEW c \in Nat \ {0}, NEW a \in Nat
    PROVE  ((a + c) % c) = (a % c)
  <1> DEFINE b == a + c
             x == (a \div c) + 1
             y == b \div c
  <1>1. b \in Nat
    OBVIOUS
  <1>2. /\ a \div c \in Nat /\ (a % c) \in 0 .. c - 1 /\ a = c * (a \div c) + (a % c)
        /\ y \in Nat /\ (b % c) \in 0 .. c - 1 /\ b = c * y + (b % c)
    <2> HIDE DEF b
    <2> QED
      BY <1>1, Division
  <1>3. c * x = c * (a \div c) + c /\ x \in Nat
    BY <1>2
  <1>4. c * x + (a % c) = c * y + (b % c) /\ c * x \in Int /\ c * y \in Int
    BY <1>2, <1>3
  <1>5. ASSUME x < y PROVE FALSE
    <2>1. c * x + c <= c * y
      <3> HIDE DEF x, y
      <3> QED
        BY <1>2, <1>3, <1>5, LapGap
    <2> QED
      BY <1>2, <1>4, <2>1
  <1>6. ASSUME y < x PROVE FALSE
    <2>1. c * y + c <= c * x
      <3> HIDE DEF x, y
      <3> QED
        BY <1>2, <1>3, <1>6, LapGap
    <2> QED
      BY <1>2, <1>4, <2>1
  <1>7. x = y
    BY <1>2, <1>3, <1>5, <1>6
  <1> HIDE DEF x, y, b
  <1>8. (b % c) = (a % c)
    BY <1>2, <1>4, <1>7
  <1> QED
    BY <1>8 DEF b

\* The remainder of a position given by lap and offset.
LEMMA RemainderOf ==
    ASSUME NEW c \in Nat \ {0}, NEW x \in Nat, NEW i \in 0 .. c - 1
    PROVE  ((c * x + i) % c) = i
  <1> DEFINE b == c * x + i
             y == b \div c
  <1>1. b \in Nat /\ c * x \in Int
    OBVIOUS
  <1>2. y \in Nat /\ (b % c) \in 0 .. c - 1 /\ b = c * y + (b % c)
    <2> HIDE DEF b
    <2> QED
      BY <1>1, Division
  <1>3. c * x + i = c * y + (b % c) /\ c * y \in Int
    BY <1>2
  <1>4. ASSUME x < y PROVE FALSE
    <2>1. c * x + c <= c * y
      <3> HIDE DEF y
      <3> QED
        BY <1>2, <1>4, LapGap
    <2> QED
      BY <1>1, <1>2, <1>3, <2>1
  <1>5. ASSUME y < x PROVE FALSE
    <2>1. c * y + c <= c * x
      <3> HIDE DEF y
      <3> QED
        BY <1>2, <1>5, LapGap
    <2> QED
      BY <1>1, <1>2, <1>3, <2>1
  <1>6. x = y
    BY <1>2, <1>4, <1>5
  <1> HIDE DEF y, b
  <1>7. (b % c) = i
    BY <1>1, <1>2, <1>3, <1>6
  <1> QED
    BY <1>7 DEF b

\* Every position has a slot.
LEMMA SlotInRing == \A p \in Nat : SlotAt(p) \in Index
  BY CapacityAssumption DEF SlotAt, Index

\* In the first lap a position is its slot.
LEMMA SlotOfFirstLap == \A p \in Index : SlotAt(p) = p
  BY CapacityAssumption DEF SlotAt, Index

\* A slot comes round after Capacity positions.
LEMMA SlotOfNextLap == \A p \in Nat : SlotAt(p + Capacity) = SlotAt(p)
  BY CapacityAssumption, NextLap DEF SlotAt

\* Positions less than one lap apart have slots of their own.
LEMMA SlotsApart ==
    ASSUME NEW p \in Nat, NEW q \in Nat, SlotAt(p) = SlotAt(q), p < q + Capacity, q < p + Capacity
    PROVE  p = q
  <1>1. CASE p <= q
    BY <1>1, SameLap, CapacityAssumption DEF SlotAt
  <1>2. CASE q <= p
    BY <1>2, SameLap, CapacityAssumption DEF SlotAt
  <1> QED
    BY <1>1, <1>2

\* Every slot is that of one of the positions of a lap.
LEMMA PositionOfSlot ==
    ASSUME NEW h \in Nat, NEW i \in Index
    PROVE  \E p \in h .. h + Capacity - 1 : SlotAt(p) = i
  <1> DEFINE c == Capacity
             x == h \div c
             r == h % c
  <1>1. c \in Nat \ {0} /\ i \in 0 .. c - 1
    BY CapacityAssumption DEF Index
  <1>2. x \in Nat /\ r \in 0 .. c - 1 /\ h = c * x + r
    <2> HIDE DEF c
    <2> QED
      BY <1>1, Division
  <1>3. CASE i >= r
    <2>1. c * x + i \in h .. h + c - 1
      BY <1>1, <1>2, <1>3
    <2>2. SlotAt(c * x + i) = i
      BY <1>1, <1>2, RemainderOf DEF SlotAt
    <2> QED
      BY <2>1, <2>2
  <1>4. CASE i < r
    <2>1. c * (x + 1) = c * x + c /\ x + 1 \in Nat
      BY <1>1, <1>2
    <2>2. c * (x + 1) + i \in h .. h + c - 1
      BY <1>1, <1>2, <1>4, <2>1
    <2>3. SlotAt(c * (x + 1) + i) = i
      BY <1>1, <2>1, RemainderOf DEF SlotAt
    <2> QED
      BY <2>2, <2>3
  <1> QED
    BY <1>1, <1>2, <1>3, <1>4

-----------------------------------------------------------------------------
(* What every action relies on                                              *)

\* A thread offers or polls, never both, and one of those that offer starts.
LEMMA ThreadFacts ==
    ASSUME StartedQueue
    PROVE  /\ Starter \in Offerers /\ Starters = {Starter}
           /\ \A o \in Offerers : o \in Threads /\ o \notin Pollers
           /\ \A q \in Pollers : q \in Threads /\ q \notin Offerers
           /\ \A t \in Threads : t \in Offerers \/ t \in Pollers
  BY ThreadsAssumption DEF StartedQueue, Starter, Threads

\* An item names its offerer and the number of the offer.
LEMMA ItemFacts == \A i \in Items : i[1] \in Offerers /\ i[2] \in Nat /\ i = <<i[1], i[2]>>
  BY DEF Items

\* The types of what was claimed, accepted and delivered.
LEMMA HistoryTypes ==
    ASSUME TypeOK
    PROVE  /\ \A n \in 1 .. Len(claimed) : claimed[n] \in Items /\ claimed[n][1] \in Offerers /\ claimed[n][2] \in Nat
           /\ \A i \in accepted : i[1] \in Offerers /\ i[2] \in Nat
           /\ Len(claimed) \in Nat /\ Len(delivered) \in Nat
  <1>1. claimed \in Seq(Items) /\ accepted \subseteq Items /\ delivered \in Seq(Items)
    BY DEF TypeOK
  <1>2. \A n \in 1 .. Len(claimed) : claimed[n] \in Items
    BY <1>1, ElementOfSeq
  <1> QED
    BY <1>1, <1>2, ItemFacts

\* An offer in flight has an item.
LEMMA OfferedItem ==
    ASSUME TypeOK, HistoryInv, NEW o \in Offerers, pc[o] # "idle"
    PROVE  Item(o) \in Items
  <1>1. sent[o] \in 0 .. MaxOffers /\ sent[o] > 0
    BY DEF TypeOK, HistoryInv
  <1> QED
    BY <1>1, CapacityAssumption DEF Item, Items

\* The types of the slot array once there is one.
LEMMA RingTypes ==
    ASSUME TypeOK, StartInv, slots = 1
    PROVE  /\ memory \in Seq(SlotArrays) /\ Len(memory) = 1 /\ memory[1] \in SlotArrays
           /\ \A p \in Nat : Number(p) \in Nat /\ Command(p) \in Items \cup {NoItem}
  <1>1. memory \in Seq(SlotArrays) /\ Len(memory) = 1
    BY DEF TypeOK, StartInv
  <1>2. memory[1] \in SlotArrays
    BY <1>1, ElementOfSeq
  <1> QED
    BY <1>1, <1>2, SlotInRing DEF Number, Command, SlotArrays

\* Writing the only array of memory.
LEMMA ReplacedElement ==
    ASSUME NEW S, NEW s \in Seq(S), Len(s) = 1, NEW e \in S
    PROVE  [s EXCEPT ![1] = e] \in Seq(S) /\ Len([s EXCEPT ![1] = e]) = 1 /\ [s EXCEPT ![1] = e][1] = e
  BY ExceptSeq

\* A store of a slot's number, or of its command, changes that and nothing else.
LEMMA StoredNumber ==
    ASSUME TypeOK, StartInv, slots = 1, UNCHANGED slots,
           NEW p \in Nat, NEW v \in Nat, Store(1, p, "sequence", v)
    PROVE  /\ memory' \in Seq(SlotArrays) /\ Len(memory') = 1
           /\ \A q \in Nat : SlotAt(q) = SlotAt(p) => Number(q)' = v
           /\ \A q \in Nat : SlotAt(q) # SlotAt(p) => Number(q)' = Number(q)
           /\ \A q \in Nat : Command(q)' = Command(q)
  <1>1. memory \in Seq(SlotArrays) /\ Len(memory) = 1 /\ memory[1] \in SlotArrays /\ SlotAt(p) \in Index
    BY RingTypes, SlotInRing
  <1> DEFINE f == [memory[1] EXCEPT ![SlotAt(p)]["sequence"] = v]
  <1>2. f \in SlotArrays
    BY <1>1 DEF SlotArrays
  <1>3. memory' = [memory EXCEPT ![1] = f]
    BY DEF Store
  <1>4. memory' \in Seq(SlotArrays) /\ Len(memory') = 1 /\ memory'[1] = f
    <2> HIDE DEF f
    <2> QED
      BY <1>1, <1>2, <1>3, ReplacedElement
  <1>5. \A q \in Nat : SlotAt(q) = SlotAt(p) =>
            f[SlotAt(q)].sequence = v /\ f[SlotAt(q)].data = memory[1][SlotAt(q)].data
    BY <1>1 DEF SlotArrays
  <1>6. \A q \in Nat : SlotAt(q) # SlotAt(p) => f[SlotAt(q)] = memory[1][SlotAt(q)]
    BY <1>1, SlotInRing DEF SlotArrays
  <1> QED
    BY <1>4, <1>5, <1>6 DEF Number, Command

\* The same for a store of a slot's command.
LEMMA StoredCommand ==
    ASSUME TypeOK, StartInv, slots = 1, UNCHANGED slots,
           NEW p \in Nat, NEW i \in Items, Store(1, p, "data", i)
    PROVE  /\ memory' \in Seq(SlotArrays) /\ Len(memory') = 1
           /\ \A q \in Nat : SlotAt(q) = SlotAt(p) => Command(q)' = i
           /\ \A q \in Nat : SlotAt(q) # SlotAt(p) => Command(q)' = Command(q)
           /\ \A q \in Nat : Number(q)' = Number(q)
  <1>1. memory \in Seq(SlotArrays) /\ Len(memory) = 1 /\ memory[1] \in SlotArrays /\ SlotAt(p) \in Index
    BY RingTypes, SlotInRing
  <1> DEFINE f == [memory[1] EXCEPT ![SlotAt(p)]["data"] = i]
  <1>2. f \in SlotArrays
    BY <1>1 DEF SlotArrays
  <1>3. memory' = [memory EXCEPT ![1] = f]
    BY DEF Store
  <1>4. memory' \in Seq(SlotArrays) /\ Len(memory') = 1 /\ memory'[1] = f
    <2> HIDE DEF f
    <2> QED
      BY <1>1, <1>2, <1>3, ReplacedElement
  <1>5. \A q \in Nat : SlotAt(q) = SlotAt(p) =>
            f[SlotAt(q)].data = i /\ f[SlotAt(q)].sequence = memory[1][SlotAt(q)].sequence
    BY <1>1 DEF SlotArrays
  <1>6. \A q \in Nat : SlotAt(q) # SlotAt(p) => f[SlotAt(q)] = memory[1][SlotAt(q)]
    BY <1>1, SlotInRing DEF SlotArrays
  <1> QED
    BY <1>4, <1>5, <1>6 DEF Number, Command

\* The slot of the next position to poll is published: that position is inside
\* the queue.
LEMMA HeadPublished ==
    ASSUME StartedQueue, IInv, slots = 1, Number(head) = head + 1
    PROVE  head < tail /\ Command(head) = claimed[head + 1]
  <1>1. head \in Nat /\ tail \in Nat /\ head \in head .. head + Capacity - 1
    BY CapacityAssumption DEF IInv, TypeOK
  <1>2. IF head < tail THEN TakenSlot(head) ELSE FreeSlot(head)
    BY <1>1 DEF IInv, SlotsInv
  <1>3. head < tail
    BY <1>1, <1>2, CapacityAssumption DEF FreeSlot
  <1> QED
    BY <1>1, <1>2, <1>3 DEF TakenSlot

\* The slot of the next position to offer is free: the queue is not full.
LEMMA TailFree ==
    ASSUME StartedQueue, IInv, slots = 1, Number(tail) = tail
    PROVE  tail < head + Capacity
  <1>1. head \in Nat /\ tail \in Nat /\ head <= tail /\ tail <= head + Capacity /\ Capacity \in Nat /\ Capacity > 1
    BY CapacityAssumption DEF IInv, TypeOK, BoundsInv, StartedQueue
  <1>2. ASSUME tail = head + Capacity
        PROVE  FALSE
    <2>1. TakenSlot(head)
      BY <1>1, <1>2 DEF IInv, SlotsInv
    <2>2. Number(head) = Number(tail)
      BY <1>1, <1>2, SlotOfNextLap DEF Number
    <2> QED
      BY <1>1, <1>2, <2>1, <2>2 DEF TakenSlot
  <1> QED
    BY <1>1, <1>2

-----------------------------------------------------------------------------
(* Every action preserves the invariant                                     *)

\* Steps that neither claim nor return a command, nor begin to empty a slot.
LEMMA DeliveredKept ==
    ASSUME DeliveredInv, head' = head, claimed' = claimed, delivered' = delivered,
           \A w \in Pollers : \A p : Emptying(w, p)' => Emptying(w, p)
    PROVE  DeliveredInv'
  BY DEF DeliveredInv

\* So does a claim at the tail, which leaves every command below the head in its place.
LEMMA DeliveredKeptByClaim ==
    ASSUME DeliveredInv, head' = head, delivered' = delivered,
           \A n \in 1 .. head : claimed'[n] = claimed[n],
           \A w \in Pollers : \A p : Emptying(w, p)' => Emptying(w, p)
    PROVE  DeliveredInv'
  <1>1. (\A m \in 1 .. Len(delivered) :
           \E n \in 1 .. head : delivered[m] = claimed[n] /\ \A w \in Pollers : ~ Emptying(w, n - 1))'
    <2> SUFFICES ASSUME NEW m \in 1 .. Len(delivered)
                 PROVE  \E n \in 1 .. head : delivered[m] = claimed'[n]
                                           /\ \A w \in Pollers : ~ Emptying(w, n - 1)'
      OBVIOUS
    <2>1. PICK n \in 1 .. head : delivered[m] = claimed[n] /\ \A w \in Pollers : ~ Emptying(w, n - 1)
      BY DEF DeliveredInv
    <2> QED
      BY <2>1
  <1> QED
    BY <1>1 DEF DeliveredInv

\* Steps of a poll leave what offers did.
LEMMA HistoryKept ==
    ASSUME TypeOK, HistoryInv, claimed' = claimed, accepted' = accepted, sent' = sent,
           \A o \in Offerers : pc'[o] = pc[o]
    PROVE  HistoryInv'
  BY HistoryTypes DEF HistoryInv

\* A thread calls tp_mpsc_queue_offer.
LEMMA OfferPreserves ==
    ASSUME StartedQueue, IInv, NEW o \in Offerers, Offer(o)
    PROVE  IInv'
  <1> USE DEF IInv
  <1>1. /\ pc \in [Threads -> Labels] /\ pos \in [Threads -> Nat] /\ tail \in Nat /\ head \in Nat
        /\ sent \in [Offerers -> Nat]
        /\ pc[o] = "idle" /\ pc' = [pc EXCEPT ![o] = IF slots = 0 THEN "alloc" ELSE "size"]
        /\ o = Starter \/ tail > 0
        /\ sent' = [sent EXCEPT ![o] = @ + 1]
        /\ UNCHANGED <<memory, slots, item_size, head, tail, pos, slot, out, claimed, accepted, delivered>>
    BY CapacityAssumption, ThreadFacts DEF Offer, Goto, queue, history, TypeOK
  <1>2. \A p : Number(p)' = Number(p) /\ Command(p)' = Command(p)
    BY <1>1 DEF Number, Command
  <1>3. TypeOK'
    BY ThreadFacts, CapacityAssumption DEF TypeOK, Offer, Goto, queue, history, Labels
  <1>4. StartInv'
    BY <1>1, ThreadFacts DEF StartInv, Numbering
  <1>5. BoundsInv'
    BY <1>1 DEF BoundsInv
  <1>6. SlotsInv'
    BY <1>1, <1>2, ThreadFacts DEF SlotsInv, TakenSlot, FreeSlot, Filling, Emptying, Unnumbered
  <1>7. HoldersInv'
    BY <1>1, <1>2, ThreadFacts DEF HoldersInv, FillInv, EmptyInv, Item
  <1>8. RacersInv'
    BY <1>1, <1>2, ThreadFacts DEF RacersInv, RaceInv, Counter, Expected
  <1>9. HistoryInv'
    BY <1>1, HistoryTypes, ThreadFacts DEF HistoryInv
  <1>10. DeliveredInv'
    <2>1. \A w \in Pollers : \A p : Emptying(w, p)' => Emptying(w, p)
      BY <1>1, ThreadFacts DEF Emptying
    <2> QED
      BY <1>1, <2>1, DeliveredKept
  <1> QED
    BY <1>3, <1>4, <1>5, <1>6, <1>7, <1>8, <1>9, <1>10

\* The first offer allocates the slots.
LEMMA AllocSlotsPreserves ==
    ASSUME StartedQueue, IInv, NEW o \in Offerers, AllocSlots(o)
    PROVE  IInv'
  <1> USE DEF IInv
  <1>1. /\ pc \in [Threads -> Labels] /\ head \in Nat /\ tail \in Nat
        /\ sent \in [Offerers -> Nat]
        /\ pc[o] = "alloc" /\ pc' = [pc EXCEPT ![o] = "set_size"]
        /\ memory' = Append(memory, FreshSlots) /\ slots' = Len(memory) + 1
        /\ UNCHANGED <<item_size, head, tail, pos, slot, out, sent, claimed, accepted, delivered>>
    BY ThreadFacts, CapacityAssumption DEF AllocSlots, Goto, locals, history, TypeOK
  <1>2. /\ o = Starter /\ slots = 0 /\ slots' = 1 /\ tail = 0 /\ head = 0 /\ ~item_size
        /\ \A t \in Threads : pc[t] \in {"idle", "alloc"} /\ (t # o => pc[t] = "idle")
    BY <1>1, ThreadFacts DEF StartInv, BoundsInv
  <1>3. memory' \in Seq(SlotArrays) /\ Len(memory') = 1 /\ memory'[1] = FreshSlots
    <2>1. FreshSlots \in SlotArrays
      BY DEF FreshSlots, SlotArrays
    <2>2. memory \in Seq(SlotArrays) /\ Len(memory) = 0
      BY <1>2 DEF StartInv, TypeOK
    <2> QED
      BY <1>1, <2>1, <2>2, AppendProperties
  <1>4. \A p \in Nat : Number(p)' = 0
    BY <1>2, <1>3, SlotInRing DEF Number, FreshSlots
  <1>5. TypeOK'
    <2>1. slot' \in [Threads -> 0 .. Len(memory')]
      BY <1>1, <1>2, <1>3 DEF TypeOK, StartInv
    <2>2. pc' \in [Threads -> Labels]
      BY <1>1 DEF Labels
    <2>3. slots' \in 0 .. Len(memory')
      BY <1>2, <1>3
    <2>4. UNCHANGED <<item_size, head, tail, pos, out, sent, claimed, accepted, delivered>>
      BY <1>1
    <2> QED
      BY <1>3, <2>1, <2>2, <2>3, <2>4 DEF TypeOK
  <1>6. StartInv'
    BY <1>1, <1>2, <1>3, ThreadFacts DEF StartInv, Numbering
  <1>7. BoundsInv'
    BY <1>1 DEF BoundsInv
  <1>8. SlotsInv'
    BY <1>1, <1>2, <1>4, ThreadFacts, CapacityAssumption DEF SlotsInv, FreeSlot, Unnumbered
  <1>9. HoldersInv'
    BY <1>1, <1>2, ThreadFacts DEF HoldersInv, FillInv, EmptyInv
  <1>10. RacersInv'
    BY <1>1, <1>2, ThreadFacts DEF RacersInv, RaceInv
  <1>11. HistoryInv'
    BY <1>1, HistoryTypes, ThreadFacts DEF HistoryInv
  <1>12. DeliveredInv'
    <2>1. \A w \in Pollers : \A p : Emptying(w, p)' => Emptying(w, p)
      BY <1>1, ThreadFacts DEF Emptying
    <2> QED
      BY <1>1, <2>1, DeliveredKept
  <1> QED
    BY <1>5, <1>6, <1>7, <1>8, <1>9, <1>10, <1>11, <1>12

\* The allocation fails.
LEMMA AllocFailsPreserves ==
    ASSUME StartedQueue, IInv, NEW o \in Offerers, AllocFails(o)
    PROVE  IInv'
  <1> USE DEF IInv
  <1>1. /\ pc \in [Threads -> Labels] /\ head \in Nat /\ tail \in Nat
        /\ sent \in [Offerers -> Nat]
        /\ pc[o] = "alloc" /\ pc' = [pc EXCEPT ![o] = "idle"]
        /\ UNCHANGED <<memory, slots, item_size, head, tail, pos, slot, out, sent, claimed, accepted, delivered>>
    BY ThreadFacts, CapacityAssumption DEF AllocFails, Goto, queue, locals, history, TypeOK
  <1>2. o = Starter /\ slots = 0
    BY <1>1, ThreadFacts DEF StartInv
  <1>3. TypeOK'
    BY <1>1 DEF TypeOK, Labels
  <1>4. StartInv'
    BY <1>1, <1>2, ThreadFacts DEF StartInv, Numbering
  <1>5. BoundsInv' /\ SlotsInv'
    BY <1>1, <1>2 DEF BoundsInv, SlotsInv
  <1>6. HoldersInv'
    BY <1>1, <1>2, ThreadFacts DEF HoldersInv, FillInv, EmptyInv
  <1>7. RacersInv'
    BY <1>1, <1>2, ThreadFacts DEF RacersInv, RaceInv
  <1>8. HistoryInv'
    BY <1>1, HistoryTypes, ThreadFacts DEF HistoryInv
  <1>9. DeliveredInv'
    <2>1. \A w \in Pollers : \A p : Emptying(w, p)' => Emptying(w, p)
      BY <1>1, ThreadFacts DEF Emptying
    <2> QED
      BY <1>1, <2>1, DeliveredKept
  <1> QED
    BY <1>3, <1>4, <1>5, <1>6, <1>7, <1>8, <1>9

\* The first offer sets the item size.
LEMMA SetItemSizePreserves ==
    ASSUME StartedQueue, IInv, NEW o \in Offerers, SetItemSize(o)
    PROVE  IInv'
  <1> USE DEF IInv
  <1>1. /\ pc \in [Threads -> Labels] /\ pos \in [Threads -> Nat] /\ head \in Nat /\ tail \in Nat
        /\ sent \in [Offerers -> Nat]
        /\ pc[o] = "set_size" /\ pc' = [pc EXCEPT ![o] = "init"] /\ pos' = [pos EXCEPT ![o] = 0]
        /\ item_size' = TRUE
        /\ UNCHANGED <<memory, slots, head, tail, slot, out, sent, claimed, accepted, delivered>>
    BY ThreadFacts, CapacityAssumption DEF SetItemSize, Goto, history, TypeOK
  <1>2. o = Starter /\ slots = 1 /\ tail = 0 /\ \A q \in Pollers : pc[q] \in {"idle", "load"}
    BY <1>1, ThreadFacts DEF StartInv, Numbering
  <1>3. \A p : Number(p)' = Number(p) /\ Command(p)' = Command(p)
    BY <1>1 DEF Number, Command
  <1>4. TypeOK'
    BY <1>1 DEF TypeOK, Labels
  <1>5. StartInv'
    BY <1>1, <1>2, ThreadFacts, CapacityAssumption DEF StartInv, Numbering
  <1>6. BoundsInv'
    BY <1>1 DEF BoundsInv
  <1>7. SlotsInv'
    <2>1. \A q \in Pollers : pc[q] \notin {"copy", "release"}
      BY <1>2
    <2>2. \A p \in head .. head + Capacity - 1 : FreeSlot(p)
      BY <1>1, <1>2 DEF SlotsInv
    <2>3. \A p \in head .. head + Capacity - 1 : FreeSlot(p)'
      BY <1>1, <1>2, <1>3, <2>1, <2>2, ThreadFacts DEF FreeSlot, Emptying, Unnumbered
    <2> QED
      BY <1>1, <1>2, <2>3 DEF SlotsInv
  <1>8. HoldersInv'
    BY <1>1, <1>2, <1>3, ThreadFacts DEF HoldersInv, FillInv, EmptyInv, Item
  <1>9. RacersInv'
    BY <1>1, <1>2, <1>3, ThreadFacts DEF RacersInv, RaceInv, Counter, Expected
  <1>10. HistoryInv'
    BY <1>1, HistoryTypes, ThreadFacts DEF HistoryInv
  <1>11. DeliveredInv'
    <2>1. \A w \in Pollers : \A p : Emptying(w, p)' => Emptying(w, p)
      BY <1>1, ThreadFacts DEF Emptying
    <2> QED
      BY <1>1, <2>1, DeliveredKept
  <1> QED
    BY <1>4, <1>5, <1>6, <1>7, <1>8, <1>9, <1>10, <1>11

\* The first offer numbers the slots.
LEMMA InitSequencePreserves ==
    ASSUME StartedQueue, IInv, NEW o \in Offerers, InitSequence(o)
    PROVE  IInv'
  <1> USE DEF IInv
  <1>1. /\ pc \in [Threads -> Labels] /\ pos \in [Threads -> Nat] /\ head \in Nat /\ tail \in Nat
        /\ sent \in [Offerers -> Nat]
        /\ pc[o] = "init" /\ pc' = [pc EXCEPT ![o] = IF pos[o] + 1 = Capacity THEN "size" ELSE "init"]
        /\ pos' = [pos EXCEPT ![o] = @ + 1]
        /\ UNCHANGED <<slots, item_size, head, tail, slot, out, sent, claimed, accepted, delivered>>
    BY ThreadFacts, CapacityAssumption DEF InitSequence, Goto, history, TypeOK
  <1>2. /\ o = Starter /\ slots = 1 /\ tail = 0 /\ head = 0
        /\ pos[o] \in Nat /\ pos[o] < Capacity /\ pos[o] \in Index
        /\ \A q \in Pollers : pc[q] \in {"idle", "load"}
        /\ \A u \in Offerers : u # o => pc[u] = "idle"
    BY <1>1, ThreadFacts, CapacityAssumption DEF StartInv, BoundsInv, Numbering, Index
  <1>3. /\ memory' \in Seq(SlotArrays) /\ Len(memory') = 1
        /\ \A q \in Nat : SlotAt(q) = SlotAt(pos[o]) => Number(q)' = pos[o]
        /\ \A q \in Nat : SlotAt(q) # SlotAt(pos[o]) => Number(q)' = Number(q)
    BY <1>1, <1>2, StoredNumber DEF InitSequence
  <1>4. TypeOK'
    <2>1. slot' \in [Threads -> 0 .. Len(memory')] /\ slots' \in 0 .. Len(memory')
      BY <1>1, <1>2, <1>3 DEF TypeOK, StartInv
    <2>2. pc' \in [Threads -> Labels] /\ pos' \in [Threads -> Nat]
      BY <1>1, ThreadFacts DEF Labels
    <2> QED
      BY <1>1, <1>3, <2>1, <2>2 DEF TypeOK
  <1>5. StartInv'
    BY <1>1, <1>2, <1>3, ThreadFacts, CapacityAssumption DEF StartInv, Numbering
  <1>6. BoundsInv'
    BY <1>1 DEF BoundsInv
  <1>7. SlotsInv'
    <2>1. SUFFICES ASSUME NEW p \in head .. head + Capacity - 1
                   PROVE  FreeSlot(p)'
      BY <1>1, <1>2 DEF SlotsInv
    <2>2. p \in Nat /\ p \in Index /\ FreeSlot(p) /\ SlotAt(p) = p /\ SlotAt(pos[o]) = pos[o]
      BY <1>1, <1>2, SlotOfFirstLap, CapacityAssumption DEF SlotsInv, Index
    <2>3. Number(p) = p \/ (p >= pos[o] /\ Number(p) = 0)
      BY <1>1, <1>2, <2>2 DEF FreeSlot, Unnumbered, Emptying
    <2>4. CASE p = pos[o]
      BY <1>3, <2>2, <2>4 DEF FreeSlot
    <2>5. CASE p # pos[o]
      <3>1. Number(p)' = Number(p)
        BY <1>3, <2>2, <2>5
      <3>2. Number(p) # p => Unnumbered(p)'
        BY <1>1, <1>2, <2>2, <2>3, <2>5, CapacityAssumption DEF Unnumbered, Index
      <3> QED
        BY <2>3, <3>1, <3>2 DEF FreeSlot
    <2> QED
      BY <2>4, <2>5
  <1>8. HoldersInv'
    BY <1>1, <1>2, ThreadFacts DEF HoldersInv, FillInv, EmptyInv
  <1>9. RacersInv'
    BY <1>1, <1>2, ThreadFacts DEF RacersInv, RaceInv, Counter
  <1>10. HistoryInv'
    BY <1>1, HistoryTypes, ThreadFacts DEF HistoryInv
  <1>11. DeliveredInv'
    <2>1. \A w \in Pollers : \A p : Emptying(w, p)' => Emptying(w, p)
      BY <1>1, <1>2, ThreadFacts DEF Emptying
    <2> QED
      BY <1>1, <2>1, DeliveredKept
  <1> QED
    BY <1>4, <1>5, <1>6, <1>7, <1>8, <1>9, <1>10, <1>11

\* The load of head or tail.
LEMMA LoadCounterPreserves ==
    ASSUME StartedQueue, IInv, NEW t \in Threads, LoadCounter(t)
    PROVE  IInv'
  <1> USE DEF IInv
  <1>1. /\ pc \in [Threads -> Labels] /\ pos \in [Threads -> Nat] /\ head \in Nat /\ tail \in Nat
        /\ sent \in [Offerers -> Nat] /\ item_size \in BOOLEAN
        /\ pc[t] \in {"size", "reload", "idle"} /\ (pc[t] = "idle" => t \in Pollers /\ item_size)
        /\ slots = 1 /\ item_size
        /\ pc' = [pc EXCEPT ![t] = "load"] /\ pos' = [pos EXCEPT ![t] = Counter(t)]
        /\ UNCHANGED <<memory, slots, item_size, head, tail, slot, out, sent, claimed, accepted, delivered>>
    <2>1. /\ pc \in [Threads -> Labels] /\ pos \in [Threads -> Nat] /\ head \in Nat /\ tail \in Nat
          /\ sent \in [Offerers -> Nat] /\ item_size \in BOOLEAN
      BY CapacityAssumption DEF TypeOK
    <2>2. /\ pc[t] \in {"size", "reload", "idle"} /\ (pc[t] = "idle" => t \in Pollers /\ item_size)
          /\ slots = 1
      BY <2>1 DEF LoadCounter, StartInv
    <2>3. item_size
      BY <2>1, <2>2, ThreadFacts DEF StartInv, Numbering
    <2> QED
      BY <2>1, <2>2, <2>3 DEF LoadCounter, Goto, queue, history
  <1>2. Counter(t) \in Nat /\ (t \in Pollers => Counter(t) = head) /\ (t \in Offerers => Counter(t) = tail)
    BY <1>1, ThreadFacts DEF Counter
  <1>3. \A p : Number(p)' = Number(p) /\ Command(p)' = Command(p)
    BY <1>1 DEF Number, Command
  <1>4. TypeOK'
    BY <1>1, <1>2 DEF TypeOK, Labels
  <1>5. StartInv'
    BY <1>1, ThreadFacts DEF StartInv, Numbering
  <1>6. BoundsInv'
    BY <1>1 DEF BoundsInv
  <1>7. SlotsInv'
    BY <1>1, <1>3, ThreadFacts DEF SlotsInv, TakenSlot, FreeSlot, Filling, Emptying, Unnumbered
  <1>8. HoldersInv'
    BY <1>1, <1>3, ThreadFacts DEF HoldersInv, FillInv, EmptyInv, Item
  <1>9. RacersInv'
    BY <1>1, <1>2, <1>3, ThreadFacts DEF RacersInv, RaceInv, Counter, Expected
  <1>10. HistoryInv'
    BY <1>1, HistoryTypes, ThreadFacts DEF HistoryInv
  <1>11. DeliveredInv'
    <2>1. \A w \in Pollers : \A p : Emptying(w, p)' => Emptying(w, p)
      BY <1>1, ThreadFacts DEF Emptying
    <2> QED
      BY <1>1, <2>1, DeliveredKept
  <1> QED
    BY <1>4, <1>5, <1>6, <1>7, <1>8, <1>9, <1>10, <1>11

\* The load of a slot's number: go on, give up, or start over.
LEMMA LoadSequencePreserves ==
    ASSUME StartedQueue, IInv, NEW t \in Threads, LoadSequence(t)
    PROVE  IInv'
  <1> USE DEF IInv
  <1> DEFINE label == Branch(Number(pos[t]), Expected(t))
  <1>1. /\ pc \in [Threads -> Labels] /\ pos \in [Threads -> Nat] /\ head \in Nat /\ tail \in Nat
        /\ sent \in [Offerers -> Nat] /\ slot \in [Threads -> 0 .. Len(memory)]
        /\ pc[t] = "load" /\ pc' = [pc EXCEPT ![t] = label] /\ slot' = [slot EXCEPT ![t] = slots]
        /\ UNCHANGED <<memory, slots, item_size, head, tail, pos, out, sent, claimed, accepted, delivered>>
    BY CapacityAssumption DEF LoadSequence, Goto, queue, history, TypeOK, Number
  <1>2. /\ slots = 1 /\ Len(memory) = 1 /\ pos[t] <= Counter(t)
        /\ label \in {"cas", "idle", "reload"} /\ (label = "cas" => Number(pos[t]) = Expected(t))
    BY <1>1 DEF RacersInv, RaceInv, Branch, StartInv
  <1>3. Numbering /\ t \in Pollers => label = "idle"
    <2> SUFFICES ASSUME Numbering, t \in Pollers
                 PROVE  label = "idle"
      OBVIOUS
    <2>1. tail = 0 /\ head = 0 /\ pos[t] = 0 /\ Expected(t) = 1
      BY <1>1, <1>2, ThreadFacts DEF StartInv, BoundsInv, Counter, Expected
    <2>2. FreeSlot(0)
      BY <1>1, <1>2, <2>1, CapacityAssumption DEF SlotsInv
    <2>3. Number(0) = 0
      BY <2>2, CapacityAssumption DEF FreeSlot
    <2> QED
      BY <2>1, <2>3 DEF Branch
  <1> HIDE DEF label
  <1>4. \A p : Number(p)' = Number(p) /\ Command(p)' = Command(p)
    BY <1>1 DEF Number, Command
  <1>5. TypeOK'
    BY <1>1, <1>2 DEF TypeOK, Labels
  <1>6. StartInv'
    BY <1>1, <1>2, <1>3, ThreadFacts DEF StartInv, Numbering
  <1>7. BoundsInv'
    BY <1>1 DEF BoundsInv
  <1>8. SlotsInv'
    BY <1>1, <1>2, <1>4, ThreadFacts DEF SlotsInv, TakenSlot, FreeSlot, Filling, Emptying, Unnumbered
  <1>9. HoldersInv'
    BY <1>1, <1>2, <1>4, ThreadFacts DEF HoldersInv, FillInv, EmptyInv, Item
  <1>10. RacersInv'
    BY <1>1, <1>2, <1>4, ThreadFacts DEF RacersInv, RaceInv, Counter, Expected
  <1>11. HistoryInv'
    BY <1>1, <1>2, HistoryTypes, ThreadFacts DEF HistoryInv
  <1>12. DeliveredInv'
    <2>1. \A w \in Pollers : \A p : Emptying(w, p)' => Emptying(w, p)
      BY <1>1, <1>2, ThreadFacts DEF Emptying
    <2> QED
      BY <1>1, <2>1, DeliveredKept
  <1> QED
    BY <1>5, <1>6, <1>7, <1>8, <1>9, <1>10, <1>11, <1>12

\* A compare-and-exchange fails.
LEMMA ExchangeFailsPreserves ==
    ASSUME StartedQueue, IInv, NEW t \in Threads, ExchangeFails(t)
    PROVE  IInv'
  <1> USE DEF IInv
  <1>1. /\ pc \in [Threads -> Labels] /\ pos \in [Threads -> Nat] /\ head \in Nat /\ tail \in Nat
        /\ sent \in [Offerers -> Nat]
        /\ pc[t] = "cas" /\ pc' = [pc EXCEPT ![t] = "load"] /\ pos' = [pos EXCEPT ![t] = Counter(t)]
        /\ UNCHANGED <<memory, slots, item_size, head, tail, slot, out, sent, claimed, accepted, delivered>>
    BY CapacityAssumption DEF ExchangeFails, Goto, queue, history, TypeOK
  <1>2. /\ slots = 1 /\ Counter(t) \in Nat
        /\ (t \in Pollers => Counter(t) = head) /\ (t \in Offerers => Counter(t) = tail)
    BY <1>1, ThreadFacts DEF RacersInv, RaceInv, Counter
  <1>3. \A p : Number(p)' = Number(p) /\ Command(p)' = Command(p)
    BY <1>1 DEF Number, Command
  <1>4. TypeOK'
    BY <1>1, <1>2 DEF TypeOK, Labels
  <1>5. StartInv'
    BY <1>1, ThreadFacts DEF StartInv, Numbering
  <1>6. BoundsInv'
    BY <1>1 DEF BoundsInv
  <1>7. SlotsInv'
    BY <1>1, <1>3, ThreadFacts DEF SlotsInv, TakenSlot, FreeSlot, Filling, Emptying, Unnumbered
  <1>8. HoldersInv'
    BY <1>1, <1>3, ThreadFacts DEF HoldersInv, FillInv, EmptyInv, Item
  <1>9. RacersInv'
    BY <1>1, <1>2, <1>3, ThreadFacts DEF RacersInv, RaceInv, Counter, Expected
  <1>10. HistoryInv'
    BY <1>1, HistoryTypes, ThreadFacts DEF HistoryInv
  <1>11. DeliveredInv'
    <2>1. \A w \in Pollers : \A p : Emptying(w, p)' => Emptying(w, p)
      BY <1>1, ThreadFacts DEF Emptying
    <2> QED
      BY <1>1, <2>1, DeliveredKept
  <1> QED
    BY <1>4, <1>5, <1>6, <1>7, <1>8, <1>9, <1>10, <1>11

\* An offer claims a position.
LEMMA ClaimTailPreserves ==
    ASSUME StartedQueue, IInv, NEW o \in Offerers, ClaimTail(o)
    PROVE  IInv'
  <1> USE DEF IInv
  <1>1. /\ pc \in [Threads -> Labels] /\ pos \in [Threads -> Nat] /\ head \in Nat /\ tail \in Nat
        /\ sent \in [Offerers -> Nat]
        /\ pc[o] = "cas" /\ pc' = [pc EXCEPT ![o] = "copy"]
        /\ pos[o] = tail /\ tail' = tail + 1
        /\ UNCHANGED <<memory, slots, item_size, head, pos, slot, out, sent, accepted, delivered>>
    BY CapacityAssumption DEF ClaimTail, Wins, Counter, Goto, locals, TypeOK
  <1>2. /\ slots = 1 /\ slot[o] = 1 /\ Number(tail) = tail /\ item_size
    BY <1>1, ThreadFacts DEF RacersInv, RaceInv, Counter, Expected, StartInv, Numbering
  <1>3. head <= tail /\ tail < head + Capacity /\ Len(claimed) = tail
    BY <1>2, TailFree DEF BoundsInv
  <1>4. Item(o) \in Items /\ claimed \in Seq(Items)
    BY <1>1, OfferedItem DEF TypeOK
  <1>5. /\ claimed' \in Seq(Items) /\ Len(claimed') = tail + 1 /\ claimed'[tail + 1] = Item(o)
        /\ \A n \in 1 .. tail : claimed'[n] = claimed[n]
    <2>1. claimed' = Append(claimed, Item(o))
      BY DEF ClaimTail
    <2> QED
      BY <1>3, <1>4, <2>1, AppendProperties
  <1>6. \A p : Number(p)' = Number(p) /\ Command(p)' = Command(p)
    BY <1>1 DEF Number, Command
  <1>7. TypeOK'
    <2>1. pc' \in [Threads -> Labels]
      BY <1>1 DEF Labels
    <2>2. UNCHANGED <<memory, slots, item_size, head, pos, slot, out, sent, accepted, delivered>> /\ tail' \in Nat
      BY <1>1
    <2> QED
      BY <1>5, <2>1, <2>2 DEF TypeOK
  <1>8. StartInv'
    <2>1. ~ Numbering
      BY <1>1, <1>2, ThreadFacts DEF StartInv, Numbering
    <2> QED
      BY <1>1, <1>2, <2>1, ThreadFacts DEF StartInv, Numbering
  <1>9. BoundsInv'
    BY <1>1, <1>3, <1>5, CapacityAssumption DEF BoundsInv
  <1>10. SlotsInv'
    <2> SUFFICES ASSUME NEW p \in head .. head + Capacity - 1
                 PROVE  IF p < tail + 1 THEN TakenSlot(p)' ELSE FreeSlot(p)'
      BY <1>1, <1>2 DEF SlotsInv
    <2>1. p \in Nat /\ IF p < tail THEN TakenSlot(p) ELSE FreeSlot(p)
      BY <1>1, <1>2, CapacityAssumption DEF SlotsInv
    <2>2. CASE p < tail
      <3>1. claimed'[p + 1] = claimed[p + 1]
        BY <1>1, <1>5, <2>1, <2>2
      <3> QED
        BY <1>1, <1>6, <2>1, <2>2, <3>1, ThreadFacts DEF TakenSlot, Filling
    <2>3. CASE p = tail
      BY <1>1, <1>2, <1>6, <2>1, <2>3, ThreadFacts DEF TakenSlot, Filling
    <2>4. CASE p > tail
      BY <1>1, <1>6, <2>1, <2>4, ThreadFacts DEF FreeSlot, Emptying, Unnumbered
    <2> QED
      BY <1>1, <2>1, <2>2, <2>3, <2>4
  <1>11. HoldersInv'
    <2>1. ASSUME NEW u \in Offerers
          PROVE  FillInv(u)'
      <3>1. CASE u = o
        BY <1>1, <1>2, <1>3, <1>5, <1>6, <3>1, ThreadFacts DEF FillInv, Item
      <3>2. CASE u # o
        BY <1>1, <1>2, <1>3, <1>5, <1>6, <3>2, ThreadFacts DEF HoldersInv, FillInv, Item
      <3> QED
        BY <3>1, <3>2
    <2>2. ASSUME NEW q \in Pollers
          PROVE  EmptyInv(q)'
      <3> SUFFICES ASSUME pc[q] \in {"copy", "release"}
                   PROVE  EmptyInv(q)'
        BY <1>1, ThreadFacts DEF EmptyInv
      <3>1. EmptyInv(q) /\ pos[q] \in Nat
        BY <1>1, ThreadFacts DEF HoldersInv
      <3>2. tail # pos[q] + Capacity
        <4> SUFFICES ASSUME tail = pos[q] + Capacity PROVE FALSE
          OBVIOUS
        <4>1. SlotAt(tail) = SlotAt(pos[q])
          BY <3>1, SlotOfNextLap
        <4>2. Number(tail) = Number(pos[q])
          BY <4>1 DEF Number
        <4> QED
          BY <1>1, <1>2, <3>1, <4>2, CapacityAssumption DEF EmptyInv, StartedQueue
      <3>3. pos[q] < head /\ claimed'[pos[q] + 1] = claimed[pos[q] + 1]
        BY <1>1, <1>3, <1>5, <3>1 DEF EmptyInv
      <3>4. tail + 1 <= pos[q] + Capacity
        BY <1>1, <3>1, <3>2, CapacityAssumption DEF EmptyInv
      <3>5. UNCHANGED <<slots, slot, head, pos, out>> /\ tail' = tail + 1 /\ pc'[q] = pc[q]
        BY <1>1, ThreadFacts
      <3> QED
        BY <1>2, <1>6, <3>1, <3>3, <3>4, <3>5 DEF EmptyInv
    <2>3. (\A q, r \in Pollers : q # r /\ pc[q] \in {"copy", "release"} /\ pc[r] \in {"copy", "release"}
                                => pos[q] # pos[r])'
      BY <1>1, ThreadFacts DEF HoldersInv
    <2> QED
      BY <2>1, <2>2, <2>3 DEF HoldersInv
  <1>12. RacersInv'
    BY <1>1, <1>2, <1>6, ThreadFacts DEF RacersInv, RaceInv, Counter, Expected
  <1>13. HistoryInv'
    <2>2. Item(o)[1] = o /\ Item(o)[2] = sent[o]
      BY DEF Item
    <2>1. \A n \in 1 .. tail : claimed[n] # Item(o)
      <3> SUFFICES ASSUME NEW n \in 1 .. tail, claimed[n] = Item(o)
                   PROVE  FALSE
        OBVIOUS
      <3>1. claimed[n][2] = sent[claimed[n][1]] => pc[claimed[n][1]] \in {"idle", "copy", "publish"}
        BY <1>3 DEF HistoryInv
      <3>2. claimed[n][1] = o /\ claimed[n][2] = sent[o]
        BY <2>2
      <3> QED
        BY <1>1, <3>1, <3>2
    <2>3. \A n \in 1 .. tail + 1 : n = tail + 1 \/ n \in 1 .. tail
      BY <1>1
    <2>4. (\A u \in Offerers : pc[u] # "idle" => sent[u] > 0)'
      BY <1>1, ThreadFacts DEF HistoryInv
    <2>5. (\A n \in 1 .. Len(claimed) :
             /\ claimed[n][2] <= sent[claimed[n][1]]
             /\ claimed[n][2] = sent[claimed[n][1]] => pc[claimed[n][1]] \in {"idle", "copy", "publish"})'
      <3> SUFFICES ASSUME NEW n \in 1 .. tail + 1
                   PROVE  /\ claimed'[n][2] <= sent[claimed'[n][1]]
                          /\ claimed'[n][2] = sent[claimed'[n][1]]
                             => pc'[claimed'[n][1]] \in {"idle", "copy", "publish"}
        BY <1>1, <1>5
      <3>1. CASE n = tail + 1
        <4>1. claimed'[n][1] = o /\ claimed'[n][2] = sent[o] /\ pc'[o] = "copy" /\ sent[o] \in Nat
          BY <1>1, <1>5, <2>2, <3>1, ThreadFacts
        <4> QED
          BY <4>1
      <3>2. CASE n \in 1 .. tail
        <4>1. claimed'[n] = claimed[n]
          BY <1>5, <3>2
        <4>2. /\ claimed[n][2] <= sent[claimed[n][1]]
              /\ claimed[n][2] = sent[claimed[n][1]] => pc[claimed[n][1]] \in {"idle", "copy", "publish"}
          BY <1>3, <3>2 DEF HistoryInv
        <4>3. claimed[n][1] \in Offerers
          BY <1>3, <3>2, HistoryTypes
        <4>4. pc[claimed[n][1]] \in {"idle", "copy", "publish"}
                => pc'[claimed[n][1]] \in {"idle", "copy", "publish"}
          BY <1>1, <4>3, ThreadFacts
        <4> QED
          BY <4>1, <4>2, <4>4
      <3> QED
        BY <2>3, <3>1, <3>2
    <2>6. (\A m, n \in 1 .. Len(claimed) : m # n => claimed[m] # claimed[n])'
      BY <1>3, <1>5, <2>1, <2>3 DEF HistoryInv
    <2>7. (\A i \in accepted : i[2] <= sent[i[1]] /\ (i[2] = sent[i[1]] => pc[i[1]] = "idle"))'
      BY <1>1, HistoryTypes, ThreadFacts DEF HistoryInv
    <2> QED
      BY <2>4, <2>5, <2>6, <2>7 DEF HistoryInv
  <1>14. DeliveredInv'
    <2>1. \A n \in 1 .. head : claimed'[n] = claimed[n]
      BY <1>1, <1>3, <1>5
    <2>2. \A w \in Pollers : \A p : Emptying(w, p)' => Emptying(w, p)
      BY <1>1, ThreadFacts DEF Emptying
    <2> QED
      BY <1>1, <2>1, <2>2, DeliveredKeptByClaim
  <1> QED
    BY <1>7, <1>8, <1>9, <1>10, <1>11, <1>12, <1>13, <1>14

\* The command is copied into the slot.
LEMMA CopyInPreserves ==
    ASSUME StartedQueue, IInv, NEW o \in Offerers, CopyIn(o)
    PROVE  IInv'
  <1> USE DEF IInv
  <1>1. /\ pc \in [Threads -> Labels] /\ pos \in [Threads -> Nat] /\ head \in Nat /\ tail \in Nat
        /\ sent \in [Offerers -> Nat]
        /\ pc[o] = "copy" /\ pc' = [pc EXCEPT ![o] = "publish"]
        /\ UNCHANGED <<slots, item_size, head, tail, pos, slot, out, sent, claimed, accepted, delivered>>
    BY CapacityAssumption DEF CopyIn, Goto, locals, history, TypeOK
  <1>2. /\ slots = 1 /\ slot[o] = 1 /\ pos[o] \in Nat /\ head <= pos[o] /\ pos[o] < tail
        /\ Number(pos[o]) = pos[o] /\ claimed[pos[o] + 1] = Item(o)
    BY <1>1, ThreadFacts DEF HoldersInv, FillInv
  <1>3. Item(o) \in Items
    BY <1>1, OfferedItem
  <1>4. /\ memory' \in Seq(SlotArrays) /\ Len(memory') = 1
        /\ \A q \in Nat : SlotAt(q) = SlotAt(pos[o]) => Command(q)' = Item(o)
        /\ \A q \in Nat : SlotAt(q) # SlotAt(pos[o]) => Command(q)' = Command(q)
        /\ \A q \in Nat : Number(q)' = Number(q)
    <2>1. Store(1, pos[o], "data", Item(o))
      BY <1>2 DEF CopyIn
    <2> QED
      BY <1>1, <1>2, <1>3, <2>1, StoredCommand
  \* A slot that holds a published command is another one.
  <1>5. \A p \in Nat : Number(p) = p + 1 => Command(p)' = Command(p)
    <2> SUFFICES ASSUME NEW p \in Nat, Number(p) = p + 1, SlotAt(p) = SlotAt(pos[o])
                 PROVE  FALSE
      BY <1>4
    <2>1. p + 1 = pos[o]
      BY <1>2 DEF Number
    <2> QED
      BY <1>2, <2>1, SlotsApart, CapacityAssumption DEF StartedQueue
  <1>6. TypeOK'
    <2>1. slot' \in [Threads -> 0 .. Len(memory')] /\ slots' \in 0 .. Len(memory')
      BY <1>1, <1>2, <1>4 DEF TypeOK, StartInv
    <2>2. pc' \in [Threads -> Labels]
      BY <1>1 DEF Labels
    <2> QED
      BY <1>1, <1>4, <2>1, <2>2 DEF TypeOK
  <1>7. StartInv'
    BY <1>1, <1>2, <1>4, ThreadFacts DEF StartInv, Numbering
  <1>8. BoundsInv'
    BY <1>1 DEF BoundsInv
  <1>9. SlotsInv'
    <2> SUFFICES ASSUME NEW p \in head .. head + Capacity - 1
                 PROVE  IF p < tail THEN TakenSlot(p)' ELSE FreeSlot(p)'
      BY <1>1, <1>2 DEF SlotsInv
    <2>1. p \in Nat /\ IF p < tail THEN TakenSlot(p) ELSE FreeSlot(p)
      BY <1>1, <1>2, CapacityAssumption DEF SlotsInv
    <2> QED
      BY <1>1, <1>4, <1>5, <2>1, ThreadFacts DEF TakenSlot, FreeSlot, Filling, Emptying, Unnumbered
  <1>10. HoldersInv'
    <2>1. ASSUME NEW u \in Offerers
          PROVE  FillInv(u)'
      <3> SUFFICES ASSUME pc[u]' \in {"copy", "publish"}
                   PROVE  FillInv(u)'
        BY DEF FillInv
      <3>1. pc[u] \in {"copy", "publish"} /\ FillInv(u) /\ pos[u] \in Nat
        BY <1>1, ThreadFacts DEF HoldersInv
      <3>2. CASE u = o
        BY <1>1, <1>2, <1>4, <3>1, <3>2, ThreadFacts DEF FillInv, Item
      <3>3. CASE u # o
        <4>1. pos[u] # pos[o]
          BY <1>2, <3>1, <3>3 DEF FillInv, Item
        <4>2. SlotAt(pos[u]) # SlotAt(pos[o])
          BY <1>2, <3>1, <4>1 DEF FillInv, Number
        <4> QED
          BY <1>1, <1>4, <3>1, <3>3, <4>2, ThreadFacts DEF FillInv, Item
      <3> QED
        BY <3>2, <3>3
    <2>2. ASSUME NEW q \in Pollers
          PROVE  EmptyInv(q)'
      BY <1>1, <1>4, <1>5, ThreadFacts DEF HoldersInv, EmptyInv
    <2>3. (\A q, r \in Pollers : q # r /\ pc[q] \in {"copy", "release"} /\ pc[r] \in {"copy", "release"}
                                => pos[q] # pos[r])'
      BY <1>1, ThreadFacts DEF HoldersInv
    <2> QED
      BY <2>1, <2>2, <2>3 DEF HoldersInv
  <1>11. RacersInv'
    BY <1>1, <1>4, ThreadFacts DEF RacersInv, RaceInv, Counter, Expected
  <1>12. HistoryInv'
    BY <1>1, HistoryTypes, ThreadFacts DEF HistoryInv
  <1>13. DeliveredInv'
    <2>1. \A w \in Pollers : \A p : Emptying(w, p)' => Emptying(w, p)
      BY <1>1, ThreadFacts DEF Emptying
    <2> QED
      BY <1>1, <2>1, DeliveredKept
  <1> QED
    BY <1>6, <1>7, <1>8, <1>9, <1>10, <1>11, <1>12, <1>13

\* The slot's number says that it is full.
LEMMA PublishPreserves ==
    ASSUME StartedQueue, IInv, NEW o \in Offerers, Publish(o)
    PROVE  IInv'
  <1> USE DEF IInv
  <1>1. /\ pc \in [Threads -> Labels] /\ pos \in [Threads -> Nat] /\ head \in Nat /\ tail \in Nat
        /\ sent \in [Offerers -> Nat]
        /\ pc[o] = "publish" /\ pc' = [pc EXCEPT ![o] = "idle"]
        /\ accepted' = accepted \cup {Item(o)}
        /\ UNCHANGED <<slots, item_size, head, tail, pos, slot, out, sent, claimed, delivered>>
    BY CapacityAssumption DEF Publish, Goto, locals, TypeOK
  <1>2. /\ slots = 1 /\ slot[o] = 1 /\ pos[o] \in Nat /\ head <= pos[o] /\ pos[o] < tail
        /\ Number(pos[o]) = pos[o] /\ claimed[pos[o] + 1] = Item(o) /\ Command(pos[o]) = Item(o)
    BY <1>1, ThreadFacts DEF HoldersInv, FillInv
  <1>3. /\ memory' \in Seq(SlotArrays) /\ Len(memory') = 1
        /\ \A q \in Nat : SlotAt(q) = SlotAt(pos[o]) => Number(q)' = pos[o] + 1
        /\ \A q \in Nat : SlotAt(q) # SlotAt(pos[o]) => Number(q)' = Number(q)
        /\ \A q \in Nat : Command(q)' = Command(q)
    <2>1. Store(1, pos[o], "sequence", pos[o] + 1) /\ pos[o] + 1 \in Nat
      BY <1>2 DEF Publish, PublishedSequence
    <2> QED
      BY <1>1, <1>2, <2>1, StoredNumber
  \* Slots with another number are others.
  <1>4. \A p \in Nat : Number(p) # pos[o] => Number(p)' = Number(p)
    BY <1>2, <1>3 DEF Number
  <1>5. TypeOK'
    <2>1. slot' \in [Threads -> 0 .. Len(memory')] /\ slots' \in 0 .. Len(memory')
      BY <1>1, <1>2, <1>3 DEF TypeOK, StartInv
    <2>2. pc' \in [Threads -> Labels]
      BY <1>1 DEF Labels
    <2>3. accepted' \subseteq Items
      BY <1>1, OfferedItem DEF TypeOK
    <2> QED
      BY <1>1, <1>3, <2>1, <2>2, <2>3 DEF TypeOK
  <1>6. StartInv'
    BY <1>1, <1>2, <1>3, ThreadFacts DEF StartInv, Numbering
  <1>7. BoundsInv'
    BY <1>1 DEF BoundsInv
  <1>8. SlotsInv'
    <2> SUFFICES ASSUME NEW p \in head .. head + Capacity - 1
                 PROVE  IF p < tail THEN TakenSlot(p)' ELSE FreeSlot(p)'
      BY <1>1, <1>2 DEF SlotsInv
    <2>1. p \in Nat /\ IF p < tail THEN TakenSlot(p) ELSE FreeSlot(p)
      BY <1>1, <1>2, CapacityAssumption DEF SlotsInv
    <2>2. CASE p = pos[o]
      BY <1>1, <1>2, <1>3, <2>1, <2>2 DEF TakenSlot
    <2>3. CASE p # pos[o]
      <3>1. p < pos[o] + Capacity /\ pos[o] < p + Capacity
        BY <1>1, <1>2, <2>1, CapacityAssumption DEF BoundsInv
      <3>2. SlotAt(p) # SlotAt(pos[o])
        BY <1>2, <2>1, <2>3, <3>1, SlotsApart
      <3> QED
        BY <1>1, <1>2, <1>3, <2>1, <2>3, <3>2, ThreadFacts DEF TakenSlot, FreeSlot, Filling, Emptying, Unnumbered
    <2> QED
      BY <2>2, <2>3
  <1>9. HoldersInv'
    <2>1. ASSUME NEW u \in Offerers
          PROVE  FillInv(u)'
      <3> SUFFICES ASSUME pc[u]' \in {"copy", "publish"}
                   PROVE  FillInv(u)'
        BY DEF FillInv
      <3>1. u # o /\ pc[u]' = pc[u] /\ FillInv(u) /\ pos[u] \in Nat
        BY <1>1, ThreadFacts DEF HoldersInv
      <3>2. pos[u] # pos[o]
        BY <1>2, <3>1 DEF FillInv, Item
      <3>3. Number(pos[u])' = Number(pos[u])
        BY <1>1, <1>4, <3>1, <3>2 DEF FillInv
      <3> QED
        BY <1>1, <1>3, <3>1, <3>3 DEF FillInv, Item
    <2>2. ASSUME NEW q \in Pollers
          PROVE  EmptyInv(q)'
      <3> SUFFICES ASSUME pc[q]' \in {"copy", "release"}
                   PROVE  EmptyInv(q)'
        BY DEF EmptyInv
      <3>1. pc[q]' = pc[q] /\ EmptyInv(q) /\ pos[q] \in Nat
        BY <1>1, ThreadFacts DEF HoldersInv
      <3>2. Number(pos[q])' = Number(pos[q])
        <4>1. CASE SlotAt(pos[q]) = SlotAt(pos[o])
          <5>1. Number(pos[q]) = Number(pos[o])
            BY <4>1 DEF Number
          <5>2. pos[q] + 1 = pos[o]
            BY <1>2, <3>1, <5>1 DEF EmptyInv
          <5> QED
            BY <1>2, <3>1, <4>1, <5>2, SlotsApart, CapacityAssumption DEF StartedQueue
        <4>2. CASE SlotAt(pos[q]) # SlotAt(pos[o])
          BY <1>1, <1>3, <3>1, <4>2
        <4> QED
          BY <4>1, <4>2
      <3> QED
        BY <1>1, <1>3, <3>1, <3>2 DEF EmptyInv
    <2>3. (\A q, r \in Pollers : q # r /\ pc[q] \in {"copy", "release"} /\ pc[r] \in {"copy", "release"}
                                => pos[q] # pos[r])'
      BY <1>1, ThreadFacts DEF HoldersInv
    <2> QED
      BY <2>1, <2>2, <2>3 DEF HoldersInv
  <1>10. RacersInv'
    <2> SUFFICES ASSUME NEW t \in Threads
                 PROVE  RaceInv(t)'
      BY DEF RacersInv
    <2>1. RaceInv(t) /\ pos[t] \in Nat /\ (pc'[t] \in {"load", "cas"} => pc[t] = pc'[t])
      BY <1>1 DEF RacersInv
    <2>2. ASSUME pc'[t] = "cas", pos[t] = Counter(t)
          PROVE  Number(pos[t])' = Number(pos[t])
      <3>1. Number(pos[t]) = Expected(t)
        BY <2>1, <2>2 DEF RaceInv
      <3>2. CASE t \in Offerers
        BY <1>1, <1>2, <1>4, <2>1, <2>2, <3>1, <3>2 DEF Counter, Expected
      <3>3. CASE t \in Pollers
        <4>1. pos[t] = head /\ Number(head) = head + 1
          BY <2>2, <3>1, <3>3, ThreadFacts DEF Counter, Expected
        <4>2. CASE SlotAt(pos[t]) = SlotAt(pos[o])
          <5>1. head + 1 = pos[o]
            BY <1>2, <4>1, <4>2 DEF Number
          <5> QED
            BY <1>1, <1>2, <4>1, <4>2, <5>1, SlotsApart, CapacityAssumption DEF StartedQueue
        <4>3. CASE SlotAt(pos[t]) # SlotAt(pos[o])
          BY <1>1, <1>3, <2>1, <4>3
        <4> QED
          BY <4>2, <4>3
      <3> QED
        BY <3>2, <3>3, ThreadFacts
    <2>3. UNCHANGED <<slots, head, tail, pos, slot>>
      BY <1>1
    <2> QED
      BY <2>1, <2>2, <2>3 DEF RaceInv, Counter, Expected
  <1>11. HistoryInv'
    <2>1. Item(o)[1] = o /\ Item(o)[2] = sent[o]
      BY DEF Item
    <2>2. (\A i \in accepted : i[2] <= sent[i[1]] /\ (i[2] = sent[i[1]] => pc[i[1]] = "idle"))'
      BY <1>1, <2>1, HistoryTypes, ThreadFacts DEF HistoryInv
    <2> QED
      BY <1>1, <2>2, HistoryTypes, ThreadFacts DEF HistoryInv
  <1>12. DeliveredInv'
    <2>1. \A w \in Pollers : \A p : Emptying(w, p)' => Emptying(w, p)
      BY <1>1, ThreadFacts DEF Emptying
    <2> QED
      BY <1>1, <2>1, DeliveredKept
  <1> QED
    BY <1>5, <1>6, <1>7, <1>8, <1>9, <1>10, <1>11, <1>12

\* A poll claims a position.
LEMMA ClaimHeadPreserves ==
    ASSUME StartedQueue, IInv, NEW q \in Pollers, ClaimHead(q)
    PROVE  IInv'
  <1> USE DEF IInv
  <1>1. /\ pc \in [Threads -> Labels] /\ pos \in [Threads -> Nat] /\ head \in Nat /\ tail \in Nat
        /\ sent \in [Offerers -> Nat]
        /\ pc[q] = "cas" /\ pc' = [pc EXCEPT ![q] = "copy"]
        /\ pos[q] = head /\ head' = head + 1
        /\ UNCHANGED <<memory, slots, item_size, tail, pos, slot, out, sent, claimed, accepted, delivered>>
    BY CapacityAssumption, ThreadFacts DEF ClaimHead, Wins, Counter, Goto, locals, history, TypeOK
  <1>2. slots = 1 /\ slot[q] = 1 /\ Number(head) = head + 1 /\ ~ Numbering
    BY <1>1, ThreadFacts DEF RacersInv, RaceInv, Counter, Expected, StartInv
  <1>3. head < tail /\ tail <= head + Capacity /\ Command(head) = claimed[head + 1] /\ Len(claimed) = tail
    BY <1>2, HeadPublished DEF BoundsInv
  <1>4. \A p : Number(p)' = Number(p) /\ Command(p)' = Command(p)
    BY <1>1 DEF Number, Command
  <1>5. TypeOK'
    <2>1. pc' \in [Threads -> Labels]
      BY <1>1 DEF Labels
    <2>2. head' \in Nat
      BY <1>1
    <2> QED
      BY <1>1, <2>1, <2>2 DEF TypeOK
  <1>6. StartInv'
    BY <1>1, <1>2, ThreadFacts DEF StartInv, Numbering
  <1>7. BoundsInv'
    BY <1>1, <1>3, CapacityAssumption DEF BoundsInv
  <1>8. SlotsInv'
    <2> SUFFICES ASSUME NEW p \in head + 1 .. head + Capacity
                 PROVE  IF p < tail THEN TakenSlot(p)' ELSE FreeSlot(p)'
      BY <1>1, <1>2, CapacityAssumption DEF SlotsInv
    <2>1. CASE p < head + Capacity
      <3>1. p \in Nat /\ IF p < tail THEN TakenSlot(p) ELSE FreeSlot(p)
        BY <1>1, <1>2, <2>1, CapacityAssumption DEF SlotsInv
      <3> QED
        BY <1>1, <1>4, <3>1, ThreadFacts DEF TakenSlot, FreeSlot, Filling, Emptying, Unnumbered
    <2>2. CASE p = head + Capacity
      <3>1. Number(p) = head + 1
        BY <1>1, <1>2, <2>2, SlotOfNextLap DEF Number
      <3>2. p - Capacity = head /\ ~ p < tail /\ p >= Capacity
        BY <1>1, <1>3, <2>2, CapacityAssumption
      <3>3. pc'[q] = "copy" /\ pos'[q] = p - Capacity
        BY <1>1, <3>2, ThreadFacts
      <3>4. Number(p)' = p - Capacity + 1
        BY <1>4, <3>1, <3>2
      <3> QED
        BY <3>2, <3>3, <3>4 DEF FreeSlot, Emptying
    <2> QED
      BY <1>1, <2>1, <2>2, CapacityAssumption
  <1>9. HoldersInv'
    <2>1. ASSUME NEW u \in Offerers
          PROVE  FillInv(u)'
      <3> SUFFICES ASSUME pc[u]' \in {"copy", "publish"}
                   PROVE  FillInv(u)'
        BY DEF FillInv
      <3>1. pc[u]' = pc[u] /\ FillInv(u) /\ pos[u] \in Nat
        BY <1>1, ThreadFacts DEF HoldersInv
      <3>2. pos[u] # head
        BY <1>1, <1>2, <3>1 DEF FillInv
      <3> QED
        BY <1>1, <1>4, <3>1, <3>2 DEF FillInv, Item
    <2>2. ASSUME NEW r \in Pollers
          PROVE  EmptyInv(r)'
      <3>1. CASE r = q
        BY <1>1, <1>2, <1>3, <1>4, <3>1, ThreadFacts DEF EmptyInv
      <3>2. CASE r # q
        BY <1>1, <1>4, <3>2, ThreadFacts DEF EmptyInv, HoldersInv
      <3> QED
        BY <3>1, <3>2
    <2>3. (\A r, t \in Pollers : r # t /\ pc[r] \in {"copy", "release"} /\ pc[t] \in {"copy", "release"}
                                => pos[r] # pos[t])'
      BY <1>1, ThreadFacts DEF HoldersInv, EmptyInv
    <2> QED
      BY <2>1, <2>2, <2>3 DEF HoldersInv
  <1>10. RacersInv'
    BY <1>1, <1>4, ThreadFacts DEF RacersInv, RaceInv, Counter, Expected
  <1>11. HistoryInv'
    <2>1. \A o \in Offerers : pc'[o] = pc[o]
      BY <1>1, ThreadFacts
    <2> QED
      BY <1>1, <2>1, HistoryKept
  <1>12. DeliveredInv'
    <2>1. \A n \in 1 .. head : n \in 1 .. head + 1 /\ n - 1 # head
      BY <1>1
    <2>2. \A n \in 1 .. head : (\A r \in Pollers : ~ Emptying(r, n - 1)) => \A r \in Pollers : ~ Emptying(r, n - 1)'
      BY <1>1, <2>1, ThreadFacts DEF Emptying
    <2> QED
      BY <1>1, <2>1, <2>2 DEF DeliveredInv
  <1> QED
    BY <1>5, <1>6, <1>7, <1>8, <1>9, <1>10, <1>11, <1>12

\* The command is copied out of the slot.
LEMMA CopyOutPreserves ==
    ASSUME StartedQueue, IInv, NEW q \in Pollers, CopyOut(q)
    PROVE  IInv'
  <1> USE DEF IInv
  <1>1. /\ pc \in [Threads -> Labels] /\ pos \in [Threads -> Nat] /\ head \in Nat /\ tail \in Nat
        /\ sent \in [Offerers -> Nat] /\ out \in [Pollers -> Items \cup {NoItem}]
        /\ pc[q] = "copy" /\ pc' = [pc EXCEPT ![q] = "release"]
        /\ UNCHANGED <<memory, slots, item_size, head, tail, pos, slot, sent, claimed, accepted, delivered>>
    BY CapacityAssumption DEF CopyOut, Goto, queue, history, TypeOK
  <1>2. /\ slots = 1 /\ slot[q] = 1 /\ pos[q] \in Nat /\ Command(pos[q]) = claimed[pos[q] + 1]
    BY <1>1, ThreadFacts DEF HoldersInv, EmptyInv
  <1>3. out' = [out EXCEPT ![q] = Command(pos[q])]
    BY <1>2 DEF CopyOut, Command
  <1>4. \A p : Number(p)' = Number(p) /\ Command(p)' = Command(p)
    BY <1>1 DEF Number, Command
  <1>5. TypeOK'
    <2>1. pc' \in [Threads -> Labels]
      BY <1>1 DEF Labels
    <2>2. out' \in [Pollers -> Items \cup {NoItem}]
      BY <1>1, <1>2, <1>3, RingTypes
    <2> QED
      BY <1>1, <2>1, <2>2 DEF TypeOK
  <1>6. StartInv'
    BY <1>1, <1>2, ThreadFacts DEF StartInv, Numbering
  <1>7. BoundsInv'
    BY <1>1 DEF BoundsInv
  <1>8. SlotsInv'
    BY <1>1, <1>4, ThreadFacts DEF SlotsInv, TakenSlot, FreeSlot, Filling, Emptying, Unnumbered
  <1>9. HoldersInv'
    <2>1. \A u \in Offerers : FillInv(u)'
      BY <1>1, <1>4, ThreadFacts DEF HoldersInv, FillInv, Item
    <2>2. ASSUME NEW r \in Pollers
          PROVE  EmptyInv(r)'
      BY <1>1, <1>2, <1>3, <1>4, ThreadFacts DEF HoldersInv, EmptyInv
    <2>3. (\A r, t \in Pollers : r # t /\ pc[r] \in {"copy", "release"} /\ pc[t] \in {"copy", "release"}
                                => pos[r] # pos[t])'
      BY <1>1, ThreadFacts DEF HoldersInv
    <2> QED
      BY <2>1, <2>2, <2>3 DEF HoldersInv
  <1>10. RacersInv'
    BY <1>1, <1>4, ThreadFacts DEF RacersInv, RaceInv, Counter, Expected
  <1>11. HistoryInv'
    <2>1. \A o \in Offerers : pc'[o] = pc[o]
      BY <1>1, ThreadFacts
    <2> QED
      BY <1>1, <2>1, HistoryKept
  <1>12. DeliveredInv'
    <2>1. \A w \in Pollers : \A p : Emptying(w, p)' => Emptying(w, p)
      BY <1>1, ThreadFacts DEF Emptying
    <2> QED
      BY <1>1, <2>1, DeliveredKept
  <1> QED
    BY <1>5, <1>6, <1>7, <1>8, <1>9, <1>10, <1>11, <1>12

\* The slot's number says that it is free for the next lap.
LEMMA ReleasePreserves ==
    ASSUME StartedQueue, IInv, NEW q \in Pollers, Release(q)
    PROVE  IInv'
  <1> USE DEF IInv
  <1>1. /\ pc \in [Threads -> Labels] /\ pos \in [Threads -> Nat] /\ head \in Nat /\ tail \in Nat
        /\ sent \in [Offerers -> Nat]
        /\ pc[q] = "release" /\ pc' = [pc EXCEPT ![q] = "idle"]
        /\ UNCHANGED <<slots, item_size, head, tail, pos, slot, out, sent, claimed, accepted>>
    BY CapacityAssumption DEF Release, Goto, locals, TypeOK
  <1>2. /\ slots = 1 /\ slot[q] = 1 /\ pos[q] \in Nat /\ pos[q] < head /\ tail <= pos[q] + Capacity
        /\ Number(pos[q]) = pos[q] + 1 /\ out[q] = claimed[pos[q] + 1]
    BY <1>1, ThreadFacts DEF HoldersInv, EmptyInv
  <1>3. /\ memory' \in Seq(SlotArrays) /\ Len(memory') = 1
        /\ \A p \in Nat : SlotAt(p) = SlotAt(pos[q]) => Number(p)' = pos[q] + Capacity
        /\ \A p \in Nat : SlotAt(p) # SlotAt(pos[q]) => Number(p)' = Number(p)
        /\ \A p \in Nat : Command(p)' = Command(p)
    <2>1. Store(1, pos[q], "sequence", pos[q] + Capacity) /\ pos[q] + Capacity \in Nat
      BY <1>2, CapacityAssumption DEF Release, ReleasedSequence
    <2> QED
      BY <1>1, <1>2, <2>1, StoredNumber
  \* Slots with another number are others.
  <1>4. \A p \in Nat : Number(p) # pos[q] + 1 => Number(p)' = Number(p)
    BY <1>2, <1>3 DEF Number
  <1>5. head <= tail /\ Len(claimed) = tail /\ pos[q] + 1 \in 1 .. head /\ claimed[pos[q] + 1] \in Items
    BY <1>1, <1>2, HistoryTypes DEF BoundsInv
  <1>6. /\ delivered \in Seq(Items) /\ delivered' \in Seq(Items) /\ Len(delivered') = Len(delivered) + 1
        /\ delivered'[Len(delivered) + 1] = claimed[pos[q] + 1] /\ Len(delivered) \in Nat
        /\ \A m \in 1 .. Len(delivered) : delivered'[m] = delivered[m]
    <2>1. delivered' = Append(delivered, claimed[pos[q] + 1]) /\ delivered \in Seq(Items)
      BY <1>2 DEF Release, TypeOK
    <2> QED
      BY <1>5, <2>1, AppendProperties
  <1>7. TypeOK'
    <2>1. slot' \in [Threads -> 0 .. Len(memory')] /\ slots' \in 0 .. Len(memory')
      BY <1>1, <1>2, <1>3 DEF TypeOK, StartInv
    <2>2. pc' \in [Threads -> Labels]
      BY <1>1 DEF Labels
    <2> QED
      BY <1>1, <1>3, <1>6, <2>1, <2>2 DEF TypeOK
  <1>8. StartInv'
    BY <1>1, <1>2, <1>3, ThreadFacts DEF StartInv, Numbering
  <1>9. BoundsInv'
    BY <1>1 DEF BoundsInv
  <1>10. SlotsInv'
    <2> SUFFICES ASSUME NEW p \in head .. head + Capacity - 1
                 PROVE  IF p < tail THEN TakenSlot(p)' ELSE FreeSlot(p)'
      BY <1>1, <1>2 DEF SlotsInv
    <2>1. p \in Nat /\ IF p < tail THEN TakenSlot(p) ELSE FreeSlot(p)
      BY <1>1, <1>2, CapacityAssumption DEF SlotsInv
    <2>2. CASE p = pos[q] + Capacity
      <3>1. Number(p)' = p
        BY <1>2, <1>3, <2>1, <2>2, SlotOfNextLap
      <3> QED
        BY <1>1, <1>2, <2>1, <2>2, <3>1 DEF FreeSlot
    <2>3. CASE p # pos[q] + Capacity
      <3>1. /\ pos[q] + Capacity \in Nat
            /\ p < pos[q] + Capacity + Capacity /\ pos[q] + Capacity < p + Capacity
        BY <1>1, <1>2, <1>5, <2>1, CapacityAssumption
      <3>2. SlotAt(p) # SlotAt(pos[q])
        BY <1>2, <2>1, <2>3, <3>1, SlotsApart, SlotOfNextLap
      <3>3. Number(p)' = Number(p)
        BY <1>3, <2>1, <3>2
      <3>4. p >= Capacity => p - Capacity # pos[q]
        BY <1>2, <2>1, <2>3, CapacityAssumption
      <3> QED
        BY <1>1, <1>3, <2>1, <3>3, <3>4, ThreadFacts DEF TakenSlot, FreeSlot, Filling, Emptying, Unnumbered
    <2> QED
      BY <2>2, <2>3
  <1>11. HoldersInv'
    <2>1. ASSUME NEW u \in Offerers
          PROVE  FillInv(u)'
      <3> SUFFICES ASSUME pc[u]' \in {"copy", "publish"}
                   PROVE  FillInv(u)'
        BY DEF FillInv
      <3>1. pc[u]' = pc[u] /\ FillInv(u) /\ pos[u] \in Nat
        BY <1>1, ThreadFacts DEF HoldersInv
      <3>2. SlotAt(pos[u]) # SlotAt(pos[q])
        <4> SUFFICES ASSUME SlotAt(pos[u]) = SlotAt(pos[q])
                     PROVE  FALSE
          OBVIOUS
        <4>1. Number(pos[u]) = Number(pos[q])
          BY DEF Number
        <4>2. pos[u] = pos[q] + 1
          BY <1>1, <1>2, <3>1, <4>1 DEF FillInv
        <4> QED
          BY <1>2, <3>1, <4>2, SlotsApart, CapacityAssumption DEF StartedQueue
      <3>3. Number(pos[u])' = Number(pos[u])
        BY <1>1, <1>3, <3>1, <3>2
      <3> QED
        BY <1>1, <1>3, <3>1, <3>3 DEF FillInv, Item
    <2>2. ASSUME NEW r \in Pollers
          PROVE  EmptyInv(r)'
      <3> SUFFICES ASSUME pc[r]' \in {"copy", "release"}
                   PROVE  EmptyInv(r)'
        BY DEF EmptyInv
      <3>1. r # q /\ pc[r]' = pc[r] /\ EmptyInv(r) /\ pos[r] \in Nat /\ pos[r] # pos[q]
        BY <1>1, ThreadFacts DEF HoldersInv
      <3>2. Number(pos[r])' = Number(pos[r])
        BY <1>1, <1>2, <1>4, <3>1 DEF EmptyInv
      <3> QED
        BY <1>1, <1>3, <3>1, <3>2 DEF EmptyInv
    <2>3. (\A r, t \in Pollers : r # t /\ pc[r] \in {"copy", "release"} /\ pc[t] \in {"copy", "release"}
                                => pos[r] # pos[t])'
      BY <1>1, ThreadFacts DEF HoldersInv
    <2> QED
      BY <2>1, <2>2, <2>3 DEF HoldersInv
  <1>12. RacersInv'
    <2> SUFFICES ASSUME NEW t \in Threads
                 PROVE  RaceInv(t)'
      BY DEF RacersInv
    <2>1. RaceInv(t) /\ pos[t] \in Nat /\ (pc'[t] \in {"load", "cas"} => pc[t] = pc'[t])
      BY <1>1 DEF RacersInv
    <2>2. ASSUME pc'[t] = "cas", pos[t] = Counter(t)
          PROVE  Number(pos[t])' = Number(pos[t])
      <3>1. Number(pos[t]) = Expected(t)
        BY <2>1, <2>2 DEF RaceInv
      <3>2. CASE t \in Pollers
        <4>1. Number(pos[t]) # pos[q] + 1
          BY <1>1, <1>2, <2>2, <3>1, <3>2, ThreadFacts DEF Counter, Expected
        <4> QED
          BY <1>1, <1>4, <2>1, <4>1
      <3>3. CASE t \in Offerers
        <4>1. pos[t] = tail /\ Number(tail) = tail
          BY <2>2, <3>1, <3>3, ThreadFacts DEF Counter, Expected
        <4>2. CASE SlotAt(pos[t]) = SlotAt(pos[q])
          <5>1. tail = pos[q] + 1
            BY <1>2, <4>1, <4>2 DEF Number
          <5> QED
            BY <1>1, <1>2, <4>1, <4>2, <5>1, SlotsApart, CapacityAssumption DEF StartedQueue
        <4>3. CASE SlotAt(pos[t]) # SlotAt(pos[q])
          BY <1>1, <1>3, <2>1, <4>3
        <4> QED
          BY <4>2, <4>3
      <3> QED
        BY <3>2, <3>3, ThreadFacts
    <2>3. UNCHANGED <<slots, head, tail, pos, slot>>
      BY <1>1
    <2> QED
      BY <2>1, <2>2, <2>3 DEF RaceInv, Counter, Expected
  <1>13. HistoryInv'
    <2>1. \A o \in Offerers : pc'[o] = pc[o]
      BY <1>1, ThreadFacts
    <2> QED
      BY <1>1, <2>1, HistoryKept
  <1>14. DeliveredInv'
    <2>1. \A m \in 1 .. Len(delivered) + 1 : m = Len(delivered) + 1 \/ m \in 1 .. Len(delivered)
      BY <1>6
    <2>2. \A m \in 1 .. Len(delivered) : delivered[m] # claimed[pos[q] + 1]
      <3> SUFFICES ASSUME NEW m \in 1 .. Len(delivered), delivered[m] = claimed[pos[q] + 1]
                   PROVE  FALSE
        OBVIOUS
      <3>1. PICK n \in 1 .. head : delivered[m] = claimed[n] /\ \A r \in Pollers : ~ Emptying(r, n - 1)
        BY DEF DeliveredInv
      <3>2. n # pos[q] + 1
        BY <1>1, <1>2, <3>1 DEF Emptying
      <3>3. n \in 1 .. Len(claimed) /\ pos[q] + 1 \in 1 .. Len(claimed)
        BY <1>1, <1>5
      <3> QED
        BY <3>1, <3>2, <3>3 DEF HistoryInv
    <2>3. \A n \in Nat : n = pos[q] + 1 => \A r \in Pollers : ~ Emptying(r, n - 1)'
      BY <1>1, <1>2, ThreadFacts DEF Emptying, HoldersInv
    <2>4. \A n \in 1 .. head : (\A r \in Pollers : ~ Emptying(r, n - 1)) => \A r \in Pollers : ~ Emptying(r, n - 1)'
      BY <1>1, ThreadFacts DEF Emptying
    <2>5. ASSUME NEW m \in 1 .. Len(delivered')
          PROVE  \E n \in 1 .. head : delivered'[m] = claimed[n] /\ \A r \in Pollers : ~ Emptying(r, n - 1)'
      <3>1. CASE m = Len(delivered) + 1
        <4>1. PICK n \in 1 .. head : n = pos[q] + 1
          BY <1>5
        <4>2. delivered'[m] = claimed[n] /\ \A r \in Pollers : ~ Emptying(r, n - 1)'
          BY <1>6, <2>3, <3>1, <4>1
        <4> QED
          BY <4>2
      <3>2. CASE m \in 1 .. Len(delivered)
        BY <1>6, <2>4, <3>2 DEF DeliveredInv
      <3> QED
        BY <1>6, <2>1, <3>1, <3>2
    <2>6. \A m, n \in 1 .. Len(delivered') : m # n => delivered'[m] # delivered'[n]
      BY <1>6, <2>1, <2>2 DEF DeliveredInv
    <2> QED
      BY <1>1, <2>5, <2>6 DEF DeliveredInv
  <1> QED
    BY <1>7, <1>8, <1>9, <1>10, <1>11, <1>12, <1>13, <1>14

-----------------------------------------------------------------------------
(* The theorems                                                             *)

\* The queue starts in the invariant.
LEMMA QueueInit == ASSUME StartedQueue PROVE Init => IInv
  <1> SUFFICES ASSUME Init
               PROVE  IInv
    OBVIOUS
  <1>1. /\ memory = << >> /\ slots = 0 /\ item_size = FALSE /\ head = 0 /\ tail = 0
        /\ pc = [t \in Threads |-> "idle"]
        /\ claimed = << >> /\ accepted = {} /\ delivered = << >>
        /\ Len(claimed) = 0 /\ Len(delivered) = 0 /\ Len(memory) = 0
    BY DEF Init
  <1>2. TypeOK
    <2>1. memory \in Seq(SlotArrays) /\ claimed \in Seq(Items) /\ delivered \in Seq(Items)
      BY <1>1
    <2>2. pc \in [Threads -> Labels]
      BY <1>1 DEF Labels
    <2>3. /\ pos \in [Threads -> Nat] /\ slot \in [Threads -> 0 .. Len(memory)]
          /\ out \in [Pollers -> Items \cup {NoItem}] /\ sent \in [Offerers -> 0 .. MaxOffers]
      BY <1>1, CapacityAssumption DEF Init
    <2>4. slots \in 0 .. Len(memory) /\ head \in Nat /\ tail \in Nat
      BY <1>1
    <2>5. item_size \in BOOLEAN /\ accepted \subseteq Items
      BY <1>1
    <2> QED
      BY <2>1, <2>2, <2>3, <2>4, <2>5 DEF TypeOK
  <1>3. StartInv
    BY <1>1, ThreadFacts DEF StartInv, Numbering
  <1>4. BoundsInv /\ SlotsInv
    BY <1>1, CapacityAssumption DEF BoundsInv, SlotsInv
  <1>5. HoldersInv /\ RacersInv
    BY <1>1, ThreadFacts DEF HoldersInv, FillInv, EmptyInv, RacersInv, RaceInv
  <1>6. HistoryInv /\ DeliveredInv
    BY <1>1, ThreadFacts DEF HistoryInv, DeliveredInv
  <1> QED
    BY <1>2, <1>3, <1>4, <1>5, <1>6 DEF IInv

\* Nothing happens.
LEMMA QueueStutter == ASSUME IInv, UNCHANGED vars PROVE IInv'
  <1> USE DEF IInv, vars
  <1>1. TypeOK' /\ BoundsInv'
    BY DEF TypeOK, BoundsInv
  <1>2. StartInv'
    BY DEF StartInv, Numbering
  <1>3. \A p : Number(p)' = Number(p) /\ Command(p)' = Command(p)
    BY DEF Number, Command
  <1>4. SlotsInv'
    BY <1>3 DEF SlotsInv, TakenSlot, FreeSlot, Filling, Emptying, Unnumbered
  <1>5. HoldersInv'
    BY <1>3 DEF HoldersInv, FillInv, EmptyInv, Item
  <1>6. RacersInv'
    BY <1>3 DEF RacersInv, RaceInv, Counter, Expected
  <1>7. HistoryInv' /\ DeliveredInv'
    BY DEF HistoryInv, DeliveredInv, Emptying
  <1> QED
    BY <1>1, <1>2, <1>4, <1>5, <1>6, <1>7

\* Every step keeps the invariant.
LEMMA QueueNext == ASSUME StartedQueue, IInv, [Next]_vars PROVE IInv'
  <1>1. ASSUME NEW o \in Offerers, OffererNext(o)
        PROVE  IInv'
    BY <1>1, ThreadFacts, OfferPreserves, AllocSlotsPreserves, AllocFailsPreserves, SetItemSizePreserves,
       InitSequencePreserves, LoadCounterPreserves, LoadSequencePreserves, ExchangeFailsPreserves,
       ClaimTailPreserves, CopyInPreserves, PublishPreserves DEF OffererNext
  <1>2. ASSUME NEW q \in Pollers, PollerNext(q)
        PROVE  IInv'
    BY <1>2, ThreadFacts, LoadCounterPreserves, LoadSequencePreserves, ExchangeFailsPreserves,
       ClaimHeadPreserves, CopyOutPreserves, ReleasePreserves DEF PollerNext
  <1> QED
    BY <1>1, <1>2, QueueStutter DEF Next

\* The inductive invariant holds throughout.
THEOREM QueueInvariant == ASSUME StartedQueue PROVE Spec => []IInv
  BY QueueInit, QueueNext, PTL DEF Spec

\* tp_mpsc_queue_offer and tp_mpsc_queue_poll: a command that was accepted is in
\* the queue, is copied out whole, and is returned by one poll.
THEOREM QueueCorrect == ASSUME StartedQueue PROVE Spec => []QueueSound
  <1>1. ASSUME IInv
        PROVE  QueueSound
    <2> USE <1>1 DEF IInv
    <2>1. /\ head \in Nat /\ tail \in Nat /\ head <= tail /\ Len(claimed) = tail
          /\ pos \in [Threads -> Nat] /\ DOMAIN claimed = 1 .. tail /\ DOMAIN delivered = 1 .. Len(delivered)
      BY DEF TypeOK, BoundsInv
    <2>2. PolledIntact
      BY <2>1, ThreadFacts DEF PolledIntact, HoldersInv, EmptyInv
    <2>3. AcceptedInQueue
      <3> SUFFICES ASSUME NEW n \in head + 1 .. tail, claimed[n] \in accepted
                   PROVE  memory[slots][SlotAt(n - 1)] = [sequence |-> n, data |-> claimed[n]]
        BY <2>1 DEF AcceptedInQueue
      <3>1. slots = 1 /\ n - 1 \in head .. head + Capacity - 1 /\ n - 1 \in Nat /\ n - 1 < tail
        BY <2>1, CapacityAssumption DEF StartInv, BoundsInv
      <3>2. TakenSlot(n - 1) /\ claimed[(n - 1) + 1] = claimed[n]
        BY <2>1, <3>1 DEF SlotsInv
      <3>3. ~ \E o \in Offerers : Filling(o, n - 1)
        <4> SUFFICES ASSUME NEW o \in Offerers, Filling(o, n - 1)
                     PROVE  FALSE
          OBVIOUS
        <4>1. claimed[n] = Item(o)
          BY <3>2 DEF Filling, HoldersInv, FillInv
        <4>2. Item(o)[1] = o /\ Item(o)[2] = sent[o]
          BY DEF Item
        <4> QED
          BY <4>1, <4>2 DEF HistoryInv, Filling
      <3>4. Number(n - 1) = n /\ Command(n - 1) = claimed[n]
        BY <2>1, <3>1, <3>2, <3>3 DEF TakenSlot
      <3>5. memory[1] \in SlotArrays /\ SlotAt(n - 1) \in Index
        BY <3>1, RingTypes, SlotInRing
      <3> QED
        BY <3>1, <3>4, <3>5 DEF Number, Command, SlotArrays
    <2>4. DeliveredOnce
      BY <2>1 DEF DeliveredOnce, DeliveredInv
    <2> QED
      BY <2>2, <2>3, <2>4 DEF QueueSound
  <1> QED
    BY <1>1, QueueInvariant, PTL

\* tp_mpsc_queue_offer answers EAGAIN only when the slot of its position is taken
\* by a command inside the queue or by one that a poll is copying out.
THEOREM RefusalMeansFull == ASSUME StartedQueue PROVE Spec => RefusedOnlyWhenFull
  <1> DEFINE Justified(o) ==
               \/ pos[o] >= head + Capacity
               \/ \E q \in Pollers : pc[q] \in {"copy", "release"} /\ pos[q] + Capacity = pos[o]
             Refusal == \A o \in Offerers :
               pc[o] = "load" /\ pc'[o] = "idle" =>
                  \/ pos[o] >= head + Capacity
                  \/ \E p \in Pollers : pc[p] \in {"copy", "release"} /\ pos[p] + Capacity = pos[o]
  <1>1. ASSUME IInv, Next, NEW o \in Offerers, pc[o] = "load", pc'[o] = "idle"
        PROVE  Justified(o)
    <2> USE <1>1 DEF IInv
    <2>1. /\ pc \in [Threads -> Labels] /\ pos \in [Threads -> Nat] /\ head \in Nat /\ tail \in Nat
          /\ o \in Threads /\ slots = 1 /\ pos[o] <= tail
      BY ThreadFacts DEF TypeOK, RacersInv, RaceInv, Counter
    <2>2. LoadSequence(o)
      <3>1. ASSUME NEW u \in Offerers, OffererNext(u)
            PROVE  LoadSequence(o)
        BY <2>1, <3>1, ThreadFacts DEF OffererNext, Offer, AllocSlots, AllocFails, SetItemSize, InitSequence,
           LoadCounter, LoadSequence, ExchangeFails, ClaimTail, CopyIn, Publish, Goto
      <3>2. ASSUME NEW q \in Pollers, PollerNext(q)
            PROVE  pc'[o] = pc[o]
        BY <2>1, <3>2, ThreadFacts DEF PollerNext, LoadCounter, LoadSequence, ExchangeFails, ClaimHead,
           CopyOut, Release, Goto
      <3> QED
        BY <3>1, <3>2 DEF Next
    <2>3. Number(pos[o]) < pos[o]
      <3>1. pc'[o] = Branch(Number(pos[o]), pos[o])
        BY <2>1, <2>2 DEF LoadSequence, Goto, Number, Expected
      <3> QED
        BY <2>1, <3>1, RingTypes DEF Branch
    <2>4. CASE pos[o] < head
      \* The slot has gone on to a later lap: its number is above pos[o].
      <3>1. PICK p \in head .. head + Capacity - 1 : SlotAt(p) = SlotAt(pos[o])
        BY <2>1, PositionOfSlot, SlotInRing
      <3>2. p \in Nat /\ p >= pos[o] + Capacity
        BY <2>1, <2>4, <3>1, SlotsApart, CapacityAssumption
      <3>3. Number(p) = Number(pos[o])
        BY <3>1 DEF Number
      <3>4. TakenSlot(p) \/ FreeSlot(p)
        BY <2>1 DEF SlotsInv
      <3>5. ~ Unnumbered(p)
        BY <2>1, <2>4, ThreadFacts DEF StartInv, Numbering, Unnumbered, BoundsInv
      <3> QED
        BY <2>1, <2>3, <3>2, <3>3, <3>4, <3>5, CapacityAssumption DEF TakenSlot, FreeSlot
    <2>5. CASE pos[o] \in head .. head + Capacity - 1
      <3>1. IF pos[o] < tail THEN TakenSlot(pos[o]) ELSE FreeSlot(pos[o])
        BY <2>1, <2>5 DEF SlotsInv
      <3>2. ~ TakenSlot(pos[o])
        BY <2>1, <2>3 DEF TakenSlot
      <3>3. FreeSlot(pos[o])
        BY <3>1, <3>2
      <3>4. ~ (Unnumbered(pos[o]) /\ Number(pos[o]) = 0)
        BY <2>1, <2>3, ThreadFacts DEF StartInv, Numbering, Unnumbered
      <3>5. PICK q \in Pollers : Emptying(q, pos[o] - Capacity) /\ pos[o] >= Capacity
        BY <2>1, <2>3, <3>3, <3>4 DEF FreeSlot
      <3> QED
        BY <2>1, <3>5, CapacityAssumption, ThreadFacts DEF Emptying
    <2> QED
      BY <2>1, <2>4, <2>5, CapacityAssumption
  <1>2. IInv /\ [Next]_vars => [Refusal]_vars
    BY <1>1
  <1>3. RefusedOnlyWhenFull <=> [][Refusal]_vars
    BY DEF RefusedOnlyWhenFull
  <1> HIDE DEF Refusal
  <1> QED
    BY <1>2, <1>3, QueueInvariant, PTL DEF Spec

\* An element more at the end of a sequence, and of what is left of it.
LEMMA AppendedTail ==
    ASSUME NEW S, NEW s \in Seq(S), NEW e \in S, NEW h \in Nat, h <= Len(s)
    PROVE  /\ SubSeq(Append(s, e), h + 1, Len(Append(s, e))) = Append(SubSeq(s, h + 1, Len(s)), e)
           /\ SubSeq(Append(s, e), 1, h) = SubSeq(s, 1, h)
  <1>1. Len(Append(s, e)) = Len(s) + 1 /\ \A i \in 1 .. Len(s) : Append(s, e)[i] = s[i]
    OBVIOUS
  <1>2. SubSeq(Append(s, e), h + 1, Len(s) + 1) = Append(SubSeq(s, h + 1, Len(s)), e)
    <2>0. Append(s, e) \in Seq(S) /\ Len(s) + 1 \in Nat /\ h + 1 \in Nat
      OBVIOUS
    <2>1. PICK t \in Seq(S), n \in Nat, m \in Nat : t = Append(s, e) /\ n = Len(s) + 1 /\ m = h + 1
      BY <2>0
    <2>2. m \in 1 .. Len(t) /\ n \in m .. Len(t) /\ t[n] = e /\ n - 1 = Len(s)
      BY <1>1, <2>1
    <2>3. SubSeq(t, m, n) = SubSeq(t, m, n - 1) \o <<t[n]>>
      BY <2>1, <2>2, SubSeqRecursiveSecond
    <2>4. SubSeq(Append(s, e), h + 1, Len(s)) = SubSeq(s, h + 1, Len(s))
      OBVIOUS
    <2>a. \A i \in h + 1 .. Len(s) : s[i] \in S
      OBVIOUS
    <2>b. h + 1 \in Int /\ Len(s) \in Int
      OBVIOUS
    <2>5. PICK q \in Seq(S) : q = SubSeq(s, h + 1, Len(s))
      BY <2>a, <2>b, SubSeqProperties
    <2>6. Append(q, e) = q \o <<e>>
      BY AppendIsConcat
    <2> QED
      BY <2>1, <2>2, <2>3, <2>4, <2>5, <2>6
  <1>3. SubSeq(Append(s, e), 1, h) = SubSeq(s, 1, h)
    OBVIOUS
  <1> QED
    BY <1>1, <1>2, <1>3

\* The queue implements the bounded FIFO of module BoundedFifo.
THEOREM QueueIsFifo == ASSUME StartedQueue PROVE Spec => ImplementsFifo
  <1>1. Init => Fifo!Init
    <2> SUFFICES ASSUME Init
                 PROVE  Fifo!Init
      OBVIOUS
    <2>1. claimed = << >> /\ head = 0 /\ Len(claimed) = 0
      BY DEF Init
    <2> QED
      BY <2>1, SubSeqEmpty DEF Fifo!Init
  <1>2. ASSUME IInv, [Next]_vars
        PROVE  [Fifo!Next]_(Fifo!vars)
    <2> USE <1>2 DEF IInv
    <2>1. /\ head \in Nat /\ tail \in Nat /\ head <= tail /\ tail <= head + Capacity /\ Len(claimed) = tail
          /\ claimed \in Seq(Items)
      BY DEF TypeOK, BoundsInv
    <2>2. ASSUME NEW o \in Offerers, ClaimTail(o)
          PROVE  Fifo!Next
      <3>1. claimed' = Append(claimed, Item(o)) /\ head' = head /\ pos[o] = tail /\ pc[o] = "cas"
        BY <2>2 DEF ClaimTail, Wins, Counter
      <3>2. tail < head + Capacity
        <4>1. slots = 1 /\ Number(tail) = tail
          BY <3>1, ThreadFacts DEF RacersInv, RaceInv, Counter, Expected
        <4> QED
          BY <4>1, TailFree
      <3>3. Item(o) \in Items
        BY <3>1, OfferedItem
      <3>4. Len(SubSeq(claimed, head + 1, Len(claimed))) < Capacity
        <4>1. \A i \in head + 1 .. tail : claimed[i] \in Items
          BY <2>1, ElementOfSeq
        <4>2. Len(SubSeq(claimed, head + 1, tail)) = IF head + 1 <= tail THEN tail - (head + 1) + 1 ELSE 0
          BY <2>1, <4>1, SubSeqProperties
        <4>3. Len(SubSeq(claimed, head + 1, Len(claimed))) = tail - head
          BY <2>1, <4>2
        <4> QED
          BY <2>1, <3>2, <4>3, CapacityAssumption
      <3>5. SubSeq(claimed', head + 1, Len(claimed')) = Append(SubSeq(claimed, head + 1, Len(claimed)), Item(o))
        BY <2>1, <3>1, <3>3, AppendedTail
      <3>6. SubSeq(claimed', 1, head) = SubSeq(claimed, 1, head)
        BY <2>1, <3>1, <3>3, AppendedTail
      <3> QED
        BY <3>1, <3>3, <3>4, <3>5, <3>6 DEF Fifo!Next, Fifo!Put
    <2>3. ASSUME NEW q \in Pollers, ClaimHead(q)
          PROVE  Fifo!Next
      <3>1. claimed' = claimed /\ head' = head + 1 /\ pos[q] = head /\ pc[q] = "cas"
        BY <2>3, ThreadFacts DEF ClaimHead, Wins, Counter, history
      <3>2. head < tail
        <4>1. slots = 1 /\ Number(head) = head + 1
          BY <3>1, ThreadFacts DEF RacersInv, RaceInv, Counter, Expected
        <4> QED
          BY <4>1, HeadPublished
      <3> DEFINE inside == SubSeq(claimed, head + 1, tail)
                 before == SubSeq(claimed, 1, head)
      <3>3. inside # << >>
        BY <2>1, <3>2
      <3>4. SubSeq(claimed, head + 2, tail) = Tail(inside)
        BY <2>1, <3>2
      <3>5. SubSeq(claimed, 1, head + 1) = Append(before, Head(inside))
        BY <2>1, <3>2
      <3>6. /\ SubSeq(claimed, head + 1, Len(claimed)) = inside
            /\ SubSeq(claimed', head' + 1, Len(claimed')) = SubSeq(claimed, head + 2, tail)
            /\ SubSeq(claimed', 1, head') = SubSeq(claimed, 1, head + 1)
        BY <2>1, <3>1
      <3> HIDE DEF inside, before
      <3>7. Fifo!Take
        BY <3>3, <3>4, <3>5, <3>6 DEF Fifo!Take, before
      <3> QED
        BY <3>7 DEF Fifo!Next
    <2>4. CASE UNCHANGED <<claimed, head>>
      BY <2>4 DEF Fifo!vars
    <2>5. ASSUME NEW o \in Offerers, OffererNext(o), ~ ClaimTail(o)
          PROVE  UNCHANGED <<claimed, head>>
      BY <2>5 DEF OffererNext, Offer, AllocSlots, AllocFails, SetItemSize, InitSequence, LoadCounter,
         LoadSequence, ExchangeFails, CopyIn, Publish, queue, history
    <2>6. ASSUME NEW q \in Pollers, PollerNext(q), ~ ClaimHead(q)
          PROVE  UNCHANGED <<claimed, head>>
      BY <2>6 DEF PollerNext, LoadCounter, LoadSequence, ExchangeFails, CopyOut, Release, queue, history
    <2> QED
      BY <2>2, <2>3, <2>4, <2>5, <2>6 DEF Next, vars
  <1> QED
    BY <1>1, <1>2, QueueInvariant, PTL DEF Spec, ImplementsFifo, Fifo!Spec

=============================================================================
