------------------------ MODULE ClientConductorProofs ------------------------
(***************************************************************************)
(* The conductor's safety properties for any number of handles and pollers *)
(* and any capacity, when one thread does everything (the agent invoker).  *)
(***************************************************************************)
EXTENDS ClientConductor, SequenceTheorems, FiniteSetTheorems, TLAPS

\* The setting of the theorem: callers run on the thread that runs do_work.
OneThread == ~Apart

-----------------------------------------------------------------------------
(* Lists                                                                   *)

\* A sequence with an element put at its end: the command queue after an offer.
LEMMA Appended ==
    ASSUME NEW S, NEW s \in Seq(S), NEW x \in S
    PROVE  /\ Append(s, x) \in Seq(S) /\ Len(Append(s, x)) = Len(s) + 1
           /\ ToSet(Append(s, x)) = ToSet(s) \cup {x}
           /\ IsInjective(s) /\ x \notin ToSet(s) => IsInjective(Append(s, x))
  <1> DEFINE t == Append(s, x)
  <1>1. /\ t \in Seq(S) /\ Len(t) = Len(s) + 1 /\ Len(s) \in Nat /\ DOMAIN t = 1 .. Len(s) + 1 /\ DOMAIN s = 1 .. Len(s)
        /\ t[Len(s) + 1] = x /\ \A i \in 1 .. Len(s) : t[i] = s[i]
    BY AppendProperties, LenProperties
  <1> HIDE DEF t
  <1>2. ToSet(t) = ToSet(s) \cup {x}
    <2>1. \A y \in ToSet(t) : y \in ToSet(s) \cup {x}
      BY <1>1 DEF ToSet
    <2>2. x \in ToSet(t) /\ \A y \in ToSet(s) : y \in ToSet(t)
      BY <1>1 DEF ToSet
    <2> QED BY <2>1, <2>2
  <1>3. IsInjective(s) /\ x \notin ToSet(s) => IsInjective(t)
    BY <1>1 DEF IsInjective, ToSet
  <1> QED BY <1>1, <1>2, <1>3 DEF t

\* A sequence with an element put in front: the new head of the pending list.
LEMMA Prepended ==
    ASSUME NEW S, NEW s \in Seq(S), NEW x \in S
    PROVE  /\ <<x>> \o s \in Seq(S)
           /\ ToSet(<<x>> \o s) = ToSet(s) \cup {x}
           /\ IsInjective(s) /\ x \notin ToSet(s) => IsInjective(<<x>> \o s)
  <1> DEFINE t == <<x>> \o s
  <1>0. <<x>> \in Seq(S) /\ Len(<<x>>) = 1 /\ <<x>>[1] = x
    OBVIOUS
  <1>1. /\ t \in Seq(S) /\ Len(t) = Len(s) + 1 /\ Len(s) \in Nat /\ DOMAIN t = 1 .. Len(s) + 1 /\ DOMAIN s = 1 .. Len(s)
        /\ t[1] = x /\ \A i \in 1 .. Len(s) : t[i + 1] = s[i]
    BY <1>0, ConcatProperties, LenProperties
  <1> HIDE DEF t
  <1>2. \A i \in 1 .. Len(s) + 1 : i = 1 \/ (i - 1 \in 1 .. Len(s) /\ t[i] = s[i - 1])
    <2> TAKE i \in 1 .. Len(s) + 1
    <2>1. CASE i # 1
      <3>1. i - 1 \in 1 .. Len(s) /\ (i - 1) + 1 = i
        BY <1>1, <2>1
      <3> QED BY <1>1, <3>1
    <2> QED BY <2>1
  <1>3. ToSet(t) = ToSet(s) \cup {x}
    <2>1. \A y \in ToSet(t) : y \in ToSet(s) \cup {x}
      BY <1>1, <1>2 DEF ToSet
    <2>2. x \in ToSet(t) /\ \A y \in ToSet(s) : y \in ToSet(t)
      <3>1. 1 \in 1 .. Len(s) + 1 /\ \A i \in 1 .. Len(s) : i + 1 \in 1 .. Len(s) + 1
        BY <1>1
      <3> QED BY <1>1, <3>1 DEF ToSet
    <2> QED BY <2>1, <2>2
  <1>4. ASSUME IsInjective(s), x \notin ToSet(s) PROVE IsInjective(t)
    <2> SUFFICES ASSUME NEW i \in 1 .. Len(s) + 1, NEW j \in 1 .. Len(s) + 1, t[i] = t[j] PROVE i = j
      BY <1>1 DEF IsInjective
    <2>1. CASE i = 1 \/ j = 1
      BY <1>1, <1>2, <1>4, <2>1 DEF ToSet
    <2>2. CASE i # 1 /\ j # 1
      <3>1. i - 1 = j - 1
        BY <1>1, <1>2, <1>4, <2>2 DEF IsInjective
      <3> QED BY <3>1
    <2> QED BY <2>1, <2>2
  <1> QED BY <1>1, <1>3, <1>4 DEF t

\* A sequence without its head: the queue after a command was taken.
LEMMA HeadTaken ==
    ASSUME NEW S, NEW s \in Seq(S), s # <<>>, IsInjective(s)
    PROVE  /\ Head(s) \in S /\ Head(s) \in ToSet(s)
           /\ Tail(s) \in Seq(S) /\ Len(Tail(s)) = Len(s) - 1
           /\ ToSet(Tail(s)) = ToSet(s) \ {Head(s)}
           /\ IsInjective(Tail(s))
  <1> DEFINE t == Tail(s)
  <1>1. /\ t \in Seq(S) /\ Len(t) = Len(s) - 1 /\ Len(s) \in Nat /\ Len(s) >= 1
        /\ DOMAIN t = 1 .. Len(s) - 1 /\ DOMAIN s = 1 .. Len(s)
        /\ Head(s) = s[1] /\ Head(s) \in S /\ \A i \in 1 .. Len(s) - 1 : t[i] = s[i + 1]
    BY HeadTailProperties, LenProperties, EmptySeq
  <1> HIDE DEF t
  <1>2. Head(s) \in ToSet(s)
    BY <1>1 DEF ToSet
  <1>3. ToSet(t) = ToSet(s) \ {Head(s)}
    <2>1. \A y \in ToSet(t) : y \in ToSet(s) /\ y # s[1]
      <3>1. \A i \in 1 .. Len(s) - 1 : i + 1 \in 1 .. Len(s) /\ i + 1 # 1 /\ 1 \in 1 .. Len(s)
        BY <1>1
      <3> QED BY <1>1, <3>1 DEF ToSet, IsInjective
    <2>2. \A y \in ToSet(s) : y # s[1] => y \in ToSet(t)
      <3> SUFFICES ASSUME NEW i \in 1 .. Len(s), s[i] # s[1] PROVE s[i] \in ToSet(t)
        BY <1>1 DEF ToSet
      <3>1. i - 1 \in 1 .. Len(s) - 1 /\ (i - 1) + 1 = i
        BY <1>1
      <3>2. t[i - 1] = s[i]
        BY <1>1, <3>1
      <3> QED BY <1>1, <3>1, <3>2 DEF ToSet
    <2> QED BY <1>1, <2>1, <2>2
  <1>4. IsInjective(t)
    <2> SUFFICES ASSUME NEW i \in 1 .. Len(s) - 1, NEW j \in 1 .. Len(s) - 1, t[i] = t[j] PROVE i = j
      BY <1>1 DEF IsInjective
    <2>1. i + 1 \in 1 .. Len(s) /\ j + 1 \in 1 .. Len(s) /\ s[i + 1] = s[j + 1]
      BY <1>1
    <2>2. i + 1 = j + 1
      BY <1>1, <2>1 DEF IsInjective
    <2> QED BY <2>2
  <1> QED BY <1>1, <1>2, <1>3, <1>4 DEF t

\* A stretch of a list.
LEMMA Stretch ==
    ASSUME NEW S, NEW s \in Seq(S), NEW m \in 1 .. Len(s) + 1, NEW n \in m - 1 .. Len(s)
    PROVE  /\ SubSeq(s, m, n) \in Seq(S) /\ Len(SubSeq(s, m, n)) = n - m + 1
           /\ \A i \in 1 .. n - m + 1 : SubSeq(s, m, n)[i] = s[m + i - 1]
  <1>1. m \in Int /\ n \in Int /\ Len(s) \in Nat /\ m <= n + 1
    BY LenProperties
  <1>2. \A i \in m .. n : s[i] \in S
    BY <1>1, ElementOfSeq
  <1>3. /\ SubSeq(s, m, n) \in Seq(S)
        /\ Len(SubSeq(s, m, n)) = IF m <= n THEN n - m + 1 ELSE 0
        /\ \A i \in 1 .. Len(SubSeq(s, m, n)) : SubSeq(s, m, n)[i] = s[m + i - 1]
    BY <1>1, <1>2, SubSeqProperties
  <1>4. (IF m <= n THEN n - m + 1 ELSE 0) = n - m + 1
    BY <1>1
  <1> QED BY <1>3, <1>4

\* A sequence of distinct elements without the one at a place: a list after an unlinking.
LEMMA RemovedAt ==
    ASSUME NEW S, NEW s \in Seq(S), NEW k \in 1 .. Len(s), IsInjective(s)
    PROVE  /\ RemoveAt(s, k) \in Seq(S) /\ Len(RemoveAt(s, k)) = Len(s) - 1
           /\ ToSet(RemoveAt(s, k)) = ToSet(s) \ {s[k]}
           /\ IsInjective(RemoveAt(s, k))
  <1> DEFINE n == Len(s)
             a == SubSeq(s, 1, k - 1)
             b == SubSeq(s, k + 1, n)
             t == RemoveAt(s, k)
  <1>n. n \in Nat /\ k \in Nat /\ k <= n /\ k >= 1 /\ DOMAIN s = 1 .. n
    BY LenProperties
  <1>a. a \in Seq(S) /\ Len(a) = k - 1 /\ \A i \in 1 .. k - 1 : a[i] = s[i]
    <2>1. 1 \in 1 .. Len(s) + 1 /\ k - 1 \in 1 - 1 .. Len(s) /\ (k - 1) - 1 + 1 = k - 1
      BY <1>n
    <2>2. a \in Seq(S) /\ Len(a) = k - 1 /\ \A i \in 1 .. k - 1 : a[i] = s[1 + i - 1]
      BY <2>1, Stretch
    <2>3. \A i \in 1 .. k - 1 : 1 + i - 1 = i
      BY <1>n
    <2> QED BY <2>2, <2>3
  <1>b. b \in Seq(S) /\ Len(b) = n - k /\ \A i \in 1 .. n - k : b[i] = s[i + k]
    <2>1. k + 1 \in 1 .. Len(s) + 1 /\ n \in (k + 1) - 1 .. Len(s) /\ n - (k + 1) + 1 = n - k
      BY <1>n
    <2>2. b \in Seq(S) /\ Len(b) = n - k /\ \A i \in 1 .. n - k : b[i] = s[(k + 1) + i - 1]
      BY <2>1, Stretch, ZenonT(30)
    <2>3. \A i \in 1 .. n - k : (k + 1) + i - 1 = i + k
      BY <1>n
    <2> QED BY <2>2, <2>3
  <1>t. t = a \o b
    BY DEF RemoveAt
  <1> HIDE DEF a, b, t, n
  <1>1. t \in Seq(S) /\ Len(t) = n - 1 /\ DOMAIN t = 1 .. n - 1
    <2>1. t \in Seq(S) /\ Len(t) = Len(a) + Len(b)
      BY <1>a, <1>b, <1>t, ConcatProperties
    <2> QED BY <1>a, <1>b, <1>n, <2>1, LenProperties
  <1>2. \A i \in 1 .. n - 1 : t[i] = IF i < k THEN s[i] ELSE s[i + 1]
    <2>1. \A i \in 1 .. Len(a) + Len(b) : t[i] = IF i <= Len(a) THEN a[i] ELSE b[i - Len(a)]
      BY <1>a, <1>b, <1>t, ConcatProperties
    <2> TAKE i \in 1 .. n - 1
    <2>2. CASE i < k
      BY <1>n, <1>a, <1>b, <2>1, <2>2
    <2>3. CASE ~(i < k)
      <3>1. i - (k - 1) \in 1 .. n - k /\ (i - (k - 1)) + k = i + 1
        BY <1>n, <2>3
      <3>2. t[i] = b[i - (k - 1)]
        BY <1>n, <1>a, <1>b, <2>1, <2>3
      <3> QED BY <1>b, <2>3, <3>1, <3>2
    <2> QED BY <2>2, <2>3
  <1> DEFINE from == [i \in 1 .. n - 1 |-> IF i < k THEN i ELSE i + 1]
  <1>3. \A i \in 1 .. n - 1 : t[i] = s[from[i]] /\ from[i] \in 1 .. n /\ from[i] # k
    BY <1>2, <1>n
  <1>4. \A j \in 1 .. n : j # k => \E i \in 1 .. n - 1 : from[i] = j
    <2> SUFFICES ASSUME NEW j \in 1 .. n, j # k PROVE \E i \in 1 .. n - 1 : from[i] = j
      OBVIOUS
    <2>1. CASE j < k
      <3>1. j \in 1 .. n - 1 /\ from[j] = j
        BY <1>n, <2>1
      <3> QED BY <3>1
    <2>2. CASE ~(j < k)
      <3>1. j - 1 \in 1 .. n - 1 /\ from[j - 1] = j
        BY <1>n, <2>2
      <3> QED BY <3>1
    <2> QED BY <2>1, <2>2
  <1>5. \A i, j \in 1 .. n - 1 : from[i] = from[j] => i = j
    BY <1>n
  <1> HIDE DEF from
  <1>6. ToSet(t) = ToSet(s) \ {s[k]}
    <2>1. \A y \in ToSet(t) : y \in ToSet(s) /\ y # s[k]
      BY <1>1, <1>3, <1>n, SMTT(30) DEF ToSet, IsInjective
    <2>2. \A y \in ToSet(s) : y # s[k] => y \in ToSet(t)
      <3> SUFFICES ASSUME NEW j \in 1 .. n, s[j] # s[k] PROVE s[j] \in ToSet(t)
        BY <1>n DEF ToSet
      <3>1. PICK i \in 1 .. n - 1 : from[i] = j
        BY <1>4
      <3>2. t[i] = s[j]
        BY <1>3, <3>1
      <3> QED BY <1>1, <3>2 DEF ToSet
    <2> QED BY <2>1, <2>2
  <1>7. IsInjective(t)
    <2> SUFFICES ASSUME NEW i \in 1 .. n - 1, NEW j \in 1 .. n - 1, t[i] = t[j] PROVE i = j
      BY <1>1 DEF IsInjective
    <2>1. from[i] = from[j]
      BY <1>3, <1>n DEF IsInjective
    <2> QED BY <2>1, <1>5
  <1> QED BY <1>1, <1>6, <1>7 DEF t, n

\* A stack without its top frame.
LEMMA FrontOfStack ==
    ASSUME NEW S, NEW s \in Seq(S), s # <<>>
    PROVE  /\ Front(s) \in Seq(S) /\ Len(Front(s)) = Len(s) - 1
           /\ \A i \in 1 .. Len(s) - 1 : Front(s)[i] = s[i]
  <1>1. Len(s) \in Nat /\ Len(s) >= 1
    BY EmptySeq, LenProperties
  <1>2. 1 \in 1 .. Len(s) + 1 /\ Len(s) - 1 \in 1 - 1 .. Len(s) /\ (Len(s) - 1) - 1 + 1 = Len(s) - 1
    BY <1>1
  <1>3. /\ Front(s) \in Seq(S) /\ Len(Front(s)) = Len(s) - 1
        /\ \A i \in 1 .. Len(s) - 1 : Front(s)[i] = s[1 + i - 1]
    BY <1>2, Stretch DEF Front
  <1>4. \A i \in 1 .. Len(s) - 1 : 1 + i - 1 = i
    BY <1>1
  <1> QED BY <1>3, <1>4

-----------------------------------------------------------------------------
(* The inductive invariant                                                 *)

\* A frame of the stack of do_work calls, and a handle.
FrameRecord ==
    [pc : {"commands", "pending", "unlink", "walk", "callback"}, list : Lists, at : Nat \ {0},
     entry : Pollers \cup {"none"}]
HandleRecord == [memory : {"none", "live", "freed"}, status : {"pending", "complete", "error"}]

\* The types of the conductor's state.
Shape ==
    /\ client \in {"starting", "open", "failed", "closed"}
    /\ handle \in [Handles -> HandleRecord]
    /\ queue \in Seq(Handles) /\ Len(queue) <= Capacity
    /\ pending \in [Lists -> Seq(Handles)]
    /\ pollers \in Seq(Pollers)
    /\ stack \in Seq(FrameRecord)

\* The outermost do_work is in a poller's callback.
InCallback == stack # <<>> /\ stack[1].pc = "callback"

\* A do_work inside a callback never calls one: it finds the depth at 1 and does not
\* walk the list.  So there are two frames at most, and the outer one holds the depth.
StackSound ==
    /\ Len(stack) <= 2 /\ Len(stack) <= MaxDepth
    /\ Len(stack) = 2 => stack[1].pc = "callback" /\ stack[2].pc # "callback"
    /\ depth = IF InCallback THEN 1 ELSE 0
    /\ IsInjective(pollers)
    /\ InCallback => stack[1].entry \in ToSet(pollers)
    /\ client = "closed" => stack = <<>>

\* The cursor of the innermost do_work is on its list.
CursorSound == At("unlink") => Top.at <= Len(pending[Top.list])

\* The add of h was accepted and has no outcome yet.
Waits(h) == handle[h].memory = "live" /\ handle[h].status = "pending"

\* The lists hold what waits, each handle once, and besides only the handle that is
\* being taken off, which its caller has not seen resolved yet.
ListsSound ==
    /\ IsInjective(queue) /\ \A l \in Lists : IsInjective(pending[l])
    /\ \A h \in ToSet(queue) : Waits(h) /\ \A l \in Lists : h \notin ToSet(pending[l])
    /\ \A l \in Lists : \A h \in ToSet(pending[l]) :
         l = ListOf(h) /\ handle[h].memory = "live" /\ (handle[h].status = "pending" <=> h \notin Unlinking)
    /\ client # "closed" => \A h \in Handles : Waits(h) => h \in ToSet(queue) \cup ToSet(pending[ListOf(h)])

\* The inductive invariant.
IInv == Shape /\ StackSound /\ CursorSound /\ ListsSound

-----------------------------------------------------------------------------
(* The stack                                                               *)

\* What the stack looks like.
LEMMA StackFacts ==
    ASSUME IInv
    PROVE  /\ Len(stack) \in 0 .. 2 /\ DOMAIN stack = 1 .. Len(stack)
           /\ stack = <<>> <=> Len(stack) = 0
           /\ stack # <<>> => Top \in FrameRecord /\ Top = stack[Len(stack)] /\ stack[1] \in FrameRecord
           /\ stack # <<>> => (Top.pc = "callback" <=> Len(stack) = 1 /\ InCallback)
  <1>1. stack \in Seq(FrameRecord) /\ Len(stack) \in Nat /\ DOMAIN stack = 1 .. Len(stack) /\ Len(stack) <= 2
    BY LenProperties DEF IInv, Shape, StackSound
  <1>2. stack = <<>> <=> Len(stack) = 0
    BY <1>1, EmptySeq
  <1>3. stack # <<>> => Top \in FrameRecord /\ Top = stack[Len(stack)] /\ stack[1] \in FrameRecord
    BY <1>1, <1>2, ElementOfSeq DEF Top
  <1>4. stack # <<>> => (Top.pc = "callback" <=> Len(stack) = 1 /\ InCallback)
    BY <1>1, <1>2, <1>3 DEF InCallback, IInv, StackSound
  <1> QED BY <1>1, <1>2, <1>3, <1>4

\* The innermost frame goes on.
LEMMA GotoFacts ==
    ASSUME IInv, stack # <<>>, NEW f \in FrameRecord, Goto(f)
    PROVE  /\ stack' \in Seq(FrameRecord) /\ Len(stack') = Len(stack) /\ stack' # <<>>
           /\ stack'[Len(stack)] = f /\ Top' = f
           /\ Len(stack) = 2 => stack'[1] = stack[1]
  <1>1. stack \in Seq(FrameRecord) /\ Len(stack) \in 1 .. 2 /\ DOMAIN stack = 1 .. Len(stack)
    BY StackFacts DEF IInv, Shape
  <1>2. stack' = [stack EXCEPT ![Len(stack)] = f]
    BY DEF Goto
  <1>3. stack' \in Seq(FrameRecord) /\ Len(stack') = Len(stack)
    BY <1>1, <1>2, ExceptSeq
  <1>4. stack'[Len(stack)] = f /\ (Len(stack) = 2 => stack'[1] = stack[1])
    BY <1>1, <1>2
  <1>5. stack' # <<>>
    BY <1>1, <1>3, EmptySeq
  <1> QED BY <1>3, <1>4, <1>5 DEF Top

\* do_work goes on without walking the list.
LEMMA MovesOn ==
    ASSUME IInv, stack # <<>>, Top.pc # "callback", NEW f \in FrameRecord, f.pc # "callback", Goto(f),
           UNCHANGED <<client, pollers, depth>>
    PROVE  stack' \in Seq(FrameRecord) /\ StackSound' /\ Top' = f /\ stack' # <<>>
  <1>1. /\ stack' \in Seq(FrameRecord) /\ Len(stack') = Len(stack) /\ stack' # <<>>
        /\ stack'[Len(stack)] = f /\ Top' = f /\ (Len(stack) = 2 => stack'[1] = stack[1])
    BY GotoFacts
  <1>2. Len(stack) \in 1 .. 2 /\ Top = stack[Len(stack)]
    BY StackFacts
  <1>3. InCallback' <=> InCallback
    BY <1>1, <1>2 DEF InCallback
  <1>4. InCallback => stack'[1] = stack[1]
    BY <1>1, <1>2 DEF InCallback
  <1>5. client # "closed"
    BY DEF IInv, StackSound
  <1> QED BY <1>1, <1>2, <1>3, <1>4, <1>5 DEF IInv, StackSound

\* do_work returns.
LEMMA Returns ==
    ASSUME IInv, stack # <<>>, Return, UNCHANGED <<client, pollers>>,
           depth' = IF Top.pc = "callback" THEN depth - 1 ELSE depth
    PROVE  stack' \in Seq(FrameRecord) /\ StackSound' /\ (stack' = <<>> \/ Top'.pc = "callback")
  <1>1. stack \in Seq(FrameRecord) /\ Len(stack) \in 1 .. 2
    BY StackFacts DEF IInv, Shape
  <1>2. /\ stack' \in Seq(FrameRecord) /\ Len(stack') = Len(stack) - 1
        /\ \A i \in 1 .. Len(stack) - 1 : stack'[i] = stack[i]
    BY <1>1, FrontOfStack DEF Return
  <1>5. client # "closed"
    BY DEF IInv, StackSound
  <1>3. CASE Len(stack) = 1
    <2>1. stack' = <<>> /\ Len(stack') = 0
      BY <1>2, <1>3, EmptySeq
    <2>2. depth' = 0
      BY <1>3, StackFacts DEF IInv, StackSound
    <2>3. 0 <= MaxDepth /\ 0 <= 2
      BY ConductorAssumption
    <2>4. ~InCallback'
      BY <2>1 DEF InCallback
    <2>5. StackSound'
      BY <1>5, <2>1, <2>2, <2>3, <2>4 DEF IInv, StackSound
    <2> QED BY <1>2, <2>1, <2>5
  <1>4. CASE Len(stack) = 2
    <2>1. Len(stack') = 1 /\ stack'[1] = stack[1] /\ stack' # <<>>
      <3>1. Len(stack') = 1
        BY <1>2, <1>4
      <3>2. 1 \in 1 .. Len(stack) - 1
        BY <1>4
      <3>3. stack'[1] = stack[1]
        BY <1>2, <3>2
      <3>4. stack' # <<>>
        BY <3>1, EmptySeq
      <3> QED BY <3>1, <3>3, <3>4
    <2>2. InCallback /\ InCallback' /\ Top.pc # "callback" /\ Top'.pc = "callback"
      BY <1>4, <2>1, StackFacts DEF IInv, StackSound, InCallback, Top
    <2>3. MaxDepth >= 1
      BY ConductorAssumption
    <2> QED BY <1>2, <1>5, <2>1, <2>2, <2>3 DEF IInv, StackSound
  <1> QED BY <1>1, <1>3, <1>4

-----------------------------------------------------------------------------
(* The lists                                                               *)

\* Between the store of a status and the unlinking, one handle is in between.
LEMMA NotUnlinking ==
    ASSUME stack = <<>> \/ Top.pc # "unlink"
    PROVE  Unlinking = {} /\ CursorSound
  BY DEF Unlinking, At, CursorSound

\* The lists hold handles, and each handle has one list it belongs to.
LEMMA HandleFacts ==
    ASSUME IInv
    PROVE  /\ \A h \in ToSet(queue) : h \in Handles
           /\ \A l \in Lists : \A h \in ToSet(pending[l]) : h \in Handles
           /\ \A h \in Handles : handle[h] \in HandleRecord
           /\ \A h \in Handles : ListOf(h) \in Lists
  <1>1. \A s \in Seq(Handles) : \A h \in ToSet(s) : h \in Handles
    BY LenProperties DEF ToSet
  <1> QED BY <1>1 DEF IInv, Shape, ListOf, Lists

\* Nothing of the lists changes.
LEMMA ListsKept ==
    ASSUME IInv, UNCHANGED <<client, handle, queue, pending>>,
           stack = <<>> \/ Top.pc # "unlink", stack' = <<>> \/ Top'.pc # "unlink"
    PROVE  ListsSound' /\ CursorSound'
  <1>1. Unlinking = {}
    BY NotUnlinking
  <1>2. Unlinking' = {} /\ CursorSound'
    BY DEF Unlinking, At, CursorSound
  <1> QED BY <1>1, <1>2 DEF IInv, ListsSound, Waits

-----------------------------------------------------------------------------
(* The actions                                                             *)

\* The initial state satisfies the invariant.
LEMMA Initial == Init => IInv
  <1> SUFFICES ASSUME Init PROVE IInv
    OBVIOUS
  <1>1. <<>> \in Seq(Handles) /\ <<>> \in Seq(Pollers) /\ <<>> \in Seq(FrameRecord) /\ Len(<<>>) = 0
    BY EmptySeq
  <1>2. ToSet(<<>>) = {} /\ IsInjective(<<>>)
    BY DEF ToSet, IsInjective
  <1>3. Shape
    BY <1>1, ConductorAssumption DEF Init, Shape, HandleRecord
  <1>4. StackSound
    BY <1>1, <1>2, ConductorAssumption DEF Init, StackSound, InCallback
  <1>5. CursorSound /\ Unlinking = {}
    BY NotUnlinking DEF Init
  <1>6. ListsSound
    BY <1>2 DEF Init, ListsSound, Waits
  <1> QED BY <1>3, <1>4, <1>5, <1>6 DEF IInv

\* Application code runs between calls of do_work or in a callback.
LEMMA AppFacts ==
    ASSUME OneThread, AppRuns
    PROVE  (stack = <<>> \/ Top.pc # "unlink") /\ Unlinking = {} /\ CursorSound
  BY NotUnlinking DEF OneThread, AppRuns, At

\* An add queues a fresh handle, or is refused.
LEMMA AsyncAddStep ==
    ASSUME OneThread, IInv, NEW h \in Handles, AsyncAdd(h) PROVE IInv'
  <1> DEFINE r == [memory |-> "live", status |-> "pending"]
  <1>1. /\ AppRuns /\ client # "closed" /\ handle[h].memory = "none" /\ Len(queue) < Capacity
        /\ handle' = [handle EXCEPT ![h] = r] /\ queue' = Append(queue, h)
        /\ UNCHANGED <<client, pending, subs, pollers, depth, stack, failed>>
    BY DEF AsyncAdd
  <1>2. r \in HandleRecord /\ r.memory = "live" /\ r.status = "pending"
    BY DEF HandleRecord
  <1> HIDE DEF r
  <1>3. h \notin ToSet(queue) /\ \A l \in Lists : h \notin ToSet(pending[l])
    BY <1>1 DEF IInv, ListsSound, Waits
  <1>4. queue \in Seq(Handles) /\ Len(queue) \in Nat /\ handle \in [Handles -> HandleRecord] /\ IsInjective(queue)
    BY LenProperties DEF IInv, Shape, ListsSound
  <1>5. /\ queue' \in Seq(Handles) /\ Len(queue') = Len(queue) + 1 /\ ToSet(queue') = ToSet(queue) \cup {h}
        /\ IsInjective(queue')
    BY <1>1, <1>3, <1>4, Appended
  <1>6. Shape'
    BY <1>1, <1>2, <1>4, <1>5, ConductorAssumption DEF IInv, Shape
  <1>7. StackSound'
    BY <1>1 DEF IInv, StackSound, InCallback
  <1>8. Unlinking = {} /\ Unlinking' = {} /\ CursorSound'
    BY <1>1, AppFacts DEF Unlinking, At, Cursor, Top, CursorSound
  <1>9. \A k \in Handles : handle'[k] = IF k = h THEN r ELSE handle[k]
    BY <1>1, <1>4
  <1>10. ListsSound'
    <2>1. \A k \in ToSet(queue') : Waits(k)' /\ \A l \in Lists : k \notin ToSet(pending'[l])
      BY <1>1, <1>2, <1>3, <1>5, <1>9, HandleFacts DEF IInv, ListsSound, Waits
    <2>2. \A l \in Lists : \A k \in ToSet(pending'[l]) :
            l = ListOf(k) /\ handle'[k].memory = "live" /\ (handle'[k].status = "pending" <=> k \notin Unlinking')
      BY <1>1, <1>3, <1>8, <1>9, HandleFacts DEF IInv, ListsSound
    <2>3. \A k \in Handles : Waits(k)' => k \in ToSet(queue') \cup ToSet(pending'[ListOf(k)])
      BY <1>1, <1>5, <1>9 DEF IInv, ListsSound, Waits
    <2>4. IsInjective(queue') /\ \A l \in Lists : IsInjective(pending'[l])
      BY <1>1, <1>5 DEF IInv, ListsSound
    <2> QED BY <2>1, <2>2, <2>3, <2>4 DEF ListsSound
  <1> QED BY <1>6, <1>7, <1>8, <1>10 DEF IInv

\* A poll of a resolved handle frees it, which no list holds any more.
LEMMA AsyncPollStep ==
    ASSUME OneThread, IInv, NEW h \in Handles, AsyncPoll(h) PROVE IInv'
  <1> DEFINE r == [handle[h] EXCEPT !.memory = "freed"]
  <1>1. /\ AppRuns /\ client # "closed" /\ handle[h].memory = "live" /\ handle[h].status # "pending"
        /\ handle' = [handle EXCEPT ![h] = r]
        /\ UNCHANGED <<queue, pending, pollers, depth, stack, failed>>
    BY DEF AsyncPoll
  <1>c. client' \in {"open", "failed", client} /\ client' # "closed"
    BY <1>1 DEF AsyncPoll
  <1>2. r \in HandleRecord /\ r.memory = "freed"
    BY HandleFacts DEF HandleRecord
  <1> HIDE DEF r
  <1>8. Unlinking = {} /\ Unlinking' = {} /\ CursorSound'
    BY <1>1, AppFacts DEF Unlinking, At, Cursor, Top, CursorSound
  <1>3. h \notin ToSet(queue) /\ \A l \in Lists : h \notin ToSet(pending[l])
    BY <1>1, <1>8 DEF IInv, ListsSound, Waits
  <1>4. handle \in [Handles -> HandleRecord]
    BY DEF IInv, Shape
  <1>6. Shape'
    BY <1>1, <1>c, <1>2, <1>4 DEF IInv, Shape
  <1>7. StackSound'
    BY <1>1, <1>c DEF IInv, StackSound, InCallback
  <1>9. \A k \in Handles : handle'[k] = IF k = h THEN r ELSE handle[k]
    BY <1>1, <1>4
  <1>10. ListsSound'
    <2>1. \A k \in ToSet(queue') : Waits(k)' /\ \A l \in Lists : k \notin ToSet(pending'[l])
      BY <1>1, <1>3, <1>9, HandleFacts DEF IInv, ListsSound, Waits
    <2>2. \A l \in Lists : \A k \in ToSet(pending'[l]) :
            l = ListOf(k) /\ handle'[k].memory = "live" /\ (handle'[k].status = "pending" <=> k \notin Unlinking')
      BY <1>1, <1>3, <1>8, <1>9, HandleFacts DEF IInv, ListsSound
    <2>3. \A k \in Handles : Waits(k)' => k \in ToSet(queue') \cup ToSet(pending'[ListOf(k)])
      BY <1>1, <1>2, <1>9 DEF IInv, ListsSound, Waits
    <2>4. IsInjective(queue') /\ \A l \in Lists : IsInjective(pending'[l])
      BY <1>1 DEF IInv, ListsSound
    <2> QED BY <2>1, <2>2, <2>3, <2>4 DEF ListsSound
  <1> QED BY <1>6, <1>7, <1>8, <1>10 DEF IInv

\* A do_work starts, from the application or inside a callback.
LEMMA DoWorkStep ==
    ASSUME IInv, DoWork PROVE IInv'
  <1> DEFINE f == Frame("commands")
  <1>1. /\ client # "closed" /\ (stack = <<>> \/ (Top.pc = "callback" /\ Len(stack) < MaxDepth))
        /\ stack' = Append(stack, f)
        /\ UNCHANGED <<client, handle, queue, pending, subs, pollers, depth>>
    BY DEF DoWork, At
  <1>2. f \in FrameRecord /\ f.pc = "commands"
    BY DEF Frame, FrameRecord, Lists
  <1> HIDE DEF f
  <1>3. stack \in Seq(FrameRecord) /\ Len(stack) \in 0 .. 1 /\ (stack = <<>> <=> Len(stack) = 0)
    BY <1>1, StackFacts DEF IInv, Shape
  <1>4. /\ stack' \in Seq(FrameRecord) /\ Len(stack') = Len(stack) + 1
        /\ stack'[Len(stack) + 1] = f /\ (Len(stack) = 1 => stack'[1] = stack[1])
    BY <1>1, <1>2, <1>3, AppendProperties
  <1>5. Top' = f /\ stack' # <<>>
    BY <1>3, <1>4, EmptySeq DEF Top
  <1>6. InCallback' <=> InCallback
    BY <1>1, <1>2, <1>3, <1>4, <1>5 DEF InCallback
  <1>7. Len(stack) = 1 => InCallback
    BY <1>1, <1>3, StackFacts
  <1>8. Len(stack') <= 2 /\ Len(stack') <= MaxDepth
    BY <1>1, <1>3, <1>4, ConductorAssumption
  <1>9. Len(stack') = 2 => stack'[1].pc = "callback" /\ stack'[2].pc # "callback"
    <2> SUFFICES ASSUME Len(stack') = 2 PROVE stack'[1].pc = "callback" /\ stack'[2].pc # "callback"
      OBVIOUS
    <2>1. Len(stack) = 1 /\ Len(stack) + 1 = 2
      BY <1>3, <1>4, SMTT(30)
    <2>2. stack'[2] = f /\ stack'[1] = stack[1]
      BY <1>4, <2>1
    <2> QED BY <1>2, <1>7, <2>1, <2>2 DEF InCallback
  <1>10. InCallback' => stack'[1] = stack[1]
    BY <1>1, <1>3, <1>4, <1>6 DEF InCallback
  <1>11. StackSound'
    BY <1>1, <1>6, <1>8, <1>9, <1>10 DEF IInv, StackSound
  <1>12. Shape'
    BY <1>1, <1>4 DEF IInv, Shape
  <1>13. ListsSound' /\ CursorSound'
    BY <1>1, <1>2, <1>5, ListsKept
  <1> QED BY <1>11, <1>12, <1>13 DEF IInv

\* A frame that goes on to look for work.
LEMMA GoesOnStep ==
    ASSUME IInv, stack # <<>>, Top.pc \notin {"callback", "unlink"}, NEW f \in FrameRecord,
           f.pc \notin {"callback", "unlink"}, Goto(f), UNCHANGED <<client, handle, queue, pending, pollers, depth>>
    PROVE  IInv'
  <1>1. stack' \in Seq(FrameRecord) /\ StackSound' /\ Top' = f
    BY MovesOn
  <1>2. ListsSound' /\ CursorSound'
    BY <1>1, ListsKept
  <1>3. Shape'
    BY <1>1 DEF IInv, Shape
  <1> QED BY <1>1, <1>2, <1>3 DEF IInv

\* What do_work makes of its frame is a frame.
LEMMA FramesTyped ==
    ASSUME IInv, stack # <<>>
    PROVE  /\ \A pc \in {"pending", "walk"} : Frame(pc) \in FrameRecord /\ Frame(pc).pc = pc
           /\ [Top EXCEPT !.at = @ + 1] \in FrameRecord /\ [Top EXCEPT !.at = @ + 1].pc = Top.pc
           /\ [Top EXCEPT !.list = "subs", !.at = 1] \in FrameRecord /\ [Top EXCEPT !.list = "subs", !.at = 1].pc = Top.pc
           /\ \A pc \in {"pending", "unlink"} : /\ [Top EXCEPT !.pc = pc] \in FrameRecord
                                                /\ [Top EXCEPT !.pc = pc].pc = pc
                                                /\ [Top EXCEPT !.pc = pc].list = Top.list
                                                /\ [Top EXCEPT !.pc = pc].at = Top.at
  <1>1. Top \in FrameRecord
    BY StackFacts
  <1>2. \A pc \in {"pending", "walk"} : Frame(pc) \in FrameRecord /\ Frame(pc).pc = pc
    BY DEF Frame, FrameRecord, Lists
  <1> HIDE DEF Top
  <1>3. [Top EXCEPT !.at = @ + 1] \in FrameRecord /\ [Top EXCEPT !.at = @ + 1].pc = Top.pc
    BY <1>1 DEF FrameRecord
  <1>4. [Top EXCEPT !.list = "subs", !.at = 1] \in FrameRecord /\ [Top EXCEPT !.list = "subs", !.at = 1].pc = Top.pc
    <2>1. "subs" \in Lists /\ 1 \in Nat \ {0}
      BY DEF Lists
    <2> QED BY <1>1, <2>1 DEF FrameRecord
  <1>5. \A pc \in {"pending", "unlink"} : /\ [Top EXCEPT !.pc = pc] \in FrameRecord
                                          /\ [Top EXCEPT !.pc = pc].pc = pc
                                          /\ [Top EXCEPT !.pc = pc].list = Top.list
                                          /\ [Top EXCEPT !.pc = pc].at = Top.at
    BY <1>1 DEF FrameRecord
  <1> QED BY <1>2, <1>3, <1>4, <1>5

\* The steps of do_work that only move it on keep the invariant.
LEMMA GoingOn ==
    ASSUME IInv, CommandsDone \/ StillPending \/ PendingDone PROVE IInv'
  <1>1. CASE CommandsDone
    BY <1>1, FramesTyped, GoesOnStep DEF CommandsDone, At
  <1>2. CASE StillPending
    BY <1>2, FramesTyped, GoesOnStep DEF StillPending, AtPending, At
  <1>3. CASE PendingDone
    BY <1>3, FramesTyped, GoesOnStep DEF PendingDone, At
  <1> QED BY <1>1, <1>2, <1>3

\* A command moves its handle from the queue to the pending list, or resolves it at once.
LEMMA ProcessCommandStep ==
    ASSUME IInv, ProcessCommand PROVE IInv'
  <1>0. PICK h : h = Head(queue)
    OBVIOUS
  <1>1. /\ stack # <<>> /\ Top.pc = "commands" /\ queue # <<>> /\ queue' = Tail(queue)
        /\ UNCHANGED <<client, subs, pollers, depth, stack, failed>>
    BY DEF ProcessCommand, At
  <1>2. \/ handle' = [handle EXCEPT ![h].status = "error"] /\ UNCHANGED pending
        \/ pending' = [pending EXCEPT ![ListOf(h)] = <<h>> \o @] /\ UNCHANGED handle
    BY <1>0 DEF ProcessCommand
  <1>3. /\ h \in Handles /\ h \in ToSet(queue) /\ queue' \in Seq(Handles) /\ Len(queue') = Len(queue) - 1
        /\ ToSet(queue') = ToSet(queue) \ {h} /\ IsInjective(queue') /\ Len(queue) \in Nat
    BY <1>0, <1>1, HeadTaken, LenProperties DEF IInv, Shape, ListsSound
  <1>4. /\ handle \in [Handles -> HandleRecord] /\ pending \in [Lists -> Seq(Handles)] /\ ListOf(h) \in Lists
        /\ Waits(h) /\ \A l \in Lists : h \notin ToSet(pending[l])
    BY <1>3, HandleFacts DEF IInv, Shape, ListsSound
  <1>5. Unlinking = {} /\ Unlinking' = {} /\ CursorSound'
    BY <1>1 DEF Unlinking, At, Top, CursorSound
  <1>6. StackSound'
    BY <1>1 DEF IInv, StackSound, InCallback
  <1>q. \A k \in ToSet(queue') : k # h /\ k \in ToSet(queue) /\ k \in Handles
    BY <1>3, HandleFacts
  <1>s. queue' \in Seq(Handles) /\ Len(queue') <= Capacity
    BY <1>3, ConductorAssumption DEF IInv, Shape
  <1>7. CASE handle' = [handle EXCEPT ![h].status = "error"] /\ UNCHANGED pending
    <2> DEFINE r == [handle[h] EXCEPT !.status = "error"]
    <2>1. r \in HandleRecord /\ r.status = "error"
      BY <1>3, <1>4 DEF HandleRecord
    <2>2. handle' \in [Handles -> HandleRecord] /\ \A k \in Handles : handle'[k] = IF k = h THEN r ELSE handle[k]
      BY <1>3, <1>4, <1>7, <2>1
    <2> HIDE DEF r
    <2>3. Shape'
      BY <1>1, <1>s, <1>7, <2>2 DEF IInv, Shape
    <2>4. \A k \in ToSet(queue') : Waits(k)' /\ \A l \in Lists : k \notin ToSet(pending'[l])
      BY <1>7, <1>q, <2>2 DEF IInv, ListsSound, Waits
    <2>5. \A l \in Lists : \A k \in ToSet(pending'[l]) :
            l = ListOf(k) /\ handle'[k].memory = "live" /\ (handle'[k].status = "pending" <=> k \notin Unlinking')
      BY <1>4, <1>5, <1>7, <2>2, HandleFacts DEF IInv, ListsSound
    <2>6. client' # "closed" => \A k \in Handles : Waits(k)' => k \in ToSet(queue') \cup ToSet(pending'[ListOf(k)])
      BY <1>1, <1>3, <1>7, <2>1, <2>2 DEF IInv, ListsSound, Waits
    <2>7. IsInjective(queue') /\ \A l \in Lists : IsInjective(pending'[l])
      BY <1>3, <1>7 DEF IInv, ListsSound
    <2>8. ListsSound'
      BY <2>4, <2>5, <2>6, <2>7 DEF ListsSound
    <2> QED BY <1>5, <1>6, <2>3, <2>8 DEF IInv
  <1>8. CASE pending' = [pending EXCEPT ![ListOf(h)] = <<h>> \o @] /\ UNCHANGED handle
    <2> DEFINE m == ListOf(h)
               t == <<h>> \o pending[m]
    <2>1. t \in Seq(Handles) /\ ToSet(t) = ToSet(pending[m]) \cup {h} /\ IsInjective(t)
      BY <1>3, <1>4, Prepended DEF IInv, ListsSound
    <2>2. pending' = [pending EXCEPT ![m] = t]
      BY <1>8
    <2> HIDE DEF m, t
    <2>3. pending' \in [Lists -> Seq(Handles)] /\ \A l \in Lists : pending'[l] = IF l = m THEN t ELSE pending[l]
      BY <1>4, <2>1, <2>2 DEF m
    <2>4. Shape'
      BY <1>1, <1>s, <1>8, <2>3 DEF IInv, Shape
    <2>5. \A k \in ToSet(queue') : Waits(k)' /\ \A l \in Lists : k \notin ToSet(pending'[l])
      BY <1>8, <1>q, <2>1, <2>3 DEF IInv, ListsSound, Waits
    <2>6. \A l \in Lists : \A k \in ToSet(pending'[l]) :
            l = ListOf(k) /\ handle'[k].memory = "live" /\ (handle'[k].status = "pending" <=> k \notin Unlinking')
      <3> SUFFICES ASSUME NEW l \in Lists, NEW k \in ToSet(pending'[l])
                   PROVE  l = ListOf(k) /\ handle[k].memory = "live" /\ handle[k].status = "pending"
        BY <1>5, <1>8
      <3>1. CASE k = h
        <4>1. l = m
          BY <3>1, <1>4, <2>3
        <4> QED BY <3>1, <4>1, <1>4 DEF m, Waits
      <3>2. CASE k # h
        <4>1. k \in ToSet(pending[l])
          BY <3>2, <2>1, <2>3
        <4> QED BY <4>1, <1>5 DEF IInv, ListsSound
      <3> QED BY <3>1, <3>2
    <2>7. client' # "closed" => \A k \in Handles : Waits(k)' => k \in ToSet(queue') \cup ToSet(pending'[ListOf(k)])
      BY <1>1, <1>3, <1>8, <2>1, <2>3, HandleFacts DEF IInv, ListsSound, Waits, m
    <2>8. IsInjective(queue') /\ \A l \in Lists : IsInjective(pending'[l])
      BY <1>3, <2>1, <2>3 DEF IInv, ListsSound
    <2>9. ListsSound'
      BY <2>5, <2>6, <2>7, <2>8 DEF ListsSound
    <2> QED BY <1>5, <1>6, <2>4, <2>9 DEF IInv
  <1> QED BY <1>2, <1>7, <1>8

\* Polling an add on the pending list stores its outcome; the handle stays linked one more step.
LEMMA ResolveStep ==
    ASSUME IInv, Resolve PROVE IInv'
  <1>0. PICK t, c : t = Top /\ c = Cursor
    OBVIOUS
  <1>1. PICK s \in {"complete", "error"} :
          /\ stack # <<>> /\ t.pc = "pending" /\ t.at <= Len(pending[t.list])
          /\ handle' = [handle EXCEPT ![c].status = s]
          /\ Goto([t EXCEPT !.pc = "unlink"])
          /\ UNCHANGED <<client, queue, pending, subs, pollers, depth, failed>>
    BY <1>0 DEF Resolve, AtPending, At
  <1> DEFINE f == [t EXCEPT !.pc = "unlink"]
  <1>2. f \in FrameRecord /\ f.pc = "unlink" /\ f.list = t.list /\ f.at = t.at /\ t \in FrameRecord
    BY <1>0, <1>1, FramesTyped, StackFacts
  <1> HIDE DEF f
  <1>3. stack' \in Seq(FrameRecord) /\ StackSound' /\ Top' = f /\ stack' # <<>>
    BY <1>0, <1>1, <1>2, MovesOn DEF f
  <1>4. t.list \in Lists /\ t.at \in 1 .. Len(pending[t.list]) /\ pending[t.list] \in Seq(Handles)
    <2>1. t.list \in Lists /\ t.at \in Nat \ {0}
      BY <1>2 DEF FrameRecord
    <2>2. pending[t.list] \in Seq(Handles)
      BY <2>1 DEF IInv, Shape
    <2> QED BY <1>1, <2>1, <2>2, LenProperties
  <1>5. c = pending[t.list][t.at] /\ c \in Handles /\ c \in ToSet(pending[t.list])
    <2>1. c = pending[t.list][t.at]
      BY <1>0 DEF Cursor
    <2> QED BY <1>4, <2>1, ElementOfSeq, LenProperties DEF ToSet
  <1>6. Unlinking = {} /\ Unlinking' = {c} /\ CursorSound'
    <2>1. Unlinking = {}
      BY <1>0, <1>1, NotUnlinking
    <2>2. At("unlink")' /\ Cursor' = c
      BY <1>1, <1>2, <1>3, <1>5 DEF At, Cursor
    <2>3. CursorSound'
      BY <1>1, <1>2, <1>3 DEF CursorSound
    <2> QED BY <2>1, <2>2, <2>3 DEF Unlinking
  <1> DEFINE r == [handle[c] EXCEPT !.status = s]
  <1>7. r \in HandleRecord /\ r.status # "pending" /\ r.memory = handle[c].memory
    BY <1>5, HandleFacts DEF HandleRecord
  <1>8. handle' \in [Handles -> HandleRecord] /\ \A k \in Handles : handle'[k] = IF k = c THEN r ELSE handle[k]
    BY <1>1, <1>5, <1>7 DEF IInv, Shape
  <1> HIDE DEF r
  <1>9. Shape'
    BY <1>1, <1>3, <1>8 DEF IInv, Shape
  <1>10. c \notin ToSet(queue)
    BY <1>4, <1>5 DEF IInv, ListsSound
  <1>11. \A k \in ToSet(queue') : Waits(k)' /\ \A l \in Lists : k \notin ToSet(pending'[l])
    BY <1>1, <1>8, <1>10, HandleFacts DEF IInv, ListsSound, Waits
  <1>12. \A l \in Lists : \A k \in ToSet(pending'[l]) :
            l = ListOf(k) /\ handle'[k].memory = "live" /\ (handle'[k].status = "pending" <=> k \notin Unlinking')
    BY <1>1, <1>6, <1>7, <1>8, HandleFacts DEF IInv, ListsSound
  <1>13. client' # "closed" => \A k \in Handles : Waits(k)' => k \in ToSet(queue') \cup ToSet(pending'[ListOf(k)])
    BY <1>1, <1>7, <1>8 DEF IInv, ListsSound, Waits
  <1>14. IsInjective(queue') /\ \A l \in Lists : IsInjective(pending'[l])
    BY <1>1 DEF IInv, ListsSound
  <1>15. ListsSound'
    BY <1>11, <1>12, <1>13, <1>14 DEF ListsSound
  <1> QED BY <1>3, <1>6, <1>9, <1>15 DEF IInv

\* The handle just resolved is taken off its list.
LEMMA UnlinkStep ==
    ASSUME IInv, Unlink PROVE IInv'
  <1>0. PICK t, c : t = Top /\ c = Cursor
    OBVIOUS
  <1>1. /\ stack # <<>> /\ t.pc = "unlink"
        /\ pending' = [pending EXCEPT ![t.list] = RemoveAt(@, t.at)]
        /\ Goto([t EXCEPT !.pc = "pending"])
        /\ UNCHANGED <<client, handle, queue, subs, pollers, depth, failed>>
    BY <1>0 DEF Unlink, At
  <1> DEFINE f == [t EXCEPT !.pc = "pending"]
             m == t.list
             rest == RemoveAt(pending[m], t.at)
  <1>2. f \in FrameRecord /\ f.pc = "pending" /\ t \in FrameRecord
    BY <1>0, <1>1, FramesTyped, StackFacts
  <1>3. stack' \in Seq(FrameRecord) /\ StackSound' /\ Top' = f /\ stack' # <<>>
    BY <1>0, <1>1, <1>2, MovesOn
  <1> HIDE DEF f
  <1>4. m \in Lists /\ t.at \in 1 .. Len(pending[m]) /\ pending[m] \in Seq(Handles) /\ IsInjective(pending[m])
    <2>1. m \in Lists /\ t.at \in Nat \ {0}
      BY <1>2 DEF FrameRecord
    <2>2. pending[m] \in Seq(Handles) /\ IsInjective(pending[m])
      BY <2>1 DEF IInv, Shape, ListsSound
    <2>3. t.at <= Len(pending[m])
      BY <1>0, <1>1 DEF IInv, CursorSound, At
    <2> QED BY <2>1, <2>2, <2>3, LenProperties
  <1>5. c = pending[m][t.at]
    BY <1>0 DEF Cursor
  <1>6. rest \in Seq(Handles) /\ ToSet(rest) = ToSet(pending[m]) \ {c} /\ IsInjective(rest)
    BY <1>4, <1>5, RemovedAt
  <1>7. pending' = [pending EXCEPT ![m] = rest]
    BY <1>1
  <1> HIDE DEF rest, m
  <1>8. pending' \in [Lists -> Seq(Handles)] /\ \A l \in Lists : pending'[l] = IF l = m THEN rest ELSE pending[l]
    BY <1>4, <1>6, <1>7 DEF IInv, Shape
  <1>9. Unlinking = {c} /\ Unlinking' = {} /\ CursorSound'
    BY <1>0, <1>1, <1>2, <1>3 DEF Unlinking, At, CursorSound
  <1>10. Shape'
    BY <1>1, <1>3, <1>8 DEF IInv, Shape
  <1>11. c \in ToSet(pending[m]) /\ c \in Handles
    BY <1>4, <1>5, ElementOfSeq, LenProperties DEF ToSet
  <1>12. \A k \in ToSet(queue') : Waits(k)' /\ \A l \in Lists : k \notin ToSet(pending'[l])
    BY <1>1, <1>6, <1>8 DEF IInv, ListsSound, Waits
  <1>13. \A l \in Lists : c \notin ToSet(pending'[l])
    <2> SUFFICES ASSUME NEW l \in Lists PROVE c \notin ToSet(pending'[l])
      OBVIOUS
    <2>1. m = ListOf(c) /\ (c \in ToSet(pending[l]) => l = ListOf(c))
      BY <1>4, <1>11 DEF IInv, ListsSound
    <2>2. CASE l = m
      <3>1. pending'[l] = rest
        BY <1>8, <2>2
      <3> QED BY <1>6, <3>1
    <2>3. CASE l # m
      <3>1. pending'[l] = pending[l]
        BY <1>8, <2>3
      <3> QED BY <2>1, <2>3, <3>1
    <2> QED BY <2>2, <2>3
  <1>14. \A l \in Lists : \A k \in ToSet(pending'[l]) : k \in ToSet(pending[l]) /\ k # c
    BY <1>6, <1>8, <1>13
  <1>15. \A l \in Lists : \A k \in ToSet(pending'[l]) :
            l = ListOf(k) /\ handle'[k].memory = "live" /\ (handle'[k].status = "pending" <=> k \notin Unlinking')
    BY <1>1, <1>9, <1>14 DEF IInv, ListsSound
  <1>16. ~Waits(c)
    BY <1>4, <1>9, <1>11 DEF IInv, ListsSound, Waits
  <1>17. client' # "closed" => \A k \in Handles : Waits(k)' => k \in ToSet(queue') \cup ToSet(pending'[ListOf(k)])
    BY <1>1, <1>6, <1>8, <1>16, HandleFacts DEF IInv, ListsSound, Waits
  <1>18. IsInjective(queue') /\ \A l \in Lists : IsInjective(pending'[l])
    BY <1>1, <1>6, <1>8 DEF IInv, ListsSound
  <1>19. ListsSound'
    BY <1>12, <1>15, <1>17, <1>18 DEF ListsSound
  <1> QED BY <1>3, <1>9, <1>10, <1>19 DEF IInv

-----------------------------------------------------------------------------
(* The walk                                                                *)

\* A callback is that of an entry of the list.
LEMMA EntryFacts ==
    ASSUME IInv, NEW i \in Nat \ {0}, EntryAt(i) # "none"
    PROVE  EntryAt(i) \in ToSet(pollers) /\ EntryAt(i) \in Pollers
  <1>1. i \in 1 .. Len(pollers) /\ EntryAt(i) = pollers[i]
    BY LenProperties DEF EntryAt, IInv, Shape
  <1> QED BY <1>1, ElementOfSeq, LenProperties DEF ToSet, IInv, Shape

\* The frame of a callback.
LEMMA CallTyped ==
    ASSUME NEW e \in Pollers
    PROVE  Call(e) \in FrameRecord /\ Call(e).pc = "callback" /\ Call(e).entry = e
  BY DEF Call, Frame, FrameRecord, Lists

\* A registered entry has a place in the list of pollers.
LEMMA PlaceFacts ==
    ASSUME IInv, NEW e \in ToSet(pollers)
    PROVE  PlaceOf(e) \in 1 .. Len(pollers) /\ pollers[PlaceOf(e)] = e
  <1>1. DOMAIN pollers = 1 .. Len(pollers) /\ \E j \in DOMAIN pollers : pollers[j] = e
    BY LenProperties DEF ToSet, IInv, Shape
  <1> QED BY <1>1 DEF PlaceOf

\* The outermost do_work calls an entry.
LEMMA Calls ==
    ASSUME IInv, stack # <<>>, Len(stack) = 1, NEW e \in Pollers, e \in ToSet(pollers), Goto(Call(e)), depth' = 1,
           Top.pc # "unlink", UNCHANGED <<client, handle, queue, pending, pollers>>
    PROVE  IInv'
  <1> DEFINE f == Call(e)
  <1>1. f \in FrameRecord /\ f.pc = "callback" /\ f.entry = e
    BY CallTyped
  <1> HIDE DEF f
  <1>2. /\ stack' \in Seq(FrameRecord) /\ Len(stack') = 1 /\ stack' # <<>> /\ stack'[1] = f /\ Top' = f
    BY <1>1, GotoFacts DEF f
  <1>3. InCallback'
    BY <1>1, <1>2 DEF InCallback
  <1>4. client # "closed" /\ 1 <= MaxDepth /\ 1 <= 2
    BY ConductorAssumption DEF IInv, StackSound
  <1>5. StackSound'
    BY <1>1, <1>2, <1>3, <1>4 DEF IInv, StackSound
  <1>6. ListsSound' /\ CursorSound'
    BY <1>1, <1>2, ListsKept
  <1>7. Shape'
    BY <1>2 DEF IInv, Shape
  <1> QED BY <1>5, <1>6, <1>7 DEF IInv

\* A do_work that returns keeps the invariant.
LEMMA ReturnStep ==
    ASSUME IInv, stack # <<>>, Top.pc # "unlink", Return, UNCHANGED <<client, handle, queue, pending, pollers>>,
           depth' = IF Top.pc = "callback" THEN depth - 1 ELSE depth
    PROVE  IInv'
  <1>1. stack' \in Seq(FrameRecord) /\ StackSound' /\ (stack' = <<>> \/ Top'.pc = "callback")
    BY Returns
  <1>2. ListsSound' /\ CursorSound'
    BY <1>1, ListsKept
  <1>3. Shape'
    BY <1>1 DEF IInv, Shape
  <1> QED BY <1>1, <1>2, <1>3 DEF IInv

\* The start of the walk: the first entry is called unless a callback is running.
LEMMA WalkStep ==
    ASSUME IInv, Walk PROVE IInv'
  <1>1. stack # <<>> /\ Top.pc = "walk" /\ UNCHANGED <<client, handle, queue, pending, pollers>>
    BY DEF Walk, At
  <1>2. depth = IF InCallback THEN 1 ELSE 0
    BY DEF IInv, StackSound
  <1>3. CASE depth + 1 = 1 /\ EntryAt(1) # "none"
    <2>1. depth' = 1 /\ Goto(Call(EntryAt(1)))
      BY <1>3 DEF Walk
    <2>2. ~InCallback
      BY <1>2, <1>3
    <2>3. Len(stack) = 1
      BY <1>1, <2>2, StackFacts DEF IInv, StackSound, InCallback
    <2>4. PICK e : e = EntryAt(1)
      OBVIOUS
    <2>5. e \in ToSet(pollers) /\ e \in Pollers
      BY <1>3, <2>4, EntryFacts
    <2> QED BY <1>1, <2>1, <2>3, <2>4, <2>5, Calls
  <1>4. CASE ~(depth + 1 = 1 /\ EntryAt(1) # "none")
    BY <1>1, <1>4, ReturnStep DEF Walk
  <1> QED BY <1>3, <1>4

\* A callback returns: the entry after it is called, or the walk is over.
LEMMA CallbackStep ==
    ASSUME IInv, CallbackReturns \/ CallbackFails PROVE IInv'
  <1>1. stack # <<>> /\ Top.pc = "callback" /\ UNCHANGED <<client, handle, queue, pending, pollers>>
    BY DEF CallbackReturns, CallbackFails, At
  <1>2. Len(stack) = 1 /\ InCallback /\ depth = 1 /\ Top = stack[1]
    BY <1>1, StackFacts DEF IInv, StackSound
  <1>3. CASE Return /\ depth' = depth - 1
    BY <1>1, <1>3, ReturnStep
  <1>4. CASE CallbackReturns /\ ~(Return /\ depth' = depth - 1)
    <2>1. Top.entry \in ToSet(pollers)
      BY <1>2 DEF IInv, StackSound
    <2>2. PlaceOf(Top.entry) + 1 \in Nat \ {0}
      <3>1. PlaceOf(Top.entry) \in 1 .. Len(pollers)
        BY <2>1, PlaceFacts
      <3> QED BY <3>1
    <2>3. PICK i \in Nat \ {0} : i = PlaceOf(Top.entry) + 1
      BY <2>2
    <2>4. EntryAt(i) # "none" /\ Goto(Call(EntryAt(i))) /\ depth' = depth
      BY <1>4, <2>3 DEF CallbackReturns
    <2>5. PICK e : e = EntryAt(i)
      OBVIOUS
    <2>6. e \in ToSet(pollers) /\ e \in Pollers
      BY <2>4, <2>5, EntryFacts
    <2> QED BY <1>1, <1>2, <2>4, <2>5, <2>6, Calls
  <1> QED BY <1>3, <1>4 DEF CallbackFails

-----------------------------------------------------------------------------
\* Registering and unregistering keep the entries distinct and the running one registered.
LEMMA PollersStep ==
    ASSUME IInv, NEW p \in Pollers, RegisterPoller(p) \/ UnregisterPoller(p) PROVE IInv'
  <1>1. /\ client # "closed" /\ (stack = <<>> \/ (stack # <<>> /\ Top.pc = "callback"))
        /\ UNCHANGED <<client, handle, queue, pending, subs, depth, stack, failed>>
    BY DEF RegisterPoller, UnregisterPoller, PollersMayChange, At
  <1>2. pollers \in Seq(Pollers) /\ IsInjective(pollers)
    BY DEF IInv, Shape, StackSound
  <1>3. InCallback => Top = stack[1] /\ Top.pc = "callback" /\ stack # <<>>
    BY <1>1, StackFacts DEF InCallback
  <1>4. /\ pollers' \in Seq(Pollers) /\ IsInjective(pollers')
        /\ InCallback => stack[1].entry \in ToSet(pollers')
    <2>1. CASE RegisterPoller(p)
      <3>1. pollers' = <<p>> \o pollers /\ p \notin ToSet(pollers)
        BY <2>1 DEF RegisterPoller
      <3>2. pollers' \in Seq(Pollers) /\ IsInjective(pollers') /\ ToSet(pollers') = ToSet(pollers) \cup {p}
        BY <1>2, <3>1, Prepended
      <3> QED BY <3>2 DEF IInv, StackSound
    <2>2. CASE UnregisterPoller(p)
      <3>1. pollers' = RemoveAt(pollers, PlaceOf(p)) /\ p \in ToSet(pollers) /\ (InCallback => p # stack[1].entry)
        BY <1>3, <2>2 DEF UnregisterPoller, At
      <3>2. PlaceOf(p) \in 1 .. Len(pollers) /\ pollers[PlaceOf(p)] = p
        BY <3>1, PlaceFacts
      <3>3. pollers' \in Seq(Pollers) /\ IsInjective(pollers') /\ ToSet(pollers') = ToSet(pollers) \ {p}
        BY <1>2, <3>1, <3>2, RemovedAt
      <3> QED BY <3>1, <3>3 DEF IInv, StackSound
    <2> QED BY <2>1, <2>2
  <1>5. Shape'
    BY <1>1, <1>4 DEF IInv, Shape
  <1>6. StackSound'
    BY <1>1, <1>4 DEF IInv, StackSound, InCallback
  <1>7. ListsSound' /\ CursorSound'
    <2>1. Top' = Top
      BY <1>1 DEF Top
    <2> QED BY <1>1, <2>1, ListsKept
  <1> QED BY <1>5, <1>6, <1>7 DEF IInv

\* Closing the client drops every list.
LEMMA CloseStep ==
    ASSUME IInv, Close PROVE IInv'
  <1>1. /\ stack = <<>> /\ client' = "closed" /\ queue' = <<>> /\ pending' = [l \in Lists |-> <<>>] /\ pollers' = <<>>
        /\ handle' = [h \in Handles |-> IF \E l \in Lists : h \in ToSet(pending[l])
                                        THEN [handle[h] EXCEPT !.memory = "freed"] ELSE handle[h]]
        /\ UNCHANGED <<depth, stack, failed>>
    BY DEF Close
  <1>2. <<>> \in Seq(Handles) /\ <<>> \in Seq(Pollers) /\ Len(<<>>) = 0 /\ ToSet(<<>>) = {} /\ IsInjective(<<>>)
    BY EmptySeq DEF ToSet, IsInjective
  <1>3. handle' \in [Handles -> HandleRecord]
    BY <1>1, HandleFacts DEF HandleRecord
  <1>4. Shape'
    BY <1>1, <1>2, <1>3, ConductorAssumption DEF IInv, Shape
  <1>5. ~InCallback /\ ~InCallback'
    BY <1>1 DEF InCallback
  <1>6. StackSound'
    BY <1>1, <1>2, <1>5 DEF IInv, StackSound
  <1>7. CursorSound' /\ ListsSound'
    BY <1>1, <1>2 DEF CursorSound, At, ListsSound, Waits
  <1> QED BY <1>4, <1>6, <1>7 DEF IInv

\* Every step of the conductor and its callers keeps the invariant.
LEMMA Step == OneThread /\ IInv /\ [Next]_vars => IInv'
  <1> SUFFICES ASSUME OneThread, IInv, [Next]_vars PROVE IInv'
    OBVIOUS
  <1>1. CASE Work
    BY <1>1, DoWorkStep, ProcessCommandStep, GoingOn, ResolveStep, UnlinkStep, WalkStep, CallbackStep DEF Work
  <1>2. ASSUME NEW h \in Handles, AsyncAdd(h) \/ AsyncPoll(h) PROVE IInv'
    BY <1>2, AsyncAddStep, AsyncPollStep
  <1>3. ASSUME NEW p \in Pollers, RegisterPoller(p) \/ UnregisterPoller(p) PROVE IInv'
    BY <1>3, PollersStep
  <1>4. CASE UNCHANGED vars
    BY <1>4 DEF vars, IInv, Shape, StackSound, InCallback, CursorSound, ListsSound, Waits, At, Top, Unlinking, Cursor
  <1> QED BY <1>1, <1>2, <1>3, <1>4, CloseStep DEF Next

-----------------------------------------------------------------------------
\* The invariant implies the property the runs check.
LEMMA InvSound == IInv => ConductorSound
  <1> SUFFICES ASSUME IInv PROVE ConductorSound
    OBVIOUS
  <1> DEFINE calls == {i \in DOMAIN stack : stack[i].pc = "callback"}
  <1>1. calls = IF InCallback THEN {1} ELSE {}
    <2>1. Len(stack) \in 0 .. 2 /\ DOMAIN stack = 1 .. Len(stack) /\ (stack = <<>> <=> Len(stack) = 0)
      BY StackFacts
    <2>2. Len(stack) = 2 => stack[1].pc = "callback" /\ stack[2].pc # "callback"
      BY DEF IInv, StackSound
    <2>3. CASE Len(stack) = 0
      BY <2>1, <2>3 DEF InCallback
    <2>4. CASE Len(stack) = 1
      BY <2>1, <2>4 DEF InCallback
    <2>5. CASE Len(stack) = 2
      BY <2>1, <2>2, <2>5 DEF InCallback
    <2> QED BY <2>1, <2>3, <2>4, <2>5
  <1> HIDE DEF calls
  <1>2. TypeOK
    <2>1. depth = Cardinality(calls)
      BY <1>1, FS_EmptySet, FS_Singleton DEF IInv, StackSound
    <2> QED BY <2>1 DEF calls, TypeOK, IInv, Shape, StackSound, HandleRecord
  <1>3. HandleInOnePlace
    <2> SUFFICES ASSUME client # "closed", NEW h \in Handles
                 PROVE  /\ Cardinality(Places(h)) = IF Waits(h) THEN 1 ELSE 0
                        /\ "pubs" \in Places(h) => IsPublication[h]
                        /\ "subs" \in Places(h) => ~ IsPublication[h]
                        /\ IsInjective(queue) /\ \A l \in Lists : IsInjective(pending[l])
      BY DEF HandleInOnePlace, Waits
    <2>1. Places(h) = (IF h \in ToSet(queue) THEN {"queue"} ELSE {})
                      \cup {l \in Lists : h \in ToSet(pending[l]) /\ h \notin Unlinking}
      BY DEF Places
    <2>2. /\ h \in ToSet(queue) => Waits(h) /\ \A l \in Lists : h \notin ToSet(pending[l])
          /\ \A l \in Lists : h \in ToSet(pending[l]) =>
               l = ListOf(h) /\ handle[h].memory = "live" /\ (handle[h].status = "pending" <=> h \notin Unlinking)
          /\ Waits(h) => h \in ToSet(queue) \cup ToSet(pending[ListOf(h)])
          /\ ListOf(h) \in Lists
      BY HandleFacts DEF IInv, ListsSound
    <2>3. CASE h \in ToSet(queue)
      <3>1. Places(h) = {"queue"} /\ Waits(h)
        BY <2>1, <2>2, <2>3
      <3> QED BY <3>1, FS_Singleton DEF IInv, ListsSound
    <2>4. CASE h \notin ToSet(queue) /\ Waits(h)
      <3>1. h \in ToSet(pending[ListOf(h)]) /\ h \notin Unlinking
        BY <2>2, <2>4 DEF Waits
      <3>2. Places(h) = {ListOf(h)}
        BY <2>1, <2>2, <2>4, <3>1
      <3>3. IsPublication[h] \in BOOLEAN
        BY ConductorAssumption
      <3>4. ("pubs" \in Places(h) => IsPublication[h]) /\ ("subs" \in Places(h) => ~IsPublication[h])
        BY <3>2, <3>3 DEF ListOf
      <3>5. Cardinality(Places(h)) = 1
        BY <3>2, FS_Singleton
      <3>6. IsInjective(queue) /\ \A l \in Lists : IsInjective(pending[l])
        BY DEF IInv, ListsSound
      <3> QED BY <2>4, <3>4, <3>5, <3>6
    <2>5. CASE h \notin ToSet(queue) /\ ~Waits(h)
      <3>1. Places(h) = {}
        BY <2>1, <2>2, <2>5 DEF Waits
      <3> QED BY <2>5, <3>1, FS_EmptySet DEF IInv, ListsSound
    <2> QED BY <2>3, <2>4, <2>5
  <1>4. ReadsLiveHandles
    BY DEF ReadsLiveHandles, IInv, ListsSound, ToSet
  <1>5. RunsRegisteredPoller
    <2>1. Running = {stack[i].entry : i \in calls}
      BY DEF Running, calls
    <2>2. CASE InCallback
      <3>1. Running = {stack[1].entry}
        BY <1>1, <2>1, <2>2
      <3>2. Cardinality(Running) = 1
        BY <3>1, FS_Singleton
      <3>3. stack[1].entry \in ToSet(pollers)
        BY <2>2 DEF IInv, StackSound
      <3> QED BY <3>1, <3>2, <3>3 DEF RunsRegisteredPoller
    <2>3. CASE ~InCallback
      <3>1. Running = {}
        BY <1>1, <2>1, <2>3
      <3> QED BY <3>1, FS_EmptySet DEF RunsRegisteredPoller
    <2> QED BY <2>2, <2>3
  <1> QED BY <1>2, <1>3, <1>4, <1>5 DEF ConductorSound

\* With the conductor run by the callers' own thread, in every reachable state each
\* accepted add waits in exactly one place, do_work reads no freed handle and at most one
\* callback runs, that of a registered entry (tp_client_conductor.c).
THEOREM ConductorCorrect == OneThread => (Spec => []ConductorSound)
  <1> SUFFICES ASSUME OneThread PROVE Spec => []ConductorSound
    OBVIOUS
  <1> QED BY Initial, Step, InvSound, PTL DEF Spec
=============================================================================
