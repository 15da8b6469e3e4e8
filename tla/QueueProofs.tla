---------------------------- MODULE QueueProofs -----------------------------
(***************************************************************************)
(* MessageQueue over MemoryTransport, for any topics, handlers, threads    *)
(* and depth of calls made from handlers: no topic is wired to the         *)
(* transport twice and until close() what is in the table is wired;        *)
(* whoever is subscribed throughout a send is called as often as it is     *)
(* subscribed; a request that a handler replied to finds the reply.        *)
(***************************************************************************)
EXTENDS QueueSteps

-----------------------------------------------------------------------------
(* Subscriptions and requests, counted. *)

\* ChannelInv, when no channel changes and no handler was just attached.
LEMMA ChannelMoves ==
  ASSUME FiniteLaws, QueueTypes, StackInv, ChannelInv, NEW t \in Threads, NEW N, Moves(t, N),
         channels' = channels, subIds' \subseteq subIds \cup Attached,
         \A f \in N : f.at # "record"
  PROVE  ChannelInv'
<1>1. Attached' \subseteq Attached
  <2>1. ASSUME NEW u \in Threads, stack'[u] # <<>>, Top(u)'.at = "record"
        PROVE  stack[u] # <<>> /\ Top(u).at = "record" /\ Top(u)' = Top(u)
    <3>1. u # t
      <4>1. "record" # "call"
        OBVIOUS
      <4> QED
        BY <2>1, <4>1, NewTop, Zenon
    <3> QED
      BY <2>1, <3>1, OthersStay, Zenon
  <2> QED
    BY <2>1, Zenon DEF Attached
<1>2. ASSUME NEW n \in Names, NEW h \in Handlers
      PROVE  /\ IsFiniteSet(Of(subIds \cup Attached, n, h)')
             /\ Cardinality(Of(subIds \cup Attached, n, h)') <= Count(channels'[n], h)
  <2> DEFINE A == Of(subIds \cup Attached, n, h)
             B == Of(subIds \cup Attached, n, h)'
  <2>1. B \subseteq A
    BY <1>1, Zenon DEF Of
  <2>2. IsFiniteSet(A) /\ Cardinality(A) <= Count(channels'[n], h)
    BY Zenon DEF ChannelInv
  <2>3. channels[n] \in Seq(Handlers)
    BY DEF QueueTypes
  <2>4. Count(channels'[n], h) \in Nat
    BY <2>3, CountFacts, Zenon
  <2> HIDE DEF A, B
  <2>5. IsFiniteSet(B) /\ Cardinality(B) <= Cardinality(A)
    BY <2>1, <2>2, FiniteSubset, Zenon
  <2>6. Cardinality(A) \in Nat /\ Cardinality(B) \in Nat
    BY <2>2, <2>5, FiniteSize, Zenon
  <2>7. Cardinality(B) <= Count(channels'[n], h)
    BY <2>2, <2>4, <2>5, <2>6
  <2> QED
    BY <2>5, <2>7, Zenon DEF B
<1> QED
  BY <1>2, Zenon DEF ChannelInv

\* Fewer subscriptions leave a broadcast no more to do.
LEMMA PaidKept ==
  ASSUME FiniteLaws, QueueTypes, NEW f \in Frames, Paid(f), f.owed \cap subIds' \subseteq subIds
  PROVE  Paid(f)'
<1>1. ASSUME NEW h \in Handlers, f.at \in {"notify", "call", "store"} /\ ~f.broke
      PROVE  Cardinality(Reached(f, h) \cap subIds') <= Count(f.got, h) + Count(f.run, h)
  <2> DEFINE A == Reached(f, h) \cap subIds
             B == Reached(f, h) \cap subIds'
  <2>1. B \subseteq A
    BY Zenon DEF Reached
  <2>2. IsFiniteSet(A)
    BY FiniteMeet, Zenon DEF QueueTypes
  <2>3. Cardinality(A) <= Count(f.got, h) + Count(f.run, h)
    BY <1>1, Zenon DEF Paid
  <2>4. f.got \in Seq(Handlers) /\ f.run \in Seq(Handlers)
    BY DEF Frames
  <2>5. Count(f.got, h) \in Nat /\ Count(f.run, h) \in Nat
    BY <2>4, CountFacts, Zenon
  <2> HIDE DEF A, B
  <2>6. IsFiniteSet(B) /\ Cardinality(B) <= Cardinality(A)
    BY <2>1, <2>2, FiniteSubset, Zenon
  <2>7. Cardinality(A) \in Nat /\ Cardinality(B) \in Nat
    BY <2>2, <2>6, FiniteSize, Zenon
  <2>8. Cardinality(B) <= Count(f.got, h) + Count(f.run, h)
    BY <2>3, <2>5, <2>6, <2>7
  <2> QED
    BY <2>8, Zenon DEF B
<1> QED
  BY <1>1, Zenon DEF Paid, Reached

\* OwedInv, when the new frames are paid and no id comes back.
LEMMA OwedMoves ==
  ASSUME FiniteLaws, QueueTypes, StackInv, OwedInv, NEW t \in Threads, NEW N, Moves(t, N), closed => closed',
         \A u \in Threads : \A f \in FramesOf(u) : f.owed \cap subIds' \subseteq subIds,
         \A f \in N : ~closed => Paid(f)'
  PROVE  OwedInv'
<1>1. \A u \in Threads : \A f \in FramesOf(u) : f \in Frames
  BY DEF FramesOf, QueueTypes
<1>2. ASSUME ~closed, NEW u \in Threads, NEW f \in FramesOf(u)' PROVE Paid(f)'
  <2>1. f \in FramesOf(u) \/ f \in N
    <3>1. CASE u = t
      BY <1>2, <3>1, Zenon DEF Moves
    <3>2. CASE u # t
      BY <1>2, <3>2, OthersStay, Zenon
    <3> QED
      BY <3>1, <3>2
  <2>2. CASE f \in N
    BY <1>2, <2>2, Zenon
  <2>3. CASE f \in FramesOf(u)
    <3>1. Paid(f) /\ f \in Frames /\ f.owed \cap subIds' \subseteq subIds
      BY <1>1, <1>2, <2>3, Zenon DEF OwedInv
    <3> QED
      BY <3>1, PaidKept, Zenon
  <2> QED
    BY <2>1, <2>2, <2>3
<1> QED
  BY <1>2, Zenon DEF OwedInv

\* A step of a thread that leaves the tables alone keeps the invariant, if its
\* new frames are good.
LEMMA GoodStep ==
  ASSUME FiniteLaws, QueueTypes, StackInv, Notifying, NEW t \in Threads, Good(t), UNCHANGED <<subIds, channels, wired>>,
         closed => closed', serial' = serial \/ serial' = serial + 1
  PROVE  Notifying'
<1>1. PICK N : Moves(t, N) /\ \A f \in N : GoodFrame(t, f)
  BY DEF Good
<1>2. EntriesInv'
  BY <1>1, EntriesMoves, Zenon DEF GoodFrame, Notifying
<1>3. ReadyInv'
  <2>1. \A f \in N : f.at \in {"attach", "record"} /\ ~closed => Count(wired, f.topic) = 1
    BY <1>1, Zenon DEF GoodFrame
  <2> QED
    BY <1>1, <2>1, ReadyMoves, Zenon DEF Notifying
<1>4. ChannelInv'
  <2>1. \A f \in N : f.at # "record"
    BY <1>1, Zenon DEF GoodFrame
  <2>2. subIds' \subseteq subIds \cup Attached
    BY Zenon
  <2> QED
    BY <1>1, <2>1, <2>2, ChannelMoves, Zenon DEF Notifying
<1>5. OwedInv'
  <2>1. \A f \in N : ~closed => Paid(f)'
    BY <1>1, Zenon DEF GoodFrame, Paid, Reached
  <2>2. \A u \in Threads : \A f \in FramesOf(u) : f.owed \cap subIds' \subseteq subIds
    BY Zenon
  <2> QED
    BY <1>1, <2>1, <2>2, OwedMoves, Zenon DEF Notifying
<1> QED
  BY <1>2, <1>3, <1>4, <1>5, Zenon DEF Notifying

\* send() takes the transport's lock: what is subscribed to is wired.
LEMMA GoodLocked ==
  ASSUME FiniteLaws, QueueTypes, StackInv, Notifying, NEW t \in Threads, At(t, "lock"), Become(t, Locked(Top(t)))
  PROVE  Good(t)
<1> DEFINE f == Locked(Top(t))
<1>1. stack[t] # <<>> /\ Top(t) \in Frames /\ Top(t).at = "lock" /\ FrameShape(Top(t))
  BY AtFacts, Zenon
<1>2. /\ f \in Frames /\ f.at = "notify" /\ f.todo = wired
      /\ f.owed = {e \in subIds : Matches(Top(t), e.topic)} /\ f.run = Top(t).run /\ f.got = Top(t).got
  BY <1>1, LockedFacts, Zenon
<1>3. Become(t, f)
  OBVIOUS
<1> HIDE DEF f
<1>4. FreshId(t, f) /\ f.at # "record" /\ f.at # "attach"
  BY <1>2 DEF FreshId, Subscribing
<1>5. OldOwed(t, f)
  BY <1>2, Zenon DEF OldOwed
<1>6. ASSUME ~closed, NEW h \in Handlers
      PROVE  Cardinality(Reached(f, h) \cap subIds) <= Count(f.got, h) + Count(f.run, h)
  <2>1. ASSUME NEW e \in f.owed PROVE \E i \in DOMAIN f.todo : f.todo[i] = e.topic
    <3>0. e \in subIds /\ wired \in Seq(Names)
      BY <1>2, Zenon DEF QueueTypes
    <3>1. Count(wired, e.topic) = 1
      <4>1. ReadyInv
        BY Zenon DEF Notifying
      <4>2. \A x \in subIds : Count(wired, x.topic) = 1
        BY <1>6, <4>1, Zenon DEF ReadyInv
      <4> QED
        BY <3>0, <4>2, Zenon
    <3>2. Count(wired, e.topic) > 0
      BY <3>1
    <3> QED
      <4>1. \E i \in DOMAIN wired : wired[i] = e.topic
        BY <3>0, <3>2, CountPositive, Zenon
      <4> QED
        BY <1>2, <4>1, Zenon
  <2>2. Reached(f, h) \cap subIds = {}
    BY <2>1, Zenon DEF Reached
  <2>3. Cardinality({}) = 0
    BY FiniteEmpty, Zenon
  <2>4. f.got \in Seq(Handlers) /\ f.run \in Seq(Handlers)
    BY <1>2 DEF Frames
  <2>5. Count(f.got, h) \in Nat /\ Count(f.run, h) \in Nat
    BY <2>4, CountFacts, Zenon
  <2>6. Cardinality(Reached(f, h) \cap subIds) = 0
    BY <2>2, <2>3, Zenon
  <2> QED
    BY <2>5, <2>6
<1>7. GoodFrame(t, f)
  BY <1>4, <1>5, <1>6, Zenon DEF GoodFrame, Paid
<1> QED
  BY <1>1, <1>2, <1>3, <1>7, GoodBecome, Zenon

\* The next subscription matches: its channel has a handler for every
\* subscription that is owed a call.
LEMMA GoodFiring ==
  ASSUME FiniteLaws, QueueTypes, StackInv, Notifying, NEW t \in Threads, At(t, "notify"), Top(t).todo # <<>>,
         Become(t, Firing(Top(t)))
  PROVE  Good(t)
<1> DEFINE g == Top(t)
           f == Firing(g)
           p == Head(g.todo)
<1>1. stack[t] # <<>> /\ g \in Frames /\ g.at = "notify" /\ FrameShape(g) /\ g \in FramesOf(t)
  BY AtFacts, Zenon
<1>2. /\ f \in Frames /\ f.at = "call" /\ f.todo = Tail(g.todo)
      /\ f.owed = g.owed /\ f.run = channels[p] /\ f.got = g.got /\ f.broke = g.broke
  BY <1>1, FiringFacts, Zenon
<1>3. Become(t, f) /\ g.todo # <<>>
  OBVIOUS
<1> HIDE DEF f, g
<1>4. FreshId(t, f) /\ f.at # "record" /\ f.at # "attach"
  BY <1>2 DEF FreshId, Subscribing
<1>5. OldOwed(t, f)
  BY <1>1, <1>2, OwedAsBefore, Zenon
<1>6. ASSUME ~closed, ~f.broke, NEW h \in Handlers
      PROVE  Cardinality(Reached(f, h) \cap subIds) <= Count(f.got, h) + Count(f.run, h)
  <2> DEFINE A == Reached(g, h) \cap subIds
             B == Of(subIds \cup Attached, p, h)
             C == Reached(f, h) \cap subIds
  <2>1. g.todo \in Seq(Names) /\ g.got \in Seq(Handlers)
    BY <1>1 DEF Frames
  <2>2. p \in Names /\ \A x : (\E i \in DOMAIN g.todo : g.todo[i] = x) => x = p \/ \E i \in DOMAIN f.todo : f.todo[i] = x
    <3>1. /\ p \in Names
          /\ \A x : (\E i \in DOMAIN g.todo : g.todo[i] = x)
                    <=> x = p \/ \E i \in DOMAIN Tail(g.todo) : Tail(g.todo)[i] = x
      BY <1>3, <2>1, TailRange, Zenon
    <3> QED
      BY <1>2, <3>1, Zenon
  <2>3. C \subseteq A \cup B
    BY <1>2, <2>2, Zenon DEF Reached, Of
  <2>4. Cardinality(A) <= Count(g.got, h) + Count(g.run, h)
    <3>1. Paid(g) /\ g.at \in {"notify", "call", "store"} /\ ~g.broke
      BY <1>1, <1>2, <1>6, Zenon DEF Notifying, OwedInv
    <3> QED
      BY <3>1, Zenon DEF Paid
  <2>5. Count(g.run, h) = 0
    <3>1. g.run = <<>>
      BY <1>1 DEF FrameShape
    <3> QED
      BY <3>1, CountNone, Zenon
  <2>6. IsFiniteSet(B) /\ Cardinality(B) <= Count(channels[p], h)
    BY <2>2, Zenon DEF Notifying, ChannelInv
  <2>7. channels[p] \in Seq(Handlers)
    BY <2>2 DEF QueueTypes
  <2>8. Count(g.got, h) \in Nat /\ Count(channels[p], h) \in Nat
    BY <2>1, <2>7, CountFacts, Zenon
  <2>9. IsFiniteSet(A)
    BY FiniteMeet, Zenon DEF QueueTypes
  <2> HIDE DEF A, B, C, p
  <2>10. Cardinality(C) <= Cardinality(A) + Cardinality(B)
    <3>1. IsFiniteSet(A \cup B) /\ Cardinality(A \cup B) = Cardinality(A) + Cardinality(B) - Cardinality(A \cap B)
      BY <2>6, <2>9, FiniteUnion, Zenon
    <3>2. Cardinality(C) <= Cardinality(A \cup B) /\ IsFiniteSet(C)
      BY <2>3, <3>1, FiniteSubset, Zenon
    <3>3. IsFiniteSet(A \cap B)
      BY <2>6, FiniteMeet, Zenon
    <3>4. /\ Cardinality(A) \in Nat /\ Cardinality(B) \in Nat /\ Cardinality(C) \in Nat
          /\ Cardinality(A \cap B) \in Nat
      BY <2>6, <2>9, <3>2, <3>3, FiniteSize, Zenon
    <3> QED
      BY <3>1, <3>2, <3>4
  <2>11. Cardinality(A) \in Nat /\ Cardinality(B) \in Nat /\ Cardinality(C) \in Nat
    <3>1. IsFiniteSet(C)
      BY <2>3, <2>6, <2>9, FiniteUnion, FiniteSubset, Zenon
    <3> QED
      BY <2>6, <2>9, <3>1, FiniteSize, Zenon
  <2>12. Cardinality(C) <= Count(g.got, h) + Count(channels[p], h)
    BY <2>4, <2>5, <2>6, <2>8, <2>10, <2>11
  <2> QED
    BY <1>2, <2>12, Zenon DEF C
<1>7. GoodFrame(t, f)
  BY <1>4, <1>5, <1>6, Zenon DEF GoodFrame, Paid
<1> QED
  BY <1>1, <1>2, <1>3, <1>7, GoodBecome, Zenon DEF g

\* A set of indexes has a first one.
LEMMA LeastOf ==
  ASSUME FiniteLaws, NEW K \in SUBSET Nat, K # {}
  PROVE  \E i \in K : \A j \in K : i <= j
  BY Zenon DEF FiniteLaws

\* A list without its k-th element has no other element less often.
Shift(i, k) == IF i < k THEN i ELSE i - 1

\* A sequence without one of its elements has one less of that element only.
LEMMA CountDropped ==
  ASSUME FiniteLaws, NEW A, NEW s \in Seq(A), NEW r \in Seq(A), NEW k \in DOMAIN s, NEW y,
         \A i \in DOMAIN s : i # k => Shift(i, k) \in DOMAIN r /\ r[Shift(i, k)] = s[i]
  PROVE  Count(s, y) <= Count(r, y) + (IF s[k] = y THEN 1 ELSE 0)
<1> DEFINE S == {i \in DOMAIN s : s[i] = y}
           R == {i \in DOMAIN r : r[i] = y}
           T == S \ {k}
           F == [i \in T |-> Shift(i, k)]
<1>1. IsFiniteSet(S) /\ IsFiniteSet(R) /\ Cardinality(S) \in Nat /\ Cardinality(R) \in Nat
  BY CountFacts, Zenon DEF Count
<1>2. F \in [T -> R]
  BY Zenon
<1>3. \A i, j \in T : F[i] = F[j] => i = j
  <2>1. DOMAIN s \subseteq Int
    OBVIOUS
  <2> SUFFICES ASSUME NEW i \in T, NEW j \in T, Shift(i, k) = Shift(j, k) PROVE i = j
    BY Zenon
  <2>2. i \in Int /\ j \in Int /\ k \in Int /\ i # k /\ j # k
    BY <2>1
  <2> QED
    BY <2>2 DEF Shift
<1>4. IsFiniteSet(T) /\ Cardinality(T) = IF k \in S THEN Cardinality(S) - 1 ELSE Cardinality(S)
  BY <1>1, FiniteRemove, Zenon
<1>5. k \in S <=> s[k] = y
  BY Zenon
<1>6. Count(s, y) = Cardinality(S) /\ Count(r, y) = Cardinality(R)
  BY Zenon DEF Count
<1> HIDE DEF S, R, T, F
<1>7. Cardinality(T) <= Cardinality(R)
  BY <1>1, <1>2, <1>3, FiniteOneToOne, Zenon
<1> QED
  BY <1>1, <1>4, <1>5, <1>6, <1>7

\* What Tail takes from a count.
LEMMA CountTail ==
  ASSUME FiniteLaws, NEW A, NEW s \in Seq(A), s # <<>>, NEW y
  PROVE  Count(s, y) <= Count(Tail(s), y) + (IF Head(s) = y THEN 1 ELSE 0)
<1>1. /\ Tail(s) \in Seq(A) /\ 1 \in DOMAIN s /\ Head(s) = s[1]
      /\ \A i \in DOMAIN s : i # 1 => i - 1 \in DOMAIN Tail(s) /\ Tail(s)[i - 1] = s[i]
  OBVIOUS
<1>2. \A i \in DOMAIN s : i # 1 => Shift(i, 1) = i - 1
  BY DEF Shift
<1>3. \A i \in DOMAIN s : i # 1 => Shift(i, 1) \in DOMAIN Tail(s) /\ Tail(s)[Shift(i, 1)] = s[i]
  BY <1>1, <1>2, Zenon
<1> QED
  BY <1>1, <1>3, CountDropped, Zenon

\* What list.remove takes from a count.
LEMMA CountWithout ==
  ASSUME FiniteLaws, NEW s \in Seq(Handlers), NEW x \in Handlers, NEW y \in Handlers
  PROVE  Count(s, y) <= Count(Without(s, x), y) + (IF x = y THEN 1 ELSE 0)
<1> DEFINE r == Without(s, x)
<1>1. r \in Seq(Handlers) /\ Count(s, y) \in Nat
  BY WithoutType, CountFacts, Zenon
<1>2. CASE \E j \in DOMAIN s : s[j] = x
  <2> DEFINE P(i) == s[i] = x /\ \A j \in 1..i - 1 : s[j] # x
             k == CHOOSE i \in DOMAIN s : P(i)
  <2>1. \E i \in DOMAIN s : P(i)
    <3> DEFINE K == {i \in DOMAIN s : s[i] = x}
    <3>1. K \subseteq Nat /\ K # {} /\ DOMAIN s = 1..Len(s) /\ Len(s) \in Nat
      BY <1>2
    <3>2. PICK i \in K : \A j \in K : i <= j
      <4>1. PICK n \in K : TRUE
        BY <3>1
      <4>2. IsFiniteSet(K)
        BY CountFacts, Zenon
      <4> HIDE DEF K
      <4> QED
        BY <3>1, LeastOf, Zenon
    <3>3. \A j \in 1..i - 1 : s[j] # x
      BY <3>1, <3>2
    <3> QED
      BY <3>2, <3>3
  <2>2. k \in DOMAIN s /\ s[k] = x
    BY <2>1
  <2>3. r = [j \in 1..Len(s) - 1 |-> IF j < k THEN s[j] ELSE s[j + 1]]
    BY <1>2 DEF Without
  <2> HIDE DEF k
  <2>4. \A i \in DOMAIN s : i # k => Shift(i, k) \in DOMAIN r /\ r[Shift(i, k)] = s[i]
    BY <2>2, <2>3 DEF Shift
  <2> HIDE DEF r
  <2>5. Count(s, y) <= Count(r, y) + (IF s[k] = y THEN 1 ELSE 0)
    BY <1>1, <2>2, <2>4, CountDropped, Zenon
  <2> QED
    BY <2>2, <2>5, Zenon DEF r
<1>3. CASE ~\E j \in DOMAIN s : s[j] = x
  <2>1. r = s
    BY <1>3, Zenon DEF Without
  <2> HIDE DEF r
  <2>2. Count(s, y) <= Count(s, y) + (IF x = y THEN 1 ELSE 0)
    BY <1>1
  <2> QED
    BY <2>1, <2>2, Zenon DEF r
<1> QED
  BY <1>2, <1>3

\* A handler that is called is no longer one to call.
LEMMA GoodCalled ==
  ASSUME FiniteLaws, QueueTypes, StackInv, Notifying, NEW t \in Threads, At(t, "call"), Top(t).run # <<>>
  PROVE  GoodFrame(t, Called(Top(t))) /\ GoodFrame(t, Broken(Called(Top(t))))
<1> DEFINE g == Top(t)
           f == Called(g)
           b == Broken(f)
<1>1. stack[t] # <<>> /\ g \in Frames /\ g.at = "call" /\ g \in FramesOf(t) /\ g.run # <<>>
  BY AtFacts, Zenon
<1>2. /\ f \in Frames /\ f.at = "call" /\ f.todo = g.todo /\ f.owed = g.owed
      /\ f.run = Tail(g.run) /\ f.got = Append(g.got, Head(g.run)) /\ f.broke = g.broke
  BY <1>1, CalledFacts, Zenon
<1>3. b \in Frames /\ b.owed = g.owed /\ b.broke /\ b.at = "call"
  BY <1>2, BrokenFacts, Zenon
<1> HIDE DEF f, g, b
<1>4. GoodFrame(t, b)
  BY <1>1, <1>3, GoodBroken, Zenon
<1>5. FreshId(t, f) /\ f.at # "record" /\ f.at # "attach"
  BY <1>2 DEF FreshId, Subscribing
<1>6. OldOwed(t, f)
  BY <1>1, <1>2, OwedAsBefore, Zenon
<1>7. ASSUME ~closed, ~f.broke, NEW h \in Handlers
      PROVE  Cardinality(Reached(f, h) \cap subIds) <= Count(f.got, h) + Count(f.run, h)
  <2> DEFINE A == Reached(g, h) \cap subIds
  <2>1. g.got \in Seq(Handlers) /\ g.run \in Seq(Handlers) /\ Head(g.run) \in Handlers /\ Tail(g.run) \in Seq(Handlers)
    BY <1>1 DEF Frames
  <2>2. Cardinality(A) <= Count(g.got, h) + Count(g.run, h)
    <3>1. Paid(g) /\ g.at \in {"notify", "call", "store"} /\ ~g.broke
      BY <1>1, <1>2, <1>7, Zenon DEF Notifying, OwedInv
    <3> QED
      BY <3>1, Zenon DEF Paid
  <2>3. Reached(f, h) \cap subIds = A
    BY <1>2, Zenon DEF Reached
  <2> DEFINE d == IF Head(g.run) = h THEN 1 ELSE 0
  <2>4. Count(f.got, h) = Count(g.got, h) + d
    <3> HIDE DEF d
    <3>1. g.got \in Seq(Handlers) /\ Head(g.run) \in Handlers /\ f.got = Append(g.got, Head(g.run))
      BY <1>2, <2>1, Zenon
    <3>2. Count(Append(g.got, Head(g.run)), h) = Count(g.got, h) + (IF Head(g.run) = h THEN 1 ELSE 0)
      BY ONLY <3>1, FiniteLaws, CountAppend
    <3> QED
      BY <3>1, <3>2, Zenon DEF d
  <2>5. Count(g.run, h) <= Count(f.run, h) + d
    <3> HIDE DEF d
    <3>1. g.run \in Seq(Handlers) /\ g.run # <<>> /\ f.run = Tail(g.run)
      BY <1>1, <1>2, <2>1, Zenon
    <3>2. Count(g.run, h) <= Count(Tail(g.run), h) + (IF Head(g.run) = h THEN 1 ELSE 0)
      BY ONLY <3>1, FiniteLaws, CountTail
    <3> QED
      BY <3>1, <3>2, Zenon DEF d
  <2>6. Count(g.got, h) \in Nat /\ Count(g.run, h) \in Nat /\ Count(f.run, h) \in Nat
    BY <1>2, <2>1, CountFacts, Zenon
  <2>7. d \in Nat
    OBVIOUS
  <2>8. IsFiniteSet(A)
    BY FiniteMeet, Zenon DEF QueueTypes
  <2> HIDE DEF A, d
  <2>9. Cardinality(A) \in Nat
    BY <2>8, FiniteSize, Zenon
  <2>10. Cardinality(A) <= Count(f.got, h) + Count(f.run, h)
    BY <2>2, <2>4, <2>5, <2>6, <2>7, <2>9
  <2> QED
    BY <2>3, <2>10, Zenon
<1>8. GoodFrame(t, f)
  BY <1>5, <1>6, <1>7, Zenon DEF GoodFrame, Paid
<1> QED
  BY <1>4, <1>8, Zenon DEF f, g, b

\* The steps of Good frames, one by one.  A handler is called.
LEMMA CallHandlerGood ==
  ASSUME FiniteLaws, QueueTypes, StackInv, Notifying, NEW t \in Threads, CallHandler(t)
  PROVE  Good(t) /\ (serial' = serial \/ serial' = serial + 1)
<1>1. /\ stack[t] # <<>> /\ At(t, "call")
      /\ Ends(t) \/ CallsPlain(t) \/ CallsRaising(t) \/ \E g : CallsQueue(t, g)
  BY CallHandlerFacts, Zenon DEF At, Top
<1>2. CASE Ends(t)
  <2>1. "notify" \in Places /\ "notify" \notin Subscribing /\ "notify" # "attach" /\ "notify" \notin {"record", "call"}
    BY DEF Places, Sending, Subscribing
  <2>2. Good(t)
    BY <1>1, <1>2, <2>1, GoodMoved, Zenon DEF Ends
  <2> QED
    BY <1>2, <2>2, Zenon DEF Ends
<1>3. ASSUME Top(t).run # <<>>
      PROVE  /\ GoodFrame(t, Called(Top(t))) /\ GoodFrame(t, Broken(Called(Top(t))))
             /\ Called(Top(t)) \in Frames /\ Broken(Called(Top(t))) \in Frames /\ Called(Top(t)).at = "call"
  <2>1. Top(t) \in Frames /\ FrameShape(Top(t)) /\ Top(t).at = "call"
    BY <1>1, AtFacts, Zenon
  <2> QED
    BY <1>1, <1>3, <2>1, GoodCalled, CalledShape, Zenon
<1>4. CASE CallsPlain(t)
  BY <1>1, <1>3, <1>4, GoodBecome, Zenon DEF CallsPlain
<1>5. CASE CallsRaising(t)
  BY <1>1, <1>3, <1>5, GoodBecome, Zenon DEF CallsRaising
<1>6. CASE \E g : CallsQueue(t, g)
  <2>1. PICK g : CallsQueue(t, g)
    BY <1>6
  <2> DEFINE c == Called(Top(t))
             N == {g, c}
  <2>2. g \in Frames /\ NewFrame(g) /\ c \in Frames /\ c.at = "call" /\ Calls(t, g, c)
    BY <1>3, <2>1, Zenon DEF CallsQueue, NewFrame
  <2>3. Moves(t, N)
    BY <1>1, <2>2, CallsMoves, Zenon DEF QueueTypes
  <2>4. g.at = "topic" => g.id = serial /\ serial' = serial + 1
    BY <2>1 DEF CallsQueue
  <2>5. GoodFrame(t, g)
    BY <2>2, <2>4, GoodNew, Zenon
  <2>6. GoodFrame(t, c)
    BY <1>3, <2>1, Zenon DEF CallsQueue
  <2>7. \A f \in N : GoodFrame(t, f)
    BY <2>5, <2>6, Zenon
  <2> HIDE DEF N
  <2>8. Good(t)
    BY <2>3, <2>7, Zenon DEF Good
  <2> QED
    BY <2>1, <2>8, Zenon DEF CallsQueue
<1> QED
  BY <1>1, <1>2, <1>4, <1>5, <1>6, Zenon

\* topic().
LEMMA GetOrCreateGood ==
  ASSUME FiniteLaws, QueueTypes, TopicsInv, Notifying, NEW t \in Threads, GetOrCreate(t)
  PROVE  Good(t)
<1>1. At(t, "topic") /\ Free(qlock, t) /\ StackInv
  BY Zenon DEF GetOrCreate, TopicsInv
<1>2. Top(t).topic \in Names /\ stack[t] # <<>> /\ Top(t).at = "topic"
  BY <1>1, SubscribingFrame, AtFacts, Zenon DEF Subscribing
<1>3. CASE Top(t).topic \in topics
  <2>1. Become(t, Moved(Top(t), "attach"))
    BY <1>3, Zenon DEF GetOrCreate, Moved
  <2>2. ASSUME ~closed PROVE Count(wired, Top(t).topic) = 1
    <3>1. \A u \in Threads : ~Wiring(u)
      <4>1. ~Wiring(t)
        BY <1>2 DEF Wiring
      <4>2. \A u \in Threads : Wiring(u) => qlock = u
        BY Zenon DEF TopicsInv, LockInv
      <4>3. NoThread \notin Threads
        BY QueueAssumption, Zenon
      <4> QED
        BY <1>1, <4>1, <4>2, <4>3, Zenon DEF Free
    <3>2. Count(wired, Top(t).topic) <= 1 /\ Count(wired, Top(t).topic) # 0
      BY <1>2, <1>3, <2>2, <3>1, Zenon DEF TopicsInv, WiredInv
    <3>3. Count(wired, Top(t).topic) \in Nat
      BY CountFacts, Zenon DEF QueueTypes
    <3> QED
      BY <3>2, <3>3
  <2>3. "attach" \in Places /\ "topic" \in Subscribing /\ "attach" \notin {"record", "call"}
        /\ "attach" \notin {"notify", "store"}
    BY DEF Places, Subscribing
  <2> QED
    BY <1>1, <2>1, <2>2, <2>3, GoodMoved, Zenon
<1>4. CASE Top(t).topic \notin topics
  <2>1. Become(t, Moved(Top(t), "wire"))
    BY <1>4, Zenon DEF GetOrCreate, Moved
  <2>2. "wire" \in Places /\ "topic" \in Subscribing /\ "wire" \notin {"record", "call"}
        /\ "wire" \notin {"notify", "store"} /\ "wire" # "attach"
    BY DEF Places, Subscribing
  <2> QED
    BY <1>1, <2>1, <2>2, GoodMoved, Zenon
<1> QED
  BY <1>3, <1>4, Zenon

\* send() gets the lock.
LEMMA SendLockGood ==
  ASSUME FiniteLaws, QueueTypes, StackInv, Notifying, NEW t \in Threads, SendLock(t)
  PROVE  Good(t)
<1>1. At(t, "lock") /\ Become(t, Locked(Top(t)))
  BY Zenon DEF SendLock, Locked
<1> QED
  BY <1>1, GoodLocked, Zenon

\* send() comes to the next subscription.
LEMMA FireGood ==
  ASSUME FiniteLaws, QueueTypes, StackInv, Notifying, NEW t \in Threads, Fire(t)
  PROVE  Good(t)
<1>1. /\ At(t, "notify")
      /\ \/ Become(t, Moved(Top(t), "store"))
         \/ Top(t).todo # <<>> /\ Become(t, Firing(Top(t)))
         \/ Top(t).todo # <<>> /\ ~Matches(Top(t), Head(Top(t).todo)) /\ Become(t, Skipped(Top(t)))
  BY Zenon DEF Fire, Moved, Firing, Skipped
<1>2. "store" \in Places /\ "store" \notin Subscribing /\ "store" \notin {"record", "call"}
      /\ "notify" \in {"notify", "call", "store"} /\ "store" # "attach"
  BY DEF Places, Subscribing, Sending
<1> QED
  BY <1>1, <1>2, GoodMoved, GoodFiring, GoodSkipped, Zenon

\* A new transport subscription.
LEMMA TransportRegisterNotifying ==
  ASSUME FiniteLaws, QueueTypes, TopicsInv, Notifying, NEW t \in Threads, TransportRegister(t)
  PROVE  Notifying'
<1> DEFINE f == Moved(Top(t), "attach")
           N == {f}
           n == Top(t).topic
<1>1. /\ At(t, "register") /\ Become(t, f) /\ wired' = Append(wired, n) /\ StackInv
      /\ UNCHANGED <<channels, subIds, closed, serial>>
  BY Zenon DEF TransportRegister, TopicsInv, Moved, tables
<1>2. stack[t] # <<>> /\ Top(t) \in Frames /\ Top(t).at = "register" /\ Top(t) \in FramesOf(t) /\ n \in Names
  BY <1>1, AtFacts, SubscribingFrame, Zenon DEF Subscribing
<1>3. "attach" \in Places /\ "attach" # "record" /\ "attach" \notin {"notify", "call", "store"} /\ "register" \in Subscribing
  BY DEF Places, Subscribing
<1>4. f \in Frames /\ f.at = "attach" /\ f.id = Top(t).id /\ f.owed = Top(t).owed /\ f.topic = n
  BY <1>2, <1>3, MovedFacts, Zenon
<1>5. Moves(t, N) /\ stack'[t] # <<>> /\ Top(t)' = f
  BY <1>1, <1>2, <1>4, BecomeMoves, Zenon DEF QueueTypes
<1>6. wired \in Seq(Names) /\ Count(wired, n) = 0
  <2>1. Wiring(t)
    BY <1>2 DEF Wiring
  <2> QED
    BY <2>1, Zenon DEF TopicsInv, WiredInv, QueueTypes
<1>7. EntriesInv /\ ReadyInv /\ ChannelInv /\ OwedInv
  BY Zenon DEF Notifying
<1>8. FreshId(t, f) /\ OldOwed(t, f)
  BY <1>2, <1>3, <1>4, OwedAsBefore, Zenon DEF FreshId, Placing
<1>9. \A g : g.at = "attach" => Paid(g)'
  BY <1>3, Zenon DEF Paid
<1> HIDE DEF f, n
<1>10. \A g \in N : FreshId(t, g) /\ OldOwed(t, g) /\ g.at # "record" /\ Paid(g)'
  BY <1>3, <1>4, <1>8, <1>9, Zenon
<1> HIDE DEF N
<1>11. EntriesInv'
  BY <1>1, <1>5, <1>7, <1>10, EntriesMoves, Zenon
<1>12. ChannelInv'
  BY <1>1, <1>5, <1>7, <1>10, ChannelMoves, Zenon
<1>13. OwedInv'
  BY <1>1, <1>5, <1>7, <1>10, OwedMoves, Zenon
<1>14. \A x : Count(wired', x) = Count(wired, x) + (IF n = x THEN 1 ELSE 0)
  <2> SUFFICES ASSUME NEW x PROVE Count(Append(wired, n), x) = Count(wired, x) + (IF n = x THEN 1 ELSE 0)
    BY <1>1, Zenon
  <2> QED
    BY ONLY <1>2, <1>6, FiniteLaws, CountAppend
<1>15. Count(wired', n) = 1 /\ \A x : Count(wired, x) = 1 => Count(wired', x) = 1
  BY <1>6, <1>14
<1>16. ReadyInv'
  <2>1. ASSUME ~closed, NEW u \in Threads, stack'[u] # <<>>, Top(u)'.at \in {"attach", "record"}
        PROVE  Count(wired', Top(u)'.topic) = 1
    <3>1. CASE u = t
      BY <1>4, <1>5, <1>15, <3>1, Zenon
    <3>2. CASE u # t
      <4>1. stack[u] # <<>> /\ Top(u)' = Top(u)
        BY <1>5, <2>1, <3>2, OthersStay, Zenon
      <4> QED
        BY <1>7, <1>15, <2>1, <4>1, Zenon DEF ReadyInv
    <3> QED
      BY <3>1, <3>2, Zenon
  <2>2. ~closed => \A e \in subIds' : Count(wired', e.topic) = 1
    BY <1>1, <1>7, <1>15, Zenon DEF ReadyInv
  <2> QED
    BY <1>1, <2>1, <2>2, Zenon DEF ReadyInv
<1> QED
  BY <1>11, <1>12, <1>13, <1>16, Zenon DEF Notifying

\* close() empties the table of the transport.
LEMMA CloseClearNotifying ==
  ASSUME FiniteLaws, QueueTypes, StackInv, Notifying, NEW t \in Threads, CloseClear(t)
  PROVE  Notifying'
<1>1. At(t, "close") /\ Return(t) /\ UNCHANGED <<channels, subIds, closed, serial>>
  BY Zenon DEF CloseClear, tables
<1>2. stack[t] # <<>> /\ Top(t).at = "close"
  BY <1>1, AtFacts, Zenon
<1>3. closed
  BY <1>2, Zenon DEF StackInv
<1>4. Moves(t, {})
  BY <1>1, <1>2, ReturnMoves, Zenon DEF QueueTypes
<1> DEFINE N == {}
<1>5. Moves(t, N) /\ \A f \in N : FreshId(t, f) /\ OldOwed(t, f) /\ f.at # "record"
  BY <1>4
<1> HIDE DEF N
<1>6. EntriesInv'
  BY <1>1, <1>5, EntriesMoves, Zenon DEF Notifying
<1>7. ChannelInv'
  BY <1>1, <1>5, ChannelMoves, Zenon DEF Notifying
<1> QED
  BY <1>1, <1>3, <1>6, <1>7, Zenon DEF Notifying, ReadyInv, OwedInv

\* Eventful.subscribe: one more handler in the channel.
LEMMA ChannelSubscribeNotifying ==
  ASSUME FiniteLaws, QueueTypes, StackInv, Notifying, NEW t \in Threads, ChannelSubscribe(t)
  PROVE  Notifying'
<1> DEFINE f == Moved(Top(t), "record")
           N == {f}
           p == Top(t).topic
           x == Top(t).fn
           b == EntryOf(Top(t))
<1>1. /\ At(t, "attach") /\ Become(t, f) /\ channels' = [channels EXCEPT ![p] = Append(@, x)]
      /\ UNCHANGED <<wired, subIds, closed, serial>>
  BY Zenon DEF ChannelSubscribe, Moved, transport
<1>2. /\ stack[t] # <<>> /\ Top(t) \in Frames /\ Top(t).at = "attach" /\ Top(t) \in FramesOf(t)
      /\ p \in Names /\ x \in Handlers
  BY <1>1, AtFacts, SubscribingFrame, Zenon DEF Subscribing
<1>3. /\ "record" \in Places /\ "record" # "attach" /\ "record" \notin {"notify", "call", "store"}
      /\ "attach" \in Subscribing /\ "attach" # "call" /\ "record" # "call"
  BY DEF Places, Subscribing
<1>4. /\ f \in Frames /\ f.at = "record" /\ f.id = Top(t).id /\ f.owed = Top(t).owed /\ f.topic = p
      /\ f.fn = x
  BY <1>2, <1>3, MovedFacts, Zenon
<1>5. Moves(t, N) /\ stack'[t] # <<>> /\ Top(t)' = f
  BY <1>1, <1>2, <1>4, BecomeMoves, Zenon DEF QueueTypes
<1>6. EntriesInv /\ ReadyInv /\ ChannelInv /\ OwedInv
  BY Zenon DEF Notifying
<1>7. FreshId(t, f) /\ OldOwed(t, f)
  BY <1>2, <1>3, <1>4, OwedAsBefore, Zenon DEF FreshId, Placing
<1>8. \A g : g.at = "record" => Paid(g)'
  BY <1>3, Zenon DEF Paid
<1>9. ~closed => Count(wired, p) = 1
  BY <1>2, <1>6, Zenon DEF ReadyInv
<1>10. EntryOf(f) = b /\ b.topic = p /\ b.fn = x
  <2>1. b = [id |-> Top(t).id, topic |-> p, fn |-> x] /\ EntryOf(f) = [id |-> f.id, topic |-> f.topic, fn |-> f.fn]
    BY Zenon DEF EntryOf
  <2> HIDE DEF f, b
  <2> QED
    BY <1>4, <2>1
<1> HIDE DEF f, p, x, b
<1>11. \A g \in N : /\ FreshId(t, g) /\ OldOwed(t, g) /\ Paid(g)'
                    /\ g.at \in {"attach", "record"} /\ ~closed => Count(wired, g.topic) = 1
  BY <1>4, <1>7, <1>8, <1>9, Zenon
<1> HIDE DEF N
<1>12. EntriesInv'
  BY <1>1, <1>5, <1>6, <1>11, EntriesMoves, Zenon
<1>13. ReadyInv'
  BY <1>1, <1>5, <1>6, <1>11, ReadyMoves, Zenon
<1>14. OwedInv'
  BY <1>1, <1>5, <1>6, <1>11, OwedMoves, Zenon
<1>15. Attached' \subseteq Attached \cup {b}
  <2>1. ASSUME NEW u \in Threads, stack'[u] # <<>>, Top(u)'.at = "record"
        PROVE  EntryOf(Top(u)') \in Attached \cup {b}
    <3>1. CASE u = t
      BY <1>5, <1>10, <3>1, Zenon
    <3>2. CASE u # t
      <4>1. stack[u] # <<>> /\ Top(u)' = Top(u)
        BY <1>5, <2>1, <3>2, OthersStay, Zenon
      <4> QED
        BY <2>1, <4>1, Zenon DEF Attached
    <3> QED
      BY <3>1, <3>2, Zenon
  <2> QED
    BY <2>1, Zenon DEF Attached, EntryOf
<1>16. ASSUME NEW n \in Names, NEW h \in Handlers
       PROVE  /\ IsFiniteSet(Of(subIds \cup Attached, n, h)')
              /\ Cardinality(Of(subIds \cup Attached, n, h)') <= Count(channels'[n], h)
  <2> DEFINE A == Of(subIds \cup Attached, n, h)
             B == Of(subIds \cup Attached, n, h)'
  <2>1. IsFiniteSet(A) /\ Cardinality(A) <= Count(channels[n], h)
    BY <1>6, Zenon DEF ChannelInv
  <2>2. channels[n] \in Seq(Handlers)
    BY DEF QueueTypes
  <2>3. Count(channels[n], h) \in Nat /\ Cardinality(A) \in Nat
    BY <2>1, <2>2, CountFacts, FiniteSize, Zenon
  <2>4. CASE n = p /\ h = x
    <3>1. channels'[n] = Append(channels[n], h)
      BY <1>1, <2>4 DEF QueueTypes
    <3>2. Count(Append(channels[n], h), h) = Count(channels[n], h) + (IF h = h THEN 1 ELSE 0)
      BY ONLY <1>16, <2>2, FiniteLaws, CountAppend
    <3>3. B \subseteq A \cup {b}
      BY <1>1, <1>15, Zenon DEF Of
    <3> HIDE DEF A, B
    <3>4. IsFiniteSet(A \cup {b}) /\ Cardinality(A \cup {b}) <= Cardinality(A) + 1
      <4>1. /\ IsFiniteSet(A \cup {b})
            /\ Cardinality(A \cup {b}) = IF b \in A THEN Cardinality(A) ELSE Cardinality(A) + 1
        BY <2>1, FiniteAdd, Zenon
      <4> QED
        BY <2>3, <4>1
    <3>5. IsFiniteSet(B) /\ Cardinality(B) <= Cardinality(A \cup {b})
      BY <3>3, <3>4, FiniteSubset, Zenon
    <3>6. Cardinality(B) \in Nat /\ Cardinality(A \cup {b}) \in Nat
      BY <3>4, <3>5, FiniteSize, Zenon
    <3>7. Cardinality(B) <= Count(channels'[n], h)
      BY <2>1, <2>3, <3>1, <3>2, <3>4, <3>5, <3>6
    <3> QED
      BY <3>5, <3>7, Zenon DEF B
  <2>5. CASE ~(n = p /\ h = x)
    <3>1. B \subseteq A
      BY <1>1, <1>10, <1>15, <2>5, Zenon DEF Of
    <3>2. Count(channels'[n], h) = Count(channels[n], h)
      <4>1. CASE n # p
        <5>1. channels'[n] = channels[n]
          BY <1>1, <4>1 DEF QueueTypes
        <5> QED
          BY <5>1, Zenon
      <4>2. CASE n = p
        <5>1. channels'[n] = Append(channels[n], x) /\ x # h
          BY <1>1, <2>5, <4>2 DEF QueueTypes
        <5>2. Count(Append(channels[n], x), h) = Count(channels[n], h) + (IF x = h THEN 1 ELSE 0)
          BY ONLY <1>2, <2>2, FiniteLaws, CountAppend
        <5> QED
          BY <2>3, <5>1, <5>2
      <4> QED
        BY <4>1, <4>2, Zenon
    <3> HIDE DEF A, B
    <3>3. IsFiniteSet(B) /\ Cardinality(B) <= Cardinality(A)
      BY <2>1, <3>1, FiniteSubset, Zenon
    <3>4. Cardinality(B) \in Nat
      BY <3>3, FiniteSize, Zenon
    <3>5. Cardinality(B) <= Count(channels'[n], h)
      BY <2>1, <2>3, <3>2, <3>3, <3>4
    <3> QED
      BY <3>3, <3>5, Zenon DEF B
  <2> QED
    BY <2>4, <2>5, Zenon
<1>17. ChannelInv'
  BY <1>16, Zenon DEF ChannelInv
<1> QED
  BY <1>12, <1>13, <1>14, <1>17, Zenon DEF Notifying

\* The queue records the id of a subscription that is in the channel.
LEMMA RecordIdNotifying ==
  ASSUME FiniteLaws, QueueTypes, StackInv, Notifying, NEW t \in Threads, RecordId(t)
  PROVE  Notifying'
<1> DEFINE b == EntryOf(Top(t))
           N == {}
<1>1. At(t, "record") /\ Return(t) /\ subIds' = subIds \cup {b} /\ UNCHANGED <<channels, wired, closed, serial>>
  BY Zenon DEF RecordId, EntryOf, transport
<1>2. stack[t] # <<>> /\ Top(t) \in Frames /\ Top(t).at = "record" /\ Top(t).id \in Nat
  BY <1>1, AtFacts, SubscribingFrame, Zenon DEF Subscribing
<1>3. "record" \in Subscribing /\ "call" \notin Subscribing /\ "record" \in {"attach", "record"}
  BY DEF Subscribing
<1>4. Moves(t, {})
  BY <1>1, <1>2, ReturnMoves, Zenon DEF QueueTypes
<1>5. Moves(t, N) /\ N = {}
  BY <1>4
<1>6. EntriesInv /\ ReadyInv /\ ChannelInv /\ OwedInv
  BY Zenon DEF Notifying
<1>7. b.id = Top(t).id /\ b.topic = Top(t).topic /\ b \in Attached
  <2>1. b.id = Top(t).id /\ b.topic = Top(t).topic
    BY DEF EntryOf
  <2> HIDE DEF b
  <2>2. b \in Attached
    BY <1>2, Zenon DEF Attached, b
  <2> QED
    BY <2>1, <2>2, Zenon
<1>8. Placing(t) /\ Top(t).id < serial
  BY <1>2, <1>3, <1>6, Zenon DEF Placing, EntriesInv
<1>9. \A u \in Threads : Placing(u)' => u # t /\ Placing(u) /\ Top(u)' = Top(u)
  <2>1. ~Placing(t)'
    <3>1. ASSUME stack'[t] # <<>> PROVE Top(t)'.at = "call"
      BY <1>5, <3>1, NewTop, Zenon
    <3> QED
      BY <1>3, <3>1, Zenon DEF Placing
  <2> QED
    BY <1>5, <2>1, OthersStay, Zenon
<1> HIDE DEF b, N
<1>10. \A y : Known(y) => Known(y)'
  BY <1>1, <1>9, Zenon DEF Known
<1>11. EntriesInv'
  <2>1. \A e \in subIds' : Known(e.id)'
    <3>1. \A u \in Threads : Placing(u)' => Top(u)'.id # b.id
      BY <1>6, <1>7, <1>8, <1>9, Zenon DEF EntriesInv
    <3>2. \A y : y = b.id => Known(y)'
      BY <1>1, <1>7, <1>8, <3>1, Zenon DEF Known
    <3> QED
      BY <1>1, <1>6, <1>10, <3>2, Zenon DEF EntriesInv
  <2>2. \A u \in Threads : Placing(u)' => Top(u)'.id < serial'
    BY <1>1, <1>6, <1>9, Zenon DEF EntriesInv
  <2>3. \A u, v \in Threads : Placing(u)' /\ Placing(v)' /\ Top(u)'.id = Top(v)'.id => u = v
    BY <1>6, <1>9, Zenon DEF EntriesInv
  <2>4. \A u \in Threads : FramesOf(u)' \subseteq FramesOf(u)
    <3>1. FramesOf(t)' \subseteq FramesOf(t)
      BY <1>5, Zenon DEF Moves
    <3> QED
      BY <1>5, <3>1, OthersStay, Zenon
  <2>5. \A u \in Threads : \A f \in FramesOf(u)' : \A e \in f.owed : Known(e.id)'
    BY <1>6, <1>10, <2>4, Zenon DEF EntriesInv
  <2> QED
    BY <2>1, <2>2, <2>3, <2>5, Zenon DEF EntriesInv
<1>12. ReadyInv'
  <2>1. ~closed => Count(wired, b.topic) = 1
    BY <1>2, <1>3, <1>6, <1>7, Zenon DEF ReadyInv
  <2>2. \A e \in subIds' : e \in subIds \/ (~closed => Count(wired, e.topic) = 1)
    BY <1>1, <2>1, Zenon
  <2>3. \A f \in N : f.at \in {"attach", "record"} /\ ~closed => Count(wired, f.topic) = 1
    BY <1>5, Zenon
  <2> QED
    BY <1>1, <1>5, <1>6, <2>2, <2>3, ReadyMoves, Zenon
<1>13. ChannelInv'
  <2>1. subIds' \subseteq subIds \cup Attached /\ \A f \in N : f.at # "record"
    BY <1>1, <1>5, <1>7, Zenon
  <2> QED
    BY <1>1, <1>5, <1>6, <2>1, ChannelMoves, Zenon
<1>14. OwedInv'
  <2>1. \A u \in Threads : \A f \in FramesOf(u) : \A e \in f.owed : e # b
    BY <1>6, <1>7, <1>8, Zenon DEF EntriesInv, Known
  <2>2. \A u \in Threads : \A f \in FramesOf(u) : f.owed \cap subIds' \subseteq subIds
    BY <1>1, <2>1, Zenon
  <2>3. \A f \in N : ~closed => Paid(f)'
    BY <1>5, Zenon
  <2> QED
    BY <1>1, <1>5, <1>6, <2>2, <2>3, OwedMoves, Zenon
<1> QED
  BY <1>11, <1>12, <1>13, <1>14, Zenon DEF Notifying

\* unsubscribe: the channel loses one handler, and the id goes with it.
LEMMA UnsubscribeNotifying ==
  ASSUME FiniteLaws, QueueTypes, Notifying, NEW t \in Threads, Unsubscribe(t)
  PROVE  Notifying'
<1>1. PICK d \in subIds : subIds' = subIds \ {d} /\ channels' = [channels EXCEPT ![d.topic] = Without(@, d.fn)]
  BY Zenon DEF Unsubscribe
<1>2. UNCHANGED <<wired, closed, stack, serial>>
  BY Zenon DEF Unsubscribe, transport
<1>3. EntriesInv /\ ReadyInv /\ ChannelInv /\ OwedInv
  BY Zenon DEF Notifying
<1>4. d \in Entries /\ d.topic \in Names /\ d.fn \in Handlers /\ subIds \subseteq Entries
  BY DEF QueueTypes, Entries
<1>5. \A u \in Threads : /\ Top(u)' = Top(u) /\ FramesOf(u)' = FramesOf(u)
                         /\ Placing(u)' <=> Placing(u)
  BY <1>2, Zenon DEF Top, FramesOf, Placing
<1>6. \A y : Known(y)' <=> Known(y)
  BY <1>2, <1>5, Zenon DEF Known
<1>7. EntriesInv'
  BY <1>1, <1>2, <1>3, <1>5, <1>6, Zenon DEF EntriesInv
<1>8. ReadyInv'
  BY <1>1, <1>2, <1>3, <1>5, Zenon DEF ReadyInv
<1>9. OwedInv'
  <2>1. ASSUME ~closed, NEW u \in Threads, NEW f \in FramesOf(u) PROVE Paid(f)'
    <3>1. Paid(f) /\ f \in Frames
      <4>1. f \in Frames
        BY DEF FramesOf, QueueTypes
      <4> QED
        BY <1>3, <2>1, <4>1, Zenon DEF OwedInv
    <3>2. f.owed \cap subIds' \subseteq subIds
      BY <1>1, Zenon
    <3> QED
      BY <3>1, <3>2, PaidKept, Zenon
  <2> QED
    BY <1>2, <1>5, <2>1, Zenon DEF OwedInv
<1>10. Attached' = Attached /\ d \notin Attached
  <2>1. Attached' = Attached
    BY <1>2, Zenon DEF Attached, Top
  <2>2. ASSUME NEW u \in Threads, stack[u] # <<>>, Top(u).at = "record" PROVE d # EntryOf(Top(u))
    <3>1. Placing(u)
      BY <2>2 DEF Placing, Subscribing
    <3>2. d.id # Top(u).id
      BY <1>3, <3>1, Zenon DEF EntriesInv, Known
    <3>3. EntryOf(Top(u)).id = Top(u).id
      BY DEF EntryOf
    <3> QED
      BY <3>2, <3>3, Zenon
  <2> QED
    BY <2>1, <2>2, Zenon DEF Attached
<1>11. ASSUME NEW n \in Names, NEW h \in Handlers
       PROVE  /\ IsFiniteSet(Of(subIds \cup Attached, n, h)')
              /\ Cardinality(Of(subIds \cup Attached, n, h)') <= Count(channels'[n], h)
  <2> DEFINE A == Of(subIds \cup Attached, n, h)
             B == Of(subIds \cup Attached, n, h)'
  <2>1. IsFiniteSet(A) /\ Cardinality(A) <= Count(channels[n], h)
    BY <1>3, Zenon DEF ChannelInv
  <2>2. channels[n] \in Seq(Handlers)
    BY DEF QueueTypes
  <2>3. channels'[n] = IF n = d.topic THEN Without(channels[n], d.fn) ELSE channels[n]
    BY <1>1 DEF QueueTypes
  <2>4. Without(channels[n], d.fn) \in Seq(Handlers)
    BY <1>4, <2>2, WithoutType, Zenon
  <2>5. channels'[n] \in Seq(Handlers)
    BY <2>2, <2>3, <2>4, Zenon
  <2>6. Count(channels[n], h) \in Nat /\ Count(channels'[n], h) \in Nat /\ Cardinality(A) \in Nat
    BY <2>1, <2>2, <2>5, CountFacts, FiniteSize, Zenon
  <2>7. CASE n = d.topic /\ h = d.fn
    <3>1. d \in A /\ B = A \ {d}
      BY <1>1, <1>10, <2>7, Zenon DEF Of
    <3>2. Count(channels[n], h) <= Count(Without(channels[n], d.fn), h) + (IF d.fn = h THEN 1 ELSE 0)
      BY ONLY <1>4, <1>11, <2>2, FiniteLaws, CountWithout
    <3> HIDE DEF A, B
    <3>3. IsFiniteSet(B) /\ Cardinality(B) = Cardinality(A) - 1
      <4>1. /\ IsFiniteSet(A \ {d})
            /\ Cardinality(A \ {d}) = IF d \in A THEN Cardinality(A) - 1 ELSE Cardinality(A)
        BY <2>1, FiniteRemove, Zenon
      <4> QED
        BY <3>1, <4>1, Zenon
    <3>4. Cardinality(B) <= Count(channels'[n], h)
      BY <2>1, <2>3, <2>6, <2>7, <3>2, <3>3
    <3> QED
      BY <3>3, <3>4, Zenon DEF B
  <2>8. CASE ~(n = d.topic /\ h = d.fn)
    <3>1. B \subseteq A
      BY <1>1, <1>10, Zenon DEF Of
    <3>2. Count(channels[n], h) <= Count(channels'[n], h)
      <4>1. CASE n # d.topic
        BY <2>3, <2>6, <4>1
      <4>2. CASE n = d.topic
        <5>1. Count(channels[n], h) <= Count(Without(channels[n], d.fn), h) + (IF d.fn = h THEN 1 ELSE 0)
          BY ONLY <1>4, <1>11, <2>2, FiniteLaws, CountWithout
        <5> QED
          BY <2>3, <2>6, <2>8, <4>2, <5>1
      <4> QED
        BY <4>1, <4>2, Zenon
    <3> HIDE DEF A, B
    <3>3. IsFiniteSet(B) /\ Cardinality(B) <= Cardinality(A)
      BY <2>1, <3>1, FiniteSubset, Zenon
    <3>4. Cardinality(B) \in Nat
      BY <3>3, FiniteSize, Zenon
    <3>5. Cardinality(B) <= Count(channels'[n], h)
      BY <2>1, <2>6, <3>2, <3>3, <3>4
    <3> QED
      BY <3>3, <3>5, Zenon DEF B
  <2> QED
    BY <2>7, <2>8, Zenon
<1>12. ChannelInv'
  BY <1>11, Zenon DEF ChannelInv
<1> QED
  BY <1>7, <1>8, <1>9, <1>12, Zenon DEF Notifying

\* The state after any step.
LEMMA NotifyingStep ==
  ASSUME FiniteLaws, QueueTypes, TopicsInv, Notifying, [QueueNext]_queueVars
  PROVE  Notifying'
<1>1. StackInv
  BY Zenon DEF TopicsInv
<1>2. CASE UNCHANGED queueVars
  <2>1. UNCHANGED <<topics, channels, subIds, wired, store, closed, stack, serial>>
    BY <1>2, Zenon DEF queueVars, tables, transport
  <2>2. Attached' = Attached
    BY <2>1, Zenon DEF Attached, Top
  <2>3. EntriesInv'
    <3>1. /\ \A x : Known(x)' <=> Known(x)
          /\ \A t \in Threads : (Placing(t)' <=> Placing(t)) /\ Top(t)' = Top(t) /\ FramesOf(t)' = FramesOf(t)
      BY <2>1, Zenon DEF Known, Placing, Top, FramesOf
    <3> QED
      BY <2>1, <3>1, Zenon DEF Notifying, EntriesInv
  <2>4. ReadyInv'
    BY <2>1, Zenon DEF Notifying, ReadyInv, Top
  <2>5. ChannelInv'
    BY <2>1, <2>2, Zenon DEF Notifying, ChannelInv, Of
  <2>6. OwedInv'
    BY <2>1, Zenon DEF Notifying, OwedInv, FramesOf, Paid, Reached
  <2> QED
    BY <2>3, <2>4, <2>5, <2>6, Zenon DEF Notifying
<1>3. ASSUME NEW t \in Threads, Begin(t) \/ Unsubscribe(t) \/ CloseFlag(t) \/ Step(t)
      PROVE  Notifying'
  <2>1. ASSUME Good(t), UNCHANGED <<subIds, channels, wired>>, closed => closed',
               serial' = serial \/ serial' = serial + 1
        PROVE  Notifying'
    BY <1>1, <2>1, GoodStep, Zenon
  <2>2. CASE Begin(t)
    <3>1. UNCHANGED <<subIds, channels, wired, closed>>
      BY <2>2, Zenon DEF Begin, tables, transport
    <3> QED
      BY <2>1, <2>2, <3>1, BeginGood, Zenon
  <2>3. CASE Unsubscribe(t)
    BY <2>3, UnsubscribeNotifying, Zenon
  <2>4. CASE CloseFlag(t)
    <3>1. UNCHANGED <<subIds, channels, wired, serial>> /\ (closed => closed')
      BY <2>4, Zenon DEF CloseFlag, tables
    <3> QED
      BY <2>1, <2>4, <3>1, CloseFlagGood, Zenon
  <2>5. CASE GetOrCreate(t)
    <3>1. UNCHANGED <<subIds, channels, wired, serial, closed>>
      BY <2>5, Zenon DEF GetOrCreate, transport
    <3> QED
      BY <2>1, <2>5, <3>1, GetOrCreateGood, Zenon
  <2>6. CASE TransportSubscribe(t)
    <3>1. UNCHANGED <<subIds, channels, wired, serial, closed>>
      BY <2>6, Zenon DEF TransportSubscribe, tables, transport
    <3> QED
      BY <1>1, <2>1, <2>6, <3>1, TransportSubscribeGood, Zenon
  <2>7. CASE TransportRegister(t)
    BY <2>7, TransportRegisterNotifying, Zenon
  <2>8. CASE ChannelSubscribe(t)
    BY <1>1, <2>8, ChannelSubscribeNotifying, Zenon
  <2>9. CASE RecordId(t)
    BY <1>1, <2>9, RecordIdNotifying, Zenon
  <2>10. CASE SendTest(t)
    <3>1. UNCHANGED <<subIds, channels, wired, serial, closed>>
      BY <2>10, Zenon DEF SendTest, tables, transport
    <3> QED
      BY <1>1, <2>1, <2>10, <3>1, SendTestGood, Zenon
  <2>11. CASE SendLock(t)
    <3>1. UNCHANGED <<subIds, channels, wired, serial, closed>>
      BY <2>11, Zenon DEF SendLock, tables, transport
    <3> QED
      BY <1>1, <2>1, <2>11, <3>1, SendLockGood, Zenon
  <2>12. CASE Fire(t)
    <3>1. UNCHANGED <<subIds, channels, wired, serial, closed>>
      BY <2>12, Zenon DEF Fire, tables, transport
    <3> QED
      BY <1>1, <2>1, <2>12, <3>1, FireGood, Zenon
  <2>13. CASE CallHandler(t)
    <3>1. UNCHANGED <<subIds, channels, wired, closed>>
      BY <2>13, Zenon DEF CallHandler, tables, transport
    <3> QED
      BY <1>1, <2>1, <2>13, <3>1, CallHandlerGood, Zenon
  <2>14. CASE Put(t)
    <3>1. UNCHANGED <<subIds, channels, wired, serial, closed>>
      BY <2>14, Zenon DEF Put, tables
    <3> QED
      BY <1>1, <2>1, <2>14, <3>1, PutGood, Zenon
  <2>15. CASE QueueReceive(t)
    <3>1. UNCHANGED <<subIds, channels, wired, serial, closed>>
      BY <2>15, Zenon DEF QueueReceive, ReceiveTest, Get, tables, transport
    <3> QED
      BY <1>1, <2>1, <2>15, <3>1, QueueReceiveGood, Zenon
  <2>16. CASE CloseClear(t)
    BY <1>1, <2>16, CloseClearNotifying, Zenon
  <2> QED
    BY <1>3, <2>2, <2>3, <2>4, <2>5, <2>6, <2>7, <2>8, <2>9, <2>10, <2>11, <2>12, <2>13, <2>14, <2>15, <2>16, Zenon
       DEF Step, Subscribe, TransportSend
<1> QED
  BY <1>2, <1>3, Zenon DEF QueueNext

\* What a send() that ends has called.
LEMMA NotifiedStep ==
  ASSUME FiniteLaws, QueueTypes, TopicsInv, Notifying, SubscribersNotified, [QueueNext]_queueVars
  PROVE  SubscribersNotified'
<1>1. closed => closed'
  <2>1. CASE UNCHANGED queueVars
    BY <2>1, Zenon DEF queueVars, transport
  <2>2. ASSUME NEW t \in Threads, Begin(t) \/ Unsubscribe(t) \/ CloseFlag(t) \/ Step(t) PROVE closed => closed'
    BY <2>2, Zenon DEF Begin, Unsubscribe, CloseFlag, Step, Subscribe, TransportSend, QueueReceive, GetOrCreate,
       TransportSubscribe, TransportRegister, ChannelSubscribe, RecordId, SendTest, SendLock, Fire, CallHandler,
       Put, ReceiveTest, Get, CloseClear, transport
  <2> QED
    BY <2>1, <2>2, Zenon DEF QueueNext
<1>2. \/ sent' = sent
      \/ \E t \in Threads : \E r : At(t, "store") /\ Finished(t, r)
  <2>1. CASE UNCHANGED queueVars
    BY <2>1, Zenon DEF queueVars, history
  <2>2. ASSUME NEW t \in Threads, Begin(t) \/ Unsubscribe(t) \/ CloseFlag(t) \/ Step(t)
        PROVE  sent' = sent \/ \E r : At(t, "store") /\ Finished(t, r)
    <3>1. CASE Put(t)
      BY <3>1, Zenon DEF Put
    <3>2. CASE ~Put(t)
      BY <2>2, <3>2, Zenon DEF Begin, Unsubscribe, CloseFlag, Step, Subscribe, TransportSend, QueueReceive, GetOrCreate,
         TransportSubscribe, TransportRegister, ChannelSubscribe, RecordId, SendTest, SendLock, Fire, CallHandler,
         ReceiveTest, Get, CloseClear, history
    <3> QED
      BY <3>1, <3>2
  <2> QED
    BY <2>1, <2>2, Zenon DEF QueueNext
<1>3. CASE sent' = sent
  BY <1>1, <1>3, Zenon DEF SubscribersNotified
<1>4. ASSUME NEW t \in Threads, NEW r, At(t, "store"), Finished(t, r)
      PROVE  SubscribersNotified'
  <2> DEFINE f == Top(t)
             s == [id |-> f.id, topic |-> f.topic, replyTo |-> f.replyTo,
                   result |-> r, got |-> f.got, broke |-> f.broke, owed |-> f.owed \cap subIds]
  <2>1. sent' = sent \cup {s}
    BY <1>4, Zenon DEF Finished
  <2>2. s.got = f.got /\ s.broke = f.broke /\ s.owed = f.owed \cap subIds
    OBVIOUS
  <2>3. f \in Frames /\ f.at = "store" /\ f \in FramesOf(t) /\ f.todo = <<>> /\ f.run = <<>>
    <3>1. f \in Frames /\ f.at = "store" /\ FrameShape(f) /\ f \in FramesOf(t)
      BY <1>4, AtFacts, Zenon DEF TopicsInv
    <3> HIDE DEF f, s
    <3> QED
      BY <3>1 DEF FrameShape
  <2> HIDE DEF f, s
  <2>4. ASSUME ~closed, ~s.broke, NEW h \in Handlers
        PROVE  Count(s.got, h) >= Cardinality({e \in s.owed : e.fn = h})
    <3>1. Paid(f) /\ f.at \in {"notify", "call", "store"} /\ ~f.broke
      BY <2>2, <2>3, <2>4, Zenon DEF Notifying, OwedInv
    <3>2. Cardinality(Reached(f, h) \cap subIds) <= Count(f.got, h) + Count(f.run, h)
      BY <3>1, Zenon DEF Paid
    <3>3. Count(f.run, h) = 0
      BY <2>3, CountNone, Zenon
    <3>4. {e \in s.owed : e.fn = h} = Reached(f, h) \cap subIds
      <4>1. DOMAIN f.todo = {}
        BY <2>3
      <4> QED
        BY <2>2, <4>1, Zenon DEF Reached
    <3>5. f.got \in Seq(Handlers)
      BY <2>3 DEF Frames
    <3>6. Count(f.got, h) \in Nat
      BY <3>5, CountFacts, Zenon
    <3> DEFINE C == Reached(f, h) \cap subIds
    <3>7. IsFiniteSet(C)
      BY FiniteMeet, Zenon DEF QueueTypes
    <3> HIDE DEF C
    <3>8. Cardinality(C) \in Nat
      BY <3>7, FiniteSize, Zenon
    <3>9. Cardinality(C) <= Count(f.got, h) + Count(f.run, h)
      BY <3>2, Zenon DEF C
    <3>10. Count(f.got, h) >= Cardinality(C)
      BY <3>3, <3>6, <3>8, <3>9
    <3> QED
      BY <2>2, <3>4, <3>10, Zenon DEF C
  <2> QED
    BY <1>1, <2>1, <2>4, Zenon DEF SubscribersNotified
<1> QED
  BY <1>2, <1>3, <1>4, Zenon

\* Nobody is subscribed initially.
LEMMA NotifyingInitially ==
  ASSUME FiniteLaws, QueueInit
  PROVE  Notifying /\ SubscribersNotified
<1>1. /\ channels = [n \in Names |-> <<>>] /\ subIds = {} /\ stack = [t \in Threads |-> <<>>] /\ sent = {}
      /\ serial = 0
  BY Zenon DEF QueueInit
<1>2. \A t \in Threads : stack[t] = <<>>
  BY <1>1, Zenon
<1>3. \A t \in Threads : FramesOf(t) = {} /\ ~Placing(t)
  BY <1>2 DEF FramesOf, Placing
<1>4. EntriesInv
  BY <1>1, <1>3, Zenon DEF EntriesInv
<1>5. ReadyInv
  BY <1>1, <1>2, Zenon DEF ReadyInv
<1>6. Attached = {}
  BY <1>2, Zenon DEF Attached
<1>7. ChannelInv
  <2>1. \A n \in Names, h \in Handlers : Of(subIds \cup Attached, n, h) = {}
    BY <1>1, <1>6, Zenon DEF Of
  <2>2. \A n \in Names : channels[n] = <<>>
    BY <1>1, Zenon
  <2>3. \A n \in Names, h \in Handlers : Count(channels[n], h) = 0
    BY <2>2, CountNone, Zenon
  <2>4. IsFiniteSet({}) /\ Cardinality({}) = 0
    BY FiniteEmpty, Zenon
  <2>5. 0 <= 0
    OBVIOUS
  <2>6. \A n \in Names, h \in Handlers : Cardinality(Of(subIds \cup Attached, n, h)) = 0
    BY <2>1, <2>4, Zenon
  <2>7. \A n \in Names, h \in Handlers :
           Cardinality(Of(subIds \cup Attached, n, h)) <= Count(channels[n], h)
    BY <2>3, <2>5, <2>6, Zenon
  <2> QED
    BY <2>1, <2>4, <2>7, Zenon DEF ChannelInv
<1>8. OwedInv
  BY <1>3, Zenon DEF OwedInv
<1> QED
  BY <1>1, <1>4, <1>5, <1>7, <1>8, Zenon DEF Notifying, SubscribersNotified

\* send() of a request ends: a handler that replies and was owed a call was
\* called, so that its reply is there, or the broadcast broke.
LEMMA RequestSent ==
  ASSUME FiniteLaws, QueueTypes, StackInv, Notifying, Replying, NEW t \in Threads, At(t, "store"), ~closed,
         Top(t).replyTo \in Replies, store[Top(t).replyTo] = <<>>, ~Top(t).broke,
         NEW e \in Top(t).owed \cap subIds
  PROVE  Does[e.fn].kind # "replies"
<1> DEFINE f == Top(t)
           C == Reached(f, e.fn) \cap subIds
<1>1. f \in Frames /\ f.at = "store" /\ FrameShape(f) /\ f \in FramesOf(t) /\ stack[t] # <<>>
  BY AtFacts, Zenon
<1>2. Bottom(t) = f /\ Asking(t, f.replyTo) /\ ~Answering(t, f.replyTo)
  <2>1. Len(stack[t]) = 1 /\ Bottom(t) = f /\ Asking(t, f.replyTo)
    BY <1>1, RequestAlone, Zenon DEF Replying
  <2> QED
    BY <1>1, <2>1, SingleFacts, Zenon
<1>3. ~Owing(f)
  BY <1>2, Zenon DEF Replying, ReplyingInv
<1> SUFFICES ASSUME Does[e.fn].kind = "replies" PROVE Replied(f.got)
  BY <1>1, <1>3 DEF Owing
<1>4. Paid(f) /\ f.at \in {"notify", "call", "store"} /\ ~f.broke
  BY <1>1, Zenon DEF Notifying, OwedInv
<1>5. e.fn \in Handlers /\ e \in subIds /\ e \in f.owed
  BY DEF QueueTypes, Entries
<1>6. f.todo = <<>> /\ f.run = <<>>
  <2> HIDE DEF f
  <2> QED
    BY <1>1 DEF FrameShape
<1> HIDE DEF f
<1>7. e \in C
  <2>1. DOMAIN f.todo = {}
    BY <1>6
  <2> QED
    BY <1>5, <2>1, Zenon DEF Reached
<1>8. Cardinality(C) <= Count(f.got, e.fn) + Count(f.run, e.fn)
  BY <1>4, <1>5, Zenon DEF Paid
<1>9. Count(f.run, e.fn) = 0
  BY <1>6, CountNone, Zenon
<1>10. f.got \in Seq(Handlers)
  BY <1>1 DEF Frames
<1>11. IsFiniteSet(C)
  BY FiniteMeet, Zenon DEF QueueTypes
<1>12. Count(f.got, e.fn) \in Nat
  BY <1>10, CountFacts, Zenon
<1> HIDE DEF C
<1>13. Cardinality(C) \in Nat /\ Cardinality(C) # 0
  <2>1. Cardinality(C) \in Nat
    BY <1>11, FiniteSize, Zenon
  <2>2. Cardinality(C) = 0 => C = {}
    BY <1>11, FiniteEmpty, Zenon
  <2> QED
    BY <1>7, <2>1, <2>2
<1>14. Count(f.got, e.fn) > 0
  BY <1>8, <1>9, <1>12, <1>13
<1>15. \E i \in DOMAIN f.got : f.got[i] = e.fn
  <2>1. Count(f.got, e.fn) > 0 <=> \E i \in DOMAIN f.got : f.got[i] = e.fn
    BY ONLY <1>10, FiniteLaws, CountPositive
  <2> QED
    BY <1>14, <2>1, Zenon
<1> QED
  BY <1>15, Zenon DEF Replied

\* send() of a request or of a reply stores its message.
LEMMA PutReplying ==
  ASSUME FiniteLaws, QueueTypes, StackInv, Notifying, Replying, NEW t \in Threads, Put(t)
  PROVE  Replying'
<1> DEFINE f == Top(t)
           r == f.replyTo
<1>0. RequestsInv /\ ReplyingInv /\ RepliesInv /\ RequestsAnswered
  BY Zenon DEF Replying
<1>1. At(t, "store") /\ answers' = answers /\ closed' = closed /\ Good(t)
  BY PutGood, Zenon DEF Put
<1>2. stack[t] # <<>> /\ f \in Frames /\ FrameShape(f)
  BY <1>1, AtFacts, Zenon
<1>3. PICK result : Finished(t, result)
  BY Zenon DEF Put
<1> DEFINE m == [id |-> f.id, topic |-> f.topic, replyTo |-> f.replyTo, result |-> result, got |-> f.got,
                 broke |-> f.broke, owed |-> f.owed \cap subIds]
<1>4. sent' = sent \cup {m}
  BY <1>3, Zenon DEF Finished
<1>5. m.replyTo = r /\ m.broke = f.broke /\ m.owed = f.owed \cap subIds
  OBVIOUS
<1>6. \A u \in Threads \ {t} : stack'[u] = stack[u]
  BY <1>1, Zenon DEF Good, Moves
<1>7. /\ \A q \in Replies : store'[q] = <<>> => store[q] = <<>>
      /\ Raise(t) \/ \A q \in Replies : store'[q] = <<>> => Top(t).topic # q
      /\ f.topic \in Names => \A q \in Replies : store'[q] = store[q]
  BY PutStore, Zenon
<1>8. Raise(t) \/ (r \notin Replies /\ Return(t)) \/ (r \in Replies /\ Become(t, Moved(f, "receive")))
  BY Zenon DEF Put, Moved
<1> HIDE DEF m
<1>9. CASE r \notin Replies
  <2>1. Follows(t)
    BY <1>0, <1>2, <1>7, <1>8, <1>9, RaiseFollows, ReturnFollows, Zenon
  <2>2. sent \subseteq sent' /\ \A s \in sent' : s \in sent \/ s.replyTo \notin Replies
    BY <1>4, <1>5, <1>9, Zenon
  <2> QED
    BY <1>1, <1>6, <1>7, <2>1, <2>2, AskingStep, Zenon
<1>10. CASE r \in Replies
  <2>1. Len(stack[t]) = 1 /\ Bottom(t) = f /\ Asking(t, r)
    BY <1>0, <1>2, <1>10, RequestAlone, Zenon
  <2>2. \A q \in Replies : store'[q] = store[q]
    <3>1. f.topic \in Names
      BY <1>2, <1>10, Zenon DEF FrameShape
    <3> QED
      BY <1>7, <3>1, Zenon
  <2>3. RequestsAnswered'
    <3>1. \A a \in answers : a.replyTo # r
      BY <1>0, <1>10, <2>1, Zenon DEF RequestsInv
    <3> QED
      BY <1>0, <1>1, <1>4, <1>5, <3>1, Zenon DEF RequestsAnswered
  <2>4. sent \subseteq sent' /\ \A s \in sent' : s \in sent \/ s.replyTo = r
    BY <1>4, <1>5, Zenon
  <2> HIDE DEF r
  <2>5. CASE Raise(t)
    <3>1. stack'[t] = <<>>
      <4>1. ~(Len(stack[t]) > 1)
        BY <2>1
      <4> QED
        BY <1>2, <2>5, <4>1, RaiseMoves, Zenon DEF QueueTypes
    <3> QED
      BY <1>1, <1>6, <1>10, <2>1, <2>2, <2>3, <2>4, <3>1, RequestEnds, Zenon
  <2>6. CASE Become(t, Moved(f, "receive"))
    <3> DEFINE g == Moved(f, "receive")
    <3>1. g \in Frames /\ g.at = "receive" /\ g.replyTo = r
      BY <1>2, MovedFacts, Zenon DEF Places, r
    <3>2. stack'[t] # <<>> /\ Top(t)' = g /\ Len(stack'[t]) = 1
      BY <1>2, <2>1, <2>6, <3>1, BecomeMoves, Zenon DEF QueueTypes
    <3>3. stack'[t][1] = g
      <4>1. stack'[t] \in Seq(Frames)
        BY <1>1, Zenon DEF Good, Moves
      <4>2. Head(stack'[t]) = stack'[t][1]
        BY <3>2, <4>1
      <4> QED
        BY <3>2, <4>2, Zenon DEF Top
    <3> HIDE DEF g
    <3>4. Inner(t)' = {} /\ Bottom(t)' = g /\ \A q : Asking(t, q)' <=> q = r
      <4>1. 1..Len(stack'[t]) - 1 = {}
        BY <3>2
      <4>2. Inner(t)' = {}
        BY <4>1, Zenon DEF Inner
      <4>3. Bottom(t)' = g
        BY <3>2, <3>3, Zenon DEF Bottom
      <4> QED
        BY <3>1, <3>2, <4>2, <4>3, Zenon DEF Asking
    <3>5. ~closed /\ store[r] = <<>> => ~Unanswered(m)
      BY <1>1, <1>2, <1>5, <1>10, RequestSent, Zenon DEF Unanswered, r
    <3> QED
      BY <1>1, <1>4, <1>5, <1>6, <1>10, <2>1, <2>2, <2>3, <3>1, <3>2, <3>4, <3>5, RequestWaits, Zenon
  <2> QED
    BY <1>8, <1>10, <2>5, <2>6, Zenon DEF r
<1> QED
  BY <1>9, <1>10, Zenon

\* The state after any step.
LEMMA ReplyingStep ==
  ASSUME FiniteLaws, QueueTypes, TopicsInv, Notifying, Replying, [QueueNext]_queueVars
  PROVE  Replying'
<1>1. StackInv /\ RequestsInv /\ ReplyingInv
  BY Zenon DEF TopicsInv, Replying
<1>2. CASE UNCHANGED queueVars
  <2>1. UNCHANGED <<store, closed, stack, sent, answers>>
    BY <1>2, Zenon DEF queueVars, transport, history
  <2>2. RequestsInv'
    <3>1. \A u \in Threads : Inner(u)' = Inner(u) /\ Top(u)' = Top(u) /\ Bottom(u)' = Bottom(u)
      BY <2>1, Zenon DEF Inner, Top, Bottom
    <3>2. \A u \in Threads : \A r : Asking(u, r)' <=> Asking(u, r)
      BY <2>1, <3>1, Zenon DEF Asking
    <3>3. \A u \in Threads : \A f \in Inner(u)' : f.replyTo \notin Replies
      BY <1>1, <3>1, Zenon DEF RequestsInv
    <3>4. \A u \in Threads : stack'[u] # <<>> /\ Top(u)'.at \in Single => Len(stack'[u]) = 1
      BY <1>1, <2>1, <3>1, Zenon DEF RequestsInv
    <3>5. \A u, v \in Threads : \A r \in Replies : Asking(u, r)' /\ Asking(v, r)' => u = v
      BY <1>1, <3>2, Zenon DEF RequestsInv
    <3>6. \A u \in Threads : \A r \in Replies : Asking(u, r)' =>
            /\ Bottom(u)'.at \in Waiting <=> \E s \in sent' : s.replyTo = r
            /\ \A a \in answers' : a.replyTo # r
      <4>1. \A u \in Threads : \A r \in Replies : Asking(u, r) =>
              /\ Bottom(u).at \in Waiting <=> \E s \in sent : s.replyTo = r
              /\ \A a \in answers : a.replyTo # r
        BY <1>1, Zenon DEF RequestsInv
      <4> QED
        BY <2>1, <3>1, <3>2, <4>1, Zenon
    <3>7. \A a \in answers' : a.replyTo \in Replies /\ \E s \in sent' : s.replyTo = a.replyTo
      BY <1>1, <2>1, Zenon DEF RequestsInv
    <3> QED
      BY <3>3, <3>4, <3>5, <3>6, <3>7, Zenon DEF RequestsInv
  <2>3. ReplyingInv'
    BY <1>1, <2>1, Zenon DEF ReplyingInv, Asking, Answering, Bottom, Owing, Replied
  <2>4. RepliesInv'
    BY <2>1, Zenon DEF Replying, RepliesInv, Asking, Bottom, Unanswered
  <2>5. RequestsAnswered'
    BY <2>1, Zenon DEF Replying, RequestsAnswered
  <2> QED
    BY <2>2, <2>3, <2>4, <2>5, Zenon DEF Replying
<1>3. ASSUME NEW t \in Threads, Begin(t) \/ Unsubscribe(t) \/ CloseFlag(t) \/ Step(t)
      PROVE  Replying'
  <2>1. ASSUME \A u \in Threads \ {t} : stack'[u] = stack[u], Follows(t), closed => closed',
               answers' = answers, sent' = sent, store' = store
        PROVE  Replying'
    BY <2>1, AskingStep, Zenon
  <2>2. Good(t) => \A u \in Threads \ {t} : stack'[u] = stack[u]
    BY Zenon DEF Good, Moves
  <2>3. CASE Begin(t)
    BY <2>3, BeginReplying, Zenon
  <2>4. CASE Unsubscribe(t)
    <3>1. UNCHANGED <<store, closed, stack, sent, answers>> /\ stack[t] = <<>>
      BY <2>4, Zenon DEF Unsubscribe, transport, history
    <3>2. Follows(t)
      BY <3>1, Zenon DEF Follows
    <3> QED
      BY <2>1, <3>1, <3>2, Zenon
  <2>5. CASE CloseFlag(t)
    <3> DEFINE f == CloseFrame
    <3>1. UNCHANGED <<store, sent, answers>> /\ (closed => closed') /\ Starts(t, f)
      BY <2>5, Zenon DEF CloseFlag, history, Starts, CloseFrame
    <3>2. f \in Frames /\ f.replyTo = NoThread
      BY CloseFrameFacts, Zenon
    <3> HIDE DEF f
    <3>3. f.replyTo \notin Replies
      BY <3>2, QueueAssumption, Zenon
    <3>4. Follows(t)
      BY <3>1, <3>2, <3>3, StartsFollows, Zenon
    <3> QED
      BY <2>1, <2>2, <2>5, <3>1, <3>4, CloseFlagGood, Zenon
  <2>6. CASE Subscribe(t)
    <3>1. UNCHANGED <<store, closed, sent, answers>>
      BY <2>6, Zenon DEF Subscribe, GetOrCreate, TransportSubscribe, TransportRegister, ChannelSubscribe, RecordId,
         transport, history
    <3>2. Follows(t)
      BY <1>1, <2>6, <3>1, SubscribeFollows, Zenon
    <3>3. \A u \in Threads \ {t} : stack'[u] = stack[u]
      BY <2>6, Zenon DEF Subscribe, GetOrCreate, TransportSubscribe, TransportRegister, ChannelSubscribe, RecordId,
         Become, Return, Raise, QueueTypes
    <3> QED
      BY <2>1, <3>1, <3>2, <3>3, Zenon
  <2>7. CASE SendTest(t) \/ SendLock(t) \/ Fire(t)
    <3>1. UNCHANGED <<store, closed, sent, answers>>
      BY <2>7, Zenon DEF SendTest, SendLock, Fire, transport, history
    <3>2. Follows(t)
      BY <1>1, <2>7, <3>1, SendFollows, Zenon
    <3>3. Good(t)
      BY <1>1, <2>7, SendTestGood, SendLockGood, FireGood, Zenon
    <3> QED
      BY <2>1, <2>2, <3>1, <3>2, <3>3, Zenon
  <2>8. CASE CallHandler(t)
    <3>1. UNCHANGED <<store, closed, sent, answers>>
      BY <2>8, Zenon DEF CallHandler, transport, history
    <3>2. Follows(t)
      BY <1>1, <2>8, <3>1, CallHandlerFollows, Zenon
    <3> QED
      BY <1>1, <2>1, <2>2, <2>8, <3>1, <3>2, CallHandlerGood, Zenon
  <2>9. CASE Put(t)
    BY <1>1, <2>9, PutReplying, Zenon
  <2>10. CASE QueueReceive(t)
    BY <1>1, <2>10, QueueReceiveReplying, Zenon
  <2>11. CASE CloseClear(t)
    <3>1. UNCHANGED <<store, closed, sent, answers>> /\ At(t, "close") /\ Return(t)
      BY <2>11, Zenon DEF CloseClear, history
    <3>2. stack[t] # <<>> /\ Top(t).at = "close"
      BY <1>1, <3>1, AtFacts, Zenon
    <3>3. Len(stack[t]) = 1
      BY <1>1, <3>2, Zenon DEF RequestsInv, Single
    <3>4. /\ stack' \in [Threads -> Seq(Frames)] /\ Len(stack'[t]) = Len(stack[t]) - 1
          /\ \A u \in Threads \ {t} : stack'[u] = stack[u]
      BY <3>1, <3>2, ReturnMoves, Zenon DEF QueueTypes, Moves
    <3>5. stack'[t] \in Seq(Frames) /\ Len(stack'[t]) = 0
      BY <3>3, <3>4
    <3>6. stack'[t] = <<>>
      BY <3>5
    <3>7. Follows(t)
      BY <3>6, Zenon DEF Follows
    <3> QED
      BY <2>1, <3>1, <3>4, <3>7, Zenon
  <2> QED
    BY <1>3, <2>3, <2>4, <2>5, <2>6, <2>7, <2>8, <2>9, <2>10, <2>11, Zenon DEF Step, TransportSend
<1> QED
  BY <1>2, <1>3, Zenon DEF QueueNext

-----------------------------------------------------------------------------
(* The theorems, with the facts about finite sets and well-founded orders. *)
INSTANCE FiniteSetTheorems

\* The laws of finite sets.
LEMMA FiniteLawsHold == FiniteLaws
<1>1. \A S : IsFiniteSet(S) => Cardinality(S) \in Nat /\ (Cardinality(S) = 0 <=> S = {})
  BY FS_CardinalityType, FS_EmptySet, Zenon
<1>2. IsFiniteSet({})
  BY FS_EmptySet, Zenon
<1>3. \A n \in Nat : IsFiniteSet(1..n)
  <2>1. ASSUME NEW n \in Nat PROVE 1 \in Int /\ n \in Int
    OBVIOUS
  <2> QED
    BY <2>1, FS_Interval, Zenon
<1>4. \A S : IsFiniteSet(S) => \A T \in SUBSET S : IsFiniteSet(T) /\ Cardinality(T) <= Cardinality(S)
  BY FS_Subset, Zenon
<1>5. \A S, x : IsFiniteSet(S) =>
        /\ IsFiniteSet(S \cup {x})
        /\ Cardinality(S \cup {x}) = IF x \in S THEN Cardinality(S) ELSE Cardinality(S) + 1
  BY FS_AddElement, Zenon
<1>6. \A S, x : IsFiniteSet(S) =>
        /\ IsFiniteSet(S \ {x})
        /\ Cardinality(S \ {x}) = IF x \in S THEN Cardinality(S) - 1 ELSE Cardinality(S)
  BY FS_RemoveElement, Zenon
<1>7. \A S, T : IsFiniteSet(S) /\ IsFiniteSet(T) =>
        /\ IsFiniteSet(S \cup T)
        /\ Cardinality(S \cup T) = Cardinality(S) + Cardinality(T) - Cardinality(S \cap T)
  BY FS_Union, Zenon
<1>8. \A S, T : \A f \in [S -> T] :
        IsFiniteSet(T) /\ (\A i, j \in S : f[i] = f[j] => i = j) => Cardinality(S) <= Cardinality(T)
  <2> SUFFICES ASSUME NEW S, NEW T, NEW f \in [S -> T], IsFiniteSet(T), \A i, j \in S : f[i] = f[j] => i = j
               PROVE  Cardinality(S) <= Cardinality(T)
    BY Zenon
  <2>1. f \in Injection(S, T)
    BY DEF Injection, IsInjective
  <2> QED
    BY <2>1, FS_Injection, Zenon
<1>9. \A K \in SUBSET Nat : K # {} => \E i \in K : \A j \in K : i <= j
  <2> SUFFICES ASSUME NEW K \in SUBSET Nat, K # {} PROVE \E i \in K : \A j \in K : i <= j
    BY Zenon
  <2> DEFINE R == OpToRel(<, Nat)
  <2>1. IsWellFoundedOn(R, Nat)
    BY NatLessThanWellFounded, Zenon
  <2>2. \A i, j \in Nat : j < i => <<j, i>> \in R
    BY DEF OpToRel
  <2> HIDE DEF R
  <2>3. PICK i \in K : \A j \in K : ~(<<j, i>> \in R)
    BY <2>1, WFMin, Zenon
  <2>4. \A j \in K : ~(j < i)
    BY <2>2, <2>3, Zenon
  <2> QED
    BY <2>4
<1> QED
  BY <1>1, <1>2, <1>3, <1>4, <1>5, <1>6, <1>7, <1>8, <1>9, Zenon DEF FiniteLaws

\* Concurrent first uses of a topic wire it to the transport exactly once, for
\* any threads, handlers, programs and patterns: _get_or_create_topic of
\* queue.py keeps its lock from the test of _topics to the subscription.
THEOREM TopicsWiredOnce == QueueSpec => []TopicsWired
<1>1. QueueInit => QueueTypes /\ TopicsInv
  BY FiniteLawsHold, TopicsInitially, Zenon
<1>2. QueueTypes /\ TopicsInv /\ [QueueNext]_queueVars => (QueueTypes /\ TopicsInv)'
  BY FiniteLawsHold, TopicsStep, Zenon
<1>3. QueueTypes /\ TopicsInv => TopicsWired
  <2> SUFFICES ASSUME QueueTypes, TopicsInv, NEW n \in Names
               PROVE  /\ Count(wired, n) <= 1
                      /\ qlock = NoThread /\ ~closed /\ n \in topics => Count(wired, n) = 1
    BY Zenon DEF TopicsWired
  <2>1. Count(wired, n) \in Nat
    BY FiniteLawsHold, CountFacts, Zenon DEF QueueTypes
  <2>2. Count(wired, n) <= 1
    BY Zenon DEF TopicsInv, WiredInv
  <2>3. qlock = NoThread /\ ~closed /\ n \in topics => Count(wired, n) # 0
    <3>1. qlock = NoThread => \A u \in Threads : ~Wiring(u)
      BY QueueAssumption, Zenon DEF TopicsInv, LockInv
    <3> QED
      BY <3>1, Zenon DEF TopicsInv, WiredInv
  <2> QED
    BY <2>1, <2>2, <2>3
<1> QED
  BY <1>1, <1>2, <1>3, PTL DEF QueueSpec

\* MemoryTransport.send notifies every subscriber that stays subscribed while
\* it runs, whatever the others do meanwhile: subscribe, unsubscribe, publish
\* or raise in other broadcasts.
THEOREM SubscribersAreNotified == QueueSpec => []SubscribersNotified
<1> DEFINE Inv == QueueTypes /\ TopicsInv /\ Notifying /\ SubscribersNotified
<1>1. QueueInit => Inv
  BY FiniteLawsHold, TopicsInitially, NotifyingInitially, Zenon
<1>2. Inv /\ [QueueNext]_queueVars => Inv'
  BY FiniteLawsHold, TopicsStep, NotifyingStep, NotifiedStep, Zenon
<1>3. Inv => SubscribersNotified
  OBVIOUS
<1> QED
  BY <1>1, <1>2, <1>3, PTL DEF QueueSpec

\* MessageQueue.request to a topic with a handler that replies finds the
\* reply, unless the broadcast was broken off or the queue closed: send()
\* returns only when the handlers have run, and nobody else takes a reply.
THEOREM RequestsAreAnswered == QueueSpec => []RequestsAnswered
<1> DEFINE Inv == QueueTypes /\ TopicsInv /\ Notifying /\ Replying
<1>1. QueueInit => Inv
  BY FiniteLawsHold, TopicsInitially, NotifyingInitially, ReplyingInitially, Zenon
<1>2. Inv /\ [QueueNext]_queueVars => Inv'
  BY FiniteLawsHold, TopicsStep, NotifyingStep, ReplyingStep, Zenon
<1>3. Inv => RequestsAnswered
  BY Zenon DEF Replying
<1> QED
  BY <1>1, <1>2, <1>3, PTL DEF QueueSpec

=============================================================================
