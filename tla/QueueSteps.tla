----------------------------- MODULE QueueSteps -----------------------------
(***************************************************************************)
(* MessageQueue over MemoryTransport, for any topics, handlers, threads    *)
(* and depth of calls made from handlers, step by step: the invariants,    *)
(* what a step does to the stacks of frames (Moves, Follows), what it does *)
(* to each invariant where nothing is counted, and how often a topic is    *)
(* wired.  The theorems these lemmas lead to are in QueueProofs.           *)
(***************************************************************************)
EXTENDS MessageQueue, TLAPS

\* What a call of subscribe() and a call of send() go through.
Subscribing == {"topic", "wire", "register", "attach", "record"}

Sending == {"send", "lock", "notify", "call", "store"}

Places == Subscribing \cup Sending \cup {"receive", "get", "close"}

Entries == [id : Nat, topic : Names, fn : Handlers]

Frames == [at : Places, id : Nat, topic : AllNames \cup {NoThread}, fn : Handlers \cup {NoThread},
           replyTo : AllNames \cup {NoThread}, todo : Seq(Names), run : Seq(Handlers),
           owed : SUBSET Entries, got : Seq(Handlers), broke : BOOLEAN]

QueueTypes ==
  /\ calls \in Programs /\ topics \subseteq Names /\ channels \in [Names -> Seq(Handlers)]
  /\ subIds \subseteq Entries /\ IsFiniteSet(subIds)
  /\ wired \in Seq(Names) /\ store \in [AllNames -> Seq(Nat)]
  /\ qlock \in Threads \cup {NoThread} /\ stack \in [Threads -> Seq(Frames)] /\ serial \in Nat

\* The frames of thread t, and the innermost of every thread.
FramesOf(t) == {stack[t][i] : i \in DOMAIN stack[t]}

Outer(t) == {stack[t][i] : i \in 2..Len(stack[t])}

Wiring(t) == stack[t] # <<>> /\ Top(t).at \in {"wire", "register"}

Placing(t) == stack[t] # <<>> /\ Top(t).at \in Subscribing

\* A frame by itself: what it sends to or subscribes to is known, and a
\* request is sent to a topic.
FrameShape(f) ==
  /\ f.at \in Subscribing => f.topic \in Names /\ f.fn \in Handlers /\ f.replyTo \in Names
  /\ f.at \in Sending \cup {"receive", "get"} => f.topic \in AllNames /\ f.replyTo \in AllNames
  /\ f.at \in {"send", "lock"} => ~f.broke /\ f.got = <<>> /\ f.run = <<>>
  /\ f.at \in {"notify", "store"} => f.run = <<>>
  /\ f.at = "store" => f.todo = <<>>
  /\ f.replyTo \in Replies => f.topic \in Names
  /\ \A e \in f.owed : Matches(f, e.topic)

\* Only the innermost frame of a thread is not in a handler.
StackInv ==
  /\ \A t \in Threads : \A f \in FramesOf(t) : FrameShape(f)
  /\ \A t \in Threads : \A f \in Outer(t) : f.at = "call"
  /\ \A t \in Threads : stack[t] # <<>> /\ Top(t).at = "close" => closed

\* Whoever wires a topic has the queue's lock, and only they.
LockInv == \A t \in Threads : qlock = t <=> Wiring(t)

WiredInv ==
  /\ \A t \in Threads : Wiring(t) => Top(t).topic \in topics /\ Count(wired, Top(t).topic) = 0
  /\ \A n \in Names : /\ Count(wired, n) <= 1
                      /\ n \notin topics => Count(wired, n) = 0
                      /\ n \in topics /\ ~closed /\ Count(wired, n) = 0
                         => \E t \in Threads : Wiring(t) /\ Top(t).topic = n

TopicsInv == StackInv /\ LockInv /\ WiredInv

\* Ids tell subscriptions apart, whether they are made, recorded or removed:
\* a known id is not that of a subscription still to be made.
Known(x) == x < serial /\ \A t \in Threads : Placing(t) => Top(t).id # x

EntriesInv ==
  /\ \A e \in subIds : Known(e.id)
  /\ \A t \in Threads : Placing(t) => Top(t).id < serial
  /\ \A t, u \in Threads : Placing(t) /\ Placing(u) /\ Top(t).id = Top(u).id => t = u
  /\ \A t \in Threads : \A f \in FramesOf(t) : \A e \in f.owed : Known(e.id)

\* Until close(), what is recorded or about to be is wired.
ReadyInv ==
  ~closed => /\ \A e \in subIds : Count(wired, e.topic) = 1
             /\ \A t \in Threads : stack[t] # <<>> /\ Top(t).at \in {"attach", "record"}
                                   => Count(wired, Top(t).topic) = 1

\* A channel has an entry for every id of it, recorded or not.
EntryOf(f) == [id |-> f.id, topic |-> f.topic, fn |-> f.fn]

Attached == {EntryOf(Top(t)) : t \in {u \in Threads : stack[u] # <<>> /\ Top(u).at = "record"}}

Of(S, n, h) == {e \in S : e.topic = n /\ e.fn = h}

ChannelInv ==
  \A n \in Names, h \in Handlers :
    /\ IsFiniteSet(Of(subIds \cup Attached, n, h))
    /\ Cardinality(Of(subIds \cup Attached, n, h)) <= Count(channels[n], h)

\* A broadcast called, or is about to call, every handler it owes a call and
\* whose topic it has come to.
Reached(f, h) == {e \in f.owed : e.fn = h /\ \A i \in DOMAIN f.todo : f.todo[i] # e.topic}

Paid(f) ==
  f.at \in {"notify", "call", "store"} /\ ~f.broke =>
    \A h \in Handlers : Cardinality(Reached(f, h) \cap subIds) <= Count(f.got, h) + Count(f.run, h)

OwedInv == ~closed => \A t \in Threads : \A f \in FramesOf(t) : Paid(f)

\* A request is the outermost frame of its thread, no two have the same reply
\* topic, and it waits for the reply as soon as send() ended.
Bottom(t) == stack[t][Len(stack[t])]

Inner(t) == {stack[t][i] : i \in 1..Len(stack[t]) - 1}

Waiting == {"receive", "get"}

Single == Waiting \cup {"close"}

Asking(t, r) == stack[t] # <<>> /\ Bottom(t).replyTo = r

RequestsInv ==
  /\ \A t \in Threads : \A f \in Inner(t) : f.replyTo \notin Replies
  /\ \A t \in Threads : stack[t] # <<>> /\ Top(t).at \in Single => Len(stack[t]) = 1
  /\ \A t, u \in Threads : \A r \in Replies : Asking(t, r) /\ Asking(u, r) => t = u
  /\ \A t \in Threads : \A r \in Replies : Asking(t, r) =>
       /\ Bottom(t).at \in Waiting <=> \E s \in sent : s.replyTo = r
       /\ \A a \in answers : a.replyTo # r
  /\ \A a \in answers : a.replyTo \in Replies /\ \E s \in sent : s.replyTo = a.replyTo

\* A replying handler that was called has replied or does so right now.
Replied(got) == \E i \in DOMAIN got : Does[got[i]].kind = "replies"

Owing(f) == f.at \in {"notify", "call", "store"} /\ ~f.broke /\ Replied(f.got)

Answering(t, r) == Len(stack[t]) > 1 /\ stack[t][Len(stack[t]) - 1].topic = r

ReplyingInv == \A t \in Threads, r \in Replies :
                 Asking(t, r) /\ Owing(Bottom(t)) /\ store[r] = <<>> => Answering(t, r)

Unanswered(s) == (\E e \in s.owed : Does[e.fn].kind = "replies") /\ ~s.broke

RepliesInv ==
  ~closed => \A t \in Threads, r \in Replies : Asking(t, r) /\ store[r] = <<>> =>
    \A s \in sent : s.replyTo = r => ~Unanswered(s)

-----------------------------------------------------------------------------

\* The positions below the top of a stack are positions of it.
LEMMA OuterRange == \A n \in Nat : 2..n \subseteq 1..n
  OBVIOUS

\* What concatenation gives.
LEMMA Concatenated ==
  ASSUME NEW S, NEW s \in Seq(S), NEW q \in Seq(S)
  PROVE  /\ s \o q \in Seq(S) /\ Len(s \o q) = Len(s) + Len(q)
         /\ \A i \in 1..(Len(s) + Len(q)) : (s \o q)[i] = IF i <= Len(s) THEN s[i] ELSE q[i - Len(s)]
  OBVIOUS

\* A frame put on a stack.
Over(f, s) == <<f>> \o s

\* The stack that a frame is put on.
LEMMA OverFacts ==
  ASSUME NEW f \in Frames, NEW s \in Seq(Frames)
  PROVE  /\ Over(f, s) \in Seq(Frames) /\ Over(f, s) # <<>>
         /\ Len(Over(f, s)) = Len(s) + 1 /\ Head(Over(f, s)) = f /\ Over(f, s)[1] = f
         /\ \A i \in 2..Len(s) + 1 : Over(f, s)[i] = s[i - 1]
<1> DEFINE x == <<f>>
<1>1. x \in Seq(Frames) /\ Len(x) = 1 /\ x[1] = f
  OBVIOUS
<1> HIDE DEF x
<1>2. /\ x \o s \in Seq(Frames) /\ Len(x \o s) = Len(x) + Len(s)
      /\ \A i \in 1..Len(x) + Len(s) : (x \o s)[i] = IF i <= Len(x) THEN x[i] ELSE s[i - Len(x)]
  BY ONLY <1>1, s \in Seq(Frames), Concatenated, Zenon
<1>3. Over(f, s) = x \o s
  BY DEF Over, x
<1> HIDE DEF Over
<1>4. Len(s) \in Nat
  OBVIOUS
<1>5. Over(f, s) \in Seq(Frames) /\ Len(Over(f, s)) = Len(s) + 1
  BY <1>1, <1>2, <1>3, <1>4
<1>6. Over(f, s)[1] = f
  BY <1>1, <1>2, <1>3, <1>4
<1>7. \A i \in 2..Len(s) + 1 : Over(f, s)[i] = s[i - 1]
  BY <1>1, <1>2, <1>3, <1>4
<1>8. Over(f, s) # <<>> /\ Head(Over(f, s)) = Over(f, s)[1]
  BY <1>5, <1>4
<1> QED
  BY <1>5, <1>6, <1>7, <1>8

\* What is left of a stack when its innermost frame goes.
LEMMA TailFacts ==
  ASSUME NEW s \in Seq(Frames), s # <<>>
  PROVE  /\ Tail(s) \in Seq(Frames) /\ Len(Tail(s)) = Len(s) - 1 /\ Len(s) \in Nat /\ Len(s) >= 1
         /\ \A i \in 1..Len(s) - 1 : Tail(s)[i] = s[i + 1]
         /\ Head(s) = s[1] /\ Head(s) \in Frames
  OBVIOUS

-----------------------------------------------------------------------------

\* Thread t goes on: it leaves the other stacks alone, and its own has old
\* frames and those of N; what is not innermost is old or in a handler.
Moves(t, N) ==
  /\ stack' \in [Threads -> Seq(Frames)]
  /\ \A u \in Threads \ {t} : stack'[u] = stack[u]
  /\ FramesOf(t)' \subseteq FramesOf(t) \cup N
  /\ \A f \in Outer(t)' : f \in Outer(t) \/ (f \in N /\ f.at = "call")
  /\ stack'[t] # <<>> => Top(t)' \in N \cup Outer(t)

\* The frames below the innermost one are frames of the thread.
LEMMA OuterInside ==
  ASSUME stack \in [Threads -> Seq(Frames)], NEW t \in Threads
  PROVE  Outer(t) \subseteq FramesOf(t)
<1>1. DOMAIN stack[t] = 1..Len(stack[t]) /\ Len(stack[t]) \in Nat
  OBVIOUS
<1> QED
  BY <1>1, OuterRange, Zenon DEF Outer, FramesOf

\* A step that changes the innermost frame.
LEMMA BecomeMoves ==
  ASSUME stack \in [Threads -> Seq(Frames)], NEW t \in Threads, stack[t] # <<>>,
         NEW f \in Frames, Become(t, f)
  PROVE  Moves(t, {f}) /\ stack'[t] # <<>> /\ Top(t)' = f /\ Len(stack'[t]) = Len(stack[t])
         /\ \A i \in 2..Len(stack[t]) : stack'[t][i] = stack[t][i]
<1> DEFINE s == Tail(stack[t])
<1>1. /\ s \in Seq(Frames) /\ Len(s) = Len(stack[t]) - 1 /\ Len(stack[t]) \in Nat
      /\ \A i \in 1..Len(stack[t]) - 1 : s[i] = stack[t][i + 1]
  BY TailFacts
<1>2. stack' = [stack EXCEPT ![t] = Over(f, s)]
  BY DEF Become, Over
<1> HIDE DEF s
<1>3. stack'[t] = Over(f, s) /\ \A u \in Threads \ {t} : stack'[u] = stack[u]
  BY <1>2
<1>4. /\ Over(f, s) \in Seq(Frames) /\ Over(f, s) # <<>> /\ Len(Over(f, s)) = Len(stack[t])
      /\ Head(Over(f, s)) = f /\ Over(f, s)[1] = f
      /\ \A i \in 2..Len(stack[t]) : Over(f, s)[i] = stack[t][i]
  <2>1. /\ Over(f, s) \in Seq(Frames) /\ Over(f, s) # <<>>
        /\ Len(Over(f, s)) = Len(s) + 1 /\ Head(Over(f, s)) = f /\ Over(f, s)[1] = f
        /\ \A i \in 2..Len(s) + 1 : Over(f, s)[i] = s[i - 1]
    BY <1>1, OverFacts, Zenon
  <2> QED
    BY <1>1, <2>1
<1>5. stack' \in [Threads -> Seq(Frames)]
  BY <1>2, <1>4
<1>6. /\ DOMAIN stack'[t] = 1..Len(stack[t]) /\ DOMAIN stack[t] = 1..Len(stack[t])
      /\ Len(stack'[t]) = Len(stack[t])
  BY <1>3, <1>4
<1>7. \A i \in 2..Len(stack[t]) : stack'[t][i] = stack[t][i]
  BY <1>3, <1>4
<1>8. Top(t)' = f /\ stack'[t] # <<>> /\ stack'[t][1] = f
  BY <1>3, <1>4 DEF Top
<1>9. FramesOf(t)' \subseteq FramesOf(t) \cup {f}
  <2>1. \A i \in 1..Len(stack[t]) : i = 1 \/ i \in 2..Len(stack[t])
    BY <1>1
  <2> QED
    BY <1>6, <1>7, <1>8, <2>1, Zenon DEF FramesOf
<1>10. Outer(t)' \subseteq Outer(t)
  BY <1>6, <1>7, Zenon DEF Outer
<1>11. \A g \in Outer(t)' : g \in Outer(t) \/ (g \in {f} /\ g.at = "call")
  BY <1>10, Zenon
<1>12. stack'[t] # <<>> => Top(t)' \in {f} \cup Outer(t)
  BY <1>8, Zenon
<1>13. Moves(t, {f})
  BY <1>3, <1>5, <1>9, <1>11, <1>12, Zenon DEF Moves
<1> QED
  BY <1>6, <1>7, <1>8, <1>13, Zenon

\* A call returns to the one that made it.
LEMMA ReturnMoves ==
  ASSUME stack \in [Threads -> Seq(Frames)], NEW t \in Threads, stack[t] # <<>>, Return(t)
  PROVE  /\ Moves(t, {}) /\ FramesOf(t)' \subseteq Outer(t)
         /\ Len(stack'[t]) = Len(stack[t]) - 1
         /\ \A i \in 1..Len(stack[t]) - 1 : stack'[t][i] = stack[t][i + 1]
<1>1. /\ Tail(stack[t]) \in Seq(Frames) /\ Len(Tail(stack[t])) = Len(stack[t]) - 1
      /\ Len(stack[t]) \in Nat /\ Len(stack[t]) >= 1
      /\ \A i \in 1..Len(stack[t]) - 1 : Tail(stack[t])[i] = stack[t][i + 1]
  BY TailFacts
<1>2. /\ stack' \in [Threads -> Seq(Frames)] /\ stack'[t] = Tail(stack[t])
      /\ \A u \in Threads \ {t} : stack'[u] = stack[u]
  BY <1>1 DEF Return
<1>3. /\ DOMAIN stack'[t] = 1..Len(stack[t]) - 1 /\ DOMAIN stack[t] = 1..Len(stack[t])
      /\ Len(stack'[t]) = Len(stack[t]) - 1
      /\ \A i \in 1..Len(stack[t]) - 1 : stack'[t][i] = stack[t][i + 1]
  BY <1>1, <1>2
<1>4. \A i \in 1..Len(stack[t]) - 1 : stack'[t][i] \in Outer(t)
  <2>1. \A i \in 1..Len(stack[t]) - 1 : i + 1 \in 2..Len(stack[t])
    BY <1>1
  <2> QED
    BY <1>3, <2>1, Zenon DEF Outer
<1>5. FramesOf(t)' \subseteq Outer(t)
  BY <1>3, <1>4, Zenon DEF FramesOf
<1>6. Outer(t) \subseteq FramesOf(t) /\ Outer(t)' \subseteq FramesOf(t)'
  <2>1. 2..Len(stack[t]) \subseteq DOMAIN stack[t] /\ 2..Len(stack'[t]) \subseteq DOMAIN stack'[t]
    <3>1. DOMAIN stack[t] = 1..Len(stack[t]) /\ DOMAIN stack'[t] = 1..Len(stack'[t])
      BY <1>1, <1>2
    <3>2. Len(stack[t]) \in Nat /\ Len(stack'[t]) \in Nat
      BY <1>2
    <3>3. \A n \in Nat : 2..n \subseteq 1..n
      BY OuterRange, Zenon
    <3> QED
      BY <3>1, <3>2, <3>3, Zenon
  <2> QED
    BY <2>1, Zenon DEF Outer, FramesOf
<1>7. stack'[t] # <<>> => Top(t)' \in FramesOf(t)'
  <2>1. stack'[t] # <<>> => Head(stack'[t]) = stack'[t][1] /\ 1 \in DOMAIN stack'[t]
    BY <1>1, <1>2
  <2> QED
    BY <2>1, Zenon DEF Top, FramesOf
<1>8. \A g \in Outer(t)' : g \in Outer(t) \/ (g \in {} /\ g.at = "call")
  BY <1>5, <1>6, Zenon
<1>9. FramesOf(t)' \subseteq FramesOf(t) \cup {}
  BY <1>5, <1>6, Zenon
<1>10. stack'[t] # <<>> => Top(t)' \in {} \cup Outer(t)
  BY <1>5, <1>7, Zenon
<1>11. Moves(t, {})
  BY <1>2, <1>8, <1>9, <1>10, Zenon DEF Moves
<1> QED
  BY <1>3, <1>5, <1>11, Zenon

\* A frame whose handler raised.
Broken(f) == [f EXCEPT !.run = <<>>, !.broke = TRUE]

\* The frame in which an exception arrives: its broadcast is broken off.
LEMMA BrokenFacts ==
  ASSUME NEW f \in Frames
  PROVE  /\ Broken(f) \in Frames /\ Broken(f).at = f.at /\ Broken(f).id = f.id
         /\ Broken(f).topic = f.topic /\ Broken(f).fn = f.fn /\ Broken(f).replyTo = f.replyTo
         /\ Broken(f).todo = f.todo /\ Broken(f).run = <<>> /\ Broken(f).owed = f.owed
         /\ Broken(f).got = f.got /\ Broken(f).broke
<1>1. <<>> \in Seq(Handlers)
  OBVIOUS
<1> QED
  BY <1>1, Zenon DEF Broken, Frames

\* A call raises: it is gone, and the frame below it is broken.
LEMMA RaiseMoves ==
  ASSUME stack \in [Threads -> Seq(Frames)], NEW t \in Threads, stack[t] # <<>>, Raise(t)
  PROVE  \/ Moves(t, {}) /\ Len(stack[t]) = 1 /\ stack'[t] = <<>>
         \/ /\ Len(stack[t]) > 1 /\ stack[t][2] \in Outer(t) /\ Moves(t, {Broken(stack[t][2])})
            /\ stack'[t] # <<>> /\ Top(t)' = Broken(stack[t][2])
            /\ Len(stack'[t]) = Len(stack[t]) - 1
            /\ \A i \in 2..Len(stack[t]) - 1 : stack'[t][i] = stack[t][i + 1]
<1> DEFINE r == Tail(stack[t])
<1>1. /\ r \in Seq(Frames) /\ Len(r) = Len(stack[t]) - 1 /\ Len(stack[t]) \in Nat /\ Len(stack[t]) >= 1
      /\ \A i \in 1..Len(stack[t]) - 1 : r[i] = stack[t][i + 1]
  BY TailFacts
<1>2. stack' = [stack EXCEPT ![t] = IF r = <<>> THEN <<>> ELSE Over(Broken(Head(r)), Tail(r))]
  BY Zenon DEF Raise, Over, Broken
<1> HIDE DEF r
<1>3. CASE r = <<>>
  <2>1. stack'[t] = <<>> /\ \A u \in Threads \ {t} : stack'[u] = stack[u]
    BY <1>2, <1>3
  <2>2. stack' \in [Threads -> Seq(Frames)]
    <3>1. <<>> \in Seq(Frames)
      OBVIOUS
    <3>2. stack' = [stack EXCEPT ![t] = <<>>]
      BY <1>2, <1>3
    <3> QED
      BY <3>1, <3>2
  <2>3. Len(stack[t]) = 1
    BY <1>1, <1>3
  <2>4. FramesOf(t)' = {} /\ Outer(t)' = {}
    BY <2>1 DEF FramesOf, Outer
  <2>5. Moves(t, {})
    BY <2>1, <2>2, <2>4, Zenon DEF Moves
  <2> QED
    BY <2>1, <2>3, <2>5
<1>4. CASE r # <<>>
  <2> DEFINE q == Tail(r)
             b == Broken(Head(r))
  <2>1. Len(stack[t]) > 1 /\ Head(r) = stack[t][2]
    BY <1>1, <1>4
  <2>2. /\ q \in Seq(Frames) /\ Len(q) = Len(stack[t]) - 2
        /\ \A i \in 2..Len(stack[t]) - 1 : q[i - 1] = stack[t][i + 1]
    <3>1. /\ q \in Seq(Frames) /\ Len(q) = Len(r) - 1 /\ \A i \in 1..Len(r) - 1 : q[i] = r[i + 1]
      BY <1>1, <1>4, TailFacts
    <3> QED
      BY <1>1, <3>1
  <2>3. stack[t][2] \in Frames /\ stack[t][2] \in Outer(t)
    <3>1. 2 \in 2..Len(stack[t]) /\ stack[t][2] \in Frames
      BY <1>1, <2>1
    <3> QED
      BY <3>1, Zenon DEF Outer
  <2>4. b \in Frames
    BY <2>1, <2>3, BrokenFacts
  <2>5. stack' = [stack EXCEPT ![t] = Over(b, q)]
    BY <1>2, <1>4, Zenon
  <2>b. b = Broken(stack[t][2])
    BY <2>1
  <2> HIDE DEF q, b
  <2>6. /\ Over(b, q) \in Seq(Frames) /\ Over(b, q) # <<>>
        /\ Len(Over(b, q)) = Len(q) + 1 /\ Head(Over(b, q)) = b /\ Over(b, q)[1] = b
        /\ \A i \in 2..Len(q) + 1 : Over(b, q)[i] = q[i - 1]
    BY <2>2, <2>4, OverFacts, Zenon
  <2>7. /\ stack'[t] = Over(b, q) /\ stack' \in [Threads -> Seq(Frames)]
        /\ \A u \in Threads \ {t} : stack'[u] = stack[u]
    BY <2>5, <2>6
  <2>8. Len(q) + 1 = Len(stack[t]) - 1
    BY <1>1, <2>2
  <2>9. /\ Len(stack'[t]) = Len(stack[t]) - 1 /\ DOMAIN stack'[t] = 1..Len(stack[t]) - 1
        /\ \A i \in 2..Len(stack[t]) - 1 : stack'[t][i] = stack[t][i + 1]
    <3>1. DOMAIN stack'[t] = 1..Len(stack'[t])
      BY <2>7
    <3> QED
      BY <2>2, <2>6, <2>7, <2>8, <3>1, Zenon
  <2>10. Top(t)' = b /\ stack'[t] # <<>> /\ stack'[t][1] = b
    BY <2>6, <2>7, Zenon DEF Top
  <2>11. \A i \in 2..Len(stack[t]) - 1 : stack'[t][i] \in Outer(t)
    <3>1. \A i \in 2..Len(stack[t]) - 1 : i + 1 \in 2..Len(stack[t])
      BY <1>1
    <3> QED
      BY <2>9, <3>1, Zenon DEF Outer
  <2>12. Outer(t)' \subseteq Outer(t)
    BY <2>9, <2>11, Zenon DEF Outer
  <2>13. FramesOf(t)' \subseteq FramesOf(t) \cup {b}
    <3>1. \A i \in 1..Len(stack[t]) - 1 : i = 1 \/ i \in 2..Len(stack[t]) - 1
      BY <1>1
    <3>2. Outer(t) \subseteq FramesOf(t)
      BY OuterInside
    <3> QED
      BY <2>9, <2>10, <2>11, <3>1, <3>2, Zenon DEF FramesOf
  <2>14. \A g \in Outer(t)' : g \in Outer(t) \/ (g \in {b} /\ g.at = "call")
    BY <2>12, Zenon
  <2>15. stack'[t] # <<>> => Top(t)' \in {b} \cup Outer(t)
    BY <2>10, Zenon
  <2>16. Moves(t, {b})
    BY <2>7, <2>13, <2>14, <2>15, Zenon DEF Moves
  <2> QED
    BY <2>1, <2>3, <2>9, <2>10, <2>16, <2>b, Zenon
<1> QED
  BY <1>3, <1>4

\* A frame c whose handler calls: the call's frame g is over it.
Calls(t, g, c) == stack' = [stack EXCEPT ![t] = <<g, c>> \o Tail(@)]

OverBoth(g, c, s) == <<g, c>> \o s

\* The stack that two frames are put on.
LEMMA OverTwo ==
  ASSUME NEW g \in Frames, NEW c \in Frames, NEW s \in Seq(Frames)
  PROVE  /\ OverBoth(g, c, s) \in Seq(Frames) /\ OverBoth(g, c, s) # <<>>
         /\ Len(OverBoth(g, c, s)) = Len(s) + 2 /\ Head(OverBoth(g, c, s)) = g
         /\ OverBoth(g, c, s)[1] = g /\ OverBoth(g, c, s)[2] = c
         /\ \A i \in 3..Len(s) + 2 : OverBoth(g, c, s)[i] = s[i - 2]
<1> DEFINE x == <<g, c>>
           y == x \o s
<1>1. x \in Seq(Frames) /\ Len(x) = 2 /\ x[1] = g /\ x[2] = c
  OBVIOUS
<1> HIDE DEF x
<1>2. /\ x \o s \in Seq(Frames) /\ Len(x \o s) = Len(x) + Len(s)
      /\ \A i \in 1..Len(x) + Len(s) : (x \o s)[i] = IF i <= Len(x) THEN x[i] ELSE s[i - Len(x)]
  BY ONLY <1>1, s \in Seq(Frames), Concatenated, Zenon
<1>3. /\ y \in Seq(Frames) /\ Len(y) = Len(x) + Len(s)
      /\ \A i \in 1..Len(x) + Len(s) : y[i] = IF i <= Len(x) THEN x[i] ELSE s[i - Len(x)]
  BY <1>2, Zenon
<1> HIDE DEF y
<1>4. Len(s) \in Nat
  OBVIOUS
<1>5. Len(y) = Len(s) + 2 /\ y[1] = g /\ y[2] = c
  BY <1>1, <1>3, <1>4
<1>6. \A i \in 3..Len(s) + 2 : y[i] = s[i - 2]
  BY <1>1, <1>3, <1>4
<1>7. y # <<>> /\ Head(y) = y[1]
  BY <1>3, <1>5, <1>4
<1>8. OverBoth(g, c, s) = y
  BY Zenon DEF OverBoth, x, y
<1> QED
  BY <1>3, <1>5, <1>6, <1>7, <1>8, Zenon

\* A handler calls the queue: its frame goes on and a new one is on top.
LEMMA CallsMoves ==
  ASSUME stack \in [Threads -> Seq(Frames)], NEW t \in Threads, stack[t] # <<>>,
         NEW g \in Frames, NEW c \in Frames, c.at = "call", Calls(t, g, c)
  PROVE  /\ Moves(t, {g, c}) /\ stack'[t] # <<>> /\ Top(t)' = g
         /\ Len(stack'[t]) = Len(stack[t]) + 1 /\ stack'[t][1] = g /\ stack'[t][2] = c
         /\ \A i \in 3..Len(stack[t]) + 1 : stack'[t][i] = stack[t][i - 1]
<1> DEFINE s == Tail(stack[t])
           y == OverBoth(g, c, s)
<1>1. /\ s \in Seq(Frames) /\ Len(s) = Len(stack[t]) - 1 /\ Len(stack[t]) \in Nat /\ Len(stack[t]) >= 1
      /\ \A i \in 1..Len(stack[t]) - 1 : s[i] = stack[t][i + 1]
  BY TailFacts
<1>2. stack' = [stack EXCEPT ![t] = y]
  BY Zenon DEF Calls, OverBoth
<1> HIDE DEF s
<1>3. /\ y \in Seq(Frames) /\ y # <<>> /\ Len(y) = Len(s) + 2 /\ Head(y) = g /\ y[1] = g /\ y[2] = c
      /\ \A i \in 3..Len(s) + 2 : y[i] = s[i - 2]
  <2>1. s \in Seq(Frames)
    BY <1>1
  <2>2. /\ OverBoth(g, c, s) \in Seq(Frames) /\ OverBoth(g, c, s) # <<>>
        /\ Len(OverBoth(g, c, s)) = Len(s) + 2 /\ Head(OverBoth(g, c, s)) = g
        /\ OverBoth(g, c, s)[1] = g /\ OverBoth(g, c, s)[2] = c
        /\ \A i \in 3..Len(s) + 2 : OverBoth(g, c, s)[i] = s[i - 2]
    BY <2>1, OverTwo
  <2> QED
    BY <2>2, Zenon
<1> HIDE DEF y
<1>4. Len(y) = Len(stack[t]) + 1
  BY <1>1, <1>3
<1>5. ASSUME NEW i \in 3..Len(stack[t]) + 1 PROVE y[i] = stack[t][i - 1]
  <2>1. i \in 3..Len(s) + 2 /\ i - 2 \in 1..Len(s) /\ i - 2 + 1 = i - 1
    BY <1>1
  <2>2. y[i] = s[i - 2]
    BY <1>3, <2>1, Zenon
  <2>3. s[i - 2] = stack[t][i - 2 + 1]
    BY <1>1, <2>1
  <2> QED
    BY <2>1, <2>2, <2>3
<1>6. /\ stack'[t] = y /\ stack' \in [Threads -> Seq(Frames)]
      /\ \A u \in Threads \ {t} : stack'[u] = stack[u]
  BY <1>2, <1>3
<1>7. /\ Len(stack'[t]) = Len(stack[t]) + 1 /\ DOMAIN stack'[t] = 1..Len(stack[t]) + 1
      /\ \A i \in 3..Len(stack[t]) + 1 : stack'[t][i] = stack[t][i - 1]
  <2>1. DOMAIN stack'[t] = 1..Len(stack'[t])
    BY <1>6
  <2> QED
    BY <1>4, <1>5, <1>6, <2>1, Zenon
<1>8. Top(t)' = g /\ stack'[t] # <<>> /\ stack'[t][1] = g /\ stack'[t][2] = c
  BY <1>3, <1>6, Zenon DEF Top
<1>9. \A i \in 3..Len(stack[t]) + 1 : stack'[t][i] \in Outer(t)
  <2>1. \A i \in 3..Len(stack[t]) + 1 : i - 1 \in 2..Len(stack[t])
    BY <1>1
  <2> QED
    BY <1>7, <2>1, Zenon DEF Outer
<1>10. \A f \in Outer(t)' : f \in Outer(t) \/ f = c
  <2>1. \A i \in 2..Len(stack[t]) + 1 : i = 2 \/ i \in 3..Len(stack[t]) + 1
    BY <1>1
  <2> QED
    BY <1>7, <1>8, <1>9, <2>1, Zenon DEF Outer
<1>11. FramesOf(t)' \subseteq FramesOf(t) \cup {g, c}
  <2>1. \A i \in 1..Len(stack[t]) + 1 : i = 1 \/ i = 2 \/ i \in 3..Len(stack[t]) + 1
    BY <1>1
  <2>2. Outer(t) \subseteq FramesOf(t)
    BY OuterInside
  <2> QED
    BY <1>7, <1>8, <1>9, <2>1, <2>2, Zenon DEF FramesOf
<1>12. \A f \in Outer(t)' : f \in Outer(t) \/ (f \in {g, c} /\ f.at = "call")
  BY <1>10, Zenon
<1>13. stack'[t] # <<>> => Top(t)' \in {g, c} \cup Outer(t)
  BY <1>8, Zenon
<1>14. Moves(t, {g, c})
  BY <1>6, <1>11, <1>12, <1>13, Zenon DEF Moves
<1> QED
  BY <1>7, <1>8, <1>14, Zenon

\* Thread t starts a call.
Starts(t, f) == stack[t] = <<>> /\ stack' = [stack EXCEPT ![t] = <<f>>]

\* An idle thread begins a call.
LEMMA StartsMoves ==
  ASSUME stack \in [Threads -> Seq(Frames)], NEW t \in Threads, NEW f \in Frames, Starts(t, f)
  PROVE  /\ Moves(t, {f}) /\ stack'[t] # <<>> /\ Top(t)' = f
         /\ Len(stack'[t]) = 1 /\ stack'[t][1] = f
<1> DEFINE y == <<f>>
<1>1. y \in Seq(Frames) /\ y # <<>> /\ Len(y) = 1 /\ y[1] = f /\ Head(y) = f /\ DOMAIN y = {1} /\ 2..Len(y) = {}
  OBVIOUS
<1>2. stack' = [stack EXCEPT ![t] = y]
  BY DEF Starts
<1> HIDE DEF y
<1>3. /\ stack'[t] = y /\ stack' \in [Threads -> Seq(Frames)]
      /\ \A u \in Threads \ {t} : stack'[u] = stack[u]
  BY <1>1, <1>2
<1>4. Top(t)' = f /\ stack'[t] # <<>> /\ stack'[t][1] = f /\ Len(stack'[t]) = 1
  BY <1>1, <1>3, Zenon DEF Top
<1>5. FramesOf(t)' \subseteq {f}
  <2>1. \A i \in DOMAIN stack'[t] : stack'[t][i] = f
    BY <1>1, <1>3
  <2> QED
    BY <2>1, Zenon DEF FramesOf
<1>6. Outer(t)' = {}
  BY <1>1, <1>3, Zenon DEF Outer
<1>7. FramesOf(t)' \subseteq FramesOf(t) \cup {f}
  BY <1>5, Zenon
<1>8. \A g \in Outer(t)' : g \in Outer(t) \/ (g \in {f} /\ g.at = "call")
  BY <1>6, Zenon
<1>9. stack'[t] # <<>> => Top(t)' \in {f} \cup Outer(t)
  BY <1>4, Zenon
<1>10. Moves(t, {f})
  BY <1>3, <1>7, <1>8, <1>9, Zenon DEF Moves
<1> QED
  BY <1>4, <1>10, Zenon

-----------------------------------------------------------------------------

(* What the steps do to frames. *)

\* The innermost frame of a thread.
LEMMA TopFacts ==
  ASSUME stack \in [Threads -> Seq(Frames)], NEW t \in Threads, stack[t] # <<>>
  PROVE  Top(t) \in Frames /\ Top(t) = stack[t][1] /\ Top(t) \in FramesOf(t)
<1>1. Top(t) \in Frames /\ Top(t) = stack[t][1]
  BY TailFacts, Zenon DEF Top
<1>2. 1 \in DOMAIN stack[t]
  OBVIOUS
<1> QED
  BY <1>1, <1>2, Zenon DEF FramesOf

Moved(f, p) == [f EXCEPT !.at = p]

\* A frame that goes to another place in the code is otherwise the same.
LEMMA MovedFacts ==
  ASSUME NEW f \in Frames, NEW p \in Places
  PROVE  /\ Moved(f, p) \in Frames /\ Moved(f, p).at = p /\ Moved(f, p).id = f.id
         /\ Moved(f, p).topic = f.topic /\ Moved(f, p).fn = f.fn /\ Moved(f, p).replyTo = f.replyTo
         /\ Moved(f, p).todo = f.todo /\ Moved(f, p).run = f.run /\ Moved(f, p).owed = f.owed
         /\ Moved(f, p).got = f.got /\ Moved(f, p).broke = f.broke
  BY Zenon DEF Moved, Frames

\* A new frame has what it was made with and has done nothing.
LEMMA FrameFacts ==
  ASSUME NEW at \in Places, NEW id \in Nat, NEW topic \in AllNames \cup {NoThread},
         NEW fn \in Handlers \cup {NoThread}, NEW r \in AllNames \cup {NoThread}
  PROVE  LET f == Frame(at, id, topic, fn, r) IN
         /\ f \in Frames /\ f.at = at /\ f.id = id /\ f.topic = topic /\ f.fn = fn /\ f.replyTo = r
         /\ f.todo = <<>> /\ f.run = <<>> /\ f.owed = {} /\ f.got = <<>> /\ ~f.broke
<1>1. <<>> \in Seq(Names) /\ <<>> \in Seq(Handlers) /\ {} \in SUBSET Entries
  OBVIOUS
<1> QED
  BY <1>1, Zenon DEF Frame, Frames

\* The frame of close().
CloseFrame == Frame("close", serial, NoThread, NoThread, NoThread)

\* The frame of a call of close().
LEMMA CloseFrameFacts ==
  ASSUME QueueTypes
  PROVE  CloseFrame \in Frames /\ CloseFrame.at = "close" /\ CloseFrame.owed = {} /\ CloseFrame.replyTo = NoThread
<1>1. serial \in Nat /\ "close" \in Places
  BY DEF QueueTypes, Places
<1>2. NoThread \in AllNames \cup {NoThread} /\ NoThread \in Handlers \cup {NoThread}
  OBVIOUS
<1>3. <<>> \in Seq(Names) /\ <<>> \in Seq(Handlers) /\ {} \in SUBSET Entries
  OBVIOUS
<1> QED
  BY <1>1, <1>2, <1>3, Zenon DEF CloseFrame, Frame, Frames

\* Steps of one thread keep every stack in shape.
LEMMA MovesStack ==
  ASSUME QueueTypes, StackInv, NEW t \in Threads, NEW N, Moves(t, N), closed => closed',
         \A f \in N : FrameShape(f) /\ (f.at = "close" => closed')
  PROVE  StackInv'
<1>1. \A u \in Threads \ {t} : FramesOf(u)' = FramesOf(u) /\ Outer(u)' = Outer(u) /\ Top(u)' = Top(u)
  BY Zenon DEF Moves, FramesOf, Outer, Top
<1>2. ASSUME NEW u \in Threads, NEW f \in FramesOf(u)' PROVE FrameShape(f)
  <2>1. f \in FramesOf(u) \/ f \in N
    BY <1>1, <1>2, Zenon DEF Moves
  <2> QED
    BY <2>1, Zenon DEF StackInv
<1>3. ASSUME NEW u \in Threads, NEW f \in Outer(u)' PROVE f.at = "call"
  BY <1>1, <1>3, Zenon DEF Moves, StackInv
<1>4. ASSUME NEW u \in Threads, stack'[u] # <<>>, Top(u)'.at = "close" PROVE closed'
  <2>1. CASE u # t
    BY <1>1, <1>4, <2>1, Zenon DEF Moves, StackInv
  <2>2. CASE u = t
    <3>1. Top(t)' \in N \/ Top(t)' \in Outer(t)
      BY <1>4, <2>2, Zenon DEF Moves
    <3>2. Top(t)' \notin Outer(t)
      <4>1. "close" # "call"
        OBVIOUS
      <4> QED
        BY <1>4, <2>2, <4>1, Zenon DEF StackInv
    <3> QED
      BY <1>4, <2>2, <3>1, <3>2, Zenon
  <2> QED
    BY <2>1, <2>2
<1>5. \A u \in Threads : \A f \in FramesOf(u)' : FrameShape(f)'
  BY <1>2, Zenon DEF FrameShape, Matches
<1> QED
  BY <1>3, <1>4, <1>5, Zenon DEF StackInv

\* Steps that wire nothing.
LEMMA MovesTopics ==
  ASSUME QueueTypes, TopicsInv, NEW t \in Threads, NEW N, Moves(t, N), closed => closed',
         ~Wiring(t), \A f \in N : f.at \notin {"wire", "register"},
         UNCHANGED <<topics, qlock, wired>>
  PROVE  LockInv' /\ WiredInv'
<1>1. \A u \in Threads \ {t} : Top(u)' = Top(u) /\ stack'[u] = stack[u]
  BY Zenon DEF Moves, Top
<1>2. ~Wiring(t)'
  <2>1. stack'[t] # <<>> => Top(t)' \in N \/ Top(t)'.at = "call"
    BY Zenon DEF Moves, StackInv, TopicsInv
  <2>2. "call" \notin {"wire", "register"}
    OBVIOUS
  <2> QED
    BY <2>1, <2>2, Zenon DEF Wiring
<1>3. \A u \in Threads : (Wiring(u)' <=> Wiring(u)) /\ (Wiring(u) => Top(u)' = Top(u))
  <2>1. \A u \in Threads \ {t} : Wiring(u)' <=> Wiring(u)
    BY <1>1, Zenon DEF Wiring
  <2> QED
    BY <1>1, <1>2, <2>1, Zenon
<1>4. LockInv'
  BY <1>3, Zenon DEF LockInv, TopicsInv
<1>5. WiredInv'
  BY <1>3, Zenon DEF WiredInv, TopicsInv
<1> QED
  BY <1>4, <1>5

\* The innermost frame goes to another place in the code.
LEMMA MovedMoves ==
  ASSUME QueueTypes, NEW t \in Threads, stack[t] # <<>>, NEW p \in Places, Become(t, Moved(Top(t), p))
  PROVE  /\ Moves(t, {Moved(Top(t), p)}) /\ stack'[t] # <<>> /\ Top(t)' = Moved(Top(t), p)
         /\ Moved(Top(t), p) \in Frames
<1>1. stack \in [Threads -> Seq(Frames)]
  BY Zenon DEF QueueTypes
<1>2. Moved(Top(t), p) \in Frames
  BY <1>1, TopFacts, MovedFacts, Zenon
<1> QED
  BY <1>1, <1>2, BecomeMoves, Zenon

\* The frame after SendLock, after Fire, and after a handler was called.
Locked(f) == [f EXCEPT !.at = "notify", !.todo = wired, !.owed = {e \in subIds : Matches(f, e.topic)}]

Firing(f) == [f EXCEPT !.at = "call", !.todo = Tail(@), !.run = channels[Head(f.todo)]]

Skipped(f) == [f EXCEPT !.todo = Tail(@)]

Called(f) == [f EXCEPT !.run = Tail(@), !.got = Append(@, Head(f.run))]

\* A send that has the lock: the transport's subscriptions, and the handlers
\* it owes a call.
LEMMA LockedFacts ==
  ASSUME QueueTypes, NEW f \in Frames
  PROVE  /\ Locked(f) \in Frames /\ Locked(f).at = "notify" /\ Locked(f).id = f.id
         /\ Locked(f).topic = f.topic /\ Locked(f).fn = f.fn /\ Locked(f).replyTo = f.replyTo
         /\ Locked(f).todo = wired /\ Locked(f).run = f.run /\ Locked(f).got = f.got
         /\ Locked(f).owed = {e \in subIds : Matches(f, e.topic)} /\ Locked(f).broke = f.broke
<1>1. "notify" \in Places
  BY DEF Places, Sending
<1>2. wired \in Seq(Names) /\ {e \in subIds : Matches(f, e.topic)} \in SUBSET Entries
  BY Zenon DEF QueueTypes
<1> QED
  BY <1>1, <1>2, Zenon DEF Locked, Frames

\* A broadcast that has come to a channel takes a snapshot of its handlers.
LEMMA FiringFacts ==
  ASSUME QueueTypes, NEW f \in Frames, f.todo # <<>>
  PROVE  /\ Firing(f) \in Frames /\ Firing(f).at = "call" /\ Firing(f).id = f.id
         /\ Firing(f).topic = f.topic /\ Firing(f).fn = f.fn /\ Firing(f).replyTo = f.replyTo
         /\ Firing(f).todo = Tail(f.todo) /\ Firing(f).run = channels[Head(f.todo)]
         /\ Firing(f).got = f.got /\ Firing(f).owed = f.owed /\ Firing(f).broke = f.broke
<1>1. "call" \in Places
  BY DEF Places, Sending
<1>2. f.todo \in Seq(Names)
  BY Zenon DEF Frames
<1>3. Tail(f.todo) \in Seq(Names) /\ Head(f.todo) \in Names
  BY ONLY <1>2, f.todo # <<>>
<1>4. channels[Head(f.todo)] \in Seq(Handlers)
  BY <1>3, Zenon DEF QueueTypes
<1> QED
  BY <1>1, <1>3, <1>4, Zenon DEF Firing, Frames

\* A broadcast passes a subscription that does not match.
LEMMA SkippedFacts ==
  ASSUME NEW f \in Frames, f.todo # <<>>
  PROVE  /\ Skipped(f) \in Frames /\ Skipped(f).at = f.at /\ Skipped(f).id = f.id
         /\ Skipped(f).topic = f.topic /\ Skipped(f).fn = f.fn /\ Skipped(f).replyTo = f.replyTo
         /\ Skipped(f).todo = Tail(f.todo) /\ Skipped(f).run = f.run
         /\ Skipped(f).got = f.got /\ Skipped(f).owed = f.owed /\ Skipped(f).broke = f.broke
<1>1. f.todo \in Seq(Names)
  BY Zenon DEF Frames
<1>2. Tail(f.todo) \in Seq(Names)
  BY ONLY <1>1, f.todo # <<>>
<1> QED
  BY <1>2, Zenon DEF Skipped, Frames

\* A broadcast calls the next handler of its snapshot.
LEMMA CalledFacts ==
  ASSUME NEW f \in Frames, f.run # <<>>
  PROVE  /\ Called(f) \in Frames /\ Called(f).at = f.at /\ Called(f).id = f.id
         /\ Called(f).topic = f.topic /\ Called(f).fn = f.fn /\ Called(f).replyTo = f.replyTo
         /\ Called(f).todo = f.todo /\ Called(f).run = Tail(f.run)
         /\ Called(f).got = Append(f.got, Head(f.run))
         /\ Called(f).owed = f.owed /\ Called(f).broke = f.broke /\ Head(f.run) \in Handlers
<1>1. f.run \in Seq(Handlers) /\ f.got \in Seq(Handlers)
  BY Zenon DEF Frames
<1>2. Tail(f.run) \in Seq(Handlers) /\ Head(f.run) \in Handlers
  BY ONLY <1>1, f.run # <<>>
<1>3. Append(f.got, Head(f.run)) \in Seq(Handlers)
  BY ONLY <1>1, <1>2
<1> QED
  BY <1>2, <1>3, Zenon DEF Called, Frames

-----------------------------------------------------------------------------

(* The steps, one by one. *)

\* begin: an empty frame of its own id; a request has a new reply topic.
NewFrame(f) ==
  /\ f \in Frames /\ FrameShape(f) /\ f.at \in {"send", "topic", "receive"}
  /\ f.owed = {} /\ f.got = <<>> /\ f.run = <<>> /\ ~f.broke

\* The frames that calls from outside and from handlers begin with.
LEMMA NewFrameFacts ==
  ASSUME NEW at \in {"send", "topic", "receive"}, NEW id \in Nat, NEW topic \in AllNames,
         NEW fn \in Handlers, NEW r \in AllNames,
         at = "topic" => topic \in Names /\ r \in Names, r \in Replies => topic \in Names
  PROVE  LET f == Frame(at, id, topic, fn, r) IN
         NewFrame(f) /\ f.at = at /\ f.id = id /\ f.topic = topic /\ f.fn = fn /\ f.replyTo = r
<1> DEFINE f == Frame(at, id, topic, fn, r)
<1>1. at \in Places
  BY DEF Places, Sending, Subscribing
<1>2. /\ f \in Frames /\ f.at = at /\ f.id = id /\ f.topic = topic /\ f.fn = fn /\ f.replyTo = r
      /\ f.todo = <<>> /\ f.run = <<>> /\ f.owed = {} /\ f.got = <<>> /\ ~f.broke
  BY <1>1, FrameFacts
<1> HIDE DEF f
<1>3. FrameShape(f)
  BY <1>2 DEF FrameShape, Subscribing, Sending
<1>4. NewFrame(f)
  BY <1>2, <1>3, Zenon DEF NewFrame
<1> QED
  BY <1>2, <1>4, Zenon DEF f

\* A thread begins a call with a new id; a request has a reply topic that is in
\* nobody's use and was never used.
LEMMA BeginFacts ==
  ASSUME QueueTypes, NEW t \in Threads, Begin(t)
  PROVE  /\ serial' = serial + 1
         /\ \E f : /\ NewFrame(f) /\ Starts(t, f) /\ f.id = serial
                  /\ \/ f.replyTo \in Names
                     \/ /\ f.at = "send" /\ f.replyTo \in Replies
                        /\ \A u \in Threads : ~Asking(u, f.replyTo)
                        /\ \A s \in sent : s.replyTo # f.replyTo
<1>1. PICK c \in calls :
        \/ /\ c.op \in {"send", "topic", "receive"}
           /\ stack' = [stack EXCEPT ![t] = <<Frame(c.op, serial, c.topic, c.fn, c.topic)>>]
        \/ \E r \in Replies :
             /\ \A u \in Threads : stack[u] # <<>> => stack[u][Len(stack[u])].replyTo # r
             /\ ~\E s \in sent : s.replyTo = r
             /\ stack' = [stack EXCEPT ![t] = <<Frame("send", serial, c.topic, c.fn, r)>>]
  BY Zenon DEF Begin
<1>2. serial \in Nat /\ c.topic \in Names /\ c.fn \in Handlers
  BY QueueAssumption, Zenon DEF QueueTypes
<1>3. c.topic \in AllNames /\ Replies \subseteq AllNames /\ c.topic \notin Replies
  BY <1>2, QueueAssumption, Zenon DEF AllNames
<1>4. stack[t] = <<>> /\ serial' = serial + 1
  BY Zenon DEF Begin
<1>5. CASE /\ c.op \in {"send", "topic", "receive"}
           /\ stack' = [stack EXCEPT ![t] = <<Frame(c.op, serial, c.topic, c.fn, c.topic)>>]
  <2> DEFINE f == Frame(c.op, serial, c.topic, c.fn, c.topic)
  <2>1. NewFrame(f) /\ f.id = serial /\ f.replyTo = c.topic
    BY <1>2, <1>3, <1>5, NewFrameFacts
  <2>2. Starts(t, f)
    BY <1>4, <1>5, Zenon DEF Starts
  <2> QED
    BY <1>2, <1>4, <2>1, <2>2, Zenon
<1>6. ASSUME NEW r \in Replies,
             \A u \in Threads : stack[u] # <<>> => stack[u][Len(stack[u])].replyTo # r,
             ~\E s \in sent : s.replyTo = r,
             stack' = [stack EXCEPT ![t] = <<Frame("send", serial, c.topic, c.fn, r)>>]
      PROVE  \E f : /\ NewFrame(f) /\ Starts(t, f) /\ f.id = serial
                   /\ f.at = "send" /\ f.replyTo \in Replies
                   /\ \A u \in Threads : ~Asking(u, f.replyTo)
                   /\ \A s \in sent : s.replyTo # f.replyTo
  <2> DEFINE f == Frame("send", serial, c.topic, c.fn, r)
  <2>1. NewFrame(f) /\ f.id = serial /\ f.replyTo = r /\ f.at = "send"
    <3>1. "send" \in {"send", "topic", "receive"} /\ "send" # "topic" /\ r \in AllNames
      BY <1>3
    <3> QED
      BY ONLY <1>2, <1>3, <3>1, r \in Replies, NewFrameFacts
  <2>2. Starts(t, f)
    BY <1>4, <1>6, Zenon DEF Starts
  <2>3. \A u \in Threads : ~Asking(u, r)
    BY <1>6, Zenon DEF Asking, Bottom
  <2> QED
    BY <1>6, <2>1, <2>2, <2>3, Zenon
<1> QED
  BY <1>1, <1>4, <1>5, <1>6, Zenon

\* What BroadcastDispatcher does next: it ends, or it calls a handler that
\* does nothing, that raises, or that calls the queue.
Ends(t) == Top(t).run = <<>> /\ Become(t, Moved(Top(t), "notify")) /\ serial' = serial

CallsPlain(t) ==
  /\ Top(t).run # <<>> /\ Become(t, Called(Top(t))) /\ serial' = serial
  /\ Does[Head(Top(t).run)].kind # "replies"

CallsRaising(t) == Top(t).run # <<>> /\ Become(t, Broken(Called(Top(t)))) /\ serial' = serial

CallsQueue(t, g) ==
  /\ Top(t).run # <<>> /\ NewFrame(g) /\ g.replyTo \in Names /\ Calls(t, g, Called(Top(t)))
  /\ \/ g.at = "send" /\ serial' = serial
     \/ g.at = "topic" /\ g.id = serial /\ serial' = serial + 1
  /\ Does[Head(Top(t).run)].kind = "replies" => Top(t).replyTo \in Replies /\ g.topic = Top(t).replyTo

\* A handler ends its channel, returns, raises or calls the queue.
LEMMA CallHandlerFacts ==
  ASSUME QueueTypes, StackInv, NEW t \in Threads, CallHandler(t)
  PROVE  /\ stack[t] # <<>> /\ Top(t).at = "call"
         /\ Ends(t) \/ CallsPlain(t) \/ CallsRaising(t) \/ \E g : CallsQueue(t, g)
<1> DEFINE f == Top(t)
           h == Head(f.run)
<1>1. stack[t] # <<>> /\ f.at = "call"
  BY Zenon DEF CallHandler, At, Top
<1>2. f \in Frames /\ FrameShape(f)
  BY <1>1, TopFacts, Zenon DEF QueueTypes, StackInv
<1>3. f.id \in Nat /\ serial \in Nat /\ f.topic \in AllNames
  <2>1. "call" \in Sending
    BY DEF Sending
  <2> QED
    BY <1>1, <1>2, <2>1, Zenon DEF Frames, QueueTypes, FrameShape
<1>4. ASSUME f.run # <<>>
      PROVE  /\ h \in Handlers /\ Does[h].topic \in Names /\ Does[h].fn \in Handlers
             /\ Does[h].topic \in AllNames /\ Does[h].topic \notin Replies
  BY <1>2, <1>4, CalledFacts, QueueAssumption, Zenon DEF AllNames
<1>5. CASE f.run = <<>>
  <2>1. Become(t, Moved(f, "notify")) /\ serial' = serial
    BY <1>5, Zenon DEF CallHandler, Moved
  <2> QED
    BY <1>1, <1>5, <2>1 DEF Ends
<1>6. CASE f.run # <<>> /\ Does[h].kind = "plain" /\ Become(t, Called(f))
  <2>1. serial' = serial /\ Does[h].kind # "replies"
    BY <1>6 DEF CallHandler
  <2> QED
    BY <1>1, <1>6, <2>1, Zenon DEF CallsPlain
<1>7. CASE f.run # <<>> /\ Does[h].kind = "publishes"
           /\ Calls(t, Frame("send", f.id, Does[h].topic, h, Does[h].topic), Called(f))
  <2> DEFINE g == Frame("send", f.id, Does[h].topic, h, Does[h].topic)
  <2>1. serial' = serial /\ Does[h].kind # "replies"
    BY <1>7 DEF CallHandler
  <2>2. NewFrame(g) /\ g.replyTo = Does[h].topic /\ g.at = "send"
    BY <1>3, <1>4, <1>7, NewFrameFacts
  <2> QED
    BY <1>1, <1>4, <1>7, <2>1, <2>2, Zenon DEF CallsQueue
<1>8. CASE f.run # <<>> /\ Does[h].kind = "subscribes"
           /\ Calls(t, Frame("topic", serial, Does[h].topic, Does[h].fn, Does[h].topic), Called(f))
  <2> DEFINE g == Frame("topic", serial, Does[h].topic, Does[h].fn, Does[h].topic)
  <2>1. serial' = serial + 1 /\ Does[h].kind # "replies"
    BY <1>8 DEF CallHandler
  <2>2. NewFrame(g) /\ g.replyTo = Does[h].topic /\ g.at = "topic" /\ g.id = serial
    BY <1>3, <1>4, <1>8, NewFrameFacts
  <2> QED
    BY <1>1, <1>4, <1>8, <2>1, <2>2, Zenon DEF CallsQueue
<1>9. CASE f.run # <<>> /\ Does[h].kind = "replies" /\ f.replyTo \in Replies
           /\ Calls(t, Frame("send", f.id, f.replyTo, h, f.topic), Called(f))
  <2> DEFINE g == Frame("send", f.id, f.replyTo, h, f.topic)
  <2>1. serial' = serial
    BY <1>9 DEF CallHandler
  <2>2. f.topic \in Names /\ f.topic \notin Replies /\ f.replyTo \in AllNames
    BY <1>2, <1>9, QueueAssumption, Zenon DEF FrameShape, AllNames
  <2>3. NewFrame(g) /\ g.replyTo = f.topic /\ g.at = "send" /\ g.topic = f.replyTo
    BY <1>3, <1>4, <1>9, <2>2, NewFrameFacts
  <2> QED
    BY <1>1, <1>9, <2>1, <2>2, <2>3, Zenon DEF CallsQueue
<1>10. CASE f.run # <<>> /\ Does[h].kind # "subscribes" /\ Become(t, Broken(Called(f)))
  <2>1. serial' = serial
    BY <1>10, Zenon DEF CallHandler
  <2> QED
    BY <1>1, <1>10, <2>1, Zenon DEF CallsRaising
<1>11. "raises" # "subscribes" /\ "replies" # "subscribes"
  OBVIOUS
<1> QED
  BY <1>5, <1>6, <1>7, <1>8, <1>9, <1>10, <1>11, Zenon DEF CallHandler, Calls, Called, Broken, ReplyFrame

\* The new frames of a step that wires nothing.
Tame(t) ==
  \E N : Moves(t, N) /\ \A f \in N : f \in Frames /\ FrameShape(f) /\ f.at \notin {"wire", "register", "close"}

\* A frame that went on in its call is in shape if the one before was.
LEMMA ShapeOf ==
  ASSUME NEW f \in Frames, FrameShape(f), NEW g \in Frames,
         g.topic = f.topic, g.fn = f.fn, g.replyTo = f.replyTo, g.owed = f.owed,
         \/ g.at \in Subscribing /\ f.at \in Subscribing
         \/ /\ g.at \in {"lock", "call"} \cup {"receive", "get"} /\ f.at \in Sending \cup {"receive", "get"}
            /\ g.at = "lock" => g.run = f.run /\ g.broke = f.broke /\ g.got = f.got /\ f.at = "send"
         \/ g.at = "notify" /\ g.run = <<>> /\ f.at \in Sending
         \/ g.at = "store" /\ g.run = <<>> /\ g.todo = <<>> /\ f.at \in Sending
  PROVE  FrameShape(g)
<1>1. \A e \in g.owed : Matches(g, e.topic)
  BY Zenon DEF FrameShape, Matches
<1> QED
  BY <1>1 DEF FrameShape, Subscribing, Sending

\* The innermost frame is in a place.
LEMMA AtFacts ==
  ASSUME QueueTypes, StackInv, NEW t \in Threads, NEW p, At(t, p)
  PROVE  stack[t] # <<>> /\ Top(t) \in Frames /\ Top(t).at = p /\ FrameShape(Top(t)) /\ Top(t) \in FramesOf(t)
<1>1. stack[t] # <<>> /\ Top(t).at = p
  BY Zenon DEF At, Top
<1> QED
  BY <1>1, TopFacts, Zenon DEF QueueTypes, StackInv

\* An exception only breaks the handler call below it.
LEMMA RaiseTame ==
  ASSUME QueueTypes, StackInv, NEW t \in Threads, stack[t] # <<>>, Raise(t)
  PROVE  \E N : Moves(t, N) /\ \A f \in N : \E g \in Outer(t) :
           f = Broken(g) /\ f \in Frames /\ g \in Frames /\ FrameShape(f) /\ f.at = "call" /\ g.at = "call"
<1>1. stack \in [Threads -> Seq(Frames)]
  BY Zenon DEF QueueTypes
<1>2. \/ Moves(t, {})
      \/ stack[t][2] \in Outer(t) /\ Moves(t, {Broken(stack[t][2])})
  BY <1>1, RaiseMoves, Zenon
<1>3. ASSUME NEW g \in Outer(t)
      PROVE  Broken(g) \in Frames /\ g \in Frames /\ FrameShape(Broken(g)) /\ Broken(g).at = "call" /\ g.at = "call"
  <2>1. g \in Frames /\ FrameShape(g) /\ g.at = "call"
    <3>1. g \in FramesOf(t)
      BY <1>1, OuterInside
    <3>2. \A i \in DOMAIN stack[t] : stack[t][i] \in Frames
      BY <1>1
    <3> QED
      BY <3>1, <3>2, Zenon DEF FramesOf, StackInv
  <2>2. Broken(g) \in Frames /\ Broken(g).at = "call"
    BY <2>1, BrokenFacts, Zenon
  <2>3. FrameShape(Broken(g))
    <3>1. "call" \in Sending /\ "call" \in {"lock", "call"} \cup {"receive", "get"} /\ "call" # "lock"
      BY DEF Sending
    <3> QED
      BY <2>1, <2>2, <3>1, BrokenFacts, ShapeOf, Zenon
  <2> QED
    BY <2>1, <2>2, <2>3
<1>4. CASE Moves(t, {})
  BY <1>4
<1>5. CASE stack[t][2] \in Outer(t) /\ Moves(t, {Broken(stack[t][2])})
  <2> DEFINE b == Broken(stack[t][2])
  <2>1. \A f \in {b} : \E g \in Outer(t) : f = Broken(g) /\ f \in Frames /\ g \in Frames /\ FrameShape(f)
                                            /\ f.at = "call" /\ g.at = "call"
    BY <1>3, <1>5, Zenon
  <2> HIDE DEF b
  <2>2. Moves(t, {b})
    BY <1>5, Zenon DEF b
  <2> QED
    BY <2>1, <2>2
<1> QED
  BY <1>2, <1>4, <1>5, Zenon

\* Steps whose new frames wire and close nothing: a change of place,
LEMMA MovedTame ==
  ASSUME QueueTypes, StackInv, NEW t \in Threads, stack[t] # <<>>, NEW f \in Frames,
         Become(t, f), FrameShape(f), f.at \notin {"wire", "register", "close"}
  PROVE  Tame(t)
<1>1. Moves(t, {f})
  BY BecomeMoves, Zenon DEF QueueTypes
<1> QED
  BY <1>1 DEF Tame

\* a return,
LEMMA ReturnTame ==
  ASSUME QueueTypes, NEW t \in Threads, stack[t] # <<>>, Return(t)
  PROVE  Tame(t)
<1>1. Moves(t, {})
  BY ReturnMoves, Zenon DEF QueueTypes
<1> QED
  BY <1>1 DEF Tame

\* an exception,
LEMMA BrokenTame ==
  ASSUME QueueTypes, StackInv, NEW t \in Threads, stack[t] # <<>>, Raise(t)
  PROVE  Tame(t)
<1>1. "call" \notin {"wire", "register", "close"}
  OBVIOUS
<1> QED
  BY <1>1, RaiseTame, Zenon DEF Tame

\* A frame that only goes on to the next place.
LEMMA MovedShape ==
  ASSUME QueueTypes, StackInv, NEW t \in Threads, NEW q, At(t, q), NEW p \in Places,
         \/ p \in Subscribing /\ q \in Subscribing
         \/ p \in {"receive", "get"} /\ q \in Sending \cup {"receive", "get"}
         \/ p = "lock" /\ q = "send"
         \/ p = "notify" /\ Top(t).run = <<>> /\ q \in Sending
         \/ p = "store" /\ Top(t).run = <<>> /\ Top(t).todo = <<>> /\ q \in Sending
  PROVE  FrameShape(Moved(Top(t), p)) /\ Moved(Top(t), p) \in Frames
<1> DEFINE f == Top(t)
           g == Moved(f, p)
<1>1. f \in Frames /\ f.at = q /\ FrameShape(f)
  BY AtFacts, Zenon
<1>2. /\ g \in Frames /\ g.at = p /\ g.topic = f.topic /\ g.fn = f.fn /\ g.replyTo = f.replyTo
      /\ g.todo = f.todo /\ g.run = f.run /\ g.owed = f.owed /\ g.got = f.got /\ g.broke = f.broke
  BY <1>1, MovedFacts, Zenon
<1> HIDE DEF f, g
<1>3. /\ g.topic = f.topic /\ g.fn = f.fn /\ g.replyTo = f.replyTo /\ g.owed = f.owed
      /\ \/ g.at \in Subscribing /\ f.at \in Subscribing
         \/ /\ g.at \in {"lock", "call"} \cup {"receive", "get"} /\ f.at \in Sending \cup {"receive", "get"}
            /\ g.at = "lock" => g.run = f.run /\ g.broke = f.broke /\ g.got = f.got /\ f.at = "send"
         \/ g.at = "notify" /\ g.run = <<>> /\ f.at \in Sending
         \/ g.at = "store" /\ g.run = <<>> /\ g.todo = <<>> /\ f.at \in Sending
  BY <1>1, <1>2 DEF f, Sending
<1>4. FrameShape(g)
  BY <1>1, <1>2, <1>3, ShapeOf, Zenon
<1> QED
  BY <1>2, <1>4, Zenon DEF f, g

\* and a change of place at a known place.
LEMMA GoesTame ==
  ASSUME QueueTypes, StackInv, NEW t \in Threads, NEW q, At(t, q), NEW p \in Places,
         Become(t, Moved(Top(t), p)), p \notin {"wire", "register", "close"},
         FrameShape(Moved(Top(t), p))
  PROVE  Tame(t)
<1>1. /\ stack[t] # <<>> /\ Moved(Top(t), p) \in Frames /\ Moved(Top(t), p).at = p
  BY AtFacts, MovedFacts, Zenon
<1> QED
  BY <1>1, MovedTame, Zenon

\* The frame after a step of the broadcast.
LEMMA FireShape ==
  ASSUME QueueTypes, StackInv, NEW t \in Threads, At(t, "notify"), Top(t).todo # <<>>
  PROVE  FrameShape(Firing(Top(t))) /\ FrameShape(Skipped(Top(t)))
<1> DEFINE f == Top(t)
           g == Firing(f)
           k == Skipped(f)
<1>1. f \in Frames /\ f.at = "notify" /\ FrameShape(f) /\ f.run = <<>>
  BY AtFacts DEF FrameShape
<1>2. /\ g \in Frames /\ g.at = "call" /\ g.topic = f.topic /\ g.fn = f.fn
      /\ g.replyTo = f.replyTo /\ g.owed = f.owed
  BY <1>1, FiringFacts, Zenon
<1>3. /\ k \in Frames /\ k.at = "notify" /\ k.topic = f.topic /\ k.fn = f.fn
      /\ k.replyTo = f.replyTo /\ k.owed = f.owed /\ k.run = <<>>
  BY <1>1, SkippedFacts, Zenon
<1>4. "call" \in {"lock", "call"} \cup {"receive", "get"} /\ "notify" \in Sending /\ "call" # "lock"
  BY DEF Sending
<1> HIDE DEF f, g, k
<1>5. FrameShape(g)
  BY <1>1, <1>2, <1>4, ShapeOf, Zenon
<1>6. FrameShape(k)
  BY <1>1, <1>3, <1>4, ShapeOf, Zenon
<1> QED
  BY <1>5, <1>6, Zenon DEF f, g, k

\* A broadcast that called a handler is in shape.
LEMMA CalledShape ==
  ASSUME NEW f \in Frames, FrameShape(f), f.at = "call", f.run # <<>>
  PROVE  /\ FrameShape(Called(f)) /\ FrameShape(Broken(Called(f))) /\ Broken(Called(f)) \in Frames
         /\ Called(f).at = "call" /\ Broken(Called(f)).at = "call" /\ Called(f) \in Frames
<1> DEFINE c == Called(f)
           b == Broken(c)
<1>1. /\ c \in Frames /\ c.at = "call" /\ c.topic = f.topic /\ c.fn = f.fn
      /\ c.replyTo = f.replyTo /\ c.owed = f.owed
  BY CalledFacts, Zenon
<1>2. /\ b \in Frames /\ b.at = "call" /\ b.topic = c.topic /\ b.fn = c.fn
      /\ b.replyTo = c.replyTo /\ b.owed = c.owed
  BY <1>1, BrokenFacts, Zenon
<1>3. "call" \in {"lock", "call"} \cup {"receive", "get"} /\ "call" \in Sending /\ "call" # "lock"
  BY DEF Sending
<1> HIDE DEF b, c
<1>4. FrameShape(c)
  BY <1>1, <1>3, ShapeOf, Zenon
<1>5. FrameShape(b)
  BY <1>1, <1>2, <1>3, <1>4, ShapeOf, Zenon
<1> QED
  BY <1>1, <1>2, <1>4, <1>5, Zenon DEF b, c

\* The calls of send() and receive(), and the end of subscribe().
LEMMA QuietSteps ==
  ASSUME QueueTypes, StackInv, NEW t \in Threads,
         Begin(t) \/ ChannelSubscribe(t) \/ RecordId(t) \/ TransportSend(t) \/ QueueReceive(t)
  PROVE  Tame(t) /\ ~Wiring(t)
<1>1. CASE Begin(t)
  <2>1. PICK f : NewFrame(f) /\ Starts(t, f)
    BY <1>1, BeginFacts, Zenon
  <2>2. f \in Frames /\ FrameShape(f) /\ f.at \notin {"wire", "register", "close"} /\ stack[t] = <<>>
    BY <2>1 DEF NewFrame, Starts
  <2>3. Moves(t, {f})
    BY <2>1, <2>2, StartsMoves, Zenon DEF QueueTypes
  <2> QED
    BY <2>2, <2>3 DEF Tame, Wiring
<1>2. CASE ChannelSubscribe(t)
  <2>1. At(t, "attach") /\ Become(t, Moved(Top(t), "record"))
    BY <1>2, Zenon DEF ChannelSubscribe, Moved
  <2>2. "record" \in Places /\ "attach" \in Subscribing /\ "record" \in Subscribing
    BY DEF Places, Subscribing
  <2>3. FrameShape(Moved(Top(t), "record"))
    BY <2>1, <2>2, MovedShape, Zenon
  <2>4. "record" \notin {"wire", "register", "close"} /\ "attach" \notin {"wire", "register"}
    OBVIOUS
  <2>5. Tame(t)
    BY <2>1, <2>2, <2>3, <2>4, GoesTame, Zenon
  <2> QED
    BY <2>1, <2>4, <2>5, AtFacts, Zenon DEF Wiring
<1>3. CASE RecordId(t)
  <2>1. At(t, "record") /\ Return(t)
    BY <1>3, Zenon DEF RecordId
  <2>2. "record" \notin {"wire", "register"}
    OBVIOUS
  <2> QED
    BY <2>1, <2>2, AtFacts, ReturnTame, Zenon DEF Wiring
<1>4. CASE SendTest(t)
  <2>1. At(t, "send") /\ (Raise(t) \/ Become(t, Moved(Top(t), "lock")))
    BY <1>4, Zenon DEF SendTest, Moved
  <2>2. /\ "lock" \in Places /\ "lock" \notin {"wire", "register", "close"}
        /\ "send" \notin {"wire", "register"}
    BY DEF Places, Sending
  <2>3. FrameShape(Moved(Top(t), "lock"))
    BY <2>1, <2>2, MovedShape, Zenon
  <2>4. stack[t] # <<>> /\ ~Wiring(t)
    BY <2>1, <2>2, AtFacts, Zenon DEF Wiring
  <2>5. CASE Raise(t)
    BY <2>4, <2>5, BrokenTame, Zenon
  <2>6. CASE Become(t, Moved(Top(t), "lock"))
    BY <2>1, <2>2, <2>3, <2>4, <2>6, GoesTame, Zenon
  <2> QED
    BY <2>1, <2>5, <2>6
<1>5. CASE SendLock(t)
  <2>1. At(t, "lock") /\ Become(t, Locked(Top(t)))
    BY <1>5, Zenon DEF SendLock, Locked
  <2>2. "notify" \notin {"wire", "register", "close"} /\ "lock" \notin {"wire", "register"}
    OBVIOUS
  <2>3. Locked(Top(t)) \in Frames /\ Locked(Top(t)).at = "notify"
    BY <2>1, AtFacts, LockedFacts, Zenon
  <2>4. FrameShape(Locked(Top(t)))
    <3>1. \A e \in Locked(Top(t)).owed : Matches(Locked(Top(t)), e.topic)
      <4>1. Top(t) \in Frames
        BY <2>1, AtFacts, Zenon
      <4>2. Locked(Top(t)).topic = Top(t).topic /\ Locked(Top(t)).owed = {e \in subIds : Matches(Top(t), e.topic)}
        BY <4>1, LockedFacts, Zenon
      <4> QED
        BY <4>2, Zenon DEF Matches
    <3>2. /\ Top(t).topic \in AllNames /\ Top(t).replyTo \in AllNames /\ Top(t).run = <<>>
          /\ Top(t).replyTo \in Replies => Top(t).topic \in Names
      BY <2>1, AtFacts DEF FrameShape, Sending
    <3>3. /\ Locked(Top(t)).topic \in AllNames /\ Locked(Top(t)).replyTo \in AllNames /\ Locked(Top(t)).run = <<>>
          /\ Locked(Top(t)).replyTo \in Replies => Locked(Top(t)).topic \in Names
      BY <2>1, <3>2, AtFacts, LockedFacts, Zenon
    <3> QED
      BY <2>3, <3>1, <3>3 DEF FrameShape, Sending, Subscribing
  <2> QED
    BY <2>1, <2>2, <2>3, <2>4, AtFacts, MovedTame, Zenon DEF Wiring
<1>6. CASE Fire(t)
  <2> DEFINE f == Top(t)
  <2>1. /\ At(t, "notify")
        /\ \/ f.todo = <<>> /\ Become(t, Moved(f, "store"))
           \/ f.todo # <<>> /\ (Become(t, Firing(f)) \/ Become(t, Skipped(f)))
    BY <1>6, Zenon DEF Fire, Moved, Firing, Skipped
  <2>2. stack[t] # <<>> /\ f \in Frames /\ f.at = "notify" /\ FrameShape(f)
    BY <2>1, AtFacts, Zenon
  <2>3. /\ "store" \in Places /\ "notify" \in Sending /\ "store" \notin {"wire", "register", "close"}
        /\ "notify" \notin {"wire", "register", "close"} /\ "call" \notin {"wire", "register", "close"}
        /\ "notify" \notin {"wire", "register"}
    BY DEF Places, Sending
  <2>4. ~Wiring(t)
    BY <2>2, <2>3, Zenon DEF Wiring
  <2>5. CASE f.todo = <<>> /\ Become(t, Moved(f, "store"))
    <3>1. f.run = <<>>
      BY <2>2 DEF FrameShape
    <3>2. FrameShape(Moved(f, "store"))
      BY <2>1, <2>3, <2>5, <3>1, MovedShape, Zenon
    <3> QED
      BY <2>1, <2>3, <2>4, <2>5, <3>2, GoesTame, Zenon
  <2>6. CASE f.todo # <<>> /\ Become(t, Firing(f))
    BY <2>1, <2>2, <2>3, <2>4, <2>6, FireShape, FiringFacts, MovedTame, Zenon
  <2>7. CASE f.todo # <<>> /\ Become(t, Skipped(f))
    BY <2>1, <2>2, <2>3, <2>4, <2>7, FireShape, SkippedFacts, MovedTame, Zenon
  <2> QED
    BY <2>1, <2>5, <2>6, <2>7
<1>7. CASE CallHandler(t)
  <2> DEFINE f == Top(t)
  <2>0. /\ stack[t] # <<>> /\ f.at = "call"
        /\ \/ f.run = <<>> /\ Become(t, Moved(f, "notify"))
           \/ f.run # <<>> /\ (Become(t, Called(f)) \/ Become(t, Broken(Called(f))))
           \/ f.run # <<>> /\ \E g : NewFrame(g) /\ Calls(t, g, Called(f))
    BY <1>7, CallHandlerFacts, Zenon DEF Ends, CallsPlain, CallsRaising, CallsQueue
  <2>1. At(t, "call")
    BY <2>0, Zenon DEF At, Top
  <2>2. stack[t] # <<>> /\ f \in Frames /\ f.at = "call" /\ FrameShape(f)
    BY <2>1, AtFacts, Zenon
  <2>3. /\ "notify" \in Places /\ "call" \in Sending /\ "notify" \notin {"wire", "register", "close"}
        /\ "call" \notin {"wire", "register", "close"} /\ "call" \notin {"wire", "register"}
    BY DEF Places, Sending
  <2>4. ~Wiring(t)
    BY <2>2, <2>3, Zenon DEF Wiring
  <2>5. CASE f.run = <<>> /\ Become(t, Moved(f, "notify"))
    <3>1. FrameShape(Moved(f, "notify"))
      BY <2>1, <2>3, <2>5, MovedShape, Zenon
    <3> QED
      BY <2>1, <2>3, <2>4, <2>5, <3>1, GoesTame, Zenon
  <2>6. CASE f.run # <<>> /\ Become(t, Called(f))
    BY <2>2, <2>3, <2>4, <2>6, CalledShape, MovedTame, Zenon
  <2>7. CASE f.run # <<>> /\ Become(t, Broken(Called(f)))
    BY <2>2, <2>3, <2>4, <2>7, CalledShape, MovedTame, Zenon
  <2>8. CASE f.run # <<>> /\ \E g : NewFrame(g) /\ Calls(t, g, Called(f))
    <3>1. PICK g : NewFrame(g) /\ Calls(t, g, Called(f))
      BY <2>8
    <3> DEFINE c == Called(f)
    <3>2. g \in Frames /\ FrameShape(g) /\ g.at \notin {"wire", "register", "close"}
      BY <3>1 DEF NewFrame
    <3>3. c \in Frames /\ FrameShape(c) /\ c.at = "call"
      BY <2>2, <2>8, CalledShape, Zenon
    <3> HIDE DEF c
    <3>4. Moves(t, {g, c})
      BY <2>2, <3>1, <3>2, <3>3, CallsMoves, Zenon DEF QueueTypes, c
    <3> QED
      BY <2>3, <2>4, <3>2, <3>3, <3>4 DEF Tame
  <2> QED
    BY <2>0, <2>5, <2>6, <2>7, <2>8
<1>8. CASE Put(t)
  <2>1. At(t, "store") /\ (Raise(t) \/ Return(t) \/ Become(t, Moved(Top(t), "receive")))
    BY <1>8, Zenon DEF Put, Moved
  <2>2. /\ "receive" \in Places /\ "receive" \notin {"wire", "register", "close"} /\ "receive" \in {"receive", "get"}
        /\ "store" \notin {"wire", "register"} /\ "store" \in Sending \cup {"receive", "get"}
    BY DEF Places, Sending
  <2>3. FrameShape(Moved(Top(t), "receive"))
    BY <2>1, <2>2, MovedShape, Zenon
  <2>4. stack[t] # <<>> /\ ~Wiring(t)
    BY <2>1, <2>2, AtFacts, Zenon DEF Wiring
  <2>5. CASE Raise(t)
    BY <2>4, <2>5, BrokenTame, Zenon
  <2>6. CASE Return(t)
    BY <2>4, <2>6, ReturnTame, Zenon
  <2>7. CASE Become(t, Moved(Top(t), "receive"))
    BY <2>1, <2>2, <2>3, <2>4, <2>7, GoesTame, Zenon
  <2> QED
    BY <2>1, <2>5, <2>6, <2>7
<1>9. CASE QueueReceive(t)
  <2>1. /\ At(t, "receive") \/ At(t, "get")
        /\ Return(t) \/ (At(t, "receive") /\ Become(t, Moved(Top(t), "get")))
    BY <1>9, Zenon DEF QueueReceive, ReceiveTest, Get, Answered, Moved
  <2>2. /\ "get" \in Places /\ "get" \notin {"wire", "register", "close"} /\ "get" \in {"receive", "get"}
        /\ "receive" \notin {"wire", "register"} /\ "receive" \in Sending \cup {"receive", "get"}
        /\ "get" \notin {"wire", "register"}
    BY DEF Places, Sending
  <2>3. At(t, "receive") => FrameShape(Moved(Top(t), "get"))
    BY <2>1, <2>2, MovedShape, Zenon
  <2>4. stack[t] # <<>> /\ ~Wiring(t)
    BY <2>1, <2>2, AtFacts, Zenon DEF Wiring
  <2>6. CASE Return(t)
    BY <2>4, <2>6, ReturnTame, Zenon
  <2>7. CASE At(t, "receive") /\ Become(t, Moved(Top(t), "get"))
    BY <2>2, <2>3, <2>4, <2>7, GoesTame, Zenon
  <2> QED
    BY <2>1, <2>6, <2>7
<1> QED
  BY <1>1, <1>2, <1>3, <1>4, <1>5, <1>6, <1>7, <1>8, <1>9, Zenon DEF TransportSend

-----------------------------------------------------------------------------

(* Topics are wired once. *)

\* Removing a handler from a list.
LEMMA WithoutType ==
  \A s \in Seq(Handlers), x \in Handlers : Without(s, x) \in Seq(Handlers)
<1> SUFFICES ASSUME NEW s \in Seq(Handlers), NEW x \in Handlers PROVE Without(s, x) \in Seq(Handlers)
  OBVIOUS
<1> DEFINE i == CHOOSE i \in DOMAIN s : s[i] = x /\ \A j \in 1..i - 1 : s[j] # x
           w == [j \in 1..Len(s) - 1 |-> IF j < i THEN s[j] ELSE s[j + 1]]
<1>1. CASE \E j \in DOMAIN s : s[j] = x
  <2>1. Len(s) - 1 \in Nat
    BY <1>1
  <2>2. \A j \in 1..Len(s) - 1 : s[j] \in Handlers /\ s[j + 1] \in Handlers
    OBVIOUS
  <2> HIDE DEF i
  <2>3. w \in [1..Len(s) - 1 -> Handlers]
    BY <2>2, Zenon
  <2>4. w \in Seq(Handlers)
    <3> HIDE DEF w
    <3> DEFINE n == Len(s) - 1
    <3>1. n \in Nat /\ w \in [1..n -> Handlers]
      BY <2>1, <2>3
    <3> HIDE DEF n
    <3> QED
      BY <3>1
  <2> QED
    BY <1>1, <2>4, Zenon DEF Without, i
<1>2. CASE ~\E j \in DOMAIN s : s[j] = x
  BY <1>2, Zenon DEF Without
<1> QED
  BY <1>1, <1>2

\* Frames of subscribe(), of send() and of receive().
LEMMA SubscribingFrame ==
  ASSUME QueueTypes, StackInv, NEW t \in Threads, NEW p \in Subscribing, At(t, p)
  PROVE  Top(t).topic \in Names /\ Top(t).fn \in Handlers /\ Top(t) \in Frames /\ Top(t).id \in Nat
<1>1. Top(t) \in Frames /\ Top(t).at = p /\ FrameShape(Top(t))
  BY AtFacts, Zenon
<1> QED
  BY <1>1, Zenon DEF FrameShape, Frames

\* What a thread in send() or receive() sends to or receives from.
LEMMA SendingFrame ==
  ASSUME QueueTypes, StackInv, NEW t \in Threads, NEW p \in Sending \cup {"receive", "get"}, At(t, p)
  PROVE  Top(t).topic \in AllNames /\ Top(t).replyTo \in AllNames /\ Top(t) \in Frames /\ Top(t).id \in Nat
<1>1. Top(t) \in Frames /\ Top(t).at = p /\ FrameShape(Top(t))
  BY AtFacts, Zenon
<1> QED
  BY <1>1, Zenon DEF FrameShape, Frames

\* Topics, locks and stacks after the steps that wire nothing.
LEMMA QuietTopics ==
  ASSUME QueueTypes, TopicsInv, NEW t \in Threads,
         Begin(t) \/ ChannelSubscribe(t) \/ RecordId(t) \/ TransportSend(t) \/ QueueReceive(t)
  PROVE  TopicsInv' /\ stack' \in [Threads -> Seq(Frames)]
<1>1. Tame(t) /\ ~Wiring(t)
  BY QuietSteps, Zenon DEF TopicsInv
<1>2. UNCHANGED <<topics, qlock, wired, closed>>
  BY Zenon DEF Begin, ChannelSubscribe, RecordId, TransportSend, SendTest, SendLock, Fire, CallHandler, Put,
     QueueReceive, ReceiveTest, Get, tables, transport
<1>3. PICK N : Moves(t, N) /\ \A f \in N : f \in Frames /\ FrameShape(f) /\ f.at \notin {"wire", "register", "close"}
  BY <1>1 DEF Tame
<1>4. \A f \in N : FrameShape(f) /\ (f.at = "close" => closed') /\ f.at \notin {"wire", "register"}
  BY <1>3
<1>5. StackInv'
  BY <1>2, <1>3, <1>4, MovesStack, Zenon DEF TopicsInv
<1>6. LockInv' /\ WiredInv'
  BY <1>1, <1>2, <1>3, <1>4, MovesTopics, Zenon
<1> QED
  BY <1>3, <1>5, <1>6, Zenon DEF TopicsInv, Moves

\* topic() takes the lock exactly when it creates a topic, and that topic was
\* never wired.
LEMMA GetOrCreateTopics ==
  ASSUME QueueTypes, TopicsInv, NEW t \in Threads, GetOrCreate(t)
  PROVE  TopicsInv' /\ stack' \in [Threads -> Seq(Frames)]
<1> DEFINE n == Top(t).topic
<1>0. At(t, "topic") /\ StackInv /\ LockInv /\ WiredInv
  BY Zenon DEF GetOrCreate, TopicsInv
<1>1. stack[t] # <<>> /\ Top(t).at = "topic" /\ Top(t) \in Frames
  BY <1>0, AtFacts, Zenon
<1>2. /\ "topic" \in Subscribing /\ "attach" \in Subscribing /\ "wire" \in Subscribing
      /\ "attach" \in Places /\ "wire" \in Places
      /\ "topic" \notin {"wire", "register"} /\ "attach" \notin {"wire", "register"}
      /\ "wire" \in {"wire", "register"} /\ "attach" # "close" /\ "wire" # "close"
  BY DEF Subscribing, Places
<1>3. ~Wiring(t)
  BY <1>1, <1>2, Zenon DEF Wiring
<1>4. CASE n \in topics
  <2> DEFINE g == Moved(Top(t), "attach")
  <2>1. Become(t, g) /\ UNCHANGED <<topics, qlock, wired, closed>>
    BY <1>4, Zenon DEF GetOrCreate, Moved, transport
  <2>2. FrameShape(g) /\ g \in Frames /\ g.at = "attach"
    BY <1>0, <1>1, <1>2, MovedShape, MovedFacts, Zenon
  <2>3. Moves(t, {g})
    BY <1>1, <1>2, <2>1, MovedMoves, Zenon
  <2> HIDE DEF g
  <2>4. StackInv'
    BY <1>0, <1>2, <2>1, <2>2, <2>3, MovesStack, Zenon
  <2>5. LockInv' /\ WiredInv'
    <3> DEFINE N == {g}
    <3>1. Moves(t, N) /\ \A f \in N : f.at \notin {"wire", "register"}
      BY <2>2, <2>3
    <3> HIDE DEF N
    <3> QED
      BY <1>3, <2>1, <3>1, MovesTopics, Zenon
  <2> QED
    BY <2>3, <2>4, <2>5, Zenon DEF TopicsInv, Moves
<1>5. CASE n \notin topics
  <2> DEFINE g == Moved(Top(t), "wire")
  <2>1. Become(t, g) /\ UNCHANGED <<wired, closed>> /\ topics' = topics \cup {n} /\ qlock' = t
    BY <1>5, Zenon DEF GetOrCreate, Moved, transport
  <2>2. FrameShape(g) /\ g \in Frames /\ g.at = "wire" /\ g.topic = n
    BY <1>0, <1>1, <1>2, MovedShape, MovedFacts, Zenon
  <2>3. Moves(t, {g}) /\ stack'[t] # <<>> /\ Top(t)' = g
    BY <1>1, <1>2, <2>1, MovedMoves, Zenon
  <2> HIDE DEF g
  <2>4. StackInv'
    BY <1>0, <1>2, <2>1, <2>2, <2>3, MovesStack, Zenon
  <2>5. \A u \in Threads : ~Wiring(u)
    <3>1. qlock \in {t, NoThread}
      BY Zenon DEF GetOrCreate, Free
    <3>2. qlock = NoThread
      BY <1>0, <1>3, <3>1, Zenon DEF LockInv
    <3> QED
      BY <1>0, <3>2, QueueAssumption, Zenon DEF LockInv
  <2>6. \A u \in Threads : Wiring(u)' <=> u = t
    <3>1. Wiring(t)'
      BY <1>2, <2>2, <2>3, Zenon DEF Wiring
    <3>2. \A u \in Threads \ {t} : Wiring(u)' <=> Wiring(u)
      BY <2>3, Zenon DEF Wiring, Moves, Top
    <3> QED
      BY <2>5, <3>1, <3>2, Zenon
  <2>7. LockInv'
    BY <2>1, <2>6, Zenon DEF LockInv
  <2>8. n \in Names
    BY <1>0, <1>2, SubscribingFrame, Zenon
  <2>9. WiredInv'
    <3> HIDE DEF n
    <3>1. Count(wired, n) = 0
      BY <1>0, <1>5, <2>8, Zenon DEF WiredInv
    <3>2. \A u \in Threads : Wiring(u)' => Top(u)'.topic \in topics' /\ Count(wired', Top(u)'.topic) = 0
      BY <2>1, <2>2, <2>3, <2>6, <3>1, Zenon
    <3>3. ASSUME NEW m \in Names
          PROVE  /\ Count(wired, m) <= 1
                 /\ m \notin topics' => Count(wired, m) = 0
                 /\ m \in topics' /\ ~closed /\ Count(wired, m) = 0
                    => \E u \in Threads : Wiring(u)' /\ Top(u)'.topic = m
      BY <1>0, <2>1, <2>2, <2>3, <2>5, <2>6, Zenon DEF WiredInv
    <3> QED
      BY <2>1, <3>2, <3>3, Zenon DEF WiredInv
  <2> QED
    BY <2>3, <2>4, <2>7, <2>9, Zenon DEF TopicsInv, Moves
<1> QED
  BY <1>4, <1>5

\* subscribe() of the transport raises after close(), with the queue's lock
\* released, and goes on to register otherwise.
LEMMA TransportSubscribeTopics ==
  ASSUME QueueTypes, TopicsInv, NEW t \in Threads, TransportSubscribe(t)
  PROVE  TopicsInv' /\ stack' \in [Threads -> Seq(Frames)]
<1> DEFINE n == Top(t).topic
<1>0. At(t, "wire") /\ StackInv /\ LockInv /\ WiredInv /\ UNCHANGED <<topics, wired, closed>>
  BY Zenon DEF TransportSubscribe, TopicsInv, tables, transport
<1>1. stack[t] # <<>> /\ Top(t).at = "wire" /\ Top(t) \in Frames
  BY <1>0, AtFacts, Zenon
<1>2. /\ "register" \in Subscribing /\ "wire" \in Subscribing /\ "register" \in Places
      /\ "wire" \in {"wire", "register"} /\ "register" \in {"wire", "register"} /\ "register" # "close"
      /\ "call" \notin {"wire", "register"} /\ "call" # "close"
  BY DEF Subscribing, Places
<1>3. \A u \in Threads : Wiring(u) <=> u = t
  BY <1>0, <1>1, <1>2, Zenon DEF LockInv, Wiring
<1>4. CASE closed /\ Raise(t) /\ qlock' = NoThread
  <2>1. PICK N : Moves(t, N) /\ \A f \in N : \E g \in Outer(t) :
                   f = Broken(g) /\ f \in Frames /\ g \in Frames /\ FrameShape(f) /\ f.at = "call" /\ g.at = "call"
    BY <1>0, <1>1, <1>4, RaiseTame, Zenon
  <2>2. \A f \in N : FrameShape(f) /\ f.at = "call"
    BY <2>1, Zenon
  <2>3. StackInv'
    BY <1>0, <1>2, <2>1, <2>2, MovesStack, Zenon
  <2>4. \A u \in Threads : ~Wiring(u)'
    <3>1. stack'[t] # <<>> => Top(t)'.at = "call"
      BY <1>0, <2>1, <2>2, Zenon DEF Moves, StackInv
    <3>2. \A u \in Threads \ {t} : Wiring(u)' <=> Wiring(u)
      BY <2>1, Zenon DEF Wiring, Moves, Top
    <3> QED
      BY <1>2, <1>3, <3>1, <3>2, Zenon DEF Wiring
  <2>5. LockInv'
    BY <1>4, <2>4, QueueAssumption, Zenon DEF LockInv
  <2>6. WiredInv'
    BY <1>0, <1>4, <2>4, Zenon DEF WiredInv
  <2> QED
    BY <2>1, <2>3, <2>5, <2>6, Zenon DEF TopicsInv, Moves
<1>5. CASE Become(t, Moved(Top(t), "register")) /\ UNCHANGED qlock
  <2> DEFINE g == Moved(Top(t), "register")
  <2>1. FrameShape(g) /\ g \in Frames /\ g.at = "register" /\ g.topic = n
    BY <1>0, <1>1, <1>2, MovedShape, MovedFacts, Zenon
  <2>2. Moves(t, {g}) /\ stack'[t] # <<>> /\ Top(t)' = g
    BY <1>1, <1>2, <1>5, MovedMoves, Zenon
  <2> HIDE DEF g
  <2>3. StackInv'
    BY <1>0, <1>2, <2>1, <2>2, MovesStack, Zenon
  <2>4. \A u \in Threads : (Wiring(u)' <=> Wiring(u)) /\ (Wiring(u) => Top(u)'.topic = Top(u).topic)
    <3>1. Wiring(t)'
      BY <1>2, <2>1, <2>2, Zenon DEF Wiring
    <3>2. \A u \in Threads \ {t} : Wiring(u)' <=> Wiring(u)
      BY <2>2, Zenon DEF Wiring, Moves, Top
    <3> QED
      BY <1>3, <2>1, <2>2, <3>1, <3>2, Zenon
  <2>5. LockInv'
    BY <1>0, <1>5, <2>4, Zenon DEF LockInv
  <2>6. WiredInv'
    <3>1. \A u \in Threads : Wiring(u)' => Top(u)'.topic \in topics' /\ Count(wired', Top(u)'.topic) = 0
      BY <1>0, <2>4, Zenon DEF WiredInv
    <3>2. ASSUME NEW m \in Names
          PROVE  /\ Count(wired, m) <= 1
                 /\ m \notin topics => Count(wired, m) = 0
                 /\ m \in topics /\ ~closed /\ Count(wired, m) = 0
                    => \E u \in Threads : Wiring(u)' /\ Top(u)'.topic = m
      BY <1>0, <2>4, Zenon DEF WiredInv
    <3> QED
      BY <1>0, <3>1, <3>2, Zenon DEF WiredInv
  <2> QED
    BY <2>2, <2>3, <2>5, <2>6, Zenon DEF TopicsInv, Moves
<1> QED
  BY <1>4, <1>5, Zenon DEF TransportSubscribe, Moved

\* close() sets its flag.
LEMMA CloseFlagTopics ==
  ASSUME QueueTypes, TopicsInv, NEW t \in Threads, CloseFlag(t)
  PROVE  TopicsInv' /\ stack' \in [Threads -> Seq(Frames)]
<1> DEFINE g == Frame("close", serial, NoThread, NoThread, NoThread)
<1>1. /\ stack[t] = <<>> /\ closed' /\ Starts(t, g) /\ UNCHANGED <<topics, qlock, wired>>
      /\ StackInv /\ stack \in [Threads -> Seq(Frames)] /\ serial \in Nat
  BY Zenon DEF CloseFlag, Starts, tables, TopicsInv, QueueTypes
<1>2. g \in Frames /\ g.at = "close" /\ FrameShape(g)
  <2>1. "close" \in Places /\ NoThread \in AllNames \cup {NoThread} /\ NoThread \in Handlers \cup {NoThread}
    BY DEF Places
  <2>2. /\ g \in Frames /\ g.at = "close" /\ g.replyTo = NoThread /\ g.owed = {}
    <3>1. <<>> \in Seq(Names) /\ <<>> \in Seq(Handlers) /\ {} \in SUBSET Entries
      OBVIOUS
    <3> QED
      BY <1>1, <2>1, <3>1, Zenon DEF Frame, Frames
  <2> HIDE DEF g
  <2>3. NoThread \notin Replies
    BY QueueAssumption, Zenon
  <2> QED
    BY <2>2, <2>3 DEF FrameShape, Subscribing, Sending
<1> HIDE DEF g
<1>3. Moves(t, {g})
  BY <1>1, <1>2, StartsMoves, Zenon
<1> DEFINE N == {g}
<1>4. Moves(t, N) /\ (\A f \in N : FrameShape(f)) /\ \A f \in N : f.at \notin {"wire", "register"}
  BY <1>2, <1>3
<1> HIDE DEF N
<1>5. StackInv'
  BY <1>1, <1>4, MovesStack, Zenon
<1>6. ~Wiring(t)
  BY <1>1, Zenon DEF Wiring
<1>7. LockInv' /\ WiredInv'
  BY <1>1, <1>4, <1>6, MovesTopics, Zenon
<1> QED
  BY <1>4, <1>5, <1>7, Zenon DEF TopicsInv, Moves

\* What TopicsInv depends on.
LEMMA TopicsUnchanged ==
  ASSUME TopicsInv, UNCHANGED <<topics, wired, closed, qlock, stack>>
  PROVE  TopicsInv'
<1>1. \A u : /\ Top(u)' = Top(u) /\ FramesOf(u)' = FramesOf(u) /\ Outer(u)' = Outer(u)
            /\ stack'[u] = stack[u]
  BY Zenon DEF Top, FramesOf, Outer
<1>2. \A u : Wiring(u)' <=> Wiring(u)
  BY <1>1, Zenon DEF Wiring
<1>3. StackInv'
  BY <1>1, Zenon DEF TopicsInv, StackInv
<1>4. LockInv'
  BY <1>2, Zenon DEF TopicsInv, LockInv
<1>5. WiredInv'
  <2>1. \A u \in Threads : Wiring(u)' => Top(u)'.topic \in topics' /\ Count(wired', Top(u)'.topic) = 0
    BY <1>1, <1>2, Zenon DEF TopicsInv, WiredInv
  <2>2. ASSUME NEW m \in Names
        PROVE  /\ Count(wired', m) <= 1
               /\ m \notin topics' => Count(wired', m) = 0
               /\ m \in topics' /\ ~closed' /\ Count(wired', m) = 0
                  => \E u \in Threads : Wiring(u)' /\ Top(u)'.topic = m
    BY <1>1, <1>2, Zenon DEF TopicsInv, WiredInv
  <2> QED
    BY <2>1, <2>2, Zenon DEF WiredInv
<1> QED
  BY <1>3, <1>4, <1>5, Zenon DEF TopicsInv

\* unsubscribe() wires nothing.
LEMMA UnsubscribeTopics ==
  ASSUME QueueTypes, TopicsInv, NEW t \in Threads, Unsubscribe(t)
  PROVE  TopicsInv' /\ stack' \in [Threads -> Seq(Frames)]
<1>1. UNCHANGED <<topics, wired, closed, qlock, stack>>
  BY Zenon DEF Unsubscribe, transport
<1>2. stack \in [Threads -> Seq(Frames)]
  BY Zenon DEF QueueTypes
<1> QED
  BY <1>1, <1>2, TopicsUnchanged, Zenon

-----------------------------------------------------------------------------

(* Subscribers are notified. *)

\* Where a new innermost frame of t comes from: a call that makes an entry has
\* a new id or the one it had, and calls are owed to known subscriptions.
FreshId(t, f) ==
  f.at \in Subscribing => \/ f.id = serial /\ serial' = serial + 1
                          \/ Placing(t) /\ f.id = Top(t).id

OldOwed(t, f) == \A e \in f.owed : e \in subIds \/ \E g \in FramesOf(t) : e \in g.owed

\* The frames of the other threads stay.
LEMMA OthersStay ==
  ASSUME NEW t \in Threads, NEW N, Moves(t, N)
  PROVE  \A u \in Threads \ {t} : /\ stack'[u] = stack[u] /\ Top(u)' = Top(u) /\ FramesOf(u)' = FramesOf(u)
                                  /\ Placing(u)' <=> Placing(u)
  BY Zenon DEF Moves, Top, FramesOf, Placing

\* The innermost frame of t after a step, unless it is in a handler.
LEMMA NewTop ==
  ASSUME StackInv, NEW t \in Threads, NEW N, Moves(t, N), stack'[t] # <<>>, Top(t)'.at # "call"
  PROVE  Top(t)' \in N
  BY Zenon DEF Moves, StackInv

\* EntriesInv, when no id is recorded and the new frames have ids of their own.
LEMMA EntriesMoves ==
  ASSUME QueueTypes, StackInv, EntriesInv, NEW t \in Threads, NEW N, Moves(t, N),
         subIds' = subIds, serial' = serial \/ serial' = serial + 1,
         \A f \in N : FreshId(t, f) /\ OldOwed(t, f)
  PROVE  EntriesInv'
<1>0. serial \in Nat /\ subIds \subseteq Entries /\ stack \in [Threads -> Seq(Frames)]
  BY Zenon DEF QueueTypes
<1>1. /\ \A x \in Nat : x < serial => x < serial' /\ x # serial
      /\ serial' = serial + 1 => serial < serial'
  BY <1>0
<1>2. /\ \A e \in Entries : e.id \in Nat
      /\ \A f \in Frames : f.id \in Nat /\ f.owed \subseteq Entries
  BY DEF Entries, Frames
<1>3. "call" \notin Subscribing
  BY DEF Subscribing
<1>4. \A u \in Threads : Placing(u)' =>
         \/ Placing(u) /\ Top(u)'.id = Top(u).id
         \/ u = t /\ Top(u)'.id = serial /\ serial < serial'
  <2>1. \A u \in Threads \ {t} : Placing(u)' => Placing(u) /\ Top(u)'.id = Top(u).id
    BY OthersStay, Zenon
  <2>2. ASSUME Placing(t)'
        PROVE  \/ Placing(t) /\ Top(t)'.id = Top(t).id
               \/ Top(t)'.id = serial /\ serial < serial'
    <3>1. stack'[t] # <<>> /\ Top(t)'.at \in Subscribing
      BY <2>2, Zenon DEF Placing
    <3>2. Top(t)' \in N
      BY <1>3, <3>1, NewTop, Zenon
    <3> QED
      BY <1>1, <3>1, <3>2, Zenon DEF FreshId
  <2> QED
    BY <2>1, <2>2, Zenon
<1>5. \A u \in Threads : Placing(u) => Top(u).id \in Nat
  <2>1. \A u \in Threads : stack[u] # <<>> => Top(u) \in Frames
    BY <1>0, TopFacts, Zenon
  <2> QED
    BY <1>2, <2>1, Zenon DEF Placing
<1>6. ASSUME NEW x \in Nat, Known(x) PROVE Known(x)'
  <2>1. x < serial /\ x < serial' /\ x # serial
    BY <1>1, <1>6, Zenon DEF Known
  <2>2. \A u \in Threads : Placing(u)' => Top(u)'.id # x
    BY <1>4, <1>6, <2>1, Zenon DEF Known
  <2> QED
    BY <2>1, <2>2, Zenon DEF Known
<1>7. \A e \in subIds' : Known(e.id)'
  BY <1>0, <1>2, <1>6, Zenon DEF EntriesInv
<1>8. \A u \in Threads : Placing(u)' => Top(u)'.id < serial'
  BY <1>1, <1>4, <1>5, Zenon DEF EntriesInv
<1>9. ASSUME NEW u \in Threads, NEW v \in Threads, Placing(u)', Placing(v)', Top(u)'.id = Top(v)'.id
      PROVE  u = v
  <2>1. \A w \in Threads : Placing(w) => Top(w).id # serial
    BY <1>1, <1>5, Zenon DEF EntriesInv
  <2> QED
    BY <1>4, <1>9, <2>1, Zenon DEF EntriesInv
<1>10. ASSUME NEW u \in Threads, NEW f \in FramesOf(u)', NEW e \in f.owed PROVE Known(e.id)'
  <2>1. e \in subIds \/ \E v \in Threads : \E g \in FramesOf(v) : e \in g.owed
    <3>1. CASE u # t
      BY <1>10, <3>1, OthersStay, Zenon
    <3>2. CASE u = t
      <4>1. f \in FramesOf(t) \/ f \in N
        BY <1>10, <3>2, Zenon DEF Moves
      <4> QED
        BY <1>10, <4>1, Zenon DEF OldOwed
    <3> QED
      BY <3>1, <3>2, Zenon
  <2>2. Known(e.id)
    BY <2>1, Zenon DEF EntriesInv
  <2>3. e \in Entries
    <3>1. \A v \in Threads : \A g \in FramesOf(v) : g \in Frames
      BY <1>0 DEF FramesOf
    <3> QED
      BY <1>0, <1>2, <2>1, <3>1, Zenon
  <2> QED
    BY <1>2, <1>6, <2>2, <2>3, Zenon
<1> QED
  BY <1>7, <1>8, <1>9, <1>10, Zenon DEF EntriesInv

\* ReadyInv, when nothing is wired and the new frames are about wired topics.
LEMMA ReadyMoves ==
  ASSUME StackInv, ReadyInv, NEW t \in Threads, NEW N, Moves(t, N), wired' = wired, closed => closed',
         \A e \in subIds' : e \in subIds \/ (~closed => Count(wired, e.topic) = 1),
         \A f \in N : f.at \in {"attach", "record"} /\ ~closed => Count(wired, f.topic) = 1
  PROVE  ReadyInv'
<1>1. "call" \notin {"attach", "record"}
  OBVIOUS
<1>2. ASSUME ~closed, NEW u \in Threads, stack'[u] # <<>>, Top(u)'.at \in {"attach", "record"}
      PROVE  Count(wired', Top(u)'.topic) = 1
  <2>1. CASE u = t
    <3>1. Top(t)' \in N
      BY <1>1, <1>2, <2>1, NewTop, Zenon
    <3> QED
      BY <1>2, <2>1, <3>1, Zenon
  <2>2. CASE u # t
    <3>1. stack[u] # <<>> /\ Top(u)' = Top(u)
      BY <1>2, <2>2, OthersStay, Zenon
    <3> QED
      BY <1>2, <3>1, Zenon DEF ReadyInv
  <2> QED
    BY <2>1, <2>2, Zenon
<1>3. ~closed => \A e \in subIds' : Count(wired', e.topic) = 1
  BY Zenon DEF ReadyInv
<1> QED
  BY <1>2, <1>3, Zenon DEF ReadyInv

\* The frames that a step makes: none of them is a step of subscribe() on its
\* own, and none owes a call it does not make.
GoodFrame(t, f) ==
  /\ FreshId(t, f) /\ OldOwed(t, f) /\ f.at # "record"
  /\ f.at = "attach" /\ ~closed => Count(wired, f.topic) = 1
  /\ ~closed => Paid(f)

Good(t) == \E N : Moves(t, N) /\ \A f \in N : GoodFrame(t, f)

\* What Part 2 says about the state, but for what was sent.
Notifying == EntriesInv /\ ReadyInv /\ ChannelInv /\ OwedInv

\* A frame of t that has not changed what it owes.
LEMMA OwedAsBefore ==
  ASSUME NEW t \in Threads, NEW g \in FramesOf(t), NEW f, f.owed = g.owed
  PROVE  OldOwed(t, f)
  BY Zenon DEF OldOwed

\* A return leaves good frames,
LEMMA GoodReturn ==
  ASSUME QueueTypes, NEW t \in Threads, stack[t] # <<>>, Return(t)
  PROVE  Good(t)
<1>1. Moves(t, {})
  BY ReturnMoves, Zenon DEF QueueTypes
<1> QED
  BY <1>1 DEF Good

\* as does a frame that an exception broke,
LEMMA GoodBroken ==
  ASSUME NEW t \in Threads, NEW f \in Frames, NEW g \in FramesOf(t), f.owed = g.owed, f.broke, f.at = "call"
  PROVE  GoodFrame(t, f)
<1>1. "call" \notin Subscribing /\ "call" # "record" /\ "call" # "attach"
  BY DEF Subscribing
<1>2. OldOwed(t, f)
  BY OwedAsBefore, Zenon
<1> QED
  BY <1>1, <1>2, Zenon DEF GoodFrame, FreshId, Paid

\* an exception,
LEMMA GoodRaise ==
  ASSUME QueueTypes, StackInv, NEW t \in Threads, stack[t] # <<>>, Raise(t)
  PROVE  Good(t)
<1>1. PICK N : Moves(t, N) /\ \A f \in N : \E g \in Outer(t) :
           f = Broken(g) /\ f \in Frames /\ g \in Frames /\ FrameShape(f) /\ f.at = "call" /\ g.at = "call"
  BY RaiseTame, Zenon
<1>2. ASSUME NEW f \in N PROVE GoodFrame(t, f)
  <2>1. PICK g \in Outer(t) : f = Broken(g) /\ f \in Frames /\ g \in Frames /\ f.at = "call"
    BY <1>1, <1>2, Zenon
  <2>2. g \in FramesOf(t)
    BY OuterInside, Zenon DEF QueueTypes
  <2>3. f.owed = g.owed /\ f.broke
    BY <2>1, BrokenFacts, Zenon
  <2> QED
    BY <2>1, <2>2, <2>3, GoodBroken, Zenon
<1> QED
  BY <1>1, <1>2 DEF Good

\* One new frame, in the place of the innermost.
LEMMA GoodBecome ==
  ASSUME QueueTypes, NEW t \in Threads, stack[t] # <<>>, NEW f \in Frames, Become(t, f), GoodFrame(t, f)
  PROVE  Good(t)
<1>1. Moves(t, {f})
  BY BecomeMoves, Zenon DEF QueueTypes
<1> DEFINE N == {f}
<1>2. Moves(t, N) /\ \A g \in N : GoodFrame(t, g)
  BY <1>1
<1> HIDE DEF N
<1> QED
  BY <1>2 DEF Good

\* a change of place that pays as before,
LEMMA GoodMoved ==
  ASSUME QueueTypes, StackInv, Notifying, NEW t \in Threads, NEW q, At(t, q), NEW p \in Places,
         Become(t, Moved(Top(t), p)), p \notin {"record", "call"},
         p \in Subscribing => q \in Subscribing,
         p = "attach" /\ ~closed => Count(wired, Top(t).topic) = 1,
         p \in {"notify", "store"} => q \in {"notify", "call", "store"}
  PROVE  Good(t)
<1> DEFINE f == Moved(Top(t), p)
<1>1. stack[t] # <<>> /\ Top(t) \in Frames /\ Top(t).at = q /\ Top(t) \in FramesOf(t)
  BY AtFacts, Zenon
<1>2. /\ f \in Frames /\ f.at = p /\ f.id = Top(t).id /\ f.topic = Top(t).topic /\ f.todo = Top(t).todo
      /\ f.run = Top(t).run /\ f.owed = Top(t).owed /\ f.got = Top(t).got /\ f.broke = Top(t).broke
  BY <1>1, MovedFacts, Zenon
<1>3. Become(t, f)
  OBVIOUS
<1> HIDE DEF f
<1>4. FreshId(t, f)
  BY <1>1, <1>2, Zenon DEF FreshId, Placing
<1>5. OldOwed(t, f)
  BY <1>1, <1>2, OwedAsBefore, Zenon
<1>6. ASSUME ~closed PROVE Paid(f)
  <2>1. Paid(Top(t))
    BY <1>1, <1>6, Zenon DEF Notifying, OwedInv
  <2>2. f.at \in {"notify", "call", "store"} => Top(t).at \in {"notify", "call", "store"}
    BY <1>1, <1>2
  <2>3. \A h : Reached(f, h) = Reached(Top(t), h)
    BY <1>2, Zenon DEF Reached
  <2> QED
    BY <1>2, <2>1, <2>2, <2>3, Zenon DEF Paid
<1>7. GoodFrame(t, f)
  BY <1>2, <1>4, <1>5, <1>6 DEF GoodFrame
<1> QED
  BY <1>1, <1>2, <1>3, <1>7, GoodBecome, Zenon

\* and a new frame, which owes nothing yet.
LEMMA GoodNew ==
  ASSUME NEW t \in Threads, NEW f, NewFrame(f),
         f.at = "topic" => f.id = serial /\ serial' = serial + 1
  PROVE  GoodFrame(t, f)
<1>1. /\ f.at # "record" /\ f.at # "attach" /\ f.at \notin {"notify", "call", "store"}
      /\ f.at \in Subscribing => f.at = "topic"
  BY DEF NewFrame, Subscribing
<1>2. f.owed = {}
  BY Zenon DEF NewFrame
<1> QED
  BY <1>1, <1>2, Zenon DEF GoodFrame, FreshId, OldOwed, Paid

\* The elements of a list without its head.
LEMMA TailRange ==
  ASSUME NEW A, NEW s \in Seq(A), s # <<>>
  PROVE  /\ Tail(s) \in Seq(A) /\ Head(s) \in A
         /\ \A x : (\E i \in DOMAIN s : s[i] = x) <=> x = Head(s) \/ \E i \in DOMAIN Tail(s) : Tail(s)[i] = x
<1>1. /\ Tail(s) \in Seq(A) /\ Head(s) \in A /\ Head(s) = s[1] /\ 1 \in DOMAIN s
      /\ \A i \in DOMAIN Tail(s) : i + 1 \in DOMAIN s /\ Tail(s)[i] = s[i + 1]
      /\ \A i \in DOMAIN s : i # 1 => i - 1 \in DOMAIN Tail(s) /\ Tail(s)[i - 1] = s[i]
  OBVIOUS
<1> QED
  BY <1>1, Zenon

\* The next subscription does not match: nobody who is owed a call is there.
LEMMA GoodSkipped ==
  ASSUME QueueTypes, StackInv, Notifying, NEW t \in Threads, At(t, "notify"), Top(t).todo # <<>>,
         ~Matches(Top(t), Head(Top(t).todo)), Become(t, Skipped(Top(t)))
  PROVE  Good(t)
<1> DEFINE g == Top(t)
           f == Skipped(g)
<1>1. stack[t] # <<>> /\ g \in Frames /\ g.at = "notify" /\ FrameShape(g) /\ g \in FramesOf(t)
  BY AtFacts, Zenon
<1>2. /\ f \in Frames /\ f.at = "notify" /\ f.todo = Tail(g.todo)
      /\ f.owed = g.owed /\ f.run = g.run /\ f.got = g.got /\ f.broke = g.broke
  BY <1>1, SkippedFacts, Zenon
<1>3. Become(t, f) /\ ~Matches(g, Head(g.todo)) /\ g.todo # <<>>
  OBVIOUS
<1> HIDE DEF f, g
<1>4. FreshId(t, f) /\ f.at # "record" /\ f.at # "attach"
  BY <1>2 DEF FreshId, Subscribing
<1>5. OldOwed(t, f)
  BY <1>1, <1>2, OwedAsBefore, Zenon
<1>6. ASSUME ~closed PROVE Paid(f)
  <2>1. Paid(g)
    BY <1>1, <1>6, Zenon DEF Notifying, OwedInv
  <2>2. g.todo \in Seq(Names)
    BY <1>1 DEF Frames
  <2>3. \A h : Reached(f, h) = Reached(g, h)
    <3>1. \A e \in g.owed : e.topic # Head(g.todo)
      BY <1>1, <1>3, Zenon DEF FrameShape
    <3>2. \A x : (\E i \in DOMAIN g.todo : g.todo[i] = x) <=> x = Head(g.todo) \/ \E i \in DOMAIN f.todo : f.todo[i] = x
      <4>1. \A x : (\E i \in DOMAIN g.todo : g.todo[i] = x)
                    <=> x = Head(g.todo) \/ \E i \in DOMAIN Tail(g.todo) : Tail(g.todo)[i] = x
        BY <1>3, <2>2, TailRange, Zenon
      <4> QED
        BY <1>2, <4>1, Zenon
    <3> QED
      BY <1>2, <3>1, <3>2, Zenon DEF Reached
  <2> QED
    BY <1>1, <1>2, <2>1, <2>3, Zenon DEF Paid
<1>7. GoodFrame(t, f)
  BY <1>4, <1>5, <1>6, Zenon DEF GoodFrame
<1> QED
  BY <1>1, <1>2, <1>3, <1>7, GoodBecome, Zenon DEF g

\* The steps that change no subscription, or only their own frame.
LEMMA BeginGood ==
  ASSUME QueueTypes, NEW t \in Threads, Begin(t)
  PROVE  Good(t) /\ serial' = serial + 1
<1>1. PICK f : NewFrame(f) /\ Starts(t, f) /\ f.id = serial
  BY BeginFacts, Zenon
<1>2. serial' = serial + 1
  BY BeginFacts, Zenon
<1> DEFINE N == {f}
<1>3. f \in Frames
  BY <1>1, Zenon DEF NewFrame
<1>4. Moves(t, N)
  BY <1>1, <1>3, StartsMoves, Zenon DEF QueueTypes
<1>5. \A g \in N : GoodFrame(t, g)
  BY <1>1, <1>2, GoodNew, Zenon
<1> HIDE DEF N
<1> QED
  BY <1>2, <1>4, <1>5, Zenon DEF Good

\* subscribe() of the transport.
LEMMA TransportSubscribeGood ==
  ASSUME QueueTypes, StackInv, Notifying, NEW t \in Threads, TransportSubscribe(t)
  PROVE  Good(t)
<1>1. At(t, "wire") /\ stack[t] # <<>>
  BY AtFacts, Zenon DEF TransportSubscribe
<1>2. Raise(t) \/ Become(t, Moved(Top(t), "register"))
  BY Zenon DEF TransportSubscribe, Moved
<1>3. "register" \in Places /\ "wire" \in Subscribing /\ "register" \notin {"record", "call"}
      /\ "register" \notin {"notify", "store"} /\ "register" # "attach"
  BY DEF Places, Subscribing
<1> QED
  BY <1>1, <1>2, <1>3, GoodMoved, GoodRaise, Zenon

\* The closed test of send().
LEMMA SendTestGood ==
  ASSUME QueueTypes, StackInv, Notifying, NEW t \in Threads, SendTest(t)
  PROVE  Good(t)
<1>1. At(t, "send") /\ stack[t] # <<>>
  BY AtFacts, Zenon DEF SendTest
<1>2. Raise(t) \/ Become(t, Moved(Top(t), "lock"))
  BY Zenon DEF SendTest, Moved
<1>3. "lock" \in Places /\ "lock" \notin Subscribing /\ "lock" \notin {"record", "call"}
      /\ "lock" \notin {"notify", "store"} /\ "lock" # "attach"
  BY DEF Places, Subscribing, Sending
<1> QED
  BY <1>1, <1>2, <1>3, GoodMoved, GoodRaise, Zenon

\* send() stores the message or raises.
LEMMA PutGood ==
  ASSUME QueueTypes, StackInv, Notifying, NEW t \in Threads, Put(t)
  PROVE  Good(t)
<1>1. At(t, "store") /\ stack[t] # <<>>
  BY AtFacts, Zenon DEF Put
<1>2. Raise(t) \/ Return(t) \/ Become(t, Moved(Top(t), "receive"))
  BY Zenon DEF Put, Moved
<1>3. "receive" \in Places /\ "receive" \notin Subscribing /\ "receive" \notin {"record", "call"}
      /\ "receive" \notin {"notify", "store"} /\ "receive" # "attach"
  BY DEF Places, Subscribing, Sending
<1> QED
  BY <1>1, <1>2, <1>3, GoodMoved, GoodRaise, GoodReturn, Zenon

\* receive().
LEMMA QueueReceiveGood ==
  ASSUME QueueTypes, StackInv, Notifying, NEW t \in Threads, QueueReceive(t)
  PROVE  Good(t)
<1>1. stack[t] # <<>>
  BY AtFacts, Zenon DEF QueueReceive, ReceiveTest, Get
<1>2. Return(t) \/ (At(t, "receive") /\ Become(t, Moved(Top(t), "get")))
  BY Zenon DEF QueueReceive, ReceiveTest, Get, Answered, Moved
<1>3. "get" \in Places /\ "get" \notin Subscribing /\ "get" \notin {"record", "call"}
      /\ "get" \notin {"notify", "store"} /\ "get" # "attach"
  BY DEF Places, Subscribing, Sending
<1> QED
  BY <1>1, <1>2, <1>3, GoodMoved, GoodReturn, Zenon

\* close() sets its flag.
LEMMA CloseFlagGood ==
  ASSUME QueueTypes, NEW t \in Threads, CloseFlag(t)
  PROVE  Good(t)
<1> DEFINE f == CloseFrame
           N == {f}
<1>1. Starts(t, f)
  BY Zenon DEF CloseFlag, Starts, CloseFrame
<1>2. "close" \in Places /\ "close" \notin Subscribing /\ "close" \notin {"notify", "call", "store", "attach", "record"}
  BY DEF Places, Subscribing
<1>3. f \in Frames /\ f.at = "close" /\ f.owed = {}
  BY CloseFrameFacts, Zenon
<1> HIDE DEF f
<1>4. Moves(t, N)
  BY <1>1, <1>3, StartsMoves, Zenon DEF QueueTypes
<1>5. GoodFrame(t, f)
  BY <1>2, <1>3, Zenon DEF GoodFrame, FreshId, OldOwed, Paid
<1>6. \A g \in N : GoodFrame(t, g)
  BY <1>5, Zenon
<1> HIDE DEF N
<1> QED
  BY <1>4, <1>6, Zenon DEF Good

-----------------------------------------------------------------------------

(* Requests are answered. *)

\* What a step of t does to the requests: a thread that asks asked before, it
\* goes on to wait only if it waited, and if it owes a reply, it gives it.
Follows(t) ==
  stack'[t] # <<>> =>
    /\ \A f \in Inner(t)' : f.replyTo \notin Replies
    /\ Top(t)'.at \in Single => Len(stack'[t]) = 1
    /\ \A r \in Replies : Asking(t, r)' =>
         /\ Asking(t, r)
         /\ Bottom(t)'.at \in Waiting <=> Bottom(t).at \in Waiting
         /\ Owing(Bottom(t)') /\ store'[r] = <<>> => Answering(t, r)'

\* The outermost frame.
LEMMA BottomFacts ==
  ASSUME stack \in [Threads -> Seq(Frames)], NEW t \in Threads, stack[t] # <<>>
  PROVE  /\ Len(stack[t]) \in Nat /\ Len(stack[t]) >= 1 /\ Bottom(t) \in FramesOf(t) /\ Bottom(t) \in Frames
         /\ Len(stack[t]) = 1 => Bottom(t) = Top(t)
         /\ Len(stack[t]) > 1 => Top(t) \in Inner(t) /\ stack[t][1] = Top(t)
<1>1. stack[t] \in Seq(Frames)
  OBVIOUS
<1>2. Len(stack[t]) \in Nat /\ Len(stack[t]) >= 1 /\ DOMAIN stack[t] = 1..Len(stack[t]) /\ Head(stack[t]) = stack[t][1]
  BY <1>1
<1>3. Len(stack[t]) \in DOMAIN stack[t] /\ stack[t][Len(stack[t])] \in Frames
  BY <1>1, <1>2
<1>4. Bottom(t) \in FramesOf(t) /\ Bottom(t) \in Frames
  BY <1>3, Zenon DEF Bottom, FramesOf
<1>5. Len(stack[t]) = 1 => Bottom(t) = Top(t)
  BY <1>2, Zenon DEF Bottom, Top
<1>6. ASSUME Len(stack[t]) > 1 PROVE Top(t) \in Inner(t) /\ stack[t][1] = Top(t)
  <2>1. 1 \in 1..Len(stack[t]) - 1
    BY <1>2, <1>6
  <2> QED
    BY <1>2, <2>1, Zenon DEF Inner, Top
<1> QED
  BY <1>2, <1>4, <1>5, <1>6

\* The innermost frame changes in place.
LEMMA BecomeFollows ==
  ASSUME QueueTypes, RequestsInv, ReplyingInv, NEW t \in Threads, stack[t] # <<>>,
         NEW f \in Frames, Become(t, f), f.topic = Top(t).topic, f.replyTo = Top(t).replyTo,
         f.at \in Waiting <=> Top(t).at \in Waiting, f.at # "close", Owing(f) => Owing(Top(t)),
         \A r \in Replies : store'[r] = <<>> => store[r] = <<>>
  PROVE  Follows(t)
<1> DEFINE n == Len(stack[t])
<1>1. /\ stack'[t] # <<>> /\ Top(t)' = f /\ Len(stack'[t]) = n /\ stack' \in [Threads -> Seq(Frames)]
      /\ \A i \in 2..n : stack'[t][i] = stack[t][i]
  BY BecomeMoves, Zenon DEF QueueTypes, Moves
<1>2. /\ n \in Nat /\ n >= 1 /\ (n = 1 => Bottom(t) = Top(t))
      /\ n > 1 => Top(t) \in Inner(t) /\ stack[t][1] = Top(t)
  BY BottomFacts, Zenon DEF QueueTypes
<1>3. stack'[t][1] = f
  <2>1. stack'[t] \in Seq(Frames)
    BY <1>1
  <2>2. Head(stack'[t]) = stack'[t][1]
    BY <1>1, <2>1
  <2> QED
    BY <1>1, <2>2, Zenon DEF Top
<1>4. ASSUME NEW g \in Inner(t)' PROVE g.replyTo \notin Replies
  <2>1. PICK i \in 1..n - 1 : g = stack'[t][i]
    BY <1>1, Zenon DEF Inner
  <2>2. CASE i = 1
    <3>1. n > 1 /\ g = f
      BY <1>2, <1>3, <2>1, <2>2
    <3> QED
      BY <1>2, <3>1, Zenon DEF RequestsInv
  <2>3. CASE i # 1
    <3>1. i \in 2..n
      BY <1>2, <2>1, <2>3
    <3>2. g \in Inner(t)
      BY <1>1, <2>1, <3>1, Zenon DEF Inner
    <3> QED
      BY <3>2, Zenon DEF RequestsInv
  <2> QED
    BY <2>2, <2>3
<1>5. Top(t)'.at \in Single => Len(stack'[t]) = 1
  BY <1>1, Zenon DEF RequestsInv, Single
<1>6. CASE n = 1
  <2>1. Bottom(t)' = f /\ Bottom(t) = Top(t)
    BY <1>1, <1>2, <1>3, <1>6, Zenon DEF Bottom
  <2>2. \A r \in Replies : Asking(t, r)' => Asking(t, r)
    BY <2>1, Zenon DEF Asking
  <2>3. \A r : ~Answering(t, r)
    BY <1>6 DEF Answering
  <2>4. \A r \in Replies : Asking(t, r)' => ~(Owing(Bottom(t)') /\ store'[r] = <<>>)
    BY <2>1, <2>2, <2>3, Zenon DEF ReplyingInv
  <2> QED
    BY <1>4, <1>5, <2>1, <2>2, <2>4, Zenon DEF Follows
<1>7. CASE n > 1
  <2>1. n \in 2..n /\ (n - 1 = 1 \/ n - 1 \in 2..n)
    <3> HIDE DEF n
    <3> QED
      BY <1>2, <1>7
  <2>2. Bottom(t)' = Bottom(t)
    BY <1>1, <2>1, Zenon DEF Bottom
  <2>3. stack'[t][n - 1].topic = stack[t][n - 1].topic
    BY <1>1, <1>2, <1>3, <1>7, <2>1, Zenon
  <2>4. \A r : Answering(t, r)' <=> Answering(t, r)
    BY <1>1, <2>3, Zenon DEF Answering
  <2>5. \A r \in Replies : Asking(t, r)' => Asking(t, r)
    BY <2>2, Zenon DEF Asking
  <2> QED
    BY <1>4, <1>5, <2>2, <2>4, <2>5, Zenon DEF Follows, ReplyingInv
<1>8. n = 1 \/ n > 1
  <2> HIDE DEF n
  <2> QED
    BY <1>2
<1> QED
  BY <1>6, <1>7, <1>8

\* The innermost call ends: it owed no reply, or has stored it.
LEMMA ReturnFollows ==
  ASSUME QueueTypes, StackInv, RequestsInv, ReplyingInv, NEW t \in Threads, stack[t] # <<>>, Return(t),
         \A r \in Replies : store'[r] = <<>> => store[r] = <<>> /\ Top(t).topic # r
  PROVE  Follows(t)
<1> DEFINE n == Len(stack[t])
<1>1. /\ stack' \in [Threads -> Seq(Frames)] /\ Len(stack'[t]) = n - 1
      /\ \A i \in 1..n - 1 : stack'[t][i] = stack[t][i + 1]
      /\ Moves(t, {})
  BY ReturnMoves, Zenon DEF QueueTypes, Moves
<1>2. n \in Nat /\ n >= 1 /\ (n > 1 => Top(t) \in Inner(t) /\ stack[t][1] = Top(t))
  BY BottomFacts, Zenon DEF QueueTypes
<1> SUFFICES ASSUME stack'[t] # <<>>
             PROVE  /\ \A f \in Inner(t)' : f.replyTo \notin Replies
                    /\ Top(t)'.at \in Single => Len(stack'[t]) = 1
                    /\ \A r \in Replies : Asking(t, r)' =>
                         /\ Asking(t, r)
                         /\ Bottom(t)'.at \in Waiting <=> Bottom(t).at \in Waiting
                         /\ Owing(Bottom(t)') /\ store'[r] = <<>> => Answering(t, r)'
  BY Zenon DEF Follows
<1>3. n - 1 \in Nat /\ n - 1 >= 1 /\ n > 1
  <2>1. stack'[t] \in Seq(Frames)
    BY <1>1
  <2>2. Len(stack'[t]) \in Nat /\ Len(stack'[t]) # 0
    BY <2>1
  <2> HIDE DEF n
  <2> QED
    BY <1>1, <1>2, <2>2
<1>4. /\ \A i \in 1..n - 1 - 1 : i \in 1..n - 1 /\ i + 1 \in 1..n - 1
      /\ n - 1 \in 1..n - 1 /\ n - 1 + 1 = n
  <2> HIDE DEF n
  <2> QED
    BY <1>2, <1>3
<1>5. ASSUME NEW f \in Inner(t)' PROVE f \in Inner(t)
  <2>1. PICK i \in 1..n - 1 - 1 : f = stack'[t][i]
    BY <1>1, Zenon DEF Inner
  <2> QED
    BY <1>1, <1>4, <2>1, Zenon DEF Inner
<1>6. Top(t)'.at \notin Single
  <2>1. Top(t)' \in Outer(t)
    BY <1>1, Zenon DEF Moves
  <2>2. Top(t)'.at = "call"
    BY <2>1, Zenon DEF StackInv
  <2> QED
    BY <2>2 DEF Waiting, Single
<1>7. Bottom(t)' = Bottom(t)
  BY <1>1, <1>4, Zenon DEF Bottom
<1>8. \A r : Asking(t, r)' <=> Asking(t, r)
  BY <1>7, Zenon DEF Asking
<1>9. ASSUME NEW r, Answering(t, r), Top(t).topic # r PROVE Answering(t, r)'
  <2>1. n - 1 # 1
    BY <1>2, <1>3, <1>9, Zenon DEF Answering
  <2>2. n - 1 > 1 /\ n - 1 - 1 \in 1..n - 1 /\ n - 1 - 1 + 1 = n - 1
    <3> HIDE DEF n
    <3> QED
      BY <1>2, <1>3, <2>1
  <2>3. stack'[t][n - 1 - 1] = stack[t][n - 1]
    BY <1>1, <2>2, Zenon
  <2> QED
    BY <1>1, <1>9, <2>2, <2>3, Zenon DEF Answering
<1> QED
  BY <1>5, <1>6, <1>7, <1>8, <1>9, Zenon DEF RequestsInv, ReplyingInv

\* An exception ends a call and breaks the broadcast that made it.
LEMMA RaiseFollows ==
  ASSUME QueueTypes, StackInv, RequestsInv, ReplyingInv, NEW t \in Threads, stack[t] # <<>>, Raise(t),
         \A r \in Replies : store'[r] = <<>> => store[r] = <<>>
  PROVE  Follows(t)
<1> DEFINE n == Len(stack[t])
<1>1. stack \in [Threads -> Seq(Frames)]
  BY Zenon DEF QueueTypes
<1>2. CASE stack'[t] = <<>>
  BY <1>2, Zenon DEF Follows
<1>3. CASE stack'[t] # <<>>
  <2> DEFINE b == Broken(stack[t][2])
  <2>1. /\ n > 1 /\ stack[t][2] \in Outer(t) /\ Top(t)' = b /\ Len(stack'[t]) = n - 1
        /\ \A i \in 2..n - 1 : stack'[t][i] = stack[t][i + 1]
        /\ stack' \in [Threads -> Seq(Frames)]
    BY <1>1, <1>3, RaiseMoves, Zenon DEF Moves
  <2>2. n \in Nat /\ stack'[t][1] = b
    <3>1. stack'[t] \in Seq(Frames) /\ stack[t] \in Seq(Frames)
      BY <1>1, <2>1, Zenon
    <3>2. Head(stack'[t]) = stack'[t][1] /\ Len(stack[t]) \in Nat
      BY <1>3, <3>1
    <3> QED
      BY <2>1, <3>2, Zenon DEF Top
  <2>3. stack[t][2] \in Frames /\ stack[t][2].at = "call"
    <3>1. \A g \in FramesOf(t) : g \in Frames
      BY <1>1 DEF FramesOf
    <3> QED
      BY <1>1, <2>1, <3>1, OuterInside, Zenon DEF StackInv
  <2>4. b.at = "call" /\ b.topic = stack[t][2].topic /\ b.replyTo = stack[t][2].replyTo /\ b.broke
    BY <2>3, BrokenFacts, Zenon
  <2> HIDE DEF b
  <2>5. Top(t)'.at \notin Single
    BY <2>1, <2>4 DEF Waiting, Single
  <2>6. /\ \A i \in 1..n - 1 - 1 : (i = 1 /\ 2 \in 1..n - 1) \/ (i \in 2..n - 1 /\ i + 1 \in 1..n - 1)
        /\ n - 1 = 1 \/ (n - 1 \in 2..n - 1 /\ n - 1 + 1 = n /\ n - 1 > 1)
    <3> HIDE DEF n
    <3> QED
      BY <2>1, <2>2
  <2>7. ASSUME NEW f \in Inner(t)' PROVE f.replyTo \notin Replies
    <3>1. PICK i \in 1..n - 1 - 1 : f = stack'[t][i]
      BY <2>1, Zenon DEF Inner
    <3>2. \E g \in Inner(t) : f.replyTo = g.replyTo
      <4>1. CASE i = 1 /\ 2 \in 1..n - 1
        BY <2>2, <2>4, <3>1, <4>1, Zenon DEF Inner
      <4>2. CASE i \in 2..n - 1 /\ i + 1 \in 1..n - 1
        BY <2>1, <3>1, <4>2, Zenon DEF Inner
      <4> QED
        BY <2>6, <4>1, <4>2, Zenon
    <3> QED
      BY <3>2, Zenon DEF RequestsInv
  <2>8. CASE n - 1 = 1
    <3>1. Bottom(t)' = b
      BY <2>1, <2>2, <2>8, Zenon DEF Bottom
    <3>2. n = 2
      <4> HIDE DEF n
      <4> QED
        BY <2>2, <2>8
    <3>3. Bottom(t) = stack[t][2]
      BY <3>2, Zenon DEF Bottom
    <3>4. \A r : Asking(t, r)' <=> Asking(t, r)
      BY <1>3, <2>4, <3>1, <3>3, Zenon DEF Asking
    <3>5. ~Owing(Bottom(t)')
      BY <2>4, <3>1, Zenon DEF Owing
    <3>6. Bottom(t)'.at = Bottom(t).at
      BY <2>3, <2>4, <3>1, <3>3, Zenon
    <3> QED
      BY <2>5, <2>7, <3>4, <3>5, <3>6, Zenon DEF Follows
  <2>9. CASE n - 1 \in 2..n - 1 /\ n - 1 + 1 = n /\ n - 1 > 1
    <3>1. Bottom(t)' = Bottom(t)
      BY <2>1, <2>9, Zenon DEF Bottom
    <3>2. \A r : Asking(t, r)' <=> Asking(t, r)
      BY <1>3, <3>1, Zenon DEF Asking
    <3>3. stack'[t][n - 1 - 1].topic = stack[t][n - 1].topic
      <4>1. CASE n - 1 - 1 = 1
        <5>1. n - 1 = 2
          <6> HIDE DEF n
          <6> QED
            BY <2>2, <4>1
        <5> QED
          BY <2>2, <2>4, <4>1, <5>1, Zenon
      <4>2. CASE n - 1 - 1 # 1
        <5>1. n - 1 - 1 \in 2..n - 1 /\ n - 1 - 1 + 1 = n - 1
          <6> HIDE DEF n
          <6> QED
            BY <2>2, <2>9, <4>2
        <5> QED
          BY <2>1, <5>1, Zenon
      <4> QED
        BY <4>1, <4>2, Zenon
    <3>4. \A r : Answering(t, r) => Answering(t, r)'
      BY <2>1, <2>9, <3>3, Zenon DEF Answering
    <3> QED
      BY <2>5, <2>7, <3>1, <3>2, <3>4, Zenon DEF Follows, ReplyingInv
  <2> QED
    BY <2>6, <2>8, <2>9, Zenon
<1> QED
  BY <1>2, <1>3, Zenon

\* A handler that was not one that replies leaves the broadcast as replied as
\* it was.
LEMMA RepliedAppend ==
  ASSUME NEW s \in Seq(Handlers), NEW h \in Handlers, Replied(Append(s, h))
  PROVE  Replied(s) \/ Does[h].kind = "replies"
<1>1. PICK i \in DOMAIN Append(s, h) : Does[Append(s, h)[i]].kind = "replies"
  BY Zenon DEF Replied
<1>2. (i \in DOMAIN s /\ Append(s, h)[i] = s[i]) \/ Append(s, h)[i] = h
  OBVIOUS
<1> QED
  BY <1>1, <1>2, Zenon DEF Replied

\* A handler calls the queue: one that replies sends to the reply topic.
LEMMA CallsFollows ==
  ASSUME QueueTypes, StackInv, RequestsInv, ReplyingInv, NEW t \in Threads, At(t, "call"),
         NEW g, CallsQueue(t, g), store' = store
  PROVE  Follows(t)
<1> DEFINE n == Len(stack[t])
           c == Called(Top(t))
<1>1. stack[t] # <<>> /\ Top(t) \in Frames /\ Top(t).at = "call" /\ Top(t).run # <<>>
  BY AtFacts, Zenon DEF CallsQueue
<1>2. /\ NewFrame(g) /\ g \in Frames /\ g.replyTo \in Names /\ Calls(t, g, c)
      /\ Does[Head(Top(t).run)].kind = "replies" => g.topic = Top(t).replyTo
  BY Zenon DEF CallsQueue, NewFrame
<1>3. /\ c \in Frames /\ c.at = "call" /\ c.topic = Top(t).topic /\ c.replyTo = Top(t).replyTo
      /\ c.got = Append(Top(t).got, Head(Top(t).run)) /\ c.broke = Top(t).broke /\ Head(Top(t).run) \in Handlers
  BY <1>1, CalledFacts, Zenon
<1> HIDE DEF c
<1>4. /\ stack'[t] # <<>> /\ Top(t)' = g /\ Len(stack'[t]) = n + 1 /\ stack'[t][1] = g /\ stack'[t][2] = c
      /\ \A i \in 3..n + 1 : stack'[t][i] = stack[t][i - 1]
  <2>1. stack \in [Threads -> Seq(Frames)]
    BY Zenon DEF QueueTypes
  <2>2. /\ Moves(t, {g, c}) /\ stack'[t] # <<>> /\ Top(t)' = g
        /\ Len(stack'[t]) = Len(stack[t]) + 1 /\ stack'[t][1] = g /\ stack'[t][2] = c
        /\ \A i \in 3..Len(stack[t]) + 1 : stack'[t][i] = stack[t][i - 1]
    BY <1>1, <1>2, <1>3, <2>1, CallsMoves, Zenon
  <2> QED
    BY <2>2, Zenon
<1>5. n \in Nat /\ n >= 1 /\ (n = 1 => Bottom(t) = Top(t)) /\ (n > 1 => Top(t) \in Inner(t) /\ stack[t][1] = Top(t))
  BY <1>1, BottomFacts, Zenon DEF QueueTypes
<1>6. g.replyTo \notin Replies /\ g.at \notin Single /\ "call" \notin Waiting
  <2>1. g.replyTo \notin Replies
    BY <1>2, QueueAssumption, Zenon
  <2>2. g.at \notin Single
    <3>1. g.at \in {"send", "topic", "receive"} /\ (g.at = "receive" => FALSE)
      BY <1>2, Zenon DEF NewFrame, CallsQueue
    <3> QED
      BY <3>1 DEF Waiting, Single
  <2> QED
    BY <2>1, <2>2 DEF Waiting
<1>7. \A i \in 1..n + 1 - 1 : i = 1 \/ (i = 2 /\ n > 1) \/ (i \in 3..n + 1 /\ i - 1 \in 1..n - 1)
  <2> HIDE DEF n
  <2> QED
    BY <1>5
<1>8. ASSUME NEW f \in Inner(t)' PROVE f.replyTo \notin Replies
  <2>1. PICK i \in 1..n + 1 - 1 : f = stack'[t][i]
    <3>1. Len(stack'[t]) = n + 1
      BY <1>4, Zenon
    <3> QED
      BY <1>8, <3>1 DEF Inner
  <2>2. CASE i = 1
    BY <1>4, <1>6, <2>1, <2>2, Zenon
  <2>3. CASE i = 2 /\ n > 1
    <3>1. f.replyTo = Top(t).replyTo
      BY <1>3, <1>4, <2>1, <2>3, Zenon
    <3> QED
      BY <1>5, <2>3, <3>1, Zenon DEF RequestsInv
  <2>4. CASE i \in 3..n + 1 /\ i - 1 \in 1..n - 1
    <3>1. f \in Inner(t)
      BY <1>4, <2>1, <2>4, Zenon DEF Inner
    <3> QED
      BY <3>1, Zenon DEF RequestsInv
  <2> QED
    BY <1>7, <2>1, <2>2, <2>3, <2>4, Zenon
<1>9. CASE n = 1
  <2>0. n + 1 = 2 /\ 2 - 1 = 1 /\ 2 > 1
    <3> HIDE DEF n
    <3> QED
      BY <1>9
  <2>1. Bottom(t)' = c /\ Bottom(t) = Top(t)
    BY <1>4, <1>5, <1>9, <2>0, Zenon DEF Bottom
  <2>2. \A r : Asking(t, r)' <=> Asking(t, r)
    BY <1>1, <1>3, <1>4, <2>1, Zenon DEF Asking
  <2>3. \A r : ~Answering(t, r)
    BY <1>9 DEF Answering
  <2>4. \A r : g.topic = r => Answering(t, r)'
    BY <1>4, <2>0, Zenon DEF Answering
  <2>5. ASSUME NEW r \in Replies, Asking(t, r), Owing(c), store[r] = <<>> PROVE g.topic = r
    <3>1. Top(t).got \in Seq(Handlers)
      BY <1>1 DEF Frames
    <3>2. Replied(Top(t).got) \/ Does[Head(Top(t).run)].kind = "replies"
      BY <1>3, <2>5, <3>1, RepliedAppend, Zenon DEF Owing
    <3>3. ~Owing(Top(t))
      BY <2>1, <2>3, <2>5, Zenon DEF ReplyingInv
    <3>4. Does[Head(Top(t).run)].kind = "replies"
      BY <1>1, <1>3, <2>5, <3>2, <3>3, Zenon DEF Owing
    <3>5. Top(t).replyTo = r
      BY <2>1, <2>5, Zenon DEF Asking
    <3> QED
      BY <1>2, <3>4, <3>5, Zenon
  <2> QED
    BY <1>1, <1>3, <1>4, <1>6, <1>8, <2>1, <2>2, <2>4, <2>5, Zenon DEF Follows
<1>10. CASE n > 1
  <2>0. n + 1 \in 3..n + 1 /\ n + 1 - 1 = n /\ n + 1 > 1 /\ (n = 2 \/ (n \in 3..n + 1 /\ n # 2)) /\ 2 - 1 = 1
    <3> HIDE DEF n
    <3> QED
      BY <1>5, <1>10
  <2>1. Bottom(t)' = Bottom(t)
    <3>1. stack'[t][n + 1] = stack[t][n + 1 - 1] /\ Len(stack'[t]) = n + 1
      BY <1>4, <2>0
    <3> QED
      BY <2>0, <3>1 DEF Bottom
  <2>2. \A r : Asking(t, r)' <=> Asking(t, r)
    BY <1>1, <1>4, <2>1, Zenon DEF Asking
  <2>3. stack'[t][n + 1 - 1].topic = stack[t][n - 1].topic
    <3>1. CASE n = 2
      BY <1>3, <1>4, <1>5, <1>10, <2>0, <3>1, Zenon
    <3>2. CASE n # 2
      BY <1>4, <2>0, <3>2, Zenon
    <3> QED
      BY <3>1, <3>2, Zenon
  <2>4. \A r : Answering(t, r) => Answering(t, r)'
    <3>1. Len(stack'[t]) = n + 1
      BY <1>4, Zenon
    <3> QED
      BY <2>0, <2>3, <3>1 DEF Answering
  <2> QED
    BY <1>4, <1>6, <1>8, <2>1, <2>2, <2>4, Zenon DEF Follows, ReplyingInv
<1>11. n = 1 \/ n > 1
  <2> HIDE DEF n
  <2> QED
    BY <1>5
<1> QED
  BY <1>9, <1>10, <1>11, Zenon

\* The requests of the other threads.
LEMMA OthersAsk ==
  ASSUME NEW t \in Threads, \A u \in Threads \ {t} : stack'[u] = stack[u]
  PROVE  \A u \in Threads \ {t} :
           /\ Inner(u)' = Inner(u) /\ Top(u)' = Top(u) /\ Len(stack'[u]) = Len(stack[u]) /\ Bottom(u)' = Bottom(u)
           /\ \A r : (Asking(u, r)' <=> Asking(u, r)) /\ (Answering(u, r)' <=> Answering(u, r))
  BY Zenon DEF Inner, Top, Bottom, Asking, Answering

\* The invariants of Part 3.
Replying == RequestsInv /\ ReplyingInv /\ RepliesInv /\ RequestsAnswered

\* A step that ends no request.
LEMMA AskingStep ==
  ASSUME Replying, NEW t \in Threads, \A u \in Threads \ {t} : stack'[u] = stack[u], Follows(t),
         closed => closed', answers' = answers, sent \subseteq sent',
         \A s \in sent' : s \in sent \/ s.replyTo \notin Replies,
         \A r \in Replies : store'[r] = <<>> => store[r] = <<>>
  PROVE  Replying'
<1>0. RequestsInv /\ ReplyingInv /\ RepliesInv /\ RequestsAnswered
  BY Zenon DEF Replying
<1>1. \A u \in Threads \ {t} :
        /\ Inner(u)' = Inner(u) /\ Top(u)' = Top(u) /\ Len(stack'[u]) = Len(stack[u]) /\ Bottom(u)' = Bottom(u)
        /\ \A r : (Asking(u, r)' <=> Asking(u, r)) /\ (Answering(u, r)' <=> Answering(u, r))
  BY OthersAsk, Zenon
<1>2. ASSUME NEW u \in Threads, NEW r \in Replies, Asking(u, r)'
      PROVE  /\ Asking(u, r)
             /\ Bottom(u)'.at \in Waiting <=> Bottom(u).at \in Waiting
             /\ Owing(Bottom(u)') /\ store'[r] = <<>> => Answering(u, r)'
  <2>1. CASE u = t
    <3>1. stack'[t] # <<>>
      BY <1>2, <2>1, Zenon DEF Asking
    <3> QED
      BY <1>2, <2>1, <3>1, Zenon DEF Follows
  <2>2. CASE u # t
    BY <1>0, <1>1, <1>2, <2>2, Zenon DEF ReplyingInv
  <2> QED
    BY <2>1, <2>2, Zenon
<1>3. \A r \in Replies : (\E s \in sent' : s.replyTo = r) <=> \E s \in sent : s.replyTo = r
  BY Zenon
<1>4. RequestsInv'
  <2>1. \A u \in Threads : \A f \in Inner(u)' : f.replyTo \notin Replies
    <3>1. \A f \in Inner(t)' : f.replyTo \notin Replies
      <4>1. stack'[t] = <<>> => Inner(t)' = {}
        BY DEF Inner
      <4> QED
        BY <4>1, Zenon DEF Follows
    <3> QED
      BY <1>0, <1>1, <3>1, Zenon DEF RequestsInv
  <2>2. \A u \in Threads : stack'[u] # <<>> /\ Top(u)'.at \in Single => Len(stack'[u]) = 1
    BY <1>0, <1>1, Zenon DEF RequestsInv, Follows
  <2>3. \A u, v \in Threads : \A r \in Replies : Asking(u, r)' /\ Asking(v, r)' => u = v
    BY <1>0, <1>2, Zenon DEF RequestsInv
  <2>4. \A u \in Threads : \A r \in Replies : Asking(u, r)' =>
           /\ Bottom(u)'.at \in Waiting <=> \E s \in sent' : s.replyTo = r
           /\ \A a \in answers' : a.replyTo # r
    BY <1>0, <1>2, <1>3, Zenon DEF RequestsInv
  <2>5. \A a \in answers' : a.replyTo \in Replies /\ \E s \in sent' : s.replyTo = a.replyTo
    BY <1>0, Zenon DEF RequestsInv
  <2> QED
    BY <2>1, <2>2, <2>3, <2>4, <2>5, Zenon DEF RequestsInv
<1>5. ReplyingInv'
  BY <1>2, Zenon DEF ReplyingInv
<1>6. RepliesInv'
  BY <1>0, <1>2, Zenon DEF RepliesInv, Unanswered
<1>7. RequestsAnswered'
  <2>1. \A a \in answers, s \in sent' : s.replyTo = a.replyTo => s \in sent
    BY <1>0, Zenon DEF RequestsInv
  <2> QED
    BY <1>0, <2>1, Zenon DEF RequestsAnswered
<1> QED
  BY <1>4, <1>5, <1>6, <1>7, Zenon DEF Replying

\* A thread without a call.
LEMMA IdleFacts ==
  ASSUME NEW t \in Threads, stack[t] = <<>>
  PROVE  Inner(t) = {} /\ \A r : ~Asking(t, r)
<1>1. 1..Len(stack[t]) - 1 = {}
  OBVIOUS
<1> QED
  BY <1>1, Zenon DEF Inner, Asking

\* A thread with one call.
LEMMA SingleFacts ==
  ASSUME NEW t \in Threads, Len(stack[t]) = 1, stack[t] # <<>>
  PROVE  /\ Inner(t) = {} /\ Bottom(t) = stack[t][1] /\ \A r : ~Answering(t, r)
         /\ \A r : Asking(t, r) <=> stack[t][1].replyTo = r
<1>1. 1..Len(stack[t]) - 1 = {} /\ ~(Len(stack[t]) > 1)
  OBVIOUS
<1> QED
  BY <1>1, Zenon DEF Inner, Asking, Bottom, Answering

\* A request ends, for whatever reason.
LEMMA RequestEnds ==
  ASSUME Replying, NEW t \in Threads, \A u \in Threads \ {t} : stack'[u] = stack[u], stack'[t] = <<>>,
         NEW r \in Replies, Asking(t, r), closed => closed',
         sent \subseteq sent', \A s \in sent' : s \in sent \/ s.replyTo = r,
         \A a \in answers' : a \in answers \/ (a.replyTo = r /\ \E s \in sent' : s.replyTo = r),
         \A q \in Replies : q # r => store'[q] = store[q],
         RequestsAnswered'
  PROVE  Replying'
<1>0. RequestsInv /\ ReplyingInv /\ RepliesInv /\ RequestsAnswered
  BY Zenon DEF Replying
<1>1. \A u \in Threads \ {t} :
        /\ Inner(u)' = Inner(u) /\ Top(u)' = Top(u) /\ Len(stack'[u]) = Len(stack[u]) /\ Bottom(u)' = Bottom(u)
        /\ \A q : (Asking(u, q)' <=> Asking(u, q)) /\ (Answering(u, q)' <=> Answering(u, q))
  BY OthersAsk, Zenon
<1>2. Inner(t)' = {} /\ \A q : ~Asking(t, q)'
  <2>1. 1..Len(stack'[t]) - 1 = {}
    OBVIOUS
  <2> QED
    BY <2>1, Zenon DEF Inner, Asking
<1>3. \A u \in Threads, q \in Replies : Asking(u, q)' => u # t /\ Asking(u, q) /\ q # r
  <2>1. \A u \in Threads \ {t} : ~Asking(u, r)
    BY <1>0, Zenon DEF RequestsInv
  <2>2. \A u \in Threads, q \in Replies : Asking(u, q)' => u # t
    BY <1>2, Zenon
  <2>3. \A u \in Threads, q \in Replies : Asking(u, q)' => Asking(u, q)
    BY <1>1, <2>2, Zenon
  <2> QED
    BY <2>1, <2>2, <2>3, Zenon
<1>4. \A q \in Replies : q # r => ((\E s \in sent' : s.replyTo = q) <=> \E s \in sent : s.replyTo = q)
  BY Zenon
<1>5. RequestsInv'
  <2>1. \A u \in Threads : \A f \in Inner(u)' : f.replyTo \notin Replies
    <3>1. \A u \in Threads : \A f \in Inner(u) : f.replyTo \notin Replies
      BY <1>0, Zenon DEF RequestsInv
    <3>2. \A u \in Threads : Inner(u)' = Inner(u) \/ Inner(u)' = {}
      BY <1>1, <1>2, Zenon
    <3> QED
      BY <3>1, <3>2, Zenon
  <2>2. \A u \in Threads : stack'[u] # <<>> /\ Top(u)'.at \in Single => Len(stack'[u]) = 1
    BY <1>0, <1>1, Zenon DEF RequestsInv
  <2>3. \A u, v \in Threads : \A q \in Replies : Asking(u, q)' /\ Asking(v, q)' => u = v
    BY <1>0, <1>3, Zenon DEF RequestsInv
  <2>4. ASSUME NEW u \in Threads, NEW q \in Replies, Asking(u, q)'
        PROVE  /\ Bottom(u)'.at \in Waiting <=> \E s \in sent' : s.replyTo = q
               /\ \A a \in answers' : a.replyTo # q
    <3>1. u # t /\ Asking(u, q) /\ q # r
      BY <1>3, <2>4, Zenon
    <3>2. /\ Bottom(u).at \in Waiting <=> \E s \in sent : s.replyTo = q
          /\ \A a \in answers : a.replyTo # q
      BY <1>0, <3>1, Zenon DEF RequestsInv
    <3> QED
      BY <1>1, <1>4, <3>1, <3>2, Zenon
  <2>5. \A a \in answers' : a.replyTo \in Replies /\ \E s \in sent' : s.replyTo = a.replyTo
    BY <1>0, Zenon DEF RequestsInv
  <2> QED
    BY <2>1, <2>2, <2>3, <2>4, <2>5, Zenon DEF RequestsInv
<1>6. ReplyingInv'
  BY <1>0, <1>1, <1>3, Zenon DEF ReplyingInv
<1>7. RepliesInv'
  BY <1>0, <1>3, Zenon DEF RepliesInv, Unanswered
<1> QED
  BY <1>5, <1>6, <1>7, Zenon DEF Replying

\* A request starts.
LEMMA RequestStarts ==
  ASSUME QueueTypes, Replying, NEW t \in Threads, NEW f \in Frames, Starts(t, f), f.at = "send",
         f.replyTo \in Replies, \A u \in Threads : ~Asking(u, f.replyTo), \A s \in sent : s.replyTo # f.replyTo,
         UNCHANGED <<sent, answers, store, closed>>
  PROVE  Replying'
<1>0. RequestsInv /\ ReplyingInv /\ RepliesInv /\ RequestsAnswered
  BY Zenon DEF Replying
<1>1. /\ stack'[t] # <<>> /\ Top(t)' = f /\ Len(stack'[t]) = 1 /\ stack'[t][1] = f
      /\ \A u \in Threads \ {t} : stack'[u] = stack[u]
  BY StartsMoves, Zenon DEF QueueTypes, Moves
<1>2. \A u \in Threads \ {t} :
        /\ Inner(u)' = Inner(u) /\ Top(u)' = Top(u) /\ Len(stack'[u]) = Len(stack[u]) /\ Bottom(u)' = Bottom(u)
        /\ \A q : (Asking(u, q)' <=> Asking(u, q)) /\ (Answering(u, q)' <=> Answering(u, q))
  BY <1>1, OthersAsk, Zenon
<1>3. Inner(t)' = {} /\ Bottom(t)' = f /\ \A q : Asking(t, q)' <=> q = f.replyTo
  <2>1. 1..Len(stack'[t]) - 1 = {}
    BY <1>1
  <2>2. Inner(t)' = {}
    BY <2>1, Zenon DEF Inner
  <2>3. Bottom(t)' = f
    BY <1>1, Zenon DEF Bottom
  <2> QED
    BY <1>1, <2>2, <2>3, Zenon DEF Asking
<1>4. "send" \notin Waiting /\ "send" \notin Single /\ "send" \notin {"notify", "call", "store"}
  BY DEF Waiting, Single
<1>5. ASSUME NEW u \in Threads, NEW q \in Replies, Asking(u, q)'
      PROVE  (u = t /\ q = f.replyTo) \/ (u # t /\ Asking(u, q) /\ q # f.replyTo)
  BY <1>2, <1>3, <1>5, Zenon
<1>6. \A a \in answers : a.replyTo # f.replyTo
  BY <1>0, Zenon DEF RequestsInv
<1>7. RequestsInv'
  <2>1. \A u \in Threads : \A g \in Inner(u)' : g.replyTo \notin Replies
    <3>1. \A u \in Threads : \A g \in Inner(u) : g.replyTo \notin Replies
      BY <1>0, Zenon DEF RequestsInv
    <3> QED
      BY <1>2, <1>3, <3>1, Zenon
  <2>2. \A u \in Threads : stack'[u] # <<>> /\ Top(u)'.at \in Single => Len(stack'[u]) = 1
    <3>1. \A u \in Threads : stack[u] # <<>> /\ Top(u).at \in Single => Len(stack[u]) = 1
      BY <1>0, Zenon DEF RequestsInv
    <3> QED
      BY <1>1, <1>2, <3>1, Zenon
  <2>3. \A u, v \in Threads : \A q \in Replies : Asking(u, q)' /\ Asking(v, q)' => u = v
    <3>1. \A u, v \in Threads : \A q \in Replies : Asking(u, q) /\ Asking(v, q) => u = v
      BY <1>0, Zenon DEF RequestsInv
    <3> QED
      BY <1>5, <3>1, Zenon
  <2>4. ASSUME NEW u \in Threads, NEW q \in Replies, Asking(u, q)'
        PROVE  /\ Bottom(u)'.at \in Waiting <=> \E s \in sent' : s.replyTo = q
               /\ \A a \in answers' : a.replyTo # q
    <3>1. CASE u = t /\ q = f.replyTo
      BY <1>3, <1>4, <1>6, <3>1, Zenon
    <3>2. CASE u # t /\ Asking(u, q)
      <4>1. /\ Bottom(u).at \in Waiting <=> \E s \in sent : s.replyTo = q
            /\ \A a \in answers : a.replyTo # q
        BY <1>0, <3>2, Zenon DEF RequestsInv
      <4> QED
        BY <1>2, <3>2, <4>1, Zenon
    <3> QED
      BY <1>5, <2>4, <3>1, <3>2, Zenon
  <2>5. \A a \in answers' : a.replyTo \in Replies /\ \E s \in sent' : s.replyTo = a.replyTo
    BY <1>0, Zenon DEF RequestsInv
  <2> QED
    BY <2>1, <2>2, <2>3, <2>4, <2>5, Zenon DEF RequestsInv
<1>8. ReplyingInv'
  <2>1. ~Owing(f)
    BY <1>4, Zenon DEF Owing
  <2> QED
    BY <1>0, <1>2, <1>3, <1>5, <2>1, Zenon DEF ReplyingInv
<1>9. RepliesInv'
  BY <1>0, <1>5, Zenon DEF RepliesInv, Unanswered
<1>10. RequestsAnswered'
  BY <1>0, Zenon DEF RequestsAnswered
<1> QED
  BY <1>7, <1>8, <1>9, <1>10, Zenon DEF Replying

\* A request of an innermost frame is its thread's only call.
LEMMA RequestAlone ==
  ASSUME QueueTypes, RequestsInv, NEW t \in Threads, stack[t] # <<>>, Top(t).replyTo \in Replies
  PROVE  Len(stack[t]) = 1 /\ Bottom(t) = Top(t) /\ Asking(t, Top(t).replyTo)
<1>1. /\ Len(stack[t]) \in Nat /\ Len(stack[t]) >= 1 /\ (Len(stack[t]) = 1 => Bottom(t) = Top(t))
      /\ Len(stack[t]) > 1 => Top(t) \in Inner(t)
  BY BottomFacts, Zenon DEF QueueTypes
<1>2. ~(Len(stack[t]) > 1)
  BY <1>1, Zenon DEF RequestsInv
<1>3. Len(stack[t]) = 1
  <2> DEFINE n == Len(stack[t])
  <2>1. n \in Nat /\ n >= 1 /\ ~(n > 1)
    BY <1>1, <1>2, Zenon
  <2> HIDE DEF n
  <2>2. n = 1
    BY <2>1
  <2> QED
    BY <2>2, Zenon DEF n
<1> QED
  BY <1>1, <1>3, Zenon DEF Asking

\* put_nowait changes the queue of one topic, which has a message then.
LEMMA PutStore ==
  ASSUME QueueTypes, StackInv, NEW t \in Threads, Put(t)
  PROVE  /\ \A r \in Replies : store'[r] = <<>> => store[r] = <<>>
         /\ Raise(t) \/ \A r \in Replies : store'[r] = <<>> => Top(t).topic # r
         /\ Top(t).topic \in Names => \A r \in Replies : store'[r] = store[r]
<1>1. /\ At(t, "store")
      /\ \/ Raise(t) /\ store' = store
         \/ store' = [store EXCEPT ![Top(t).topic] = Append(@, Top(t).id)]
  BY Zenon DEF Put
<1>2. Top(t).topic \in AllNames /\ Top(t).id \in Nat
  BY <1>1, SendingFrame, Zenon DEF Sending
<1>3. store \in [AllNames -> Seq(Nat)] /\ Replies \subseteq AllNames /\ Replies \cap Names = {}
  BY QueueAssumption, Zenon DEF QueueTypes, AllNames
<1>4. store[Top(t).topic] \in Seq(Nat)
  BY <1>2, <1>3, Zenon
<1>5. CASE Raise(t) /\ store' = store
  BY <1>5, Zenon
<1>6. CASE store' = [store EXCEPT ![Top(t).topic] = Append(@, Top(t).id)]
  <2>1. \A n \in AllNames : store'[n] = IF n = Top(t).topic THEN Append(store[n], Top(t).id) ELSE store[n]
    BY <1>3, <1>6, Zenon
  <2>2. Append(store[Top(t).topic], Top(t).id) # <<>>
    BY <1>4
  <2> QED
    BY <1>3, <2>1, <2>2, Zenon
<1> QED
  BY <1>1, <1>5, <1>6, Zenon

\* A request goes on to wait for its reply.
LEMMA RequestWaits ==
  ASSUME Replying, NEW t \in Threads, \A u \in Threads \ {t} : stack'[u] = stack[u],
         NEW r \in Replies, Asking(t, r), NEW m, m.replyTo = r, sent' = sent \cup {m}, answers' = answers,
         closed' = closed, \A q \in Replies : store'[q] = store[q], RequestsAnswered',
         Inner(t)' = {}, Bottom(t)'.at = "receive", Len(stack'[t]) = 1, \A q : Asking(t, q)' <=> q = r,
         ~closed /\ store[r] = <<>> => ~Unanswered(m)
  PROVE  Replying'
<1>0. RequestsInv /\ ReplyingInv /\ RepliesInv /\ RequestsAnswered
  BY Zenon DEF Replying
<1>1. \A u \in Threads \ {t} :
        /\ Inner(u)' = Inner(u) /\ Top(u)' = Top(u) /\ Len(stack'[u]) = Len(stack[u]) /\ Bottom(u)' = Bottom(u)
        /\ \A q : (Asking(u, q)' <=> Asking(u, q)) /\ (Answering(u, q)' <=> Answering(u, q))
  BY OthersAsk, Zenon
<1>2. "receive" \in Waiting /\ "receive" \notin {"notify", "call", "store"}
  BY DEF Waiting
<1>3. ASSUME NEW u \in Threads, NEW q \in Replies, Asking(u, q)'
      PROVE  (u = t /\ q = r) \/ (u # t /\ Asking(u, q) /\ q # r)
  <2>1. \A v \in Threads \ {t} : ~Asking(v, r)
    BY <1>0, Zenon DEF RequestsInv
  <2> QED
    BY <1>1, <1>3, <2>1, Zenon
<1>4. RequestsInv'
  <2>1. \A u \in Threads : \A f \in Inner(u)' : f.replyTo \notin Replies
    <3>1. \A u \in Threads : \A f \in Inner(u) : f.replyTo \notin Replies
      BY <1>0, Zenon DEF RequestsInv
    <3> QED
      BY <1>1, <3>1, Zenon
  <2>2. \A u \in Threads : stack'[u] # <<>> /\ Top(u)'.at \in Single => Len(stack'[u]) = 1
    <3>1. \A u \in Threads : stack[u] # <<>> /\ Top(u).at \in Single => Len(stack[u]) = 1
      BY <1>0, Zenon DEF RequestsInv
    <3> QED
      BY <1>1, <3>1, Zenon
  <2>3. \A u, v \in Threads : \A q \in Replies : Asking(u, q)' /\ Asking(v, q)' => u = v
    <3>1. \A u, v \in Threads : \A q \in Replies : Asking(u, q) /\ Asking(v, q) => u = v
      BY <1>0, Zenon DEF RequestsInv
    <3> QED
      BY <1>3, <3>1, Zenon
  <2>4. ASSUME NEW u \in Threads, NEW q \in Replies, Asking(u, q)'
        PROVE  /\ Bottom(u)'.at \in Waiting <=> \E s \in sent' : s.replyTo = q
               /\ \A a \in answers' : a.replyTo # q
    <3>0. Asking(u, q)
      BY <1>3, <2>4, Zenon
    <3>1. /\ Bottom(u).at \in Waiting <=> \E s \in sent : s.replyTo = q
          /\ \A a \in answers : a.replyTo # q
      BY <1>0, <3>0, Zenon DEF RequestsInv
    <3>2. CASE u = t /\ q = r
      BY <1>2, <3>1, <3>2, Zenon
    <3>3. CASE u # t /\ q # r
      BY <1>1, <3>1, <3>3, Zenon
    <3> QED
      BY <1>3, <2>4, <3>2, <3>3, Zenon
  <2>5. \A a \in answers' : a.replyTo \in Replies /\ \E s \in sent' : s.replyTo = a.replyTo
    BY <1>0, Zenon DEF RequestsInv
  <2> QED
    BY <2>1, <2>2, <2>3, <2>4, <2>5, Zenon DEF RequestsInv
<1>5. ReplyingInv'
  <2>1. ~Owing(Bottom(t)')
    BY <1>2, Zenon DEF Owing
  <2> QED
    <3> SUFFICES ASSUME NEW u \in Threads, NEW q \in Replies, Asking(u, q)', Owing(Bottom(u)'), store'[q] = <<>>
                 PROVE  Answering(u, q)'
      BY Zenon DEF ReplyingInv, Owing
    <3>1. u # t /\ Asking(u, q) /\ q # r
      BY <1>3, <2>1, Zenon
    <3>2. Owing(Bottom(u)) /\ (Answering(u, q) => Answering(u, q)')
      BY <1>1, <3>1, Zenon
    <3> QED
      BY <1>0, <3>1, <3>2, Zenon DEF ReplyingInv
<1>6. RepliesInv'
  <2>1. ASSUME ~closed, NEW u \in Threads, NEW q \in Replies, Asking(u, q)', store'[q] = <<>>,
               NEW s \in sent', s.replyTo = q
        PROVE  ~Unanswered(s)
    <3>1. Asking(u, q) /\ store[q] = <<>>
      BY <1>3, <2>1, Zenon
    <3>2. CASE s = m
      BY <2>1, <3>1, <3>2, Zenon
    <3>3. CASE s \in sent
      BY <1>0, <2>1, <3>1, <3>3, Zenon DEF RepliesInv
    <3> QED
      BY <3>2, <3>3, Zenon
  <2> QED
    BY <2>1, Zenon DEF RepliesInv, Unanswered
<1> QED
  BY <1>4, <1>5, <1>6, Zenon DEF Replying

\* A frame that goes to its next place.
LEMMA MovedFollows ==
  ASSUME QueueTypes, StackInv, RequestsInv, ReplyingInv, NEW t \in Threads, NEW q, At(t, q), NEW p \in Places,
         Become(t, Moved(Top(t), p)), p \in Waiting <=> q \in Waiting, p # "close",
         p \in {"notify", "call", "store"} => q \in {"notify", "call", "store"}, store' = store
  PROVE  Follows(t)
<1> DEFINE f == Moved(Top(t), p)
<1>1. stack[t] # <<>> /\ Top(t) \in Frames /\ Top(t).at = q
  BY AtFacts, Zenon
<1>2. /\ f \in Frames /\ f.at = p /\ f.topic = Top(t).topic /\ f.replyTo = Top(t).replyTo
      /\ f.got = Top(t).got /\ f.broke = Top(t).broke
  BY <1>1, MovedFacts, Zenon
<1>3. Become(t, f)
  OBVIOUS
<1> HIDE DEF f
<1>4. Owing(f) => Owing(Top(t))
  BY <1>1, <1>2, Zenon DEF Owing
<1> QED
  BY <1>1, <1>2, <1>3, <1>4, BecomeFollows, Zenon

\* A handler that is called, but for the calls it makes.
LEMMA CallHandlerFollows ==
  ASSUME QueueTypes, StackInv, RequestsInv, ReplyingInv, NEW t \in Threads, CallHandler(t), store' = store
  PROVE  Follows(t)
<1>1. At(t, "call") /\ (Ends(t) \/ CallsPlain(t) \/ CallsRaising(t) \/ \E g : CallsQueue(t, g))
  BY CallHandlerFacts, Zenon DEF At, Top
<1>2. /\ "notify" \in Places /\ ("notify" \in Waiting <=> "call" \in Waiting) /\ "notify" # "close"
      /\ "call" \in {"notify", "call", "store"} /\ "call" # "close"
  BY DEF Places, Sending, Waiting
<1>3. CASE Ends(t)
  BY <1>1, <1>2, <1>3, MovedFollows, Zenon DEF Ends
<1>4. CASE \E g : CallsQueue(t, g)
  BY <1>1, <1>4, CallsFollows, Zenon
<1>5. CASE CallsPlain(t) \/ CallsRaising(t)
  <2> DEFINE c == Called(Top(t))
             b == Broken(c)
  <2>1. stack[t] # <<>> /\ Top(t) \in Frames /\ Top(t).at = "call" /\ Top(t).run # <<>>
    BY <1>1, <1>5, AtFacts, Zenon DEF CallsPlain, CallsRaising
  <2>2. /\ c \in Frames /\ c.at = "call" /\ c.topic = Top(t).topic /\ c.replyTo = Top(t).replyTo
        /\ c.got = Append(Top(t).got, Head(Top(t).run)) /\ c.broke = Top(t).broke /\ Head(Top(t).run) \in Handlers
    BY <2>1, CalledFacts, Zenon
  <2>3. b \in Frames /\ b.at = "call" /\ b.topic = Top(t).topic /\ b.replyTo = Top(t).replyTo /\ b.broke
    BY <2>2, BrokenFacts, Zenon
  <2>4. (Become(t, c) /\ Does[Head(Top(t).run)].kind # "replies") \/ Become(t, b)
    BY <1>5, Zenon DEF CallsPlain, CallsRaising
  <2> HIDE DEF b, c
  <2>5. CASE Become(t, b)
    <3>1. ~Owing(b)
      BY <2>3, Zenon DEF Owing
    <3> QED
      BY <1>2, <2>1, <2>3, <2>5, <3>1, BecomeFollows, Zenon
  <2>6. CASE Become(t, c) /\ Does[Head(Top(t).run)].kind # "replies"
    <3>1. Top(t).got \in Seq(Handlers)
      BY <2>1 DEF Frames
    <3>2. Owing(c) => Owing(Top(t))
      BY <2>1, <2>2, <2>6, <3>1, RepliedAppend, Zenon DEF Owing
    <3> QED
      BY <1>2, <2>1, <2>2, <2>6, <3>2, BecomeFollows, Zenon
  <2> QED
    BY <2>4, <2>5, <2>6, Zenon
<1> QED
  BY <1>1, <1>3, <1>4, <1>5, Zenon

\* The other steps of send().
LEMMA SendFollows ==
  ASSUME QueueTypes, StackInv, RequestsInv, ReplyingInv, NEW t \in Threads,
         SendTest(t) \/ SendLock(t) \/ Fire(t), store' = store
  PROVE  Follows(t)
<1>1. CASE SendTest(t)
  <2>1. At(t, "send") /\ stack[t] # <<>> /\ (Raise(t) \/ Become(t, Moved(Top(t), "lock")))
    BY <1>1, AtFacts, Zenon DEF SendTest, Moved
  <2>2. /\ "lock" \in Places /\ ("lock" \in Waiting <=> "send" \in Waiting) /\ "lock" # "close"
        /\ "lock" \notin {"notify", "call", "store"}
    BY DEF Places, Sending, Waiting
  <2> QED
    BY <2>1, <2>2, MovedFollows, RaiseFollows, Zenon
<1>2. CASE SendLock(t)
  <2> DEFINE f == Locked(Top(t))
  <2>1. At(t, "lock") /\ Become(t, f)
    BY <1>2, Zenon DEF SendLock, Locked
  <2>2. stack[t] # <<>> /\ Top(t) \in Frames /\ Top(t).at = "lock" /\ FrameShape(Top(t))
    BY <2>1, AtFacts, Zenon
  <2>3. f \in Frames /\ f.at = "notify" /\ f.topic = Top(t).topic /\ f.replyTo = Top(t).replyTo /\ f.got = Top(t).got
    BY <2>2, LockedFacts, Zenon
  <2> HIDE DEF f
  <2>4. f.got = <<>>
    BY <2>2, <2>3, Zenon DEF FrameShape
  <2>5. ~Owing(f)
    <3>1. DOMAIN f.got = {}
      BY <2>4
    <3> QED
      BY <3>1, Zenon DEF Owing, Replied
  <2>6. ("notify" \in Waiting <=> "lock" \in Waiting) /\ "notify" # "close"
    BY DEF Waiting
  <2> QED
    BY <2>1, <2>2, <2>3, <2>5, <2>6, BecomeFollows, Zenon
<1>3. CASE Fire(t)
  <2>1. /\ At(t, "notify")
        /\ \/ Become(t, Moved(Top(t), "store"))
           \/ Top(t).todo # <<>> /\ (Become(t, Firing(Top(t))) \/ Become(t, Skipped(Top(t))))
    BY <1>3, Zenon DEF Fire, Moved, Firing, Skipped
  <2>2. /\ "store" \in Places /\ ("store" \in Waiting <=> "notify" \in Waiting) /\ "store" # "close"
        /\ ("call" \in Waiting <=> "notify" \in Waiting) /\ "call" # "close" /\ "notify" # "close"
        /\ "notify" \in {"notify", "call", "store"}
    BY DEF Places, Sending, Waiting
  <2>3. CASE Become(t, Moved(Top(t), "store"))
    BY <2>1, <2>2, <2>3, MovedFollows, Zenon
  <2>4. ASSUME NEW f, f = Firing(Top(t)) \/ f = Skipped(Top(t)), Become(t, f), Top(t).todo # <<>>
        PROVE  Follows(t)
    <3>1. stack[t] # <<>> /\ Top(t) \in Frames /\ Top(t).at = "notify"
      BY <2>1, AtFacts, Zenon
    <3>2. /\ f \in Frames /\ f.at \in {"notify", "call"} /\ f.topic = Top(t).topic /\ f.replyTo = Top(t).replyTo
          /\ f.got = Top(t).got /\ f.broke = Top(t).broke
      <4>1. CASE f = Firing(Top(t))
        BY <2>4, <3>1, <4>1, FiringFacts, Zenon
      <4>2. CASE f = Skipped(Top(t))
        BY <2>4, <3>1, <4>2, SkippedFacts, Zenon
      <4> QED
        BY <2>4, <4>1, <4>2, Zenon
    <3>3. Owing(f) => Owing(Top(t))
      BY <2>2, <3>1, <3>2, Zenon DEF Owing
    <3>4. (f.at \in Waiting <=> Top(t).at \in Waiting) /\ f.at # "close"
      <4>1. f.at = "notify" \/ f.at = "call"
        BY <3>2, Zenon
      <4>2. Top(t).at = "notify"
        BY <3>1, Zenon
      <4> QED
        BY <2>2, <4>1, <4>2, Zenon
    <3> QED
      BY <2>4, <3>1, <3>2, <3>3, <3>4, BecomeFollows, Zenon
  <2> QED
    BY <2>1, <2>3, <2>4, Zenon
<1> QED
  BY <1>1, <1>2, <1>3, Zenon

\* The steps of subscribe().
LEMMA SubscribeFollows ==
  ASSUME QueueTypes, StackInv, RequestsInv, ReplyingInv, NEW t \in Threads, Subscribe(t), store' = store
  PROVE  Follows(t)
<1>1. \/ At(t, "topic") /\ (Become(t, Moved(Top(t), "attach")) \/ Become(t, Moved(Top(t), "wire")))
      \/ At(t, "wire") /\ (Raise(t) \/ Become(t, Moved(Top(t), "register")))
      \/ At(t, "register") /\ Become(t, Moved(Top(t), "attach"))
      \/ At(t, "attach") /\ Become(t, Moved(Top(t), "record"))
      \/ At(t, "record") /\ Return(t)
  BY Zenon DEF Subscribe, GetOrCreate, TransportSubscribe, TransportRegister, ChannelSubscribe, RecordId, Moved
<1>2. \A p \in {"attach", "wire", "register", "record", "topic"} :
        p \in Places /\ p \in Subscribing /\ p \notin Waiting /\ p # "close" /\ p \notin {"notify", "call", "store"}
  BY DEF Places, Subscribing, Waiting
<1>3. stack[t] # <<>>
  BY <1>1, AtFacts, Zenon
<1>4. ASSUME At(t, "record"), Return(t) PROVE Follows(t)
  <2>1. Top(t).topic \in Names
    BY <1>2, <1>4, SubscribingFrame, Zenon
  <2>2. \A r \in Replies : Top(t).topic # r
    BY <2>1, QueueAssumption, Zenon
  <2> QED
    BY <1>3, <1>4, <2>2, ReturnFollows, Zenon
<1>5. ASSUME Raise(t) PROVE Follows(t)
  BY <1>3, <1>5, RaiseFollows, Zenon
<1>6. ASSUME NEW q \in {"attach", "wire", "register", "record", "topic"}, At(t, q),
             NEW p \in {"attach", "wire", "register", "record", "topic"}, Become(t, Moved(Top(t), p))
      PROVE  Follows(t)
  BY <1>2, <1>6, MovedFollows, Zenon
<1> QED
  BY <1>1, <1>4, <1>5, <1>6, Zenon

\* receive() ends, with a message or without.
LEMMA AnsweredReplying ==
  ASSUME QueueTypes, StackInv, Notifying, Replying, NEW t \in Threads, NEW q \in Waiting, At(t, q),
         NEW result, Answered(t, result), sent' = sent, closed' = closed,
         \A n \in AllNames : n # Top(t).replyTo => store'[n] = store[n],
         result = "none" => closed \/ store[Top(t).replyTo] = <<>>
  PROVE  Replying'
<1> DEFINE r == Top(t).replyTo
<1>0. RequestsInv /\ ReplyingInv /\ RepliesInv /\ RequestsAnswered
  BY Zenon DEF Replying
<1>1. stack[t] # <<>> /\ Top(t).at = q /\ Return(t)
  BY AtFacts, Zenon DEF Answered
<1>2. Len(stack[t]) = 1
  BY <1>0, <1>1, Zenon DEF RequestsInv, Single
<1>3. stack'[t] = <<>> /\ \A u \in Threads \ {t} : stack'[u] = stack[u]
  <2>1. /\ stack' \in [Threads -> Seq(Frames)] /\ Len(stack'[t]) = Len(stack[t]) - 1
        /\ \A u \in Threads \ {t} : stack'[u] = stack[u]
    BY <1>1, ReturnMoves, Zenon DEF QueueTypes, Moves
  <2>2. stack'[t] \in Seq(Frames) /\ Len(stack'[t]) = 0
    BY <1>2, <2>1
  <2>3. stack'[t] = <<>>
    BY <2>2
  <2> QED
    BY <2>1, <2>3, Zenon
<1>4. Replies \subseteq AllNames
  BY Zenon DEF AllNames
<1>5. CASE r \notin Replies
  <2>1. Follows(t)
    BY <1>3, Zenon DEF Follows
  <2>2. answers' = answers /\ \A p \in Replies : store'[p] = store[p]
    BY <1>4, <1>5, Zenon DEF Answered
  <2> QED
    BY <1>3, <2>1, <2>2, AskingStep, Zenon
<1>6. CASE r \in Replies
  <2> DEFINE a == [replyTo |-> r, result |-> result]
  <2>1. answers' = answers \cup {a} /\ a.replyTo = r /\ a.result = result
    BY <1>6, Zenon DEF Answered
  <2>2. Asking(t, r) /\ Bottom(t) = Top(t)
    BY <1>0, <1>1, <1>6, RequestAlone, Zenon
  <2> HIDE DEF a, r
  <2>3. \E s \in sent : s.replyTo = r
    <3>1. Bottom(t).at \in Waiting <=> \E s \in sent : s.replyTo = r
      BY <1>0, <1>6, <2>2, Zenon DEF RequestsInv
    <3> QED
      BY <1>1, <2>2, <3>1, Zenon
  <2>4. ASSUME result = "none", ~closed, NEW s \in sent, s.replyTo = r PROVE ~Unanswered(s)
    BY <1>0, <1>6, <2>2, <2>4, Zenon DEF RepliesInv, r
  <2>5. RequestsAnswered'
    <3>1. \A s \in sent : /\ s.replyTo = a.replyTo /\ a.result = "none" /\ ~closed
                          /\ \E e \in s.owed : Does[e.fn].kind = "replies"
                          => s.broke
      BY <2>1, <2>4, Zenon DEF Unanswered
    <3>2. \A b \in answers : \A s \in sent : /\ s.replyTo = b.replyTo /\ b.result = "none" /\ ~closed
                                             /\ \E e \in s.owed : Does[e.fn].kind = "replies"
                                             => s.broke
      BY <1>0, Zenon DEF RequestsAnswered
    <3> QED
      BY <2>1, <3>1, <3>2, Zenon DEF RequestsAnswered
  <2>6. \A b \in answers' : b \in answers \/ (b.replyTo = r /\ \E s \in sent' : s.replyTo = r)
    BY <2>1, <2>3, Zenon
  <2>7. \A p \in Replies : p # r => store'[p] = store[p]
    BY <1>4, Zenon DEF r
  <2> QED
    BY <1>3, <1>6, <2>2, <2>5, <2>6, <2>7, RequestEnds, Zenon
<1> QED
  BY <1>5, <1>6, Zenon

\* receive() and the wait of request().
LEMMA QueueReceiveReplying ==
  ASSUME QueueTypes, StackInv, Notifying, Replying, NEW t \in Threads, QueueReceive(t)
  PROVE  Replying'
<1>0. RequestsInv /\ ReplyingInv
  BY Zenon DEF Replying
<1>1. CASE ReceiveTest(t)
  <2>1. At(t, "receive") /\ UNCHANGED <<store, closed, sent>> /\ "receive" \in Waiting
    BY <1>1, Zenon DEF ReceiveTest, transport, Waiting
  <2>2. CASE closed
    <3>1. Answered(t, "none")
      BY <1>1, <2>2, Zenon DEF ReceiveTest
    <3> QED
      BY <2>1, <2>2, <3>1, AnsweredReplying, Zenon
  <2>3. CASE ~closed
    <3>1. Become(t, Moved(Top(t), "get")) /\ answers' = answers
      BY <1>1, <2>3, Zenon DEF ReceiveTest, Moved
    <3>2. "get" \in Places /\ "get" \in Waiting /\ "get" # "close" /\ "get" \notin {"notify", "call", "store"}
      BY DEF Places, Waiting
    <3>3. Follows(t)
      BY <1>0, <2>1, <3>1, <3>2, MovedFollows, Zenon
    <3>4. \A u \in Threads \ {t} : stack'[u] = stack[u]
      BY QueueReceiveGood, Zenon DEF Good, Moves
    <3> QED
      BY <2>1, <3>1, <3>3, <3>4, AskingStep, Zenon
  <2> QED
    BY <2>2, <2>3, Zenon
<1>2. CASE Get(t)
  <2>1. At(t, "get") /\ UNCHANGED <<closed, sent>> /\ "get" \in Waiting
    BY <1>2, Zenon DEF Get, Waiting
  <2>2. store \in [AllNames -> Seq(Nat)]
    BY Zenon DEF QueueTypes
  <2>3. CASE store' = [store EXCEPT ![Top(t).replyTo] = Tail(@)] /\ Answered(t, "message")
    <3>1. \A n \in AllNames : n # Top(t).replyTo => store'[n] = store[n]
      BY <2>2, <2>3, Zenon
    <3>2. "message" # "none"
      OBVIOUS
    <3> QED
      BY <2>1, <2>3, <3>1, <3>2, AnsweredReplying, Zenon
  <2>4. CASE store[Top(t).replyTo] = <<>> /\ Answered(t, "none") /\ store' = store
    BY <2>1, <2>4, AnsweredReplying, Zenon
  <2> QED
    BY <1>2, <2>3, <2>4, Zenon DEF Get
<1> QED
  BY <1>1, <1>2, Zenon DEF QueueReceive

\* A call that is no request starts.
LEMMA StartsFollows ==
  ASSUME QueueTypes, NEW t \in Threads, NEW f \in Frames, Starts(t, f), f.replyTo \notin Replies
  PROVE  Follows(t)
<1>1. Len(stack'[t]) = 1 /\ stack'[t][1] = f
  BY StartsMoves, Zenon DEF QueueTypes
<1>2. 1..Len(stack'[t]) - 1 = {}
  BY <1>1
<1>3. Inner(t)' = {} /\ \A r \in Replies : ~Asking(t, r)'
  BY <1>1, <1>2, Zenon DEF Inner, Asking, Bottom
<1> QED
  BY <1>1, <1>3, Zenon DEF Follows

\* A thread begins a call.
LEMMA BeginReplying ==
  ASSUME QueueTypes, Replying, NEW t \in Threads, Begin(t)
  PROVE  Replying'
<1>1. PICK f : /\ NewFrame(f) /\ Starts(t, f)
               /\ \/ f.replyTo \in Names
                  \/ /\ f.at = "send" /\ f.replyTo \in Replies
                     /\ \A u \in Threads : ~Asking(u, f.replyTo)
                     /\ \A s \in sent : s.replyTo # f.replyTo
  BY BeginFacts, Zenon
<1>2. UNCHANGED <<sent, answers, store, closed>>
  BY Zenon DEF Begin, transport, history
<1>3. f \in Frames
  BY <1>1, Zenon DEF NewFrame
<1>4. CASE f.replyTo \in Replies
  <2>1. f.replyTo \notin Names
    BY <1>4, QueueAssumption, Zenon
  <2> QED
    BY <1>1, <1>2, <1>3, <1>4, <2>1, RequestStarts, Zenon
<1>5. CASE f.replyTo \notin Replies
  <2>1. Follows(t)
    BY <1>1, <1>3, <1>5, StartsFollows, Zenon
  <2>2. \A u \in Threads \ {t} : stack'[u] = stack[u]
    BY <1>1, <1>3, StartsMoves, Zenon DEF QueueTypes, Moves
  <2> QED
    BY <1>2, <2>1, <2>2, AskingStep, Zenon
<1> QED
  BY <1>4, <1>5, Zenon

\* Nobody has asked initially.
LEMMA ReplyingInitially ==
  ASSUME QueueInit
  PROVE  Replying
<1>1. stack = [t \in Threads |-> <<>>] /\ sent = {} /\ answers = {}
  BY Zenon DEF QueueInit
<1>2. \A t \in Threads : stack[t] = <<>>
  BY <1>1, Zenon
<1>3. \A t \in Threads : Inner(t) = {} /\ \A r : ~Asking(t, r)
  BY <1>2, IdleFacts, Zenon
<1>4. RequestsInv
  BY <1>1, <1>2, <1>3, Zenon DEF RequestsInv
<1> QED
  BY <1>1, <1>3, <1>4, Zenon DEF Replying, ReplyingInv, RepliesInv, RequestsAnswered

-----------------------------------------------------------------------------
(* Finite sets. *)

\* What is used of finite sets.  The library's theorems give it (FiniteLawsHold
\* of QueueProofs); the lemmas in between assume it by name.
FiniteLaws ==
  /\ \A S : IsFiniteSet(S) => Cardinality(S) \in Nat /\ (Cardinality(S) = 0 <=> S = {})
  /\ IsFiniteSet({})
  /\ \A n \in Nat : IsFiniteSet(1..n)
  /\ \A S : IsFiniteSet(S) => \A T \in SUBSET S : IsFiniteSet(T) /\ Cardinality(T) <= Cardinality(S)
  /\ \A S, x : IsFiniteSet(S) =>
       /\ IsFiniteSet(S \cup {x})
       /\ Cardinality(S \cup {x}) = IF x \in S THEN Cardinality(S) ELSE Cardinality(S) + 1
  /\ \A S, x : IsFiniteSet(S) =>
       /\ IsFiniteSet(S \ {x})
       /\ Cardinality(S \ {x}) = IF x \in S THEN Cardinality(S) - 1 ELSE Cardinality(S)
  /\ \A S, T : IsFiniteSet(S) /\ IsFiniteSet(T) =>
       /\ IsFiniteSet(S \cup T)
       /\ Cardinality(S \cup T) = Cardinality(S) + Cardinality(T) - Cardinality(S \cap T)
  /\ \A S, T : \A f \in [S -> T] :
       IsFiniteSet(T) /\ (\A i, j \in S : f[i] = f[j] => i = j) => Cardinality(S) <= Cardinality(T)
  /\ \A K \in SUBSET Nat : K # {} => \E i \in K : \A j \in K : i <= j

\* The size of a finite set is a number.
LEMMA FiniteSize == ASSUME FiniteLaws, NEW S, IsFiniteSet(S) PROVE Cardinality(S) \in Nat
  BY Zenon DEF FiniteLaws

\* The set of size 0.
LEMMA FiniteEmpty ==
  ASSUME FiniteLaws
  PROVE  /\ IsFiniteSet({}) /\ Cardinality({}) = 0
         /\ \A S : IsFiniteSet(S) => (Cardinality(S) = 0 <=> S = {})
  BY Zenon DEF FiniteLaws

\* The indexes of a sequence are finitely many.
LEMMA FiniteInterval == ASSUME FiniteLaws, NEW n \in Nat PROVE IsFiniteSet(1..n)
  BY Zenon DEF FiniteLaws

\* Part of a finite set,
LEMMA FiniteSubset ==
  ASSUME FiniteLaws, NEW S, IsFiniteSet(S), NEW T \in SUBSET S
  PROVE  IsFiniteSet(T) /\ Cardinality(T) <= Cardinality(S)
  BY Zenon DEF FiniteLaws

\* and the part that is in another set.
LEMMA FiniteMeet ==
  ASSUME FiniteLaws, NEW S, IsFiniteSet(S), NEW T
  PROVE  /\ IsFiniteSet(S \cap T) /\ IsFiniteSet(T \cap S)
         /\ Cardinality(S \cap T) <= Cardinality(S) /\ Cardinality(T \cap S) <= Cardinality(S)
<1>1. S \cap T \in SUBSET S /\ T \cap S \in SUBSET S
  BY Zenon
<1> QED
  BY <1>1, FiniteSubset, Zenon

\* One element more,
LEMMA FiniteAdd ==
  ASSUME FiniteLaws, NEW S, NEW x, IsFiniteSet(S)
  PROVE  /\ IsFiniteSet(S \cup {x})
         /\ Cardinality(S \cup {x}) = IF x \in S THEN Cardinality(S) ELSE Cardinality(S) + 1
  BY Zenon DEF FiniteLaws

\* and one less.
LEMMA FiniteRemove ==
  ASSUME FiniteLaws, NEW S, NEW x, IsFiniteSet(S)
  PROVE  /\ IsFiniteSet(S \ {x})
         /\ Cardinality(S \ {x}) = IF x \in S THEN Cardinality(S) - 1 ELSE Cardinality(S)
  BY Zenon DEF FiniteLaws

\* Two finite sets.
LEMMA FiniteUnion ==
  ASSUME FiniteLaws, NEW S, IsFiniteSet(S), NEW T, IsFiniteSet(T)
  PROVE  /\ IsFiniteSet(S \cup T)
         /\ Cardinality(S \cup T) = Cardinality(S) + Cardinality(T) - Cardinality(S \cap T)
<1>1. \A A, B : IsFiniteSet(A) /\ IsFiniteSet(B) =>
        /\ IsFiniteSet(A \cup B)
        /\ Cardinality(A \cup B) = Cardinality(A) + Cardinality(B) - Cardinality(A \cap B)
  BY Zenon DEF FiniteLaws
<1> QED
  BY <1>1, Zenon

\* A set that is mapped one-to-one into another is not larger.
LEMMA FiniteOneToOne ==
  ASSUME FiniteLaws, NEW S, NEW T, NEW f \in [S -> T], IsFiniteSet(T),
         \A i, j \in S : f[i] = f[j] => i = j
  PROVE  Cardinality(S) <= Cardinality(T)
<1>1. \A A, B : \A g \in [A -> B] :
        IsFiniteSet(B) /\ (\A i, j \in A : g[i] = g[j] => i = j) => Cardinality(A) <= Cardinality(B)
  BY Zenon DEF FiniteLaws
<1> QED
  BY <1>1, Zenon

-----------------------------------------------------------------------------
(* Topics, counted. *)

\* How often something is in a list.
LEMMA CountFacts ==
  ASSUME FiniteLaws, NEW A, NEW s \in Seq(A), NEW x
  PROVE  IsFiniteSet({i \in DOMAIN s : s[i] = x}) /\ Count(s, x) \in Nat
<1>1. IsFiniteSet(1..Len(s)) /\ DOMAIN s = 1..Len(s)
  BY FiniteInterval
<1>2. IsFiniteSet({i \in DOMAIN s : s[i] = x})
  <2>1. {i \in DOMAIN s : s[i] = x} \subseteq 1..Len(s)
    BY <1>1
  <2> QED
    BY <1>1, <2>1, FiniteSubset, Zenon
<1> QED
  BY <1>2, FiniteSize, Zenon DEF Count

\* Nothing is counted in the empty sequence.
LEMMA CountNone ==
  ASSUME FiniteLaws, NEW x
  PROVE  Count(<<>>, x) = 0
<1>1. {i \in DOMAIN <<>> : <<>>[i] = x} = {}
  OBVIOUS
<1> QED
  BY <1>1, FiniteEmpty, Zenon DEF Count

\* What Append adds to a count.
LEMMA CountAppend ==
  ASSUME FiniteLaws, NEW A, NEW s \in Seq(A), NEW a \in A, NEW x
  PROVE  Count(Append(s, a), x) = Count(s, x) + (IF a = x THEN 1 ELSE 0)
<1> DEFINE r == Append(s, a)
           S == {i \in DOMAIN s : s[i] = x}
           R == {i \in DOMAIN r : r[i] = x}
           n == Len(s) + 1
<1>1. /\ r \in Seq(A) /\ DOMAIN s = 1..Len(s) /\ DOMAIN r = 1..n /\ Len(s) \in Nat
      /\ r[n] = a /\ \A i \in 1..Len(s) : r[i] = s[i]
  OBVIOUS
<1>2. IsFiniteSet(S) /\ Cardinality(S) \in Nat
  BY CountFacts, Zenon DEF Count
<1>3. Count(r, x) = Cardinality(R) /\ Count(s, x) = Cardinality(S)
  BY Zenon DEF Count
<1> HIDE DEF r
<1>4. n \notin DOMAIN s /\ (\A i \in DOMAIN r : i = n \/ i \in DOMAIN s) /\ n \in DOMAIN r
      /\ \A i \in DOMAIN s : i \in DOMAIN r
  BY <1>1
<1> HIDE DEF n
<1>5. n \notin S
  BY <1>4, Zenon
<1>6. CASE a = x
  <2>1. R = S \cup {n}
    BY <1>1, <1>4, <1>6, Zenon
  <2>2. Cardinality(S \cup {n}) = Cardinality(S) + 1
    BY <1>2, <1>5, FiniteAdd, Zenon
  <2>3. Count(r, x) = Count(s, x) + 1
    BY <1>3, <2>1, <2>2, Zenon
  <2> QED
    BY <1>6, <2>3, Zenon DEF r
<1>7. CASE a # x
  <2>1. R = S
    BY <1>1, <1>4, <1>7, Zenon
  <2>2. Count(r, x) = Count(s, x)
    BY <1>3, <2>1, Zenon
  <2>3. \A k \in Nat : k = k + 0
    OBVIOUS
  <2>4. Count(s, x) \in Nat
    BY <1>2, <1>3, Zenon
  <2> QED
    BY <1>7, <2>2, <2>3, <2>4, Zenon DEF r
<1> QED
  BY <1>6, <1>7

\* A topic that is wired is in the list, and the other way round.
LEMMA CountPositive ==
  ASSUME FiniteLaws, NEW A, NEW s \in Seq(A), NEW x
  PROVE  Count(s, x) > 0 <=> \E i \in DOMAIN s : s[i] = x
<1> DEFINE S == {i \in DOMAIN s : s[i] = x}
<1>1. IsFiniteSet(S) /\ Cardinality(S) \in Nat
  BY CountFacts, Zenon DEF Count
<1>2. Cardinality(S) = 0 <=> S = {}
  BY <1>1, FiniteEmpty, Zenon
<1>3. Cardinality(S) > 0 <=> S # {}
  BY <1>1, <1>2
<1> QED
  BY <1>3, Zenon DEF Count

\* The tables stay tables.
LEMMA QueueTypesStep ==
  ASSUME FiniteLaws, QueueTypes, StackInv, NEW t \in Threads, stack' \in [Threads -> Seq(Frames)],
         Begin(t) \/ Unsubscribe(t) \/ CloseFlag(t) \/ Step(t)
  PROVE  QueueTypes'
<1>0. /\ calls \in Programs /\ topics \subseteq Names /\ channels \in [Names -> Seq(Handlers)]
      /\ subIds \subseteq Entries /\ IsFiniteSet(subIds)
      /\ wired \in Seq(Names) /\ store \in [AllNames -> Seq(Nat)]
      /\ qlock \in Threads \cup {NoThread} /\ serial \in Nat
  BY Zenon DEF QueueTypes
<1>1. ASSUME UNCHANGED <<calls, topics, channels, subIds, wired, store, qlock>>, serial' = serial \/ serial' = serial + 1
      PROVE  QueueTypes'
  <2>1. serial' \in Nat
    BY <1>0, <1>1
  <2> QED
    BY <1>0, <1>1, <2>1, Zenon DEF QueueTypes
<1>2. CASE Begin(t) \/ CloseFlag(t) \/ SendTest(t) \/ SendLock(t) \/ Fire(t) \/ ReceiveTest(t)
  BY <1>1, <1>2, Zenon DEF Begin, CloseFlag, SendTest, SendLock, Fire, ReceiveTest, tables, transport, history
<1>3. CASE CallHandler(t)
  BY <1>1, <1>3, Zenon DEF CallHandler, tables, transport
<1>4. CASE Unsubscribe(t)
  <2>1. PICK e \in subIds : subIds' = subIds \ {e} /\ channels' = [channels EXCEPT ![e.topic] = Without(@, e.fn)]
    BY <1>4, Zenon DEF Unsubscribe
  <2>2. UNCHANGED <<calls, topics, wired, store, qlock, serial>>
    BY <1>4, Zenon DEF Unsubscribe, transport
  <2>3. IsFiniteSet(subIds \ {e})
    BY <1>0, FiniteRemove, Zenon
  <2>4. \A s \in Seq(Handlers), x \in Handlers : Without(s, x) \in Seq(Handlers)
    BY WithoutType
  <2>5. e.topic \in Names /\ e.fn \in Handlers
    BY <1>0, <2>1, Zenon DEF Entries
  <2>6. channels' \in [Names -> Seq(Handlers)]
    BY <1>0, <2>1, <2>4, <2>5
  <2> QED
    BY <1>0, <2>1, <2>2, <2>3, <2>6, Zenon DEF QueueTypes
<1>5. CASE GetOrCreate(t)
  <2>1. Top(t).topic \in Names
    <3>1. "topic" \in Subscribing
      BY DEF Subscribing
    <3> QED
      BY <1>5, <3>1, SubscribingFrame, Zenon DEF GetOrCreate
  <2>2. topics' \subseteq Names /\ qlock' \in Threads \cup {NoThread}
    BY <1>0, <1>5, <2>1, Zenon DEF GetOrCreate
  <2>3. UNCHANGED <<calls, channels, subIds, wired, store, serial>>
    BY <1>5, Zenon DEF GetOrCreate, transport
  <2> QED
    BY <1>0, <2>2, <2>3, Zenon DEF QueueTypes
<1>6. CASE TransportSubscribe(t)
  <2>1. qlock' \in Threads \cup {NoThread}
    BY <1>0, <1>6, Zenon DEF TransportSubscribe
  <2>2. UNCHANGED <<calls, topics, channels, subIds, wired, store, serial>>
    BY <1>6, Zenon DEF TransportSubscribe, transport, tables
  <2> QED
    BY <1>0, <2>1, <2>2, Zenon DEF QueueTypes
<1>7. CASE TransportRegister(t)
  <2>1. Top(t).topic \in Names
    <3>1. "register" \in Subscribing
      BY DEF Subscribing
    <3> QED
      BY <1>7, <3>1, SubscribingFrame, Zenon DEF TransportRegister
  <2>2. wired' \in Seq(Names)
    BY <1>0, <1>7, <2>1 DEF TransportRegister
  <2>3. qlock' \in Threads \cup {NoThread} /\ UNCHANGED <<calls, topics, channels, subIds, store, serial>>
    BY <1>7, Zenon DEF TransportRegister, tables
  <2> QED
    BY <1>0, <2>2, <2>3, Zenon DEF QueueTypes
<1>8. CASE ChannelSubscribe(t)
  <2>1. Top(t).topic \in Names /\ Top(t).fn \in Handlers
    <3>1. "attach" \in Subscribing
      BY DEF Subscribing
    <3> QED
      BY <1>8, <3>1, SubscribingFrame, Zenon DEF ChannelSubscribe
  <2>2. channels' = [channels EXCEPT ![Top(t).topic] = Append(@, Top(t).fn)]
    BY <1>8, Zenon DEF ChannelSubscribe
  <2>3. channels' \in [Names -> Seq(Handlers)]
    BY <1>0, <2>1, <2>2
  <2>4. UNCHANGED <<calls, topics, subIds, wired, store, qlock, serial>>
    BY <1>8, Zenon DEF ChannelSubscribe, transport
  <2> QED
    BY <1>0, <2>3, <2>4, Zenon DEF QueueTypes
<1>9. CASE RecordId(t)
  <2> DEFINE e == [id |-> Top(t).id, topic |-> Top(t).topic, fn |-> Top(t).fn]
  <2>1. Top(t).topic \in Names /\ Top(t).fn \in Handlers /\ Top(t) \in Frames
    <3>1. "record" \in Subscribing
      BY DEF Subscribing
    <3> QED
      BY <1>9, <3>1, SubscribingFrame, Zenon DEF RecordId
  <2>2. e \in Entries
    BY <2>1, Zenon DEF Entries, Frames
  <2>3. subIds' = subIds \cup {e} /\ UNCHANGED <<calls, topics, channels, wired, store, qlock, serial>>
    BY <1>9, Zenon DEF RecordId, transport
  <2> HIDE DEF e
  <2>4. IsFiniteSet(subIds \cup {e})
    BY <1>0, FiniteAdd, Zenon
  <2>5. subIds' \subseteq Entries
    BY <1>0, <2>2, <2>3, Zenon
  <2> QED
    BY <1>0, <2>3, <2>4, <2>5, Zenon DEF QueueTypes
<1>10. CASE Put(t)
  <2>1. At(t, "store") /\ Top(t) \in Frames /\ Top(t).topic \in AllNames
    <3>1. "store" \in Sending \cup {"receive", "get"}
      BY DEF Sending
    <3> QED
      BY <1>10, <3>1, SendingFrame, Zenon DEF Put
  <2>2. store' = store \/ store' = [store EXCEPT ![Top(t).topic] = Append(@, Top(t).id)]
    BY <1>10, Zenon DEF Put
  <2>3. Top(t).id \in Nat
    BY <2>1, Zenon DEF Frames
  <2>4. store' \in [AllNames -> Seq(Nat)]
    <3>1. Append(store[Top(t).topic], Top(t).id) \in Seq(Nat)
      <4>1. store[Top(t).topic] \in Seq(Nat)
        BY <1>0, <2>1, Zenon
      <4> QED
        BY ONLY <4>1, <2>3
    <3> QED
      BY <1>0, <2>1, <2>2, <3>1, Zenon
  <2>5. UNCHANGED <<calls, topics, channels, subIds, wired, qlock, serial>>
    BY <1>10, Zenon DEF Put, tables
  <2> QED
    BY <1>0, <2>4, <2>5, Zenon DEF QueueTypes
<1>11. CASE Get(t)
  <2>1. At(t, "get") /\ Top(t).replyTo \in AllNames
    <3>1. "get" \in Sending \cup {"receive", "get"}
      OBVIOUS
    <3> QED
      BY <1>11, <3>1, SendingFrame, Zenon DEF Get
  <2>2. store' = store \/ (store[Top(t).replyTo] # <<>> /\ store' = [store EXCEPT ![Top(t).replyTo] = Tail(@)])
    BY <1>11, Zenon DEF Get
  <2>3. store' \in [AllNames -> Seq(Nat)]
    <3>1. store[Top(t).replyTo] \in Seq(Nat)
      BY <1>0, <2>1, Zenon
    <3>2. store[Top(t).replyTo] # <<>> => Tail(store[Top(t).replyTo]) \in Seq(Nat)
      BY ONLY <3>1
    <3> QED
      BY <1>0, <2>1, <2>2, <3>2, Zenon
  <2>4. UNCHANGED <<calls, topics, channels, subIds, wired, qlock, serial>>
    BY <1>11, Zenon DEF Get, tables
  <2> QED
    BY <1>0, <2>3, <2>4, Zenon DEF QueueTypes
<1>12. CASE CloseClear(t)
  <2>1. wired' \in Seq(Names)
    BY <1>12 DEF CloseClear
  <2>2. UNCHANGED <<calls, topics, channels, subIds, store, qlock, serial>>
    BY <1>12, Zenon DEF CloseClear, tables
  <2> QED
    BY <1>0, <2>1, <2>2, Zenon DEF QueueTypes
<1> QED
  BY <1>2, <1>3, <1>4, <1>5, <1>6, <1>7, <1>8, <1>9, <1>10, <1>11, <1>12, Zenon
     DEF Step, Subscribe, TransportSend, QueueReceive

\* The topic of the lock's owner is wired for the first time.
LEMMA TransportRegisterTopics ==
  ASSUME FiniteLaws, QueueTypes, TopicsInv, NEW t \in Threads, TransportRegister(t)
  PROVE  TopicsInv' /\ stack' \in [Threads -> Seq(Frames)]
<1> DEFINE n == Top(t).topic
           g == Moved(Top(t), "attach")
<1>0. /\ At(t, "register") /\ StackInv /\ LockInv /\ WiredInv /\ UNCHANGED <<topics, closed>>
      /\ wired' = Append(wired, n) /\ qlock' = NoThread /\ Become(t, g)
  BY Zenon DEF TransportRegister, TopicsInv, tables, Moved
<1>1. stack[t] # <<>> /\ Top(t).at = "register" /\ Top(t) \in Frames
  BY <1>0, AtFacts, Zenon
<1>2. /\ "register" \in Subscribing /\ "attach" \in Subscribing /\ "attach" \in Places
      /\ "attach" \notin {"wire", "register"} /\ "register" \in {"wire", "register"} /\ "attach" # "close"
  BY DEF Subscribing, Places
<1>3. \A u \in Threads : Wiring(u) <=> u = t
  BY <1>0, <1>1, <1>2, Zenon DEF LockInv, Wiring
<1>4. FrameShape(g) /\ g \in Frames /\ g.at = "attach"
  BY <1>0, <1>1, <1>2, MovedShape, MovedFacts, Zenon
<1>5. Moves(t, {g}) /\ stack'[t] # <<>> /\ Top(t)' = g
  BY <1>0, <1>1, <1>2, MovedMoves, Zenon
<1>6. n \in Names /\ n \in topics /\ Count(wired, n) = 0
  BY <1>0, <1>2, <1>3, SubscribingFrame, Zenon DEF WiredInv
<1> HIDE DEF g, n
<1>7. StackInv'
  BY <1>0, <1>2, <1>4, <1>5, MovesStack, Zenon
<1>8. \A u \in Threads : ~Wiring(u)'
  <2>1. ~Wiring(t)'
    BY <1>2, <1>4, <1>5, Zenon DEF Wiring
  <2>2. \A u \in Threads \ {t} : Wiring(u)' <=> Wiring(u)
    BY <1>5, Zenon DEF Wiring, Moves, Top
  <2> QED
    BY <1>3, <2>1, <2>2, Zenon
<1>9. LockInv'
  BY <1>0, <1>8, QueueAssumption, Zenon DEF LockInv
<1>10. \A m \in Names : Count(wired', m) = Count(wired, m) + (IF n = m THEN 1 ELSE 0) /\ Count(wired, m) \in Nat
  <2>1. wired \in Seq(Names)
    BY Zenon DEF QueueTypes
  <2>2. \A m : Count(wired, m) \in Nat
    BY <2>1, CountFacts, Zenon
  <2>3. ASSUME NEW m \in Names
        PROVE  Count(Append(wired, n), m) = Count(wired, m) + (IF n = m THEN 1 ELSE 0)
    BY ONLY <1>6, <2>1, FiniteLaws, CountAppend
  <2> QED
    BY ONLY <1>0, <2>2, <2>3
<1>11. WiredInv'
  <2>1. ASSUME NEW m \in Names
        PROVE  /\ Count(wired', m) <= 1
               /\ m \notin topics => Count(wired', m) = 0
               /\ ~(m \in topics /\ ~closed /\ Count(wired', m) = 0)
    <3>1. CASE m = n
      <4>1. Count(wired', m) = 1
        BY <1>6, <1>10, <3>1
      <4> QED
        BY <1>6, <3>1, <4>1
    <3>2. CASE m # n
      <4>1. Count(wired', m) = Count(wired, m)
        BY <1>10, <3>2
      <4>2. m \in topics /\ ~closed /\ Count(wired, m) = 0 => m = n
        BY <1>0, <1>3, Zenon DEF WiredInv, n
      <4> QED
        BY <1>0, <3>2, <4>1, <4>2, Zenon DEF WiredInv
    <3> QED
      BY <3>1, <3>2
  <2> QED
    BY <1>0, <1>8, <2>1, Zenon DEF WiredInv
<1> QED
  BY <1>5, <1>7, <1>9, <1>11, Zenon DEF TopicsInv, Moves

\* close() clears the transport's subscriptions.
LEMMA CloseClearTopics ==
  ASSUME FiniteLaws, QueueTypes, TopicsInv, NEW t \in Threads, CloseClear(t)
  PROVE  TopicsInv' /\ stack' \in [Threads -> Seq(Frames)]
<1>1. /\ At(t, "close") /\ Return(t) /\ wired' = <<>> /\ UNCHANGED <<topics, qlock, closed>>
      /\ StackInv /\ LockInv /\ stack \in [Threads -> Seq(Frames)]
  BY Zenon DEF CloseClear, tables, TopicsInv, QueueTypes
<1>2. stack[t] # <<>> /\ Top(t).at = "close" /\ closed
  BY <1>1, AtFacts, Zenon DEF StackInv
<1>3. Moves(t, {})
  BY <1>1, <1>2, ReturnMoves, Zenon
<1>4. StackInv'
  <2> DEFINE N == {}
  <2>1. Moves(t, N) /\ \A f : f \notin N
    BY <1>3
  <2> HIDE DEF N
  <2> QED
    BY <1>1, <2>1, MovesStack, Zenon
<1>5. \A u \in Threads : Wiring(u)' => Wiring(u) /\ Top(u)' = Top(u)
  <2>1. \A u \in Threads \ {t} : stack'[u] = stack[u] /\ Top(u)' = Top(u)
    BY <1>3, Zenon DEF Moves, Top
  <2>2. stack'[t] # <<>> => Top(t)'.at = "call"
    BY <1>1, <1>3, Zenon DEF Moves, StackInv
  <2>3. "call" \notin {"wire", "register"}
    OBVIOUS
  <2> QED
    BY <2>1, <2>2, <2>3, Zenon DEF Wiring
<1>6. \A u \in Threads : Wiring(u) => Wiring(u)'
  <2>1. "close" \notin {"wire", "register"}
    OBVIOUS
  <2>2. ~Wiring(t)
    BY <1>2, <2>1, Zenon DEF Wiring
  <2> QED
    BY <1>3, <2>2, Zenon DEF Wiring, Moves, Top
<1>7. LockInv'
  BY <1>1, <1>5, <1>6, Zenon DEF LockInv
<1>8. WiredInv'
  <2>1. \A m : Count(wired', m) = 0
    BY <1>1, CountNone, Zenon
  <2>2. 0 <= 1
    OBVIOUS
  <2> QED
    BY <1>1, <1>2, <1>5, <2>1, <2>2, Zenon DEF WiredInv, TopicsInv
<1> QED
  BY <1>3, <1>4, <1>7, <1>8, Zenon DEF TopicsInv, Moves

\* Every step keeps the types and TopicsInv.
LEMMA TopicsStep ==
  ASSUME FiniteLaws, QueueTypes, TopicsInv, [QueueNext]_queueVars
  PROVE  QueueTypes' /\ TopicsInv'
<1>1. CASE QueueNext
  <2>1. PICK t \in Threads : Begin(t) \/ Unsubscribe(t) \/ CloseFlag(t) \/ Step(t)
    BY <1>1, Zenon DEF QueueNext
  <2>2. TopicsInv' /\ stack' \in [Threads -> Seq(Frames)]
    BY <2>1, QuietTopics, GetOrCreateTopics, TransportSubscribeTopics, TransportRegisterTopics, CloseFlagTopics,
       CloseClearTopics, UnsubscribeTopics, Zenon DEF Step, Subscribe
  <2> QED
    BY <2>1, <2>2, QueueTypesStep, Zenon DEF TopicsInv
<1>2. CASE UNCHANGED queueVars
  <2>1. UNCHANGED <<calls, topics, channels, subIds, wired, store, closed, qlock, stack, serial>>
    BY <1>2, Zenon DEF queueVars, tables, transport
  <2>2. QueueTypes'
    BY <2>1, Zenon DEF QueueTypes
  <2>3. TopicsInv'
    BY <2>1, TopicsUnchanged, Zenon
  <2> QED
    BY <2>2, <2>3
<1> QED
  BY <1>1, <1>2

\* Nothing is wired initially.
LEMMA TopicsInitially ==
  ASSUME FiniteLaws, QueueInit
  PROVE  QueueTypes /\ TopicsInv
<1>1. QueueTypes
  <2>1. IsFiniteSet({})
    BY FiniteEmpty, Zenon
  <2>2. <<>> \in Seq(Frames) /\ <<>> \in Seq(Names) /\ <<>> \in Seq(Handlers) /\ <<>> \in Seq(Nat) /\ 0 \in Nat
    OBVIOUS
  <2> QED
    BY <2>1, <2>2, Zenon DEF QueueInit, QueueTypes
<1>2. \A t \in Threads : stack[t] = <<>> /\ FramesOf(t) = {} /\ Outer(t) = {} /\ ~Wiring(t)
  BY DEF QueueInit, FramesOf, Outer, Wiring
<1>3. StackInv
  BY <1>2, Zenon DEF StackInv
<1>4. LockInv
  BY <1>2, QueueAssumption, Zenon DEF LockInv, QueueInit
<1>5. WiredInv
  <2>1. \A m : Count(wired, m) = 0
    BY CountNone, Zenon DEF QueueInit
  <2>2. topics = {} /\ 0 <= 1
    BY DEF QueueInit
  <2> QED
    BY <1>2, <2>1, <2>2, Zenon DEF WiredInv
<1> QED
  BY <1>1, <1>3, <1>4, <1>5, Zenon DEF TopicsInv

=============================================================================
