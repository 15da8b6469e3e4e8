----------------------------- MODULE NatsProofs -----------------------------
(***************************************************************************)
(* The NATS transport for any threads, topics, operations and number of    *)
(* them: nothing that is subscribed at the server is forgotten, and no     *)
(* callback that is subscribed throughout misses a message.                *)
(*                                                                         *)
(* NatsInv is the inductive invariant.  LoopInv: every coroutine on the    *)
(* event loop is the one its thread waits for.  IdsInv, DueInv: calls and  *)
(* entries are told apart by their ids, and a message is due only to       *)
(* callbacks entered before it.  ServerInv, EntriesInv: the server's       *)
(* subscriptions and the tables agree, but for the calls between the two.  *)
(* OwedInv: a callback still to be called has a copy on its way.           *)
(***************************************************************************)
EXTENDS NATS, TLAPS

\* Coroutines, which a thread waits for, and the other work of the loop.
Coroutines == {"subscribe", "unsubscribe", "send"}
Items == [kind : Coroutines \cup {"message", "drain", "drained", "stop"},
          by : Threads \cup {None}, id : Nat \cup {Queue}, topic : Topics \cup {None}]
Copies == [kind : {"message"}, by : {None}, id : Ids, topic : Topics]
ActiveCalls == [op : Coroutines \cup {"receive"}, at : {"checked", "waiting", "ready", "get"},
                topic : Topics, id : Ids]

\* The types of the state.
NatsTypes ==
  /\ loop \in Seq(Items) /\ wire \in Seq(Copies)
  /\ subs \subseteq [id : Ids, topic : Topics]
  /\ server \subseteq [id : Nat \cup {Queue}, topic : Topics] /\ IsFiniteSet(server)
  /\ doing \in [Threads -> ActiveCalls \cup {Idle}]
  /\ calls \in [Ids -> [Ids -> Nat]] /\ due \in [Ids -> SUBSET Ids]
  /\ ops \in 0..MaxOps

\* Item i is the coroutine that a thread in call c waits for.
Awaits(c, i) ==
  /\ c.at = "waiting" /\ i.topic = c.topic
  /\ IF c.op = "receive" THEN i.kind = "subscribe" /\ i.id = Queue
     ELSE i.kind = c.op /\ i.id = c.id

\* A coroutine on the loop is awaited by its thread, and by no other item.
LoopInv ==
  \A k \in DOMAIN loop :
    /\ loop[k].kind \in Coroutines <=> loop[k].by \in Threads
    /\ loop[k].by \in Threads => Awaits(doing[loop[k].by], loop[k])
    /\ loop[k].kind = "message" => loop[k] \in Copies
    /\ \A j \in DOMAIN loop : loop[j].by = loop[k].by /\ loop[k].by \in Threads => j = k

\* Calls and entries are told apart by their ids.
IdsInv ==
  /\ \A t \in Threads : doing[t].op # "idle" => doing[t].id \in 1..ops
  /\ \A t, u \in Threads : doing[t].op # "idle" /\ doing[u].op # "idle" /\ doing[t].id = doing[u].id => t = u
  /\ \A s \in subs : s.id \in 1..ops /\ \A t \in Threads : doing[t].op # "idle" => doing[t].id # s.id
  /\ \A s, r \in subs : s.id = r.id => s = r

\* A message is due to entries made before it, never to one still to be made.
DueInv ==
  \A m \in Ids : /\ due[m] \subseteq 1..ops
                 /\ \A t \in Threads : doing[t].op = "subscribe" => doing[t].id \notin due[m]

\* A thread in call c is about to enter e, or to have it removed at the server.
Holds(c, e) ==
  \/ c.op = "receive" /\ c.at = "ready" /\ e.id = Queue /\ e.topic = c.topic
  \/ c.op = "subscribe" /\ c.at = "ready" /\ e = EntryOf(c)
  \/ c.op = "unsubscribe" /\ c.at \in {"checked", "waiting"} /\ e = EntryOf(c)

\* drain() is not over before the connection is drained.
DrainInv == \A k \in DOMAIN loop : loop[k].kind = "drained" => ~Open

\* What the server has is in a table here, or a call is about to put it there
\* or to remove it.
ServerInv ==
  /\ ~Open => server = {}
  /\ \A e \in server : \/ e \in subs
                       \/ e.id = Queue /\ e.topic \in queueSubs
                       \/ \E t \in Threads : Holds(doing[t], e)

\* What is subscribed here is subscribed at the server until it is drained.
EntriesInv ==
  Open => /\ subs \subseteq server
          /\ \A t \in Threads : doing[t].op = "subscribe" /\ doing[t].at = "ready"
                                  => EntryOf(doing[t]) \in server

\* Somewhere there is a copy of message m to topic x.
Copied(m, x) ==
  \/ \E k \in DOMAIN wire : wire[k].id = m /\ wire[k].topic = x
  \/ \E k \in DOMAIN loop : loop[k].kind = "message" /\ loop[k].id = m /\ loop[k].topic = x

\* An entry a message is due to was called, or a copy is still on its way.
OwedInv ==
  \A m \in Ids : \A s \in subs :
    s.id \in due[m] => calls[m][s.id] >= 1 \/ Copied(m, s.topic)

NatsBase == NatsTypes /\ LoopInv
NatsInv == NatsBase /\ IdsInv /\ DueInv /\ DrainInv /\ ServerInv /\ EntriesInv /\ OwedInv

\* The head of the loop is taken, and only its thread moves.
LEMMA LoopTail ==
  ASSUME NatsBase, loop # <<>>, loop' = Tail(loop),
         \A t \in Threads : t # Head(loop).by => doing'[t] = doing[t]
  PROVE  loop' \in Seq(Items) /\ LoopInv'
<1>1. loop \in Seq(Items) BY DEF NatsBase, NatsTypes
<1>2. /\ loop' \in Seq(Items) /\ 1 \in DOMAIN loop /\ Head(loop) = loop[1]
      /\ \A k \in DOMAIN loop' : k + 1 \in DOMAIN loop /\ k + 1 # 1 /\ loop'[k] = loop[k + 1]
  BY <1>1
<1>3. ASSUME NEW k \in DOMAIN loop', loop'[k].by \in Threads
      PROVE  Awaits(doing'[loop'[k].by], loop'[k])
  <2>1. loop[k + 1].by # loop[1].by BY <1>2, <1>3 DEF NatsBase, LoopInv
  <2>2. doing'[loop[k + 1].by] = doing[loop[k + 1].by] BY <1>2, <1>3, <2>1
  <2> QED BY <1>2, <1>3, <2>2 DEF NatsBase, LoopInv, Awaits
<1>4. ASSUME NEW k \in DOMAIN loop', NEW j \in DOMAIN loop', loop'[j].by = loop'[k].by, loop'[k].by \in Threads
      PROVE  j = k
  <2>1. j + 1 = k + 1 BY <1>2, <1>4 DEF NatsBase, LoopInv
  <2>2. j \in Nat /\ k \in Nat BY <1>2
  <2> QED BY <2>1, <2>2
<1>5. \A k \in DOMAIN loop' : /\ loop'[k].kind \in Coroutines <=> loop'[k].by \in Threads
                              /\ loop'[k].kind = "message" => loop'[k] \in Copies
  BY <1>2 DEF NatsBase, LoopInv
<1> QED BY <1>2, <1>3, <1>4, <1>5 DEF LoopInv

\* An item is put on the loop, and only its thread moves.
LEMMA LoopAppend ==
  ASSUME NatsBase, NEW i \in Items, loop' = Append(loop, i),
         i.kind \in Coroutines <=> i.by \in Threads,
         i.by \in Threads => Awaits(doing'[i.by], i) /\ doing[i.by].at # "waiting",
         i.kind = "message" => i \in Copies,
         \A t \in Threads : t # i.by => doing'[t] = doing[t]
  PROVE  loop' \in Seq(Items) /\ LoopInv'
<1>1. loop \in Seq(Items) BY DEF NatsBase, NatsTypes
<1>2. /\ loop' \in Seq(Items) /\ Len(loop) \in Nat /\ DOMAIN loop' = DOMAIN loop \cup {Len(loop) + 1}
      /\ loop'[Len(loop) + 1] = i
      /\ \A k \in DOMAIN loop : loop'[k] = loop[k] /\ k # Len(loop) + 1
  BY <1>1
<1>3. ASSUME NEW k \in DOMAIN loop, loop[k].by \in Threads
      PROVE  loop[k].by # i.by /\ Awaits(doing'[loop[k].by], loop[k])
  <2>1. Awaits(doing[loop[k].by], loop[k]) BY <1>3 DEF NatsBase, LoopInv
  <2>2. loop[k].by # i.by BY <1>3, <2>1 DEF Awaits
  <2>3. doing'[loop[k].by] = doing[loop[k].by] BY <1>3, <2>2
  <2> QED BY <1>2, <2>1, <2>2, <2>3 DEF Awaits
<1>4. ASSUME NEW k \in DOMAIN loop'
      PROVE  /\ loop'[k].kind \in Coroutines <=> loop'[k].by \in Threads
             /\ loop'[k].kind = "message" => loop'[k] \in Copies
  BY <1>2, Zenon DEF NatsBase, LoopInv
<1>5. ASSUME NEW k \in DOMAIN loop', loop'[k].by \in Threads PROVE Awaits(doing'[loop'[k].by], loop'[k])
  BY <1>2, <1>3, <1>5 DEF Awaits
<1>6. ASSUME NEW k \in DOMAIN loop', NEW j \in DOMAIN loop', loop'[j].by = loop'[k].by, loop'[k].by \in Threads
      PROVE  j = k
  <2>1. CASE k \in DOMAIN loop /\ j \in DOMAIN loop
    BY <1>2, <1>6, <2>1 DEF NatsBase, LoopInv
  <2>2. CASE k = Len(loop) + 1 \/ j = Len(loop) + 1 BY <1>2, <1>3, <1>6, <2>2, Zenon
  <2> QED BY <1>2, <2>1, <2>2
<1> QED BY <1>2, <1>4, <1>5, <1>6 DEF LoopInv

\* The loop stays, and no thread that waits moves.
LEMMA LoopSame ==
  ASSUME NatsBase, loop' = loop,
         \A t \in Threads : doing'[t] = doing[t] \/ doing[t].at # "waiting"
  PROVE  LoopInv'
<1>1. ASSUME NEW k \in DOMAIN loop, loop[k].by \in Threads PROVE Awaits(doing'[loop[k].by], loop[k])
  <2>1. Awaits(doing[loop[k].by], loop[k]) BY <1>1 DEF NatsBase, LoopInv
  <2>2. doing'[loop[k].by] = doing[loop[k].by] BY <1>1, <2>1 DEF Awaits
  <2> QED BY <2>1, <2>2 DEF Awaits
<1> QED BY <1>1 DEF NatsBase, LoopInv

\* A call that is under way.
LEMMA Active ==
  ASSUME NatsTypes, NEW t \in Threads, doing[t].op # "idle" \/ doing[t].at # "idle"
  PROVE  doing[t] \in ActiveCalls
BY DEF NatsTypes, Idle

\* What an item that a thread waits for says about it.
LEMMA HeadAwaited ==
  ASSUME NatsBase, loop # <<>>, Head(loop).kind \in Coroutines
  PROVE  /\ Head(loop).by \in Threads /\ Awaits(doing[Head(loop).by], Head(loop))
         /\ doing[Head(loop).by] \in ActiveCalls
         /\ EntryOf(Head(loop)) \in [id : Nat \cup {Queue}, topic : Topics]
<1>1. loop \in Seq(Items) /\ NatsTypes BY DEF NatsBase, NatsTypes
<1>2. 1 \in DOMAIN loop /\ Head(loop) = loop[1] /\ loop[1] \in Items BY <1>1
<1>3. loop[1].by \in Threads /\ Awaits(doing[loop[1].by], loop[1])
  BY <1>2 DEF NatsBase, LoopInv
<1>4. doing[loop[1].by] \in ActiveCalls BY <1>1, <1>3, Active, Zenon DEF Awaits
<1>5. loop[1].topic \in Topics BY <1>3, <1>4, Zenon DEF Awaits, ActiveCalls
<1> QED BY <1>2, <1>3, <1>4, <1>5, Zenon DEF EntryOf, Items

\* A call moves on or ends.
LEMMA MovesTyped ==
  ASSUME NatsTypes, NEW t \in Threads, NEW a \in {"checked", "waiting", "ready", "get"},
         Ends(t) \/ (Goes(t, a) /\ doing[t] \in ActiveCalls)
  PROVE  /\ doing' \in [Threads -> ActiveCalls \cup {Idle}]
         /\ \A u \in Threads : u # t => doing'[u] = doing[u]
         /\ Ends(t) => doing'[t] = Idle
         /\ Goes(t, a) /\ doing[t] \in ActiveCalls
              => /\ doing'[t] \in ActiveCalls /\ doing'[t].at = a
                 /\ doing'[t].op = doing[t].op /\ doing'[t].topic = doing[t].topic
                 /\ doing'[t].id = doing[t].id
<1>0. doing \in [Threads -> ActiveCalls \cup {Idle}] BY DEF NatsTypes
<1>1. CASE Goes(t, a) /\ doing[t] \in ActiveCalls
  <2> DEFINE c == [doing[t] EXCEPT !.at = a]
  <2>1. doing' = [doing EXCEPT ![t] = c] BY <1>1 DEF Goes
  <2>2. /\ c \in ActiveCalls /\ c.op = doing[t].op /\ c.topic = doing[t].topic
        /\ c.id = doing[t].id /\ c.at = a
    BY <1>1 DEF ActiveCalls
  <2>3. Ends(t) => doing'[t] = Idle BY <1>0 DEF Ends
  <2> HIDE DEF c
  <2> QED BY <1>0, <2>1, <2>2, <2>3
<1>2. CASE Ends(t) /\ ~(Goes(t, a) /\ doing[t] \in ActiveCalls)
  BY <1>0, <1>2 DEF Ends
<1> QED BY <1>1, <1>2

\* The tables and counters, when only calls and the loop change.
LEMMA RestTyped ==
  ASSUME NatsTypes, loop' \in Seq(Items), UNCHANGED <<wire, calls, due, ops>>,
         subs' \subseteq [id : Ids, topic : Topics],
         server' \subseteq [id : Nat \cup {Queue}, topic : Topics], IsFiniteSet(server'),
         doing' \in [Threads -> ActiveCalls \cup {Idle}]
  PROVE  NatsTypes'
BY DEF NatsTypes

\* The callers' steps keep the types and the loop in order.
LEMMA NatsCallStep ==
  ASSUME NatsBase, NEW t \in Threads,
         Check(t) \/ Proceed(t) \/ \E s \in subs : Unsubscribe(t, s)
  PROVE  NatsBase'
<1>0. /\ NatsTypes /\ doing \in [Threads -> ActiveCalls \cup {Idle}] /\ loop \in Seq(Items)
      /\ subs \subseteq [id : Ids, topic : Topics]
      /\ server \subseteq [id : Nat \cup {Queue}, topic : Topics] /\ IsFiniteSet(server)
  BY DEF NatsBase, NatsTypes
<1>a. doing[t].op = "idle" => doing[t].at # "waiting"
  BY <1>0 DEF ActiveCalls, Coroutines, Idle
<1>1. CASE Check(t)
  <2>1. PICK op \in Ops, x \in Topics :
          doing' = [doing EXCEPT ![t] = [op |-> op, at |-> "checked", topic |-> x, id |-> ops + 1]]
    BY <1>1, Zenon DEF Check
  <2>2. ops' \in 0..MaxOps /\ ops + 1 \in Ids /\ loop' = loop /\ UNCHANGED <<wire, subs, server, calls, due>>
    BY <1>0, <1>1, NatsAssumption DEF Check, NatsTypes, Ids
  <2>3. [op |-> op, at |-> "checked", topic |-> x, id |-> ops + 1] \in ActiveCalls
    BY <2>2, NatsAssumption DEF ActiveCalls, Coroutines
  <2>4. doing' \in [Threads -> ActiveCalls \cup {Idle}] BY <1>0, <2>1, <2>3
  <2>5. \A u \in Threads : doing'[u] = doing[u] \/ doing[u].at # "waiting"
    BY <1>0, <1>1, <1>a, <2>1 DEF Check
  <2>6. NatsTypes' BY <1>0, <2>2, <2>4, Zenon DEF NatsTypes
  <2> QED BY <2>2, <2>5, <2>6, LoopSame, Zenon DEF NatsBase
<1>2. CASE Submit(t)
  <2> DEFINE i == Item(doing[t].op, t, doing[t].id, doing[t].topic)
  <2>1. /\ doing[t].at = "checked" /\ doing[t].op # "receive" /\ loop' = Append(loop, i)
        /\ Goes(t, "waiting") /\ UNCHANGED <<wire, subs, server, calls, due, ops>>
    BY <1>2 DEF Submit
  <2>2. doing[t] \in ActiveCalls BY <1>0, <2>1, Active, Zenon
  <2>3. /\ doing' \in [Threads -> ActiveCalls \cup {Idle}] /\ \A u \in Threads : u # t => doing'[u] = doing[u]
        /\ doing'[t].at = "waiting" /\ doing'[t].op = doing[t].op
        /\ doing'[t].topic = doing[t].topic /\ doing'[t].id = doing[t].id
    BY <1>0, <2>1, <2>2, MovesTyped, Zenon
  <2>4. i \in Items /\ i.kind \in Coroutines /\ i.by = t /\ i.kind # "message"
    BY <2>1, <2>2, NatsAssumption DEF Item, Items, ActiveCalls, Coroutines, Ids
  <2>5. Awaits(doing'[t], i) BY <2>1, <2>3, Zenon DEF Awaits, Item
  <2> HIDE DEF i
  <2>6. loop' \in Seq(Items) /\ LoopInv' BY <2>1, <2>3, <2>4, <2>5, LoopAppend, Zenon
  <2> QED BY <1>0, <2>1, <2>3, <2>6, RestTyped, Zenon DEF NatsBase
<1>3. CASE Finish(t)
  <2>1. doing[t].at = "ready" /\ Ends(t) /\ loop' = loop /\ UNCHANGED <<wire, server, calls, due, ops>>
    BY <1>3 DEF Finish
  <2>2. doing[t] \in ActiveCalls BY <1>0, <2>1, Active, Zenon
  <2>3. subs' \subseteq [id : Ids, topic : Topics]
    BY <1>0, <1>3, <2>2 DEF Finish, EntryOf, ActiveCalls
  <2>4. doing' \in [Threads -> ActiveCalls \cup {Idle}] /\ \A u \in Threads : u # t => doing'[u] = doing[u]
    BY <1>0, <2>1, MovesTyped, Zenon
  <2>5. LoopInv' BY <2>1, <2>4, LoopSame, Zenon
  <2> QED BY <1>0, <2>1, <2>3, <2>4, <2>5, RestTyped, Zenon DEF NatsBase
<1>4. CASE EnsureQueue(t)
  <2> DEFINE i == Item("subscribe", t, Queue, doing[t].topic)
  <2>1. doing[t].at = "checked" /\ doing[t].op = "receive" /\ UNCHANGED <<wire, subs, server, calls, due, ops>>
    BY <1>4 DEF EnsureQueue
  <2>2. doing[t] \in ActiveCalls BY <1>0, <2>1, Active, Zenon
  <2>3. CASE Goes(t, "get") /\ loop' = loop
    <3>1. doing' \in [Threads -> ActiveCalls \cup {Idle}] /\ \A u \in Threads : u # t => doing'[u] = doing[u]
      BY <1>0, <2>2, <2>3, MovesTyped, Zenon
    <3>2. LoopInv' BY <2>1, <2>3, <3>1, LoopSame, Zenon
    <3> QED BY <1>0, <2>1, <2>3, <3>1, <3>2, RestTyped, Zenon DEF NatsBase
  <2>4. CASE Goes(t, "waiting") /\ loop' = Append(loop, i)
    <3>1. /\ doing' \in [Threads -> ActiveCalls \cup {Idle}] /\ \A u \in Threads : u # t => doing'[u] = doing[u]
          /\ doing'[t].at = "waiting" /\ doing'[t].op = doing[t].op
          /\ doing'[t].topic = doing[t].topic
      BY <1>0, <2>2, <2>4, MovesTyped, Zenon
    <3>2. i \in Items /\ i.kind \in Coroutines /\ i.by = t /\ i.kind # "message"
      BY <2>2, Zenon DEF Item, Items, ActiveCalls, Coroutines
    <3>3. Awaits(doing'[t], i) BY <2>1, <3>1, Zenon DEF Awaits, Item
    <3> HIDE DEF i
    <3>4. loop' \in Seq(Items) /\ LoopInv'
      BY <2>1, <2>4, <3>1, <3>2, <3>3, LoopAppend, Zenon
    <3> QED BY <1>0, <2>1, <3>1, <3>4, RestTyped, Zenon DEF NatsBase
  <2> QED BY <1>4, <2>3, <2>4, Zenon DEF EnsureQueue
<1>5. CASE QueueReady(t)
  <2>1. doing[t].at = "ready" /\ Goes(t, "get") /\ loop' = loop /\ UNCHANGED <<wire, subs, server, calls, due, ops>>
    BY <1>5 DEF QueueReady
  <2>2. doing[t] \in ActiveCalls BY <1>0, <2>1, Active, Zenon
  <2>3. doing' \in [Threads -> ActiveCalls \cup {Idle}] /\ \A u \in Threads : u # t => doing'[u] = doing[u]
    BY <1>0, <2>1, <2>2, MovesTyped, Zenon
  <2>4. LoopInv' BY <2>1, <2>3, LoopSame, Zenon
  <2> QED BY <1>0, <2>1, <2>3, <2>4, RestTyped, Zenon DEF NatsBase
<1>6. CASE Get(t)
  <2>1. doing[t].at = "get" /\ Ends(t) /\ loop' = loop /\ UNCHANGED <<wire, subs, server, calls, due, ops>>
    BY <1>6 DEF Get
  <2>2. doing' \in [Threads -> ActiveCalls \cup {Idle}] /\ \A u \in Threads : u # t => doing'[u] = doing[u]
    BY <1>0, <2>1, MovesTyped, Zenon
  <2>3. LoopInv' BY <2>1, <2>2, LoopSame, Zenon
  <2> QED BY <1>0, <2>1, <2>2, <2>3, RestTyped, Zenon DEF NatsBase
<1>7. CASE \E s \in subs : Unsubscribe(t, s)
  <2>1. PICK s \in subs : Unsubscribe(t, s) BY <1>7, Zenon
  <2> DEFINE c == [op |-> "unsubscribe", at |-> "checked", topic |-> s.topic, id |-> s.id]
  <2>2. /\ doing[t].op = "idle" /\ subs' = subs \ {s} /\ loop' = loop
        /\ doing' = [doing EXCEPT ![t] = c] /\ UNCHANGED <<wire, server, calls, due, ops>>
    BY <2>1 DEF Unsubscribe
  <2>3. c \in ActiveCalls BY <1>0 DEF ActiveCalls, Coroutines
  <2> HIDE DEF c
  <2>4. doing' \in [Threads -> ActiveCalls \cup {Idle}] /\ \A u \in Threads : u # t => doing'[u] = doing[u]
    BY <1>0, <2>2, <2>3, Zenon
  <2>5. LoopInv' BY <1>a, <2>2, <2>4, LoopSame, Zenon
  <2> QED BY <1>0, <2>2, <2>4, <2>5, RestTyped, Zenon DEF NatsBase
<1> QED BY <1>1, <1>2, <1>3, <1>4, <1>5, <1>6, <1>7, Zenon DEF Proceed

\* The coroutine at the head of the loop is answered, or raises.
LEMMA HeadAnswered ==
  ASSUME NatsBase, loop # <<>>, Head(loop).kind \in Coroutines, loop' = Tail(loop),
         Answered \/ Ends(Head(loop).by)
  PROVE  /\ doing' \in [Threads -> ActiveCalls \cup {Idle}] /\ loop' \in Seq(Items) /\ LoopInv'
         /\ \A u \in Threads : u # Head(loop).by => doing'[u] = doing[u]
         /\ \/ doing'[Head(loop).by] = Idle
            \/ /\ doing'[Head(loop).by] \in ActiveCalls /\ doing'[Head(loop).by].at = "ready"
               /\ doing'[Head(loop).by].op = doing[Head(loop).by].op
               /\ doing'[Head(loop).by].topic = doing[Head(loop).by].topic
               /\ doing'[Head(loop).by].id = doing[Head(loop).by].id
         /\ Answered => doing'[Head(loop).by].at = "ready"
<1> DEFINE t == Head(loop).by
<1>1. t \in Threads /\ doing[t] \in ActiveCalls BY HeadAwaited
<1>2. NatsTypes BY DEF NatsBase
<1>3. Answered => Goes(t, "ready") BY <1>1 DEF Answered
<1>4. Ends(t) \/ Goes(t, "ready") BY <1>3, Zenon
<1> HIDE DEF t
<1>5. /\ doing' \in [Threads -> ActiveCalls \cup {Idle}]
      /\ \A u \in Threads : u # t => doing'[u] = doing[u]
      /\ Ends(t) => doing'[t] = Idle
      /\ Goes(t, "ready")
           => /\ doing'[t] \in ActiveCalls /\ doing'[t].at = "ready"
              /\ doing'[t].op = doing[t].op /\ doing'[t].topic = doing[t].topic
              /\ doing'[t].id = doing[t].id
  BY <1>1, <1>2, <1>4, MovesTyped, Zenon
<1> USE DEF t
<1>6. loop' \in Seq(Items) /\ LoopInv' BY <1>5, LoopTail
<1> QED BY <1>3, <1>4, <1>5, <1>6, Zenon

\* What a message at the head of the loop is.
LEMMA HeadMessage ==
  ASSUME NatsBase, loop # <<>>, Head(loop).kind \notin Coroutines
  PROVE  /\ Head(loop).by \notin Threads
         /\ Head(loop).kind = "message" => Head(loop) \in Copies
<1>1. loop \in Seq(Items) BY DEF NatsBase, NatsTypes
<1>2. 1 \in DOMAIN loop /\ Head(loop) = loop[1] BY <1>1
<1> QED BY <1>2 DEF NatsBase, LoopInv

\* The n copies that the server makes of a message.
CopiesOf(i, n) == [k \in 1..n |-> Item("message", None, i.id, i.topic)]

\* Copies of a message, one for every subscription of its topic.
LEMMA CopiesTyped ==
  ASSUME NEW i, NEW n \in Nat, i.id \in Ids, i.topic \in Topics, NatsTypes
  PROVE  wire \o CopiesOf(i, n) \in Seq(Copies)
<1>1. CopiesOf(i, n) \in Seq(Copies) BY DEF CopiesOf, Copies, Item
<1> HIDE DEF CopiesOf
<1> QED BY <1>1 DEF NatsTypes

\* The facts about finite sets and their cardinality.
INSTANCE FiniteSetTheorems

\* What a send() at the head of the loop does.
LEMMA SendEffect ==
  ASSUME NatsBase, LoopSend
  PROVE  /\ Head(loop).id \in Ids /\ Head(loop).topic \in Topics /\ Head(loop).kind \in Coroutines
         /\ Head(loop).kind = "send" /\ loop # <<>>
         /\ doing[Head(loop).by].op = "send"
         /\ wire' \in Seq(Copies) /\ due' \in [Ids -> SUBSET Ids]
         /\ \/ wire' = wire /\ due' = due
            \/ \E n \in Nat :
                 /\ n = Cardinality({e \in server : e.topic = Head(loop).topic})
                 /\ wire' = wire \o CopiesOf(Head(loop), n)
                 /\ due' = [due EXCEPT ![Head(loop).id] = IF running
                              THEN {e.id : e \in {s \in subs : s.topic = Head(loop).topic}} ELSE {}]
                 /\ Open
<1>0. loop # <<>> /\ Head(loop).kind = "send" /\ Head(loop).kind \in Coroutines /\ NatsTypes
  BY DEF LoopSend, Runs, Coroutines, NatsBase
<1>1. Head(loop).by \in Threads /\ Awaits(doing[Head(loop).by], Head(loop)) /\ doing[Head(loop).by] \in ActiveCalls
  BY <1>0, HeadAwaited
<1>2. Head(loop).id \in Ids /\ Head(loop).topic \in Topics /\ doing[Head(loop).by].op = "send"
  BY <1>0, <1>1 DEF Awaits, ActiveCalls
<1>3. CASE ~Open BY <1>0, <1>2, <1>3 DEF LoopSend, NatsTypes
<1>4. CASE Open
  <2> DEFINE i == Head(loop)
             S == {e \in server : e.topic = i.topic}
             ids == IF running THEN {e.id : e \in {s \in subs : s.topic = i.topic}} ELSE {}
  <2>1. wire' = wire \o CopiesOf(i, Cardinality(S)) /\ due' = [due EXCEPT ![i.id] = ids]
    BY <1>4, Zenon DEF LoopSend, CopiesOf
  <2>2. IsFiniteSet(S) BY <1>0, FS_Subset DEF NatsTypes
  <2>3. Cardinality(S) \in Nat BY <2>2, FS_CardinalityType
  <2>4. ids \in SUBSET Ids BY <1>0 DEF NatsTypes
  <2>5. due' \in [Ids -> SUBSET Ids] BY <1>0, <2>1, <2>4, Zenon DEF NatsTypes
  <2>6. wire' \in Seq(Copies) BY <1>0, <1>2, <2>1, <2>3, CopiesTyped
  <2> QED BY <1>0, <1>2, <1>4, <2>1, <2>3, <2>5, <2>6, Zenon
<1> QED BY <1>3, <1>4, Zenon

\* The callbacks of a message are counted.
LEMMA DispatchEffect ==
  ASSUME NatsBase, LoopDispatch
  PROVE  /\ Head(loop) \in Copies /\ loop # <<>> /\ Head(loop).by \notin Threads
         /\ calls' \in [Ids -> [Ids -> Nat]]
         /\ \A m, k \in Ids : calls'[m][k] >= calls[m][k]
         /\ \A s \in subs : s.topic = Head(loop).topic => calls'[Head(loop).id][s.id] >= 1
<1>0. loop # <<>> /\ Head(loop).kind = "message" /\ Head(loop).kind \notin Coroutines /\ NatsTypes
  BY DEF LoopDispatch, Runs, Coroutines, NatsBase
<1>1. Head(loop) \in Copies /\ Head(loop).by \notin Threads BY <1>0, HeadMessage
<1> DEFINE i == Head(loop)
           f == [k \in Ids |-> IF \E s \in Wanting(i) : s.id = k THEN calls[i.id][k] + 1 ELSE calls[i.id][k]]
<1>2. i.id \in Ids BY <1>1 DEF Copies
<1>3. calls \in [Ids -> [Ids -> Nat]] BY <1>0, Zenon DEF NatsTypes
<1>4. calls' = [calls EXCEPT ![i.id] = f] BY <1>3, <1>2, Zenon DEF LoopDispatch
<1>5. f \in [Ids -> Nat] /\ \A k \in Ids : f[k] >= calls[i.id][k] BY <1>2, <1>3
<1>6. \A s \in subs : s.topic = i.topic => f[s.id] >= 1
  <2>1. SUFFICES ASSUME NEW s \in subs, s.topic = i.topic PROVE f[s.id] >= 1 OBVIOUS
  <2>2. s \in Wanting(i) /\ s.id \in Ids BY <1>0, <2>1, Zenon DEF Wanting, NatsTypes
  <2>3. f[s.id] = calls[i.id][s.id] + 1 BY <2>2
  <2> QED BY <1>2, <1>3, <2>2, <2>3
<1> HIDE DEF f
<1>7. calls' \in [Ids -> [Ids -> Nat]] /\ calls'[i.id] = f /\ \A m \in Ids : m # i.id => calls'[m] = calls[m]
  BY <1>2, <1>3, <1>4, <1>5, Zenon
<1>8. \A m, k \in Ids : calls'[m][k] >= calls[m][k]
  <2>1. SUFFICES ASSUME NEW m \in Ids, NEW k \in Ids PROVE calls'[m][k] >= calls[m][k] OBVIOUS
  <2>2. CASE m = i.id BY <1>5, <1>7, <2>2
  <2>3. CASE m # i.id BY <1>3, <1>7, <2>3
  <2> QED BY <2>2, <2>3
<1> QED BY <1>0, <1>1, <1>6, <1>7, <1>8

\* drain: what is on its way comes after what is on the loop.
LEMMA DrainEffect ==
  ASSUME NatsBase, LoopDrain
  PROVE  /\ loop' \in Seq(Items)
         /\ \A k \in DOMAIN loop' :
              \/ k + 1 \in DOMAIN loop /\ k + 1 # 1 /\ loop'[k] = loop[k + 1]
              \/ \E j \in DOMAIN wire : loop'[k] = wire[j]
              \/ loop'[k] = Item("drained", None, 0, None)
         /\ \A j \in DOMAIN loop : j = 1 \/ (j - 1 \in DOMAIN loop' /\ loop'[j - 1] = loop[j])
         /\ \A j \in DOMAIN wire : \E k \in DOMAIN loop' : loop'[k] = wire[j]
<1> DEFINE d == Item("drained", None, 0, None)
           r == Tail(loop)
           s == r \o wire
<1>0. loop \in Seq(Items) /\ loop # <<>> /\ wire \in Seq(Copies) /\ loop' = s \o <<d>>
  BY DEF NatsBase, NatsTypes, LoopDrain, Runs
<1>1. d \in Items BY DEF Item, Items
<1> HIDE DEF d
<1>2. wire \in Seq(Items) BY <1>0, NatsAssumption DEF Items, Copies, Ids
<1>3. /\ r \in Seq(Items) /\ Len(r) = Len(loop) - 1 /\ Len(loop) \in Nat /\ Len(r) \in Nat
      /\ \A k \in 1..Len(r) : r[k] = loop[k + 1]
  BY <1>0
<1>4. DOMAIN loop = 1..Len(loop) /\ DOMAIN wire = 1..Len(wire) /\ Len(wire) \in Nat
  BY <1>0
<1> HIDE DEF r
<1>5. /\ s \in Seq(Items) /\ Len(s) = Len(r) + Len(wire)
      /\ \A k \in 1..Len(r) + Len(wire) : s[k] = IF k <= Len(r) THEN r[k] ELSE wire[k - Len(r)]
  BY ONLY <1>2, <1>3
<1> HIDE DEF s
<1>6. /\ loop' \in Seq(Items) /\ Len(loop') = Len(s) + 1 /\ DOMAIN loop' = 1..Len(s) + 1
      /\ \A k \in 1..Len(s) : loop'[k] = s[k]
      /\ loop'[Len(s) + 1] = d
  <2> DEFINE o == <<d>>
  <2>1. o \in Seq(Items) /\ Len(o) = 1 /\ o[1] = d /\ loop' = s \o o BY <1>0, <1>1
  <2> HIDE DEF o
  <2>2. /\ s \o o \in Seq(Items) /\ Len(s \o o) = Len(s) + Len(o)
        /\ \A k \in 1..Len(s) + Len(o) : (s \o o)[k] = IF k <= Len(s) THEN s[k] ELSE o[k - Len(s)]
    <3>1. s \in Seq(Items) /\ o \in Seq(Items) BY <1>5, <2>1
    <3> QED BY ONLY <3>1
  <2>3. Len(s) \in Nat /\ Len(s) + 1 - Len(s) = 1 /\ ~(Len(s) + 1 <= Len(s)) BY <1>5
  <2>4. /\ loop' \in Seq(Items) /\ Len(loop') = Len(s) + 1
        /\ \A k \in 1..Len(s) + 1 : loop'[k] = IF k <= Len(s) THEN s[k] ELSE o[k - Len(s)]
    BY <2>1, <2>2, Zenon
  <2> QED BY <2>1, <2>3, <2>4
<1>7. ASSUME NEW k \in DOMAIN loop'
      PROVE  \/ k + 1 \in DOMAIN loop /\ k + 1 # 1 /\ loop'[k] = loop[k + 1]
             \/ \E j \in DOMAIN wire : loop'[k] = wire[j]
             \/ loop'[k] = d
  <2>1. CASE k <= Len(r)
    <3>1. k \in 1..Len(s) /\ k \in 1..Len(r) BY <1>3, <1>4, <1>5, <1>6, <2>1
    <3>2. loop'[k] = loop[k + 1] BY <1>3, <1>5, <1>6, <2>1, <3>1, Zenon
    <3> QED BY <1>3, <1>4, <3>1, <3>2
  <2>2. CASE k > Len(r) /\ k <= Len(s)
    <3>1. k \in 1..Len(s) /\ k - Len(r) \in 1..Len(wire) BY <1>3, <1>4, <1>5, <1>6, <2>2
    <3>2. ~(k <= Len(r)) BY <1>3, <1>6, <2>2
    <3>3. loop'[k] = wire[k - Len(r)] BY <1>5, <1>6, <3>1, <3>2, Zenon
    <3> QED BY <1>4, <3>1, <3>3
  <2>3. CASE k > Len(s)
    <3>1. k = Len(s) + 1 BY <1>3, <1>4, <1>5, <1>6, <2>3
    <3> QED BY <1>6, <3>1
  <2> QED BY <1>3, <1>4, <1>5, <1>6, <2>1, <2>2, <2>3
<1>8. ASSUME NEW j \in DOMAIN loop, j # 1 PROVE j - 1 \in DOMAIN loop' /\ loop'[j - 1] = loop[j]
  <2>1. j - 1 \in 1..Len(r) /\ j - 1 \in 1..Len(s) /\ j - 1 \in DOMAIN loop' /\ j - 1 + 1 = j
    BY <1>3, <1>4, <1>5, <1>6, <1>8
  <2>2. j - 1 <= Len(r) BY <1>3, <2>1
  <2> QED BY <1>3, <1>5, <1>6, <2>1, <2>2, Zenon
<1>9. ASSUME NEW j \in DOMAIN wire PROVE \E k \in DOMAIN loop' : loop'[k] = wire[j]
  <2>1. /\ j + Len(r) \in 1..Len(s) /\ j + Len(r) \in DOMAIN loop' /\ ~(j + Len(r) <= Len(r))
        /\ j + Len(r) - Len(r) = j
    BY <1>3, <1>4, <1>5, <1>6
  <2>2. loop'[j + Len(r)] = wire[j] BY <1>5, <1>6, <2>1
  <2> QED BY <2>1, <2>2, Zenon
<1> QED BY <1>6, <1>7, <1>8, <1>9 DEF d

\* drain() keeps the loop in order.
LEMMA DrainLoop ==
  ASSUME NatsBase, LoopDrain
  PROVE  LoopInv'
<1>1. doing' = doing /\ wire \in Seq(Copies) BY DEF LoopDrain, NatsBase, NatsTypes
<1>2. \A j \in DOMAIN wire : wire[j] \in Copies /\ wire[j].by \notin Threads /\ wire[j].kind \notin Coroutines
  <2>1. \A j \in DOMAIN wire : wire[j] \in Copies BY <1>1
  <2> QED BY <2>1, NatsAssumption DEF Copies, Coroutines
<1> DEFINE d == Item("drained", None, 0, None)
<1>3. d.by \notin Threads /\ d.kind \notin Coroutines /\ d.kind # "message"
  BY NatsAssumption DEF Item, Coroutines
<1> HIDE DEF d
<1>4. \A k \in DOMAIN loop' :
        \/ k + 1 \in DOMAIN loop /\ k \in Nat /\ loop'[k] = loop[k + 1]
        \/ \E j \in DOMAIN wire : loop'[k] = wire[j]
        \/ loop'[k] = d
  BY DrainEffect DEF d
<1>5. ASSUME NEW k \in DOMAIN loop'
      PROVE  /\ loop'[k].kind \in Coroutines <=> loop'[k].by \in Threads
             /\ loop'[k].by \in Threads => Awaits(doing'[loop'[k].by], loop'[k])
             /\ loop'[k].kind = "message" => loop'[k] \in Copies
             /\ loop'[k].by \in Threads => k + 1 \in DOMAIN loop /\ k \in Nat /\ loop'[k] = loop[k + 1]
  <2>1. CASE k + 1 \in DOMAIN loop /\ k \in Nat /\ loop'[k] = loop[k + 1]
    BY <1>1, <2>1, Zenon DEF NatsBase, LoopInv
  <2>2. CASE \E j \in DOMAIN wire : loop'[k] = wire[j] BY <1>2, <2>2, Zenon
  <2>3. CASE loop'[k] = d BY <1>3, <2>3
  <2> QED BY <1>4, <2>1, <2>2, <2>3, Zenon
<1>6. ASSUME NEW k \in DOMAIN loop', NEW j \in DOMAIN loop', loop'[j].by = loop'[k].by, loop'[k].by \in Threads
      PROVE  j = k
  <2>1. /\ k + 1 \in DOMAIN loop /\ k \in Nat /\ loop'[k] = loop[k + 1]
        /\ j + 1 \in DOMAIN loop /\ j \in Nat /\ loop'[j] = loop[j + 1]
    BY <1>5, <1>6, Zenon
  <2>2. j + 1 = k + 1 BY <1>6, <2>1, Zenon DEF NatsBase, LoopInv
  <2> QED BY <2>1, <2>2
<1> QED BY <1>5, <1>6, Zenon DEF LoopInv

\* The steps of the event loop keep the types and the loop in order.
LEMMA NatsLoopStep ==
  ASSUME NatsBase, Loop \/ Arrive \/ CloseDrain \/ CloseClear
  PROVE  NatsBase'
<1>0. /\ NatsTypes /\ doing \in [Threads -> ActiveCalls \cup {Idle}] /\ loop \in Seq(Items)
      /\ subs \subseteq [id : Ids, topic : Topics] /\ wire \in Seq(Copies)
      /\ server \subseteq [id : Nat \cup {Queue}, topic : Topics] /\ IsFiniteSet(server)
  BY DEF NatsBase, NatsTypes
<1>a. ASSUME loop # <<>>, Head(loop).kind \notin Coroutines, loop' = Tail(loop), doing' = doing
      PROVE  loop' \in Seq(Items) /\ LoopInv'
  BY <1>a, LoopTail, Zenon
<1>b. ASSUME NEW i \in Items, i.kind \notin Coroutines, i.by = None, i.kind = "message" => i \in Copies,
             loop' = Append(loop, i), doing' = doing
      PROVE  loop' \in Seq(Items) /\ LoopInv'
  BY <1>b, LoopAppend, NatsAssumption, Zenon
<1>1. CASE LoopSubscribe
  <2>1. /\ loop # <<>> /\ Head(loop).kind \in Coroutines /\ loop' = Tail(loop)
        /\ Answered \/ Ends(Head(loop).by)
        /\ server' = server \cup {EntryOf(Head(loop))} \/ server' = server
        /\ UNCHANGED <<wire, subs, calls, due, ops>>
    BY <1>1 DEF LoopSubscribe, Runs, Coroutines
  <2>2. doing' \in [Threads -> ActiveCalls \cup {Idle}] /\ loop' \in Seq(Items) /\ LoopInv'
    BY <2>1, HeadAnswered
  <2>3. EntryOf(Head(loop)) \in [id : Nat \cup {Queue}, topic : Topics]
    BY <2>1, HeadAwaited
  <2>4. server' \subseteq [id : Nat \cup {Queue}, topic : Topics] BY <1>0, <2>1, <2>3
  <2>5. IsFiniteSet(server \cup {EntryOf(Head(loop))}) BY <1>0, FS_AddElement, Zenon
  <2> QED BY <1>0, <2>1, <2>2, <2>4, <2>5, RestTyped, Zenon DEF NatsBase
<1>2. CASE LoopUnsubscribe
  <2>1. /\ loop # <<>> /\ Head(loop).kind \in Coroutines /\ loop' = Tail(loop) /\ Answered
        /\ server' = server \ {EntryOf(Head(loop))} /\ UNCHANGED <<wire, subs, calls, due, ops>>
    BY <1>2 DEF LoopUnsubscribe, Runs, Coroutines
  <2>2. doing' \in [Threads -> ActiveCalls \cup {Idle}] /\ loop' \in Seq(Items) /\ LoopInv'
    BY <2>1, HeadAnswered
  <2>3. IsFiniteSet(server') BY <1>0, <2>1, FS_RemoveElement, Zenon
  <2> QED BY <1>0, <2>1, <2>2, <2>3, RestTyped DEF NatsBase
<1>3. CASE LoopSend
  <2>1. /\ loop # <<>> /\ Head(loop).kind \in Coroutines /\ loop' = Tail(loop)
        /\ wire' \in Seq(Copies) /\ due' \in [Ids -> SUBSET Ids]
        /\ Answered \/ Ends(Head(loop).by)
    BY <1>3, SendEffect, Zenon DEF LoopSend
  <2>2. doing' \in [Threads -> ActiveCalls \cup {Idle}] /\ loop' \in Seq(Items) /\ LoopInv'
    BY <2>1, HeadAnswered
  <2>3. UNCHANGED <<subs, server, calls, ops>> BY <1>3 DEF LoopSend
  <2> QED BY <1>0, <2>1, <2>2, <2>3 DEF NatsBase, NatsTypes
<1>4. CASE LoopDispatch
  <2>1. /\ loop # <<>> /\ Head(loop).kind \notin Coroutines /\ loop' = Tail(loop) /\ doing' = doing
        /\ calls' \in [Ids -> [Ids -> Nat]] /\ UNCHANGED <<wire, subs, server, due, ops>>
    BY <1>4, DispatchEffect DEF LoopDispatch, Copies, Coroutines
  <2>2. loop' \in Seq(Items) /\ LoopInv' BY <1>a, <2>1, Zenon
  <2> QED BY <1>0, <2>1, <2>2 DEF NatsBase, NatsTypes
<1>5. CASE LoopDrain
  <2>1. loop' \in Seq(Items) /\ LoopInv' BY <1>5, DrainEffect, DrainLoop, Zenon
  <2>2. server' = {} /\ wire' = <<>> /\ UNCHANGED <<subs, doing, calls, due, ops>>
    BY <1>5 DEF LoopDrain
  <2>3. IsFiniteSet(server') BY <2>2, FS_EmptySet
  <2>4. wire' \in Seq(Copies) BY <2>2
  <2> QED BY <1>0, <2>1, <2>2, <2>3, <2>4, Zenon DEF NatsBase, NatsTypes
<1>6. CASE LoopDrained \/ LoopStop
  <2>1. /\ loop # <<>> /\ Head(loop).kind \notin Coroutines /\ loop' = Tail(loop) /\ doing' = doing
        /\ UNCHANGED <<wire, subs, server, calls, due, ops>>
    BY <1>6 DEF LoopDrained, LoopStop, Runs, Coroutines
  <2>2. loop' \in Seq(Items) /\ LoopInv' BY <1>a, <2>1, Zenon
  <2> QED BY <1>0, <2>1, <2>2, Zenon DEF NatsBase, NatsTypes
<1>7. CASE Arrive
  <2>1. /\ wire # <<>> /\ loop' = Append(loop, Head(wire)) /\ wire' = Tail(wire)
        /\ UNCHANGED <<doing, subs, server, calls, due, ops>>
    BY <1>7 DEF Arrive
  <2>2. Head(wire) \in Copies /\ wire' \in Seq(Copies) BY <1>0, <2>1
  <2>3. Head(wire) \in Items /\ Head(wire).kind \notin Coroutines /\ Head(wire).by = None
    BY <2>2, NatsAssumption DEF Copies, Items, Ids, Coroutines
  <2>4. loop' \in Seq(Items) /\ LoopInv' BY <1>b, <2>1, <2>2, <2>3, Zenon
  <2> QED BY <1>0, <2>1, <2>2, <2>4, Zenon DEF NatsBase, NatsTypes
<1>8. CASE CloseDrain \/ CloseClear
  <2>1. PICK k \in {"drain", "stop"} : loop' = Append(loop, Item(k, None, 0, None))
    BY <1>8, Zenon DEF CloseDrain, CloseClear
  <2>2. /\ subs' \subseteq [id : Ids, topic : Topics]
        /\ UNCHANGED <<wire, doing, server, calls, due, ops>>
    BY <1>0, <1>8, Zenon DEF CloseDrain, CloseClear
  <2>3. /\ Item(k, None, 0, None) \in Items /\ Item(k, None, 0, None).kind \notin Coroutines
        /\ Item(k, None, 0, None).by = None /\ Item(k, None, 0, None).kind # "message"
    BY <2>1 DEF Item, Items, Coroutines
  <2>4. loop' \in Seq(Items) /\ LoopInv' BY <1>b, <2>1, <2>2, <2>3, Zenon
  <2> QED BY <1>0, <2>2, <2>4, Zenon DEF NatsBase, NatsTypes
<1> QED BY <1>1, <1>2, <1>3, <1>4, <1>5, <1>6, <1>7, <1>8, Zenon DEF Loop

\* Calls move on or end, and entries are removed.
LEMMA IdsMoves ==
  ASSUME IdsInv, ops' = ops, subs' \subseteq subs,
         \A u \in Threads : doing'[u].op # "idle" => doing'[u].op = doing[u].op /\ doing'[u].id = doing[u].id
  PROVE  IdsInv' /\ (DueInv /\ due' = due => DueInv')
BY DEF IdsInv, DueInv

\* The callers' steps keep the ids apart.
LEMMA IdsCallStep ==
  ASSUME NatsBase, IdsInv, DueInv, NEW t \in Threads,
         Check(t) \/ Proceed(t) \/ \E s \in subs : Unsubscribe(t, s)
  PROVE  IdsInv' /\ DueInv'
<1>0. NatsTypes /\ doing \in [Threads -> ActiveCalls \cup {Idle}] /\ ops \in Nat
  BY NatsAssumption DEF NatsBase, NatsTypes
<1>i. Idle.op = "idle" BY DEF Idle
<1>1. CASE Check(t)
  <2>1. PICK op \in Ops, x \in Topics :
          doing' = [doing EXCEPT ![t] = [op |-> op, at |-> "checked", topic |-> x, id |-> ops + 1]]
    BY <1>1, Zenon DEF Check
  <2>2. ops' = ops + 1 /\ UNCHANGED <<subs, due>> BY <1>1 DEF Check
  <2>3. doing'[t].id = ops + 1 /\ \A u \in Threads : u # t => doing'[u] = doing[u]
    BY <1>0, <2>1
  <2>4. /\ \A k \in 1..ops : k \in 1..ops' /\ k # ops + 1
        /\ ops + 1 \in 1..ops'
    BY <1>0, <2>2
  <2>5. IdsInv'
    <3>1. \A u \in Threads : doing'[u].op # "idle" => doing'[u].id \in 1..ops'
      BY <2>3, <2>4, Zenon DEF IdsInv
    <3>2. ASSUME NEW u \in Threads, NEW v \in Threads, doing'[u].op # "idle", doing'[v].op # "idle",
                 doing'[u].id = doing'[v].id
          PROVE  u = v
      BY <2>3, <2>4, <3>2 DEF IdsInv
    <3>3. \A s \in subs : s.id \in 1..ops' /\ \A u \in Threads : doing'[u].op # "idle" => doing'[u].id # s.id
      BY <2>3, <2>4, Zenon DEF IdsInv
    <3> QED BY <2>2, <3>1, <3>2, <3>3 DEF IdsInv
  <2>6. DueInv' BY <2>2, <2>3, <2>4, Zenon DEF DueInv
  <2> QED BY <2>5, <2>6, Zenon
<1>2. CASE Submit(t) \/ EnsureQueue(t) \/ QueueReady(t) \/ Get(t)
  <2>1. UNCHANGED <<ops, subs, due>>
    BY <1>2, Zenon DEF Submit, EnsureQueue, QueueReady, Get
  <2>2. Ends(t) \/ \E a \in {"waiting", "get"} : Goes(t, a)
    BY <1>2, Zenon DEF Submit, EnsureQueue, QueueReady, Get
  <2>3. doing[t].op # "idle" \/ doing[t].at # "idle"
    BY <1>2 DEF Submit, EnsureQueue, QueueReady, Get
  <2>4. doing[t] \in ActiveCalls BY <1>0, <2>3, Active, Zenon
  <2>5. \A u \in Threads : doing'[u].op # "idle" => doing'[u].op = doing[u].op /\ doing'[u].id = doing[u].id
    BY <1>0, <1>i, <2>2, <2>4, MovesTyped, Zenon
  <2> QED BY <2>1, <2>5, IdsMoves, Zenon
<1>3. CASE Finish(t)
  <2>1. /\ doing[t].at = "ready" /\ doing' = [doing EXCEPT ![t] = Idle] /\ UNCHANGED <<ops, due>>
        /\ subs' = IF doing[t].op = "subscribe" THEN subs \cup {EntryOf(doing[t])} ELSE subs
    BY <1>3 DEF Finish, Ends
  <2>2. doing'[t].op = "idle" /\ \A u \in Threads : u # t => doing'[u] = doing[u]
    BY <1>0, <1>i, <2>1, Zenon
  <2>3. CASE doing[t].op # "subscribe" BY <2>1, <2>2, <2>3, IdsMoves, Zenon
  <2>4. CASE doing[t].op = "subscribe"
    <3> DEFINE e == EntryOf(doing[t])
    <3>1. e.id = doing[t].id /\ subs' = subs \cup {e} BY <2>1, <2>4, Zenon DEF EntryOf
    <3> HIDE DEF e
    <3>2. e.id \in 1..ops /\ (\A s \in subs : s.id # e.id)
          /\ \A u \in Threads : u # t /\ doing[u].op # "idle" => doing[u].id # e.id
      BY <2>4, <3>1, Zenon DEF IdsInv
    <3>3. IdsInv'
      <4>1. \A u \in Threads : doing'[u].op # "idle" => u # t /\ doing'[u] = doing[u]
        BY <2>2, Zenon
      <4> QED BY <2>1, <3>1, <3>2, <4>1 DEF IdsInv
    <3>4. DueInv' BY <2>1, <2>2 DEF DueInv
    <3> QED BY <3>3, <3>4, Zenon
  <2> QED BY <2>3, <2>4, Zenon
<1>4. CASE \E s \in subs : Unsubscribe(t, s)
  <2>1. PICK s \in subs : Unsubscribe(t, s) BY <1>4, Zenon
  <2> DEFINE c == [op |-> "unsubscribe", at |-> "checked", topic |-> s.topic, id |-> s.id]
  <2>2. /\ doing[t].op = "idle" /\ subs' = subs \ {s} /\ doing' = [doing EXCEPT ![t] = c]
        /\ UNCHANGED <<due, ops>>
    BY <2>1 DEF Unsubscribe
  <2>3. c.op = "unsubscribe" /\ c.id = s.id OBVIOUS
  <2> HIDE DEF c
  <2>4. doing'[t] = c /\ \A u \in Threads : u # t => doing'[u] = doing[u]
    BY <1>0, <2>2, Zenon
  <2>5. IdsInv'
    <3>1. \A u \in Threads : doing'[u].op # "idle" => doing'[u].id \in 1..ops
      BY <2>3, <2>4, Zenon DEF IdsInv
    <3>2. ASSUME NEW u \in Threads, NEW v \in Threads, doing'[u].op # "idle", doing'[v].op # "idle",
                 doing'[u].id = doing'[v].id
          PROVE  u = v
      BY <2>3, <2>4, <3>2 DEF IdsInv
    <3>3. \A r \in subs' : r.id # s.id BY <2>2, Zenon DEF IdsInv
    <3>4. \A r \in subs' : r.id \in 1..ops /\ \A u \in Threads : doing'[u].op # "idle" => doing'[u].id # r.id
      BY <2>2, <2>3, <2>4, <3>3 DEF IdsInv
    <3> QED BY <2>2, <3>1, <3>2, <3>4, Zenon DEF IdsInv
  <2>6. DueInv' BY <2>2, <2>3, <2>4, Zenon DEF DueInv
  <2> QED BY <2>5, <2>6
<1> QED BY <1>1, <1>2, <1>3, <1>4, Zenon DEF Proceed

\* The steps of the event loop keep the ids apart.
LEMMA IdsLoopStep ==
  ASSUME NatsBase, IdsInv, DueInv, Loop \/ Arrive \/ CloseDrain \/ CloseClear
  PROVE  IdsInv' /\ DueInv'
<1>i. Idle.op = "idle" BY DEF Idle
<1>1. CASE LoopSubscribe \/ LoopUnsubscribe \/ LoopSend
  <2>1. /\ loop # <<>> /\ Head(loop).kind \in Coroutines /\ loop' = Tail(loop)
        /\ Answered \/ Ends(Head(loop).by)
        /\ UNCHANGED <<subs, ops>>
    BY <1>1, Zenon DEF LoopSubscribe, LoopUnsubscribe, LoopSend, Runs, Coroutines
  <2>2. \A u \in Threads : doing'[u].op # "idle" => doing'[u].op = doing[u].op /\ doing'[u].id = doing[u].id
    BY <1>i, <2>1, HeadAnswered, Zenon
  <2>3. IdsInv' BY <2>1, <2>2, IdsMoves, Zenon
  <2>4. DueInv'
    <3>1. CASE LoopSubscribe \/ LoopUnsubscribe \/ (LoopSend /\ due' = due)
      <4>1. due' = due BY <3>1, Zenon DEF LoopSubscribe, LoopUnsubscribe
      <4> QED BY <2>1, <2>2, <4>1, IdsMoves, Zenon
    <3>2. CASE LoopSend /\ due' # due
      <4> DEFINE i == Head(loop)
                 ids == IF running THEN {e.id : e \in {s \in subs : s.topic = i.topic}} ELSE {}
      <4>1. i.id \in Ids /\ due' = [due EXCEPT ![i.id] = ids] BY <3>2, SendEffect, Zenon
      <4>2. due \in [Ids -> SUBSET Ids] BY DEF NatsBase, NatsTypes
      <4>3. \A k \in ids : \E s \in subs : k = s.id OBVIOUS
      <4> HIDE DEF ids
      <4>4. ids \subseteq 1..ops /\ \A t \in Threads : doing[t].op # "idle" => doing[t].id \notin ids
        BY <4>3 DEF IdsInv
      <4>5. \A m \in Ids : due'[m] = ids \/ due'[m] = due[m] BY <4>1, <4>2
      <4>6. \A t \in Threads : doing'[t].op = "subscribe" => doing[t].op = "subscribe" /\ doing'[t].id = doing[t].id
        BY <2>2, Zenon
      <4> QED BY <2>1, <4>4, <4>5, <4>6, Zenon DEF DueInv
    <3> QED BY <1>1, <3>1, <3>2, Zenon
  <2> QED BY <2>3, <2>4, Zenon
<1>2. CASE LoopDispatch \/ LoopDrain \/ LoopDrained \/ LoopStop \/ Arrive \/ CloseDrain \/ CloseClear
  <2>1. UNCHANGED <<doing, due, ops>> /\ subs' \subseteq subs
    BY <1>2, Zenon DEF LoopDispatch, LoopDrain, LoopDrained, LoopStop, Arrive, CloseDrain, CloseClear
  <2> QED BY <2>1, IdsMoves, Zenon
<1> QED BY <1>1, <1>2, Zenon DEF Loop

\* Every step keeps the connection closed once drain() is over.
LEMMA DrainStep ==
  ASSUME NatsBase, DrainInv, NatsNext
  PROVE  DrainInv'
<1>0. loop \in Seq(Items) BY DEF NatsBase, NatsTypes
<1>1. \/ ~Open'
      \/ Open /\ loop' = loop
      \/ Open /\ loop # <<>> /\ loop' = Tail(loop)
      \/ Open /\ \E i \in Items : i.kind # "drained" /\ loop' = Append(loop, i)
  <2>1. CASE \E t \in Threads : Check(t) \/ Proceed(t) \/ \E s \in subs : Unsubscribe(t, s)
    <3>1. PICK t \in Threads : Check(t) \/ Proceed(t) \/ \E s \in subs : Unsubscribe(t, s)
      BY <2>1, Zenon
    <3>2. closing' = closing
      BY <3>1, Zenon DEF Check, Proceed, Submit, Finish, EnsureQueue, QueueReady, Get, Unsubscribe
    <3>3. CASE Submit(t) \/ (EnsureQueue(t) /\ loop' # loop)
      <4>1. doing[t] \in ActiveCalls
        BY <3>3, Active, Zenon DEF NatsBase, Submit, EnsureQueue
      <4>2. PICK k \in Coroutines, x \in Topics, id \in Nat \cup {Queue} : loop' = Append(loop, Item(k, t, id, x))
        <5>1. CASE Submit(t)
          <6>1. doing[t].op \in Coroutines /\ doing[t].topic \in Topics /\ doing[t].id \in Nat
            BY <4>1, <5>1, NatsAssumption DEF Submit, ActiveCalls, Ids
          <6> QED BY <5>1, <6>1, Zenon DEF Submit
        <5>2. CASE EnsureQueue(t) /\ loop' # loop
          <6>1. "subscribe" \in Coroutines /\ doing[t].topic \in Topics
            BY <4>1 DEF ActiveCalls, Coroutines
          <6> QED BY <5>2, <6>1, Zenon DEF EnsureQueue
        <5> QED BY <3>3, <5>1, <5>2, Zenon
      <4>3. Item(k, t, id, x) \in Items /\ Item(k, t, id, x).kind # "drained"
        BY DEF Item, Items, Coroutines
      <4> QED BY <3>2, <4>2, <4>3, Zenon DEF Open
    <3>4. CASE ~(Submit(t) \/ (EnsureQueue(t) /\ loop' # loop))
      <4>1. loop' = loop
        BY <3>1, <3>4, Zenon DEF Check, Proceed, Finish, QueueReady, Get, Unsubscribe
      <4> QED BY <3>2, <4>1, Zenon DEF Open
    <3> QED BY <3>3, <3>4
  <2>2. CASE Loop \/ CloseClear
    BY <2>2, Zenon DEF Loop, LoopSubscribe, LoopUnsubscribe, LoopSend, LoopDispatch, LoopDrain, LoopDrained, LoopStop,
                CloseClear, Runs, Open
  <2>3. CASE Arrive
    <3>1. closing' = closing /\ wire # <<>> /\ loop' = Append(loop, Head(wire))
      BY <2>3 DEF Arrive
    <3>2. Head(wire) \in Copies BY <3>1 DEF NatsBase, NatsTypes
    <3>3. Head(wire) \in Items /\ Head(wire).kind # "drained"
      BY <3>2, NatsAssumption DEF Copies, Items, Ids
    <3> QED BY <3>1, <3>3, Zenon DEF Open
  <2>4. CASE CloseDrain
    <3>1. Item("drain", None, 0, None) \in Items /\ Item("drain", None, 0, None).kind # "drained"
      BY Zenon DEF Item, Items
    <3> QED BY <2>4, <3>1, Zenon DEF CloseDrain, Open
  <2> QED BY <2>1, <2>2, <2>3, <2>4, Zenon DEF NatsNext
<1>2. CASE ~Open' BY <1>2, Zenon DEF DrainInv
<1>3. CASE Open /\ (loop' = loop \/ (loop # <<>> /\ loop' = Tail(loop)))
  <2>1. \A k \in DOMAIN loop' : \E j \in DOMAIN loop : loop'[k] = loop[j]
    <3>1. CASE loop' = loop BY <3>1
    <3>2. CASE loop # <<>> /\ loop' = Tail(loop)
      <4>1. \A k \in DOMAIN loop' : k + 1 \in DOMAIN loop /\ loop'[k] = loop[k + 1]
        BY <1>0, <3>2
      <4> QED BY <4>1
    <3> QED BY <1>3, <3>1, <3>2, Zenon
  <2> QED BY <1>3, <2>1, Zenon DEF DrainInv
<1>4. CASE Open /\ \E i \in Items : i.kind # "drained" /\ loop' = Append(loop, i)
  <2>1. PICK i \in Items : i.kind # "drained" /\ loop' = Append(loop, i) BY <1>4, Zenon
  <2>2. \A k \in DOMAIN loop' : loop'[k] = i \/ \E j \in DOMAIN loop : loop'[k] = loop[j]
    BY <1>0, <2>1
  <2> QED BY <1>4, <2>1, <2>2, Zenon DEF DrainInv
<1> QED BY <1>1, <1>2, <1>3, <1>4, Zenon

\* The server's subscriptions stay, and so do the entries; holders stay holders.
LEMMA ServerKept ==
  ASSUME ServerInv, server' = server, Open => Open', ~Open => ~Open',
         subs \subseteq subs', queueSubs \subseteq queueSubs',
         \A t \in Threads : \A e \in server : Holds(doing[t], e) =>
            \/ Holds(doing'[t], e) \/ e \in subs' \/ (e.id = Queue /\ e.topic \in queueSubs')
  PROVE  ServerInv'
BY Zenon DEF ServerInv

\* The callers' steps keep the server and the tables in agreement.
LEMMA ServerCallStep ==
  ASSUME NatsBase, ServerInv, EntriesInv, IdsInv, NEW t \in Threads,
         Check(t) \/ Proceed(t) \/ \E s \in subs : Unsubscribe(t, s)
  PROVE  ServerInv' /\ EntriesInv'
<1>0. NatsTypes /\ doing \in [Threads -> ActiveCalls \cup {Idle}]
  BY DEF NatsBase, NatsTypes
<1>i. Idle.op = "idle" BY Zenon DEF Idle
<1>o. Open' <=> Open
  BY Zenon DEF Open, Check, Proceed, Submit, Finish, EnsureQueue, QueueReady, Get, Unsubscribe
<1>1. CASE Check(t) \/ Submit(t) \/ EnsureQueue(t) \/ Get(t)
  <2>1. UNCHANGED <<subs, queueSubs, server>>
    BY <1>1, Zenon DEF Check, Submit, EnsureQueue, Get
  <2>2. \A u \in Threads : u # t => doing'[u] = doing[u]
    BY <1>0, <1>1, Zenon DEF Check, Submit, EnsureQueue, Get, Goes, Ends
  <2>3. \A e \in server : Holds(doing[t], e) => Holds(doing'[t], e)
    <3>1. CASE Check(t) BY <3>1, Zenon DEF Check, Holds
    <3>2. CASE Submit(t)
      <4>1. doing[t] \in ActiveCalls /\ doing[t].at = "checked" /\ Goes(t, "waiting")
        BY <1>0, <3>2, Active, Zenon DEF Submit
      <4>2. doing'[t].at = "waiting" /\ doing'[t].op = doing[t].op /\ EntryOf(doing'[t]) = EntryOf(doing[t])
        BY <1>0, <4>1, MovesTyped, Zenon DEF EntryOf
      <4> QED BY <4>1, <4>2, Zenon DEF Holds
    <3>3. CASE EnsureQueue(t) BY <3>3, Zenon DEF EnsureQueue, Holds
    <3>4. CASE Get(t) BY <3>4, Zenon DEF Get, Holds
    <3> QED BY <1>1, <3>1, <3>2, <3>3, <3>4, Zenon
  <2>4. ~(doing'[t].op = "subscribe" /\ doing'[t].at = "ready")
    <3>1. CASE Check(t) BY <1>0, <3>1 DEF Check
    <3>2. CASE Submit(t) \/ EnsureQueue(t) \/ Get(t)
      <4>1. doing[t].at # "idle" BY <3>2, Zenon DEF Submit, EnsureQueue, Get
      <4>2. doing[t] \in ActiveCalls BY <1>0, <4>1, Active, Zenon
      <4>3. Ends(t) \/ \E a \in {"waiting", "get"} : Goes(t, a)
        BY <3>2, Zenon DEF Submit, EnsureQueue, Get
      <4> QED BY <1>0, <1>i, <4>2, <4>3, MovesTyped, Zenon
    <3> QED BY <1>1, <3>1, <3>2, Zenon
  <2>5. ServerInv'
    <3>1. \A u \in Threads : \A e \in server : Holds(doing[u], e) => Holds(doing'[u], e)
      BY <2>2, <2>3, Zenon
    <3> QED BY <1>o, <2>1, <3>1, ServerKept, Zenon
  <2>6. EntriesInv' BY <1>o, <2>1, <2>2, <2>4, Zenon DEF EntriesInv
  <2> QED BY <2>5, <2>6, Zenon
<1>2. CASE QueueReady(t)
  <2>1. /\ doing[t].op = "receive" /\ doing[t].at = "ready" /\ queueSubs' = queueSubs \cup {doing[t].topic}
        /\ Goes(t, "get") /\ UNCHANGED <<subs, server>>
    BY <1>2, Zenon DEF QueueReady
  <2>2. doing[t] \in ActiveCalls BY <1>0, <2>1, Active, Zenon
  <2>3. doing'[t].op = "receive" /\ \A u \in Threads : u # t => doing'[u] = doing[u]
    BY <1>0, <2>1, <2>2, MovesTyped, Zenon
  <2>4. \A u \in Threads : \A e \in server : Holds(doing[u], e) =>
          Holds(doing'[u], e) \/ (e.id = Queue /\ e.topic \in queueSubs')
    BY <2>1, <2>3, Zenon DEF Holds
  <2>5. ServerInv' BY <1>o, <2>1, <2>4, ServerKept, Zenon
  <2>6. EntriesInv' BY <1>o, <2>1, <2>3, Zenon DEF EntriesInv
  <2> QED BY <2>5, <2>6
<1>3. CASE Finish(t)
  <2>1. /\ doing[t].at = "ready" /\ doing[t].op # "receive" /\ doing' = [doing EXCEPT ![t] = Idle]
        /\ subs' = IF doing[t].op = "subscribe" THEN subs \cup {EntryOf(doing[t])} ELSE subs
        /\ UNCHANGED <<server, queueSubs>>
    BY <1>3, Zenon DEF Finish, Ends
  <2>2. doing'[t].op = "idle" /\ \A u \in Threads : u # t => doing'[u] = doing[u]
    BY <1>0, <1>i, <2>1, Zenon
  <2>3. \A u \in Threads : \A e \in server : Holds(doing[u], e) => Holds(doing'[u], e) \/ e \in subs'
    BY <2>1, <2>2, Zenon DEF Holds
  <2>4. ServerInv' BY <1>o, <2>1, <2>3, ServerKept, Zenon
  <2>5. EntriesInv' BY <1>o, <2>1, <2>2 DEF EntriesInv
  <2> QED BY <2>4, <2>5
<1>4. CASE \E s \in subs : Unsubscribe(t, s)
  <2>1. PICK s \in subs : Unsubscribe(t, s) BY <1>4, Zenon
  <2> DEFINE c == [op |-> "unsubscribe", at |-> "checked", topic |-> s.topic, id |-> s.id]
  <2>2. /\ doing[t].op = "idle" /\ subs' = subs \ {s} /\ doing' = [doing EXCEPT ![t] = c]
        /\ UNCHANGED <<server, queueSubs>>
    BY <2>1, Zenon DEF Unsubscribe
  <2>3. c.op = "unsubscribe" /\ c.at = "checked" /\ EntryOf(c) = s
    BY <1>0, Zenon DEF EntryOf, NatsTypes
  <2> HIDE DEF c
  <2>4. doing'[t] = c /\ \A u \in Threads : u # t => doing'[u] = doing[u]
    BY <1>0, <2>2, Zenon
  <2>5. Holds(doing'[t], s) /\ \A e : ~Holds(doing[t], e)
    BY <2>2, <2>3, <2>4, Zenon DEF Holds
  <2>6. ServerInv'
    <3>1. ASSUME NEW e \in server
          PROVE  \/ e \in subs' \/ (e.id = Queue /\ e.topic \in queueSubs') \/ \E u \in Threads : Holds(doing'[u], e)
      BY <2>2, <2>4, <2>5, Zenon DEF ServerInv
    <3> QED BY <1>o, <2>2, <3>1, Zenon DEF ServerInv
  <2>7. EntriesInv' BY <1>o, <2>2, <2>3, <2>4 DEF EntriesInv
  <2> QED BY <2>6, <2>7, Zenon
<1> QED BY <1>1, <1>2, <1>3, <1>4, Zenon DEF Proceed

\* The steps of the event loop keep the server and the tables in agreement.
LEMMA ServerLoopStep ==
  ASSUME NatsBase, DrainInv, ServerInv, EntriesInv, IdsInv, Loop \/ Arrive \/ CloseDrain \/ CloseClear
  PROVE  ServerInv' /\ EntriesInv'
<1>0. NatsTypes /\ doing \in [Threads -> ActiveCalls \cup {Idle}]
  BY Zenon DEF NatsBase, NatsTypes
<1>i. Idle.op = "idle" BY Zenon DEF Idle
<1> DEFINE i == Head(loop)
           b == Head(loop).by
<1>a. ASSUME LoopSubscribe \/ LoopUnsubscribe \/ LoopSend
      PROVE  /\ b \in Threads /\ Awaits(doing[b], i) /\ doing[b] \in ActiveCalls
             /\ \A u \in Threads : u # b => doing'[u] = doing[u]
             /\ \/ doing'[b] = Idle
                \/ /\ doing'[b] \in ActiveCalls /\ doing'[b].at = "ready" /\ doing'[b].op = doing[b].op
                   /\ doing'[b].topic = doing[b].topic /\ doing'[b].id = doing[b].id
             /\ Answered => doing'[b].at = "ready"
             /\ UNCHANGED <<subs, queueSubs>> /\ (Open' <=> Open)
  <2>1. /\ loop # <<>> /\ Head(loop).kind \in Coroutines /\ loop' = Tail(loop)
        /\ Answered \/ Ends(Head(loop).by)
        /\ UNCHANGED <<subs, queueSubs, closing>>
    BY <1>a, Zenon DEF LoopSubscribe, LoopUnsubscribe, LoopSend, Runs, Coroutines
  <2>2. Open' <=> Open BY <2>1, Zenon DEF Open
  <2>3. b \in Threads /\ Awaits(doing[b], i) /\ doing[b] \in ActiveCalls
    BY <2>1, HeadAwaited, Zenon
  <2> QED BY <2>1, <2>2, <2>3, HeadAnswered, Zenon
<1> HIDE DEF b
<1>1. CASE LoopSubscribe
  <2>1. i.kind = "subscribe" BY <1>1, Zenon DEF LoopSubscribe, Runs
  <2>2. \A e : ~Holds(doing[b], e) BY <1>1, <1>a, <2>1, Zenon DEF Awaits, Holds
  <2>3. CASE Open
    <3>1. server' = server \cup {EntryOf(i)} /\ Answered
      BY <1>1, <2>3, Zenon DEF LoopSubscribe
    <3>2. /\ doing'[b].at = "ready" /\ doing'[b].op = doing[b].op
          /\ doing'[b].topic = doing[b].topic /\ doing'[b].id = doing[b].id
      BY <1>1, <1>a, <3>1 DEF Idle
    <3>3. EntryOf(i).id = i.id /\ EntryOf(i).topic = i.topic BY Zenon DEF EntryOf
    <3>4. doing[b].op = "receive" \/ (doing[b].op = "subscribe" /\ EntryOf(i) = EntryOf(doing'[b]))
      BY <1>1, <1>a, <2>1, <3>2, Zenon DEF Awaits, EntryOf
    <3>5. doing[b].op = "receive" => i.id = Queue /\ i.topic = doing'[b].topic
      BY <1>1, <1>a, <3>2, Zenon DEF Awaits
    <3>6. Holds(doing'[b], EntryOf(i)) BY <3>2, <3>3, <3>4, <3>5, Zenon DEF Holds
    <3>7. ASSUME NEW e \in server'
          PROVE  \/ e \in subs' \/ (e.id = Queue /\ e.topic \in queueSubs') \/ \E u \in Threads : Holds(doing'[u], e)
      <4>1. CASE e = EntryOf(i) BY <1>1, <1>a, <3>6, <4>1, Zenon
      <4>2. CASE e \in server BY <1>1, <1>a, <2>2, <4>2, Zenon DEF ServerInv
      <4> QED BY <3>1, <4>1, <4>2, Zenon
    <3>8. ServerInv' BY <1>1, <1>a, <2>3, <3>7, Zenon DEF ServerInv
    <3>9. EntriesInv'
      <4>1. subs' \subseteq server' BY <1>1, <1>a, <2>3, <3>1, Zenon DEF EntriesInv
      <4>2. ASSUME NEW u \in Threads, doing'[u].op = "subscribe", doing'[u].at = "ready"
            PROVE  EntryOf(doing'[u]) \in server'
        <5>1. CASE u = b BY <3>1, <3>2, <3>4, <4>2, <5>1, Zenon
        <5>2. CASE u # b BY <1>1, <1>a, <2>3, <3>1, <4>2, <5>2, Zenon DEF EntriesInv
        <5> QED BY <5>1, <5>2, Zenon
      <4> QED BY <4>1, <4>2, Zenon DEF EntriesInv
    <3> QED BY <3>8, <3>9, Zenon
  <2>4. CASE ~Open
    <3>1. server' = server BY <1>1, <2>4, Zenon DEF LoopSubscribe
    <3>2. server = {} BY <2>4, Zenon DEF ServerInv
    <3> QED BY <1>1, <1>a, <2>4, <3>1, <3>2, Zenon DEF ServerInv, EntriesInv
  <2> QED BY <2>3, <2>4, Zenon
<1>2. CASE LoopUnsubscribe
  <2>1. i.kind = "unsubscribe" /\ server' = server \ {EntryOf(i)}
    BY <1>2, Zenon DEF LoopUnsubscribe, Runs
  <2>2. doing[b].op = "unsubscribe" /\ EntryOf(i) = EntryOf(doing[b]) /\ EntryOf(i).id = doing[b].id
    BY <1>2, <1>a, <2>1, Zenon DEF Awaits, EntryOf
  <2>3. \A e \in server' : ~Holds(doing[b], e) BY <2>1, <2>2, Zenon DEF Holds
  <2>4. ASSUME NEW e \in server'
        PROVE  \/ e \in subs' \/ (e.id = Queue /\ e.topic \in queueSubs') \/ \E u \in Threads : Holds(doing'[u], e)
    BY <1>2, <1>a, <2>1, <2>3, Zenon DEF ServerInv
  <2>5. ~Open => server' = {} BY <2>1, Zenon DEF ServerInv
  <2>6. ServerInv' BY <1>2, <1>a, <2>4, <2>5, Zenon DEF ServerInv
  <2>7. EntriesInv'
    <3>1. SUFFICES ASSUME Open PROVE EntriesInv' BY <1>2, <1>a, Zenon DEF EntriesInv
    <3>2. EntryOf(i) \notin subs BY <1>2, <1>a, <2>2, Zenon DEF IdsInv
    <3>3. ASSUME NEW u \in Threads, doing'[u].op = "subscribe", doing'[u].at = "ready"
          PROVE  EntryOf(doing'[u]) \in server'
      <4>1. u # b BY <1>2, <1>a, <1>i, <2>2, <3>3, Zenon
      <4>2. doing'[u] = doing[u] /\ doing[u].id # doing[b].id
        BY <1>2, <1>a, <2>2, <3>3, <4>1, Zenon DEF IdsInv
      <4>3. EntryOf(doing[u]).id = doing[u].id BY Zenon DEF EntryOf
      <4> QED BY <2>1, <2>2, <3>1, <3>3, <4>2, <4>3, Zenon DEF EntriesInv
    <3> QED BY <1>2, <1>a, <2>1, <3>1, <3>2, <3>3, Zenon DEF EntriesInv
  <2> QED BY <2>6, <2>7
<1>3. CASE LoopSend
  <2>1. doing[b].op = "send" /\ server' = server
    BY <1>3, SendEffect, Zenon DEF LoopSend, b
  <2>2. \A e : ~Holds(doing[b], e) BY <2>1 DEF Holds
  <2>3. \A u \in Threads : \A e \in server : Holds(doing[u], e) => Holds(doing'[u], e)
    BY <1>3, <1>a, <2>2
  <2>4. ServerInv' BY <1>3, <1>a, <2>1, <2>3, ServerKept, Zenon
  <2>5. doing'[b].op # "subscribe" BY <1>3, <1>a, <1>i, <2>1, Zenon
  <2>6. EntriesInv' BY <1>3, <1>a, <2>1, <2>5, Zenon DEF EntriesInv
  <2> QED BY <2>4, <2>6
<1>4. CASE LoopDispatch \/ LoopStop \/ Arrive \/ CloseDrain
  <2>1. UNCHANGED <<doing, subs, queueSubs, server>>
    BY <1>4, Zenon DEF LoopDispatch, LoopStop, Arrive, CloseDrain
  <2>2. Open' <=> Open
    BY <1>4, Zenon DEF LoopDispatch, LoopStop, Arrive, CloseDrain, Open
  <2> QED BY <2>1, <2>2, Zenon DEF ServerInv, EntriesInv
<1>5. CASE LoopDrain
  <2>1. server' = {} /\ ~Open' BY <1>5, Zenon DEF LoopDrain, Open
  <2> QED BY <2>1, Zenon DEF ServerInv, EntriesInv
<1>6. CASE LoopDrained \/ CloseClear
  <2>1. server' = server /\ ~Open' BY <1>6 DEF LoopDrained, CloseClear, Open
  <2>2. ~Open
    <3>1. CASE LoopDrained
      <4>1. loop \in Seq(Items) /\ loop # <<>> /\ Head(loop).kind = "drained"
        BY <1>0, <3>1 DEF LoopDrained, Runs, NatsTypes
      <4>2. 1 \in DOMAIN loop /\ Head(loop) = loop[1] BY <4>1
      <4> QED BY <4>1, <4>2, Zenon DEF DrainInv
    <3>2. CASE CloseClear BY <3>2 DEF CloseClear, Open
    <3> QED BY <1>6, <3>1, <3>2, Zenon
  <2>3. server = {} BY <2>2, Zenon DEF ServerInv
  <2> QED BY <2>1, <2>3, Zenon DEF ServerInv, EntriesInv
<1> QED BY <1>1, <1>2, <1>3, <1>4, <1>5, <1>6, Zenon DEF Loop

\* No step loses a copy, but the dispatch of that copy.
LEMMA CopiesKept ==
  ASSUME NatsBase, NatsNext, NEW m, NEW x, Copied(m, x)
  PROVE  Copied(m, x)' \/ (LoopDispatch /\ Head(loop).id = m /\ Head(loop).topic = x)
<1>0. loop \in Seq(Items) /\ wire \in Seq(Copies) BY Zenon DEF NatsBase, NatsTypes
<1>a. ASSUME wire' = wire,
             \A j \in DOMAIN loop : loop[j].kind = "message" => \E k \in DOMAIN loop' : loop'[k] = loop[j]
      PROVE  Copied(m, x)'
  BY <1>a, Zenon DEF Copied
<1>b. ASSUME NEW i, loop' = Append(loop, i)
      PROVE  i = loop'[Len(loop) + 1] /\ Len(loop) + 1 \in DOMAIN loop'
             /\ \A j \in DOMAIN loop : j \in DOMAIN loop' /\ loop'[j] = loop[j]
  BY <1>0, <1>b
<1>c. ASSUME loop # <<>>, loop' = Tail(loop), NEW j \in DOMAIN loop, j # 1
      PROVE  \E k \in DOMAIN loop' : loop'[k] = loop[j]
  <2>1. j - 1 \in DOMAIN loop' /\ loop'[j - 1] = loop[j] BY <1>0, <1>c
  <2> QED BY <2>1, Zenon
<1>h. loop # <<>> => 1 \in DOMAIN loop /\ Head(loop) = loop[1] BY <1>0
<1>1. CASE \E t \in Threads : Check(t) \/ Proceed(t) \/ \E s \in subs : Unsubscribe(t, s)
  <2>1. PICK t \in Threads : Check(t) \/ Proceed(t) \/ \E s \in subs : Unsubscribe(t, s)
    BY <1>1, Zenon
  <2>2. wire' = wire
    BY <2>1, Zenon DEF Check, Proceed, Submit, Finish, EnsureQueue, QueueReady, Get, Unsubscribe
  <2>3. loop' = loop \/ \E i : loop' = Append(loop, i)
    BY <2>1, Zenon DEF Check, Proceed, Submit, Finish, EnsureQueue, QueueReady, Get, Unsubscribe
  <2> QED BY <1>a, <1>b, <2>2, <2>3, Zenon
<1>2. CASE LoopSubscribe \/ LoopUnsubscribe \/ LoopDrained \/ LoopStop
  <2>1. wire' = wire /\ loop' = Tail(loop) /\ loop # <<>> /\ Head(loop).kind # "message"
    BY <1>2, Zenon DEF LoopSubscribe, LoopUnsubscribe, LoopDrained, LoopStop, Runs
  <2> QED BY <1>a, <1>c, <1>h, <2>1, Zenon
<1>3. CASE LoopSend
  <2>1. loop' = Tail(loop) /\ loop # <<>> /\ Head(loop).kind # "message"
    BY <1>3, Zenon DEF LoopSend, Runs
  <2>2. \A j \in DOMAIN wire : j \in DOMAIN wire' /\ wire'[j] = wire[j]
    <3>1. CASE wire' = wire BY <3>1, Zenon
    <3>2. CASE wire' # wire
      <4>1. PICK n \in Nat : wire' = wire \o CopiesOf(Head(loop), n)
        BY <1>3, <3>2, SendEffect, Zenon
      <4>2. CopiesOf(Head(loop), n) \in Seq({Item("message", None, Head(loop).id, Head(loop).topic)})
        BY DEF CopiesOf
      <4> QED BY <1>0, <4>1, <4>2
    <3> QED BY <3>1, <3>2, Zenon
  <2> QED BY <1>c, <1>h, <2>1, <2>2 DEF Copied
<1>4. CASE LoopDispatch
  <2>1. wire' = wire /\ loop' = Tail(loop) /\ loop # <<>>
    BY <1>4, Zenon DEF LoopDispatch, Runs
  <2> QED BY <1>4, <1>c, <1>h, <2>1 DEF Copied
<1>5. CASE LoopDrain
  <2>1. /\ \A j \in DOMAIN loop : j = 1 \/ (j - 1 \in DOMAIN loop' /\ loop'[j - 1] = loop[j])
        /\ \A j \in DOMAIN wire : \E k \in DOMAIN loop' : loop'[k] = wire[j]
    BY <1>5, DrainEffect, Zenon
  <2>2. loop # <<>> /\ Head(loop).kind # "message" BY <1>5, Zenon DEF LoopDrain, Runs
  <2>3. \A j \in DOMAIN wire : wire[j].kind = "message"
    <3>1. \A j \in DOMAIN wire : wire[j] \in Copies BY <1>0
    <3> QED BY <3>1, Zenon DEF Copies
  <2>4. \A j \in DOMAIN loop : loop[j].kind = "message" => \E k \in DOMAIN loop' : loop'[k] = loop[j]
    BY <1>h, <2>1, <2>2, Zenon
  <2> QED BY <2>1, <2>3, <2>4 DEF Copied
<1>6. CASE Arrive
  <2>1. wire # <<>> /\ loop' = Append(loop, Head(wire)) /\ wire' = Tail(wire)
    BY <1>6, Zenon DEF Arrive
  <2>2. \A j \in DOMAIN wire : wire[j] = Head(wire) \/ (j - 1 \in DOMAIN wire' /\ wire'[j - 1] = wire[j])
    BY <1>0, <2>1
  <2>3. Head(wire).kind = "message"
    <3>1. Head(wire) \in Copies BY <1>0, <2>1
    <3> QED BY <3>1, Zenon DEF Copies
  <2>4. \A j \in DOMAIN wire : \/ \E k \in DOMAIN wire' : wire'[k] = wire[j]
                               \/ wire[j].kind = "message" /\ \E k \in DOMAIN loop' : loop'[k] = wire[j]
    BY <1>b, <2>1, <2>2, <2>3, Zenon
  <2>5. \A j \in DOMAIN loop : \E k \in DOMAIN loop' : loop'[k] = loop[j] BY <1>b, <2>1
  <2> QED BY <2>4, <2>5 DEF Copied
<1>7. CASE CloseDrain \/ CloseClear
  <2>1. wire' = wire /\ \E i : loop' = Append(loop, i)
    BY <1>7, Zenon DEF CloseDrain, CloseClear
  <2> QED BY <1>a, <1>b, <2>1
<1> QED BY <1>1, <1>2, <1>3, <1>4, <1>5, <1>6, <1>7, Zenon DEF NatsNext, Loop

\* A message published while s is subscribed has a copy.
LEMMA SentIsCopied ==
  ASSUME NatsBase, IdsInv, EntriesInv, LoopSend, due' # due, NEW s \in subs,
         NEW m, m = Head(loop).id, s.id \in due'[m]
  PROVE  Copied(m, s.topic)'
<1> DEFINE i == Head(loop)
           ids == IF running THEN {e.id : e \in {r \in subs : r.topic = i.topic}} ELSE {}
           S == {e \in server : e.topic = i.topic}
<1>0. NatsTypes BY Zenon DEF NatsBase
<1>1. PICK n \in Nat : n = Cardinality(S) /\ wire' = wire \o CopiesOf(i, n) /\ due' = [due EXCEPT ![i.id] = ids]
                       /\ Open /\ i.id \in Ids
  BY SendEffect, Zenon
<1>2. due'[i.id] = ids BY <1>0, <1>1 DEF NatsTypes
<1>3. PICK r \in subs : r.topic = i.topic /\ r.id = s.id BY <1>2
<1>4. r = s BY <1>3, Zenon DEF IdsInv
<1>5. s \in S BY <1>1, <1>3, <1>4, Zenon DEF EntriesInv
<1>6. n # 0
  <2>1. IsFiniteSet(S) BY <1>0, FS_Subset DEF NatsTypes
  <2>2. S # {} BY <1>5
  <2> QED BY <1>1, <2>1, <2>2, FS_EmptySet, Zenon
<1>7. CopiesOf(i, n) \in Seq({Item("message", None, i.id, i.topic)}) /\ Len(CopiesOf(i, n)) = n
      /\ CopiesOf(i, n)[1] = Item("message", None, i.id, i.topic)
  BY <1>1, <1>6 DEF CopiesOf
<1>8. /\ Len(wire) + 1 \in DOMAIN wire' /\ wire'[Len(wire) + 1] = Item("message", None, i.id, i.topic)
  <2>1. wire \in Seq(Copies) BY <1>0, Zenon DEF NatsTypes
  <2> HIDE DEF i
  <2> QED BY <1>1, <1>6, <1>7, <2>1
<1>9. Item("message", None, i.id, i.topic).id = m /\ Item("message", None, i.id, i.topic).topic = s.topic
  BY <1>3, <1>4, Zenon DEF Item
<1> QED BY <1>8, <1>9, Zenon DEF Copied

\* Every step keeps a copy for the callbacks still to be called.
LEMMA OwedStep ==
  ASSUME NatsBase, NatsBase', IdsInv, DueInv, EntriesInv, OwedInv, NatsNext
  PROVE  OwedInv'
<1>0. NatsTypes /\ NatsTypes' BY Zenon DEF NatsBase
<1> SUFFICES ASSUME NEW m \in Ids, NEW s \in subs', s.id \in due'[m]
             PROVE  calls'[m][s.id] >= 1 \/ Copied(m, s.topic)'
  BY Zenon DEF OwedInv
<1>1. CASE LoopSend /\ due' # due /\ m = Head(loop).id
  <2>1. s \in subs BY <1>1, Zenon DEF LoopSend
  <2> QED BY <1>1, <2>1, SentIsCopied, Zenon
<1>2. CASE ~(LoopSend /\ due' # due /\ m = Head(loop).id)
  <2>1. due'[m] = due[m]
    <3>1. CASE due' = due BY <3>1, Zenon
    <3>2. CASE LoopSend /\ due' # due
      <4>1. Head(loop).id \in Ids /\ \E ids : due' = [due EXCEPT ![Head(loop).id] = ids]
        BY <3>2, SendEffect, Zenon
      <4> QED BY <1>0, <1>2, <3>2, <4>1, Zenon DEF NatsTypes
    <3>3. due' = due \/ LoopSend
      BY Zenon DEF NatsNext, Loop, LoopSubscribe, LoopUnsubscribe, LoopDispatch, LoopDrain, LoopDrained, LoopStop,
             Arrive, CloseDrain, CloseClear, Check, Proceed, Submit, Finish, EnsureQueue, QueueReady, Get, Unsubscribe
    <3> QED BY <3>1, <3>2, <3>3, Zenon
  <2>2. s \in subs
    <3>1. CASE \E t \in Threads : Finish(t)
      <4>1. PICK t \in Threads : Finish(t) BY <3>1, Zenon
      <4>2. s \in subs \/ (doing[t].op = "subscribe" /\ s = EntryOf(doing[t]))
        BY <4>1, Zenon DEF Finish
      <4>3. doing[t].op = "subscribe" => EntryOf(doing[t]).id \notin due[m]
        BY Zenon DEF DueInv, EntryOf
      <4> QED BY <2>1, <4>2, <4>3, Zenon
    <3>2. CASE ~\E t \in Threads : Finish(t)
      BY <3>2, Zenon DEF NatsNext, Loop, LoopSubscribe, LoopUnsubscribe, LoopSend, LoopDispatch, LoopDrain, LoopDrained, LoopStop,
             Arrive, CloseDrain, CloseClear, Check, Proceed, Submit, EnsureQueue, QueueReady, Get, Unsubscribe
    <3> QED BY <3>1, <3>2, Zenon
  <2>3. s.id \in Ids /\ s.topic \in Topics BY <1>0, <2>2, Zenon DEF NatsTypes
  <2>4. calls[m][s.id] >= 1 \/ Copied(m, s.topic) BY <2>1, <2>2, Zenon DEF OwedInv
  <2>5. calls'[m][s.id] >= calls[m][s.id]
    <3>1. calls[m][s.id] \in Nat BY <1>0, <2>3 DEF NatsTypes
    <3>2. CASE LoopDispatch BY <2>3, <3>2, DispatchEffect, Zenon
    <3>3. CASE ~LoopDispatch
      <4>1. calls' = calls
        BY <3>3, Zenon DEF NatsNext, Loop, LoopSubscribe, LoopUnsubscribe, LoopSend, LoopDrain, LoopDrained, LoopStop,
             Arrive, CloseDrain, CloseClear, Check, Proceed, Submit, Finish, EnsureQueue, QueueReady, Get, Unsubscribe
      <4> QED BY <3>1, <4>1
    <3> QED BY <3>2, <3>3, Zenon
  <2>6. CASE calls[m][s.id] >= 1
    <3>1. calls[m][s.id] \in Nat /\ calls'[m][s.id] \in Nat
      BY <1>0, <2>3, Zenon DEF NatsTypes
    <3> QED BY <2>5, <2>6, <3>1
  <2>7. CASE Copied(m, s.topic)
    <3>1. Copied(m, s.topic)' \/ (LoopDispatch /\ Head(loop).id = m /\ Head(loop).topic = s.topic)
      BY <2>7, CopiesKept, Zenon
    <3>2. CASE LoopDispatch /\ Head(loop).id = m /\ Head(loop).topic = s.topic
      BY <2>2, <3>2, DispatchEffect, Zenon
    <3> QED BY <3>1, <3>2, Zenon
  <2> QED BY <2>4, <2>6, <2>7, Zenon
<1> QED BY <1>1, <1>2, Zenon

\* Every step keeps the inductive invariant.
LEMMA NatsStep == NatsInv /\ [NatsNext]_natsVars => NatsInv'
<1> SUFFICES ASSUME NatsInv, [NatsNext]_natsVars PROVE NatsInv' BY Zenon
<1>1. CASE NatsNext
  <2>1. \/ \E t \in Threads : Check(t) \/ Proceed(t) \/ \E s \in subs : Unsubscribe(t, s)
        \/ Loop \/ Arrive \/ CloseDrain \/ CloseClear
    BY <1>1, Zenon DEF NatsNext
  <2>2. NatsBase' BY <2>1, NatsCallStep, NatsLoopStep, Zenon DEF NatsInv
  <2>3. IdsInv' /\ DueInv' BY <2>1, IdsCallStep, IdsLoopStep, Zenon DEF NatsInv
  <2>4. ServerInv' /\ EntriesInv'
    BY <2>1, ServerCallStep, ServerLoopStep, Zenon DEF NatsInv
  <2>5. DrainInv' BY <1>1, DrainStep, Zenon DEF NatsInv
  <2>6. OwedInv' BY <1>1, <2>2, OwedStep, Zenon DEF NatsInv
  <2> QED BY <2>2, <2>3, <2>4, <2>5, <2>6, Zenon DEF NatsInv
<1>2. CASE UNCHANGED natsVars
  <2>1. NatsBase' BY <1>2, Zenon DEF natsVars, NatsInv, NatsBase, NatsTypes, LoopInv
  <2>2. IdsInv' /\ DueInv' BY <1>2, Zenon DEF natsVars, NatsInv, IdsInv, DueInv
  <2>3. ServerInv' /\ EntriesInv' /\ DrainInv'
    BY <1>2, Zenon DEF natsVars, NatsInv, ServerInv, EntriesInv, DrainInv, Open
  <2>4. OwedInv' BY <1>2 DEF natsVars, NatsInv, OwedInv, Copied
  <2> QED BY <2>1, <2>2, <2>3, <2>4, Zenon DEF NatsInv
<1> QED BY <1>1, <1>2, Zenon

\* Initially nothing is on the loop and nobody is in a call.
LEMMA NatsBaseInit == NatsInit => NatsBase
<1> SUFFICES ASSUME NatsInit PROVE NatsBase OBVIOUS
<1> USE NatsAssumption DEF NatsInit
<1>1. /\ loop \in Seq(Items) /\ wire \in Seq(Copies) /\ ops \in 0..MaxOps
      /\ subs \subseteq [id : Ids, topic : Topics]
      /\ server \subseteq [id : Nat \cup {Queue}, topic : Topics]
  OBVIOUS
<1>2. IsFiniteSet(server) BY FS_EmptySet
<1>3. doing \in [Threads -> ActiveCalls \cup {Idle}] OBVIOUS
<1>4. calls \in [Ids -> [Ids -> Nat]] /\ due \in [Ids -> SUBSET Ids] OBVIOUS
<1> QED BY <1>1, <1>2, <1>3, <1>4 DEF NatsBase, NatsTypes, LoopInv

\* The initial states satisfy it.
LEMMA NatsStart == NatsInit => NatsInv
<1> SUFFICES ASSUME NatsInit PROVE NatsInv OBVIOUS
<1>1. NatsBase BY NatsBaseInit, Zenon
<1>2. subs = {} /\ server = {} /\ loop = <<>> /\ (\A t \in Threads : doing[t].op = "idle") /\ \A m \in Ids : due[m] = {}
  BY DEF NatsInit, Idle
<1> QED
  BY <1>1, <1>2 DEF NatsInv, IdsInv, DueInv, DrainInv, ServerInv, EntriesInv, OwedInv, Open, NatsInit

\* NatsTransport forgets no subscription at the server: each belongs to an entry
\* of its tables or to a call that is still to enter or to remove it.
THEOREM NoServerSubscriptionForgotten == NatsSpec => []ServerAccounted
<1>1. NatsInv => ServerAccounted
  BY DEF NatsInv, ServerInv, ServerAccounted, Holds, EntryOf
<1> QED BY <1>1, NatsStart, NatsStep, PTL DEF NatsSpec

\* Every callback subscribed when a message was published is called once the
\* copies are dispatched, whatever else subscribes, unsubscribes and closes.
THEOREM EveryCallbackCalled == NatsSpec => []NoMissedCall
<1>1. NatsInv => NoMissedCall
  <2>1. SUFFICES ASSUME NatsInv, wire = <<>>, \A k \in DOMAIN loop : loop[k].kind # "message",
                        NEW m \in Ids, NEW s \in subs, s.id \in due[m]
                 PROVE  calls[m][s.id] >= 1
    BY DEF NoMissedCall
  <2>2. ~Copied(m, s.topic) BY <2>1 DEF Copied
  <2> QED BY <2>1, <2>2, Zenon DEF NatsInv, OwedInv
<1> QED BY <1>1, NatsStart, NatsStep, PTL DEF NatsSpec
=============================================================================
