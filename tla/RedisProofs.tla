---------------------------- MODULE RedisProofs ----------------------------
(***************************************************************************)
(* The reference counts of RedisTransport, for any topics, patterns,       *)
(* threads and calls: the server has exactly the patterns with a positive  *)
(* count, and a count is the number of users of its pattern, so that every *)
(* topic of receive() is subscribed, also when a PSUBSCRIBE raises; and    *)
(* every callback is called for the messages that were due to it.          *)
(***************************************************************************)
EXTENDS Redis, TLAPS

Call == [op : Calls, topic : Topics \cup {None}, id : Nat, replied : BOOLEAN]

\* A thread inside a call has a topic and an id that was drawn.
CallsOK == \A t \in Threads : pc[t].op # "idle" => pc[t].topic \in Topics /\ pc[t].id \in 1..ops

BaseInv == TypeOK /\ CallsOK

\* What _topic_to_pattern gives is one of the patterns.
LEMMA PatternType == \A x \in Topics : PatternOf[x] \in Patterns
  BY DEF Patterns

\* Threads other than t stay where they are; t is idle or in the same call.
LEMMA CallContinues ==
  ASSUME BaseInv, NEW t \in Threads, ops' = ops,
         \/ pc' = [pc EXCEPT ![t] = Idle]
         \/ \E op \in Calls : pc[t].op # "idle" /\ pc' = [pc EXCEPT ![t].op = op]
         \/ pc[t].op # "idle" /\ pc' = [pc EXCEPT ![t].replied = TRUE]
  PROVE  pc' \in [Threads -> Call] /\ CallsOK'
<1>1. pc \in [Threads -> Call] /\ Idle \in Call
  BY DEF BaseInv, TypeOK, Call, Idle, Calls
<1>2. \E v \in Call : /\ pc' = [pc EXCEPT ![t] = v]
                      /\ v.op = "idle" \/ (pc[t].op # "idle" /\ v.topic = pc[t].topic /\ v.id = pc[t].id)
  <2>1. CASE pc' = [pc EXCEPT ![t] = Idle]
    BY <1>1, <2>1, Zenon DEF Idle
  <2>2. CASE \E op \in Calls : pc[t].op # "idle" /\ pc' = [pc EXCEPT ![t].op = op]
    <3>1. PICK op \in Calls : pc[t].op # "idle" /\ pc' = [pc EXCEPT ![t].op = op]
      BY <2>2, Zenon
    <3>2. [pc[t] EXCEPT !.op = op] \in Call
      BY <1>1, <3>1, Zenon DEF Call
    <3>3. [pc[t] EXCEPT !.op = op].topic = pc[t].topic /\ [pc[t] EXCEPT !.op = op].id = pc[t].id
      BY <1>1 DEF Call
    <3> QED
      BY <3>1, <3>2, <3>3, Zenon
  <2>3. CASE pc[t].op # "idle" /\ pc' = [pc EXCEPT ![t].replied = TRUE]
    <3>1. [pc[t] EXCEPT !.replied = TRUE] \in Call
      BY <1>1, Zenon DEF Call
    <3>2. /\ [pc[t] EXCEPT !.replied = TRUE].topic = pc[t].topic
          /\ [pc[t] EXCEPT !.replied = TRUE].id = pc[t].id
      BY <1>1 DEF Call
    <3> QED
      BY <2>3, <3>1, <3>2, Zenon
  <2> QED
    BY <2>1, <2>2, <2>3
<1>3. PICK v \in Call : /\ pc' = [pc EXCEPT ![t] = v]
                        /\ v.op = "idle" \/ (pc[t].op # "idle" /\ v.topic = pc[t].topic /\ v.id = pc[t].id)
  BY <1>2, Zenon
<1> HIDE DEF Call
<1>4. pc' \in [Threads -> Call]
  BY <1>1, <1>3
<1>5. CallsOK'
  BY <1>1, <1>3 DEF BaseInv, CallsOK
<1> QED
  BY <1>4, <1>5

\* The counts and the server's patterns after a reference was added or dropped.
LEMMA CountsType ==
  ASSUME BaseInv, NEW p \in Patterns, Psubscribe(p) \/ Punsubscribe(p)
  PROVE  refs' \in [Patterns -> Nat] /\ broker' \cup kept' \subseteq Patterns
  BY DEF BaseInv, TypeOK, Psubscribe, Punsubscribe

\* Types are preserved.
LEMMA BaseStep ==
  ASSUME BaseInv, Next
  PROVE  BaseInv'
<1> USE PatternType
<1>0. /\ TypeOK /\ CallsOK /\ MaxOps \in Nat /\ pc \in [Threads -> Call]
  BY RedisAssumption DEF BaseInv, TypeOK, Call
<1>1. CASE Send \/ Listen
  <2>1. /\ UNCHANGED <<running, tables, refs, broker, kept, pc, closing>>
        /\ ops' = ops \/ (ops' = ops + 1 /\ ops < MaxOps)
    BY <1>1 DEF Send, Listen
  <2> QED
    BY <1>0, <2>1 DEF BaseInv, TypeOK, CallsOK, tables
<1>2. ASSUME NEW t \in Threads, Check(t) PROVE BaseInv'
  <2>1. PICK op \in Ops, x \in Topics :
          pc' = [pc EXCEPT ![t] = [op |-> op, topic |-> x, id |-> ops + 1, replied |-> FALSE]]
    BY <1>2, Zenon DEF Check
  <2>2. /\ UNCHANGED <<running, tables, refs, broker, kept, closing>>
        /\ ops' = ops + 1 /\ ops < MaxOps /\ ops \in Nat
    BY <1>0, <1>2 DEF Check, TypeOK
  <2>3. [op |-> op, topic |-> x, id |-> ops + 1, replied |-> FALSE] \in Call
    <3>1. op \in Calls
      BY RedisAssumption DEF Calls
    <3> QED
      BY <2>2, <3>1 DEF Call
  <2>4. pc' \in [Threads -> Call]
    BY <1>0, <2>1, <2>3
  <2>5. CallsOK'
    BY <1>0, <2>1, <2>2 DEF CallsOK
  <2> QED
    BY <1>0, <2>2, <2>4, <2>5 DEF BaseInv, TypeOK, Call, tables
<1>3. ASSUME NEW t \in Threads, Subscribe(t) PROVE BaseInv'
  <2>1. pc[t].op = "subscribe" /\ pc[t].topic \in Topics /\ pc[t].id \in 1..ops
    BY <1>0, <1>3 DEF Subscribe, CallsOK
  <2>2. pc' \in [Threads -> Call] /\ CallsOK'
    BY <1>3, CallContinues, Zenon DEF Subscribe
  <2>3. refs' \in [Patterns -> Nat] /\ broker' \cup kept' \subseteq Patterns
    BY <1>3, <2>1, CountsType DEF Subscribe
  <2>4. Entry(t) \in [id : Ids, topic : Topics]
    BY <1>0, <2>1 DEF Entry, Ids, TypeOK
  <2> QED
    BY <1>0, <1>3, <2>2, <2>3, <2>4 DEF BaseInv, TypeOK, Subscribe, Call
<1>4. ASSUME NEW t \in Threads, EnsureQueue(t) PROVE BaseInv'
  <2>1. pc[t].op # "idle" /\ pc[t].topic \in Topics
    BY <1>0, <1>4 DEF EnsureQueue, CallsOK
  <2>2. PICK op \in Calls : pc' = [pc EXCEPT ![t].op = op]
    BY <1>4 DEF EnsureQueue, Calls
  <2>3. pc' \in [Threads -> Call] /\ CallsOK'
    BY <1>4, <2>1, <2>2, CallContinues DEF EnsureQueue
  <2>4. refs' \in [Patterns -> Nat] /\ broker' \cup kept' \subseteq Patterns /\ queued' \subseteq Topics
    BY <1>0, <1>4, <2>1, CountsType DEF EnsureQueue, TypeOK
  <2> QED
    BY <1>0, <1>4, <2>3, <2>4 DEF BaseInv, TypeOK, EnsureQueue, Call
<1>5. ASSUME NEW t \in Threads, PsubscribeRaises(t) PROVE BaseInv'
  <2>1. pc[t].topic \in Topics /\ pc[t].id \in 1..ops
    BY <1>0, <1>5 DEF PsubscribeRaises, CallsOK
  <2>2. pc' \in [Threads -> Call] /\ CallsOK'
    BY <1>5, CallContinues, Zenon DEF PsubscribeRaises
  <2>3. Entry(t) \in [id : Ids, topic : Topics]
    BY <1>0, <2>1 DEF Entry, Ids, TypeOK
  <2> QED
    BY <1>0, <1>5, <2>1, <2>2, <2>3 DEF BaseInv, TypeOK, PsubscribeRaises, Call
<1>6. ASSUME NEW t \in Threads, Get(t) \/ Reply(t) PROVE BaseInv'
  <2>1. pc' \in [Threads -> Call] /\ CallsOK'
    BY <1>6, CallContinues DEF Get, Reply
  <2> QED
    BY <1>0, <1>6, <2>1 DEF BaseInv, TypeOK, Get, Reply, Call, tables
<1>7. ASSUME NEW s \in subs, Unsubscribe(s) PROVE BaseInv'
  <2>1. s.topic \in Topics
    BY <1>0 DEF TypeOK
  <2>2. refs' \in [Patterns -> Nat] /\ broker' \cup kept' \subseteq Patterns
    BY <1>7, <2>1, CountsType DEF Unsubscribe
  <2> QED
    BY <1>0, <1>7, <2>2 DEF BaseInv, TypeOK, CallsOK, Unsubscribe
<1>8. CASE Close
  <2>1. UNCHANGED <<pc, ops, kept>> /\ (UNCHANGED tables \/ (subs' \cup strays' = {} /\ queued' \cup failed' = {}))
    BY <1>8 DEF Close, CloseFlag, CloseClear, CloseConnection
  <2>2. /\ refs' = refs \/ refs' = [p \in Patterns |-> 0]
        /\ broker' = broker \/ broker' = {}
        /\ running' = running \/ running' = FALSE
        /\ closing' \in {"flag", "clear", "done"}
    BY <1>8 DEF Close, CloseFlag, CloseClear, CloseConnection
  <2>3. refs' \in [Patterns -> Nat]
    BY <1>0, <2>2 DEF TypeOK
  <2> QED
    BY <1>0, <2>1, <2>2, <2>3, Zenon DEF BaseInv, TypeOK, CallsOK, tables
<1> QED
  BY <1>1, <1>2, <1>3, <1>4, <1>5, <1>6, <1>7, <1>8 DEF Next

\* Types hold in every reachable state.
THEOREM BaseInvariant == Spec => []BaseInv
<1>1. Init => BaseInv
  BY RedisAssumption DEF Init, BaseInv, TypeOK, CallsOK, Idle, Calls
<1>2. BaseInv /\ [Next]_vars => BaseInv'
  <2> SUFFICES ASSUME BaseInv, [Next]_vars PROVE BaseInv'
    OBVIOUS
  <2>1. CASE UNCHANGED vars
    BY <2>1 DEF vars, BaseInv, TypeOK, CallsOK
  <2> QED
    BY <2>1, BaseStep
<1> QED
  BY <1>1, <1>2, PTL DEF Spec

-----------------------------------------------------------------------------
(* The server *)

\* The server and the reference counts change together, in every step.
LEMMA ServerStep ==
  ASSUME BaseInv, BrokerHasPatterns, Next
  PROVE  BrokerHasPatterns'
<1>0. TypeOK /\ CallsOK /\ refs \in [Patterns -> Nat]
  BY DEF BaseInv, TypeOK
<1>1. ASSUME NEW p \in Patterns, Psubscribe(p), UNCHANGED closing PROVE BrokerHasPatterns'
  BY <1>0, <1>1 DEF BrokerHasPatterns, Psubscribe
<1>2. ASSUME NEW p \in Patterns, Punsubscribe(p), UNCHANGED closing PROVE BrokerHasPatterns'
  <2>1. \A q \in Patterns : refs'[q] > 0 <=> refs[q] > 0 /\ (q # p \/ refs[p] # 1)
    BY <1>0, <1>2, SMT DEF Punsubscribe
  <2>2. \/ refs[p] = 1 /\ broker' = broker \ {p} /\ kept' = kept \ {p}
        \/ refs[p] = 1 /\ broker' = broker /\ kept' = kept \cup {p}
        \/ refs[p] # 1 /\ broker' = broker /\ kept' = kept
    BY <1>2, Zenon DEF Punsubscribe
  <2>3. refs[p] = 1 => refs[p] > 0
    BY <1>0
  <2> QED
    BY <1>0, <1>2, <2>1, <2>2, <2>3, Zenon DEF BrokerHasPatterns
<1>3. CASE UNCHANGED <<refs, broker, kept, closing>>
  BY <1>3 DEF BrokerHasPatterns
<1>4. ASSUME NEW t \in Threads, Subscribe(t) PROVE BrokerHasPatterns'
  <2>1. PatternOf[pc[t].topic] \in Patterns
    BY <1>0, <1>4, PatternType DEF Subscribe, CallsOK
  <2> QED
    BY <1>1, <1>4, <2>1 DEF Subscribe
<1>5. ASSUME NEW t \in Threads, EnsureQueue(t) PROVE BrokerHasPatterns'
  <2>1. PatternOf[pc[t].topic] \in Patterns
    BY <1>0, <1>5, PatternType DEF EnsureQueue, CallsOK
  <2> QED
    BY <1>1, <1>3, <1>5, <2>1 DEF EnsureQueue
<1>6. ASSUME NEW s \in subs, Unsubscribe(s) PROVE BrokerHasPatterns'
  <2>1. PatternOf[s.topic] \in Patterns
    BY <1>0, PatternType DEF TypeOK
  <2> QED
    BY <1>2, <1>6, <2>1 DEF Unsubscribe
<1>7. CASE Close
  BY <1>7 DEF Close, CloseFlag, CloseClear, CloseConnection, BrokerHasPatterns
<1>8. \/ UNCHANGED <<refs, broker, kept, closing>> \/ Close
      \/ \E t \in Threads : Subscribe(t) \/ EnsureQueue(t)
      \/ \E s \in subs : Unsubscribe(s)
  BY Zenon DEF Next, Send, Listen, Check, PsubscribeRaises, Get, Reply
<1> QED
  BY <1>3, <1>4, <1>5, <1>6, <1>7, <1>8

\* Until close() the server has every pattern with a positive count, also when
\* PSUBSCRIBE raises or the exception of a PUNSUBSCRIBE was swallowed, and the
\* others it has are those of the lost PUNSUBSCRIBEs (_psubscribe and
\* _punsubscribe).
THEOREM ServerHasPatterns == Spec => []BrokerHasPatterns
<1>1. Init => BrokerHasPatterns
  BY DEF Init, BrokerHasPatterns
<1>2. BaseInv /\ BrokerHasPatterns /\ [Next]_vars => BrokerHasPatterns'
  <2> SUFFICES ASSUME BaseInv, BrokerHasPatterns, [Next]_vars PROVE BrokerHasPatterns'
    OBVIOUS
  <2>1. CASE UNCHANGED vars
    BY <2>1 DEF vars, BrokerHasPatterns
  <2> QED
    BY <2>1, ServerStep
<1> QED
  BY <1>1, <1>2, BaseInvariant, PTL DEF Spec

-----------------------------------------------------------------------------
(* The counts *)

\* The ids of subscriptions and of calls are different, so that a subscription
\* that is entered was not there before.
IdsApart ==
  /\ \A s \in subs : s.id \in 1..ops
  /\ \A t \in Threads : pc[t].op = "subscribe" => \A s \in subs : s.id # pc[t].id
  /\ \A t, u \in Threads : t # u /\ pc[t].op # "idle" /\ pc[u].op # "idle" => pc[t].id # pc[u].id

\* Subscription ids stay apart: those in use, and those of calls under way.
LEMMA IdsStep ==
  ASSUME BaseInv, IdsApart, Next
  PROVE  IdsApart'
<1>0. TypeOK /\ CallsOK /\ pc \in [Threads -> Call] /\ ops \in Nat
  BY RedisAssumption DEF BaseInv, TypeOK, Call
<1>1. ASSUME subs' \subseteq subs, ops' = ops \/ ops' = ops + 1, UNCHANGED pc PROVE IdsApart'
  BY <1>0, <1>1 DEF IdsApart
<1>2. ASSUME NEW t \in Threads, Check(t) PROVE IdsApart'
  <2>1. PICK op \in Ops, x \in Topics :
          pc' = [pc EXCEPT ![t] = [op |-> op, topic |-> x, id |-> ops + 1, replied |-> FALSE]]
    BY <1>2, Zenon DEF Check
  <2>2. /\ UNCHANGED subs /\ ops' = ops + 1 /\ pc[t].op = "idle"
        /\ pc'[t].id = ops + 1 /\ \A u \in Threads \ {t} : pc'[u] = pc[u]
    BY <1>0, <1>2, <2>1 DEF Check, tables
  <2> HIDE DEF Call
  <2>3. \A s \in subs' : s.id \in 1..ops'
    BY <1>0, <2>2 DEF IdsApart
  <2>4. \A u \in Threads : pc'[u].op = "subscribe" => \A s \in subs' : s.id # pc'[u].id
    BY <1>0, <2>2 DEF IdsApart
  <2>5. \A u, v \in Threads : u # v /\ pc'[u].op # "idle" /\ pc'[v].op # "idle" => pc'[u].id # pc'[v].id
    BY <1>0, <2>2 DEF IdsApart, CallsOK
  <2> QED
    BY <2>3, <2>4, <2>5 DEF IdsApart
<1>3. ASSUME NEW t \in Threads, UNCHANGED ops, pc' = [pc EXCEPT ![t] = Idle],
             subs' = subs \/ (subs' = subs \cup {Entry(t)} /\ pc[t].op = "subscribe")
      PROVE  IdsApart'
  <2>1. /\ pc'[t].op = "idle"
        /\ \A u \in Threads \ {t} : pc'[u] = pc[u]
    BY <1>0, <1>3 DEF Idle
  <2>2. \A s \in subs' : s \in subs \/ (s.id = pc[t].id /\ pc[t].op = "subscribe")
    BY <1>3 DEF Entry
  <2>3. \A s \in subs' : s.id \in 1..ops'
    BY <1>0, <1>3, <2>2 DEF IdsApart, CallsOK
  <2>4. \A u \in Threads : pc'[u].op = "subscribe" => \A s \in subs' : s.id # pc'[u].id
    BY <2>1, <2>2 DEF IdsApart
  <2>5. \A u, v \in Threads : u # v /\ pc'[u].op # "idle" /\ pc'[v].op # "idle" => pc'[u].id # pc'[v].id
    BY <2>1 DEF IdsApart
  <2> QED
    BY <2>3, <2>4, <2>5 DEF IdsApart
<1>4. ASSUME NEW t \in Threads, EnsureQueue(t) \/ Reply(t) PROVE IdsApart'
  <2>1. /\ UNCHANGED <<subs, ops>> /\ pc[t].op # "idle"
        /\ pc'[t].id = pc[t].id /\ pc'[t].op # "subscribe"
        /\ \A u \in Threads \ {t} : pc'[u] = pc[u]
    BY <1>0, <1>4 DEF EnsureQueue, Reply, Call, tables
  <2>2. \A s \in subs' : s.id \in 1..ops'
    BY <2>1 DEF IdsApart
  <2>3. \A u \in Threads : pc'[u].op = "subscribe" => \A s \in subs' : s.id # pc'[u].id
    BY <2>1 DEF IdsApart
  <2>4. \A u, v \in Threads : u # v /\ pc'[u].op # "idle" /\ pc'[v].op # "idle" => pc'[u].id # pc'[v].id
    BY <2>1 DEF IdsApart
  <2> QED
    BY <2>2, <2>3, <2>4 DEF IdsApart
<1>5. ASSUME NEW t \in Threads, Subscribe(t) \/ PsubscribeRaises(t) \/ Get(t) PROVE IdsApart'
  BY <1>3, <1>5 DEF Subscribe, PsubscribeRaises, Get, tables
<1>6. CASE Send \/ Listen \/ Close \/ \E s \in subs : Unsubscribe(s)
  BY <1>1, <1>6 DEF Send, Listen, Close, CloseFlag, CloseClear, CloseConnection, Unsubscribe, tables
<1> QED
  BY <1>2, <1>4, <1>5, <1>6 DEF Next

SubUsers(p) == {s \in subs : PatternOf[s.topic] = p}
QueueUsers(p) == {x \in queued : PatternOf[x] = p}

UsersInv == IdsApart /\ IsFiniteSet(subs) /\ RefsCountUsers

\* The facts about finite sets and their cardinality.
INSTANCE FiniteSetTheorems

\* The users of a pattern are finitely many, so that they can be counted.
LEMMA UsersFinite ==
  ASSUME BaseInv, UsersInv, NEW p \in Patterns
  PROVE  /\ IsFiniteSet(SubUsers(p)) /\ IsFiniteSet(QueueUsers(p))
         /\ Cardinality(SubUsers(p)) \in Nat /\ Cardinality(QueueUsers(p)) \in Nat
         /\ refs[p] = Cardinality(SubUsers(p)) + Cardinality(QueueUsers(p))
<1>1. IsFiniteSet(SubUsers(p))
  BY FS_Subset DEF UsersInv, SubUsers
<1>2. IsFiniteSet(QueueUsers(p))
  <2>1. QueueUsers(p) \subseteq Topics /\ IsFiniteSet(Topics)
    BY RedisAssumption DEF BaseInv, TypeOK, QueueUsers
  <2> QED
    BY <2>1, FS_Subset
<1>3. refs[p] = Cardinality(SubUsers(p)) + Cardinality(QueueUsers(p))
  BY DEF UsersInv, RefsCountUsers, SubUsers, QueueUsers
<1> QED
  BY <1>1, <1>2, <1>3, FS_CardinalityType

\* A new subscription is one more user of its pattern.
LEMMA SubscribeCounts ==
  ASSUME BaseInv, UsersInv, NEW t \in Threads, Subscribe(t)
  PROVE  IsFiniteSet(subs)' /\ RefsCountUsers'
<1>0. TypeOK /\ CallsOK /\ refs \in [Patterns -> Nat]
  BY DEF BaseInv, TypeOK
<1>1. PICK q \in Patterns : q = PatternOf[pc[t].topic]
  BY <1>0, PatternType DEF Subscribe, CallsOK
<1>2. PICK e : e = Entry(t)
  OBVIOUS
<1>3. /\ subs' = subs \cup {e} /\ e \notin subs /\ PatternOf[e.topic] = q
      /\ queued' = queued
      /\ refs' = [refs EXCEPT ![q] = @ + 1]
  <2>1. e \notin subs
    BY <1>2 DEF UsersInv, IdsApart, Subscribe, Entry
  <2> QED
    BY <1>1, <1>2, <2>1 DEF Subscribe, Psubscribe, Entry
<1>4. IsFiniteSet(subs')
  BY <1>3, FS_AddElement DEF UsersInv
<1>5. ASSUME NEW p \in Patterns
      PROVE  refs'[p] = Cardinality({s \in subs' : PatternOf[s.topic] = p})
                        + Cardinality({x \in queued' : PatternOf[x] = p})
  <2>1. {x \in queued' : PatternOf[x] = p} = QueueUsers(p)
    BY <1>3 DEF QueueUsers
  <2>2. CASE p = q
    <3>1. {s \in subs' : PatternOf[s.topic] = p} = SubUsers(p) \cup {e} /\ e \notin SubUsers(p)
      BY <1>3, <2>2 DEF SubUsers
    <3>2. Cardinality(SubUsers(p) \cup {e}) = Cardinality(SubUsers(p)) + 1
      BY <3>1, UsersFinite, FS_AddElement, Zenon
    <3>3. refs'[p] = refs[p] + 1
      BY <1>0, <1>3, <2>2
    <3>4. PICK a \in Nat, b \in Nat :
            a = Cardinality(SubUsers(p)) /\ b = Cardinality(QueueUsers(p)) /\ refs[p] = a + b
      BY UsersFinite
    <3>5. /\ Cardinality({s \in subs' : PatternOf[s.topic] = p}) = a + 1
          /\ Cardinality({x \in queued' : PatternOf[x] = p}) = b
      BY <2>1, <3>1, <3>2, <3>4, Zenon
    <3>6. refs'[p] = (a + 1) + b
      BY <3>3, <3>4
    <3> QED
      BY <3>5, <3>6
  <2>3. CASE p # q
    <3>1. {s \in subs' : PatternOf[s.topic] = p} = SubUsers(p)
      BY <1>3, <2>3 DEF SubUsers
    <3>2. refs'[p] = refs[p]
      BY <1>0, <1>3, <2>3
    <3> QED
      BY <2>1, <3>1, <3>2, UsersFinite, Zenon
  <2> QED
    BY <2>2, <2>3
<1> QED
  BY <1>4, <1>5, Zenon DEF RefsCountUsers

\* A subscription that ends is one user less.
LEMMA UnsubscribeCounts ==
  ASSUME BaseInv, UsersInv, NEW e \in subs, Unsubscribe(e)
  PROVE  IsFiniteSet(subs)' /\ RefsCountUsers'
<1>0. TypeOK /\ refs \in [Patterns -> Nat]
  BY DEF BaseInv, TypeOK
<1>1. PICK q \in Patterns : q = PatternOf[e.topic]
  BY <1>0, PatternType DEF TypeOK
<1>2. /\ subs' = subs \ {e} /\ queued' = queued
      /\ refs' = [refs EXCEPT ![q] = IF @ = 0 THEN 0 ELSE @ - 1]
  BY <1>1 DEF Unsubscribe, Punsubscribe
<1>3. IsFiniteSet(subs')
  BY <1>2, FS_RemoveElement DEF UsersInv
<1>4. ASSUME NEW p \in Patterns
      PROVE  refs'[p] = Cardinality({s \in subs' : PatternOf[s.topic] = p})
                        + Cardinality({x \in queued' : PatternOf[x] = p})
  <2>1. {x \in queued' : PatternOf[x] = p} = QueueUsers(p)
    BY <1>2 DEF QueueUsers
  <2>2. CASE p = q
    <3>1. {s \in subs' : PatternOf[s.topic] = p} = SubUsers(p) \ {e} /\ e \in SubUsers(p)
      BY <1>1, <1>2, <2>2 DEF SubUsers
    <3>2. /\ IsFiniteSet(SubUsers(p) \ {e}) /\ Cardinality(SubUsers(p) \ {e}) \in Nat
          /\ Cardinality(SubUsers(p) \ {e}) = Cardinality(SubUsers(p)) - 1
      BY <3>1, UsersFinite, FS_RemoveElement, FS_CardinalityType
    <3>3. refs'[p] = IF refs[p] = 0 THEN 0 ELSE refs[p] - 1
      BY <1>0, <1>2, <2>2
    <3>4. PICK a \in Nat, b \in Nat :
            a = Cardinality(SubUsers(p)) /\ b = Cardinality(QueueUsers(p)) /\ refs[p] = a + b
      BY UsersFinite
    <3>5. /\ Cardinality({s \in subs' : PatternOf[s.topic] = p}) = a - 1
          /\ Cardinality({x \in queued' : PatternOf[x] = p}) = b
      BY <2>1, <3>1, <3>2, <3>4, Zenon
    <3>6. refs'[p] = (a - 1) + b
      BY <3>2, <3>3, <3>4
    <3> QED
      BY <3>5, <3>6
  <2>3. CASE p # q
    <3>1. {s \in subs' : PatternOf[s.topic] = p} = SubUsers(p)
      BY <1>1, <1>2, <2>3 DEF SubUsers
    <3>2. refs'[p] = refs[p]
      BY <1>0, <1>2, <2>3
    <3> QED
      BY <2>1, <3>1, <3>2, UsersFinite, Zenon
  <2> QED
    BY <2>2, <2>3
<1> QED
  BY <1>3, <1>4, Zenon DEF RefsCountUsers

\* The first receive() of a topic is one more user.
LEMMA QueueCounts ==
  ASSUME BaseInv, UsersInv, NEW t \in Threads, EnsureQueue(t), pc[t].topic \notin queued \cup failed
  PROVE  RefsCountUsers'
<1>0. TypeOK /\ CallsOK /\ refs \in [Patterns -> Nat]
  BY DEF BaseInv, TypeOK
<1>1. PICK y \in Topics : y = pc[t].topic
  BY <1>0 DEF EnsureQueue, CallsOK
<1>2. PICK q \in Patterns : q = PatternOf[y]
  BY PatternType
<1>3. /\ queued' = queued \cup {y} /\ y \notin queued /\ subs' = subs
      /\ refs' = [refs EXCEPT ![q] = @ + 1]
  BY <1>1, <1>2 DEF EnsureQueue, Psubscribe
<1>4. ASSUME NEW p \in Patterns
      PROVE  refs'[p] = Cardinality({s \in subs' : PatternOf[s.topic] = p})
                        + Cardinality({x \in queued' : PatternOf[x] = p})
  <2>1. {s \in subs' : PatternOf[s.topic] = p} = SubUsers(p)
    BY <1>3 DEF SubUsers
  <2>2. CASE p = q
    <3>1. {x \in queued' : PatternOf[x] = p} = QueueUsers(p) \cup {y} /\ y \notin QueueUsers(p)
      BY <1>2, <1>3, <2>2 DEF QueueUsers
    <3>2. Cardinality(QueueUsers(p) \cup {y}) = Cardinality(QueueUsers(p)) + 1
      BY <3>1, UsersFinite, FS_AddElement, Zenon
    <3>3. refs'[p] = refs[p] + 1
      BY <1>0, <1>3, <2>2
    <3>4. PICK a \in Nat, b \in Nat :
            a = Cardinality(SubUsers(p)) /\ b = Cardinality(QueueUsers(p)) /\ refs[p] = a + b
      BY UsersFinite
    <3>5. /\ Cardinality({s \in subs' : PatternOf[s.topic] = p}) = a
          /\ Cardinality({x \in queued' : PatternOf[x] = p}) = b + 1
      BY <2>1, <3>1, <3>2, <3>4, Zenon
    <3>6. refs'[p] = a + (b + 1)
      BY <3>3, <3>4
    <3> QED
      BY <3>5, <3>6
  <2>3. CASE p # q
    <3>1. {x \in queued' : PatternOf[x] = p} = QueueUsers(p)
      BY <1>2, <1>3, <2>3 DEF QueueUsers
    <3>2. refs'[p] = refs[p]
      BY <1>0, <1>3, <2>3
    <3> QED
      BY <2>1, <3>1, <3>2, UsersFinite, Zenon
  <2> QED
    BY <2>2, <2>3
<1> QED
  BY <1>4, Zenon DEF RefsCountUsers

\* Every other step leaves the tables alone or clears them.
LEMMA UsersStep ==
  ASSUME BaseInv, UsersInv, Next
  PROVE  UsersInv'
<1>1. IdsApart'
  BY IdsStep DEF UsersInv
<1>2. CASE UNCHANGED <<subs, queued, refs>>
  BY <1>1, <1>2 DEF UsersInv, RefsCountUsers
<1>3. CASE CloseClear
  <2>1. subs' = {} /\ queued' = {} /\ refs' = [p \in Patterns |-> 0]
    BY <1>3 DEF CloseClear
  <2>2. \A p \in Patterns : /\ {s \in subs' : PatternOf[s.topic] = p} = {}
                            /\ {x \in queued' : PatternOf[x] = p} = {}
    BY <2>1
  <2>3. RefsCountUsers'
    BY <2>1, <2>2, FS_EmptySet DEF RefsCountUsers
  <2> QED
    BY <1>1, <2>1, <2>3, FS_EmptySet DEF UsersInv
<1>4. ASSUME NEW t \in Threads, EnsureQueue(t) PROVE UsersInv'
  <2>1. CASE pc[t].topic \in queued \cup failed
    BY <1>2, <1>4, <2>1 DEF EnsureQueue
  <2>2. CASE pc[t].topic \notin queued \cup failed
    BY <1>1, <1>4, <2>2, QueueCounts DEF UsersInv, EnsureQueue
  <2> QED
    BY <2>1, <2>2
<1>5. ASSUME NEW t \in Threads, Subscribe(t) PROVE UsersInv'
  BY <1>1, <1>5, SubscribeCounts DEF UsersInv
<1>6. ASSUME NEW s \in subs, Unsubscribe(s) PROVE UsersInv'
  BY <1>1, <1>6, UnsubscribeCounts, Zenon DEF UsersInv
<1>7. \/ UNCHANGED <<subs, queued, refs>> \/ CloseClear
      \/ \E t \in Threads : Subscribe(t) \/ EnsureQueue(t)
      \/ \E s \in subs : Unsubscribe(s)
  BY Zenon DEF Next, Send, Listen, Check, PsubscribeRaises, Get, Reply, Close, CloseFlag, CloseConnection, tables
<1> QED
  BY <1>2, <1>3, <1>4, <1>5, <1>6, <1>7

\* UsersInv holds: the induction of the two theorems below.
THEOREM UsersInvariant == Spec => []UsersInv
<1>1. Init => UsersInv
  <2> SUFFICES ASSUME Init PROVE UsersInv
    OBVIOUS
  <2>1. subs = {} /\ queued = {} /\ refs = [p \in Patterns |-> 0] /\ pc = [t \in Threads |-> Idle]
    BY DEF Init
  <2>2. IdsApart
    BY <2>1 DEF IdsApart, Idle
  <2>3. \A p \in Patterns : /\ {s \in subs : PatternOf[s.topic] = p} = {}
                            /\ {x \in queued : PatternOf[x] = p} = {}
    BY <2>1
  <2>4. RefsCountUsers
    BY <2>1, <2>3, FS_EmptySet DEF RefsCountUsers
  <2> QED
    BY <2>1, <2>2, <2>4, FS_EmptySet DEF UsersInv
<1>2. BaseInv /\ UsersInv /\ [Next]_vars => UsersInv'
  <2> SUFFICES ASSUME BaseInv, UsersInv, [Next]_vars PROVE UsersInv'
    BY Zenon
  <2>1. CASE UNCHANGED vars
    BY <2>1 DEF vars, UsersInv, IdsApart, RefsCountUsers
  <2> QED
    BY <2>1, UsersStep
<1> QED
  BY <1>1, <1>2, BaseInvariant, PTL DEF Spec

\* A pattern's count is the number of subscriptions and receive queues that use
\* it, also after a PSUBSCRIBE that raised (_psubscribe, _punsubscribe and their
\* callers).
THEOREM CountsUsers == Spec => []RefsCountUsers
<1>1. UsersInv => RefsCountUsers
  BY DEF UsersInv
<1> QED
  BY <1>1, UsersInvariant, PTL

\* Every topic that receive() was called for is subscribed at the server, unless
\* PSUBSCRIBE raised for it (_ensure_queue_subscription).
THEOREM ReceiversSubscribed == Spec => []QueueTopicsSubscribed
<1>1. BaseInv /\ UsersInv /\ BrokerHasPatterns => QueueTopicsSubscribed
  <2> SUFFICES ASSUME BaseInv, UsersInv, BrokerHasPatterns, closing = "no", NEW x \in queued
               PROVE  PatternOf[x] \in broker
    BY DEF QueueTopicsSubscribed
  <2>1. PICK p \in Patterns : p = PatternOf[x]
    BY PatternType DEF BaseInv, TypeOK
  <2>2. x \in QueueUsers(p)
    BY <2>1 DEF QueueUsers
  <2>3. Cardinality(QueueUsers(p)) # 0
    BY <2>2, UsersFinite, FS_EmptySet
  <2>4. refs[p] > 0
    BY <2>3, UsersFinite
  <2> QED
    BY <2>1, <2>4 DEF BrokerHasPatterns
<1> QED
  BY <1>1, BaseInvariant, UsersInvariant, ServerHasPatterns, PTL

-----------------------------------------------------------------------------
(* The callbacks *)

Copy == [msg : Ids, channel : Channels \cup Topics]

\* The types of the histories; and close() clears the flag first.
HistoryOK ==
  /\ inbox \in Seq(Copy)
  /\ calls \in [Ids -> [Ids -> Nat]] /\ copies \in [Ids -> Nat] /\ due \in [Ids -> SUBSET Ids]
  /\ running => closing = "no"

\* The entries of subscribe() have ids of their own, those whose PSUBSCRIBE
\* raised included, and nothing is due to a call that has not made its entry.
EntriesApart ==
  /\ \A s \in subs \cup strays : s.id \in 1..ops
  /\ \A s \in subs, r \in subs \cup strays : s.id = r.id => s = r
  /\ \A m \in Ids : due[m] \subseteq 1..ops
  /\ \A t \in Threads : pc[t].op = "subscribe" =>
       /\ \A s \in subs \cup strays : s.id # pc[t].id
       /\ \A m \in Ids : pc[t].id \notin due[m]

\* Ids that are not drawn yet, and those of requests without a reply.
Unpublished(m) ==
  \/ m > ops
  \/ \E t \in Threads : pc[t].op \in {"request", "get reply"} /\ ~pc[t].replied /\ pc[t].id = m

\* No copy of an unpublished message is on its way, and none was dispatched.
UnpublishedUnseen ==
  \A m \in Ids : Unpublished(m) =>
    /\ \A k \in 1..Len(inbox) : inbox[k].msg # m
    /\ \A i \in Ids : calls[m][i] = 0

Left(m, s) == copies[m] - calls[m][s.id]

\* The copies of m that are on their way and those that s was called for are all
\* of them; the former are for the topic of s and follow each other in the inbox.
Owed(m, s) ==
  /\ copies[m] > 0 /\ calls[m][s.id] <= copies[m]
  /\ \A k \in 1..Len(inbox) : inbox[k].msg = m => <<inbox[k].channel, s.topic>> \in Matches
  /\ \E a \in Nat : /\ a + Left(m, s) <= Len(inbox)
                    /\ \A k \in 1..Len(inbox) : inbox[k].msg = m <=> (a < k /\ k <= a + Left(m, s))

CopiesOwed == closing = "no" => \A m \in Ids : \A s \in subs : s.id \in due[m] => Owed(m, s)

CallsInv == HistoryOK /\ EntriesApart /\ UnpublishedUnseen /\ CopiesOwed

\* What the listener leaves in the inbox.
LEMMA RestShifted ==
  ASSUME NEW S, NEW q \in Seq(S), q # <<>>
  PROVE  /\ Tail(q) \in Seq(S) /\ Len(Tail(q)) = Len(q) - 1 /\ Len(q) \in Nat \ {0}
         /\ Head(q) = q[1] /\ q[1] \in S
         /\ \A k \in 1..Len(q) - 1 : Tail(q)[k] = q[k + 1]
  OBVIOUS

\* The steps of the server and of publish() in one place.
Published(m, c, n) ==
  /\ inbox' \in Seq(Copy) /\ Len(inbox') = Len(inbox) + n
  /\ \A k \in 1..Len(inbox) : inbox'[k] = inbox[k]
  /\ \A k \in 1..Len(inbox') : k > Len(inbox) => inbox'[k].msg = m /\ inbox'[k].channel = c
  /\ copies' \in [Ids -> Nat] /\ copies'[m] = n
  /\ \A j \in Ids \ {m} : copies'[j] = copies[j] /\ due'[j] = due[j]
  /\ due' \in [Ids -> SUBSET Ids] /\ due'[m] = {s.id : s \in Wanting(c)}

\* The server makes one copy for each of the patterns, which are finitely many.
LEMMA PublishEffect ==
  ASSUME BaseInv, HistoryOK, NEW m \in Ids, NEW c \in Channels \cup Topics, Publish(m, c)
  PROVE  /\ IsFiniteSet(Covering(c))
         /\ \E n \in Nat : n = Cardinality(Covering(c)) /\ Published(m, c, n)
<1>1. IsFiniteSet(Covering(c))
  <2>1. IsFiniteSet(Patterns)
    <3>1. PatternOf \in Surjection(Topics, Patterns)
      BY RedisAssumption DEF Surjection, Patterns
    <3> QED
      BY <3>1, RedisAssumption, FS_Surjection
  <2> QED
    BY <2>1, FS_Subset, Zenon DEF BaseInv, TypeOK, Covering
<1>2. PICK n \in Nat : n = Cardinality(Covering(c))
  BY <1>1, FS_CardinalityType
<1>3. PICK e \in Copy : e = [msg |-> m, channel |-> c]
  BY Zenon DEF Copy
<1>4. PICK b \in Seq(Copy) : /\ inbox' = inbox \o b /\ inbox \in Seq(Copy)
                             /\ Len(b) = n /\ \A k \in 1..n : b[k] = e
  <2>1. inbox' = inbox \o [k \in 1..n |-> e] /\ inbox \in Seq(Copy)
    BY <1>2, <1>3 DEF Publish, HistoryOK
  <2>2. [k \in 1..n |-> e] \in Seq(Copy) /\ Len([k \in 1..n |-> e]) = n
    OBVIOUS
  <2> QED
    BY <2>1, <2>2, Zenon
<1>5. /\ inbox' \in Seq(Copy) /\ Len(inbox') = Len(inbox) + n
      /\ \A k \in 1..Len(inbox) : inbox'[k] = inbox[k]
      /\ \A k \in 1..Len(inbox') : k > Len(inbox) => inbox'[k] = e
  <2>1. /\ inbox' \in Seq(Copy) /\ Len(inbox') = Len(inbox) + Len(b)
        /\ \A k \in 1..Len(inbox) : inbox'[k] = inbox[k]
        /\ \A k \in 1..Len(inbox') :
             k > Len(inbox) => inbox'[k] = b[k - Len(inbox)] /\ k - Len(inbox) \in 1..Len(b)
    <3>1. b \in Seq(Copy) /\ inbox \in Seq(Copy) /\ inbox' = inbox \o b
      BY <1>4
    <3> QED
      BY <3>1
  <2> QED
    BY <1>4, <2>1
<1>6. {s.id : s \in Wanting(c)} \in SUBSET Ids
  <2>1. \A s \in Wanting(c) : s.id \in Ids
    BY Zenon DEF Wanting, BaseInv, TypeOK
  <2> QED
    BY <2>1
<1>7. /\ copies' \in [Ids -> Nat] /\ copies'[m] = n
      /\ \A j \in Ids \ {m} : copies'[j] = copies[j]
  BY <1>2, Zenon DEF Publish, HistoryOK
<1>8. /\ due' \in [Ids -> SUBSET Ids] /\ due'[m] = {s.id : s \in Wanting(c)}
      /\ \A j \in Ids \ {m} : due'[j] = due[j]
  BY <1>6, Zenon DEF Publish, HistoryOK
<1>9. \A k \in 1..Len(inbox') : k > Len(inbox) => inbox'[k].msg = m /\ inbox'[k].channel = c
  BY <1>3, <1>5
<1>10. Published(m, c, n)
  BY <1>5, <1>7, <1>8, <1>9 DEF Published
<1> QED
  BY <1>1, <1>2, <1>10

\* A message that was not published before is due to those that match it, one
\* call for each copy; what is on its way for others stays so.
LEMMA PublishOwes ==
  ASSUME BaseInv, UsersInv, BrokerHasPatterns, CallsInv, closing = "no",
         NEW m \in Ids, NEW c \in Channels \cup Topics, Publish(m, c), Unpublished(m),
         UNCHANGED <<subs, calls, closing>>
  PROVE  CopiesOwed'
<1>1. PICK n \in Nat : n = Cardinality(Covering(c)) /\ Published(m, c, n)
  BY PublishEffect DEF CallsInv
<1>2. Len(inbox) \in Nat /\ calls \in [Ids -> [Ids -> Nat]] /\ copies \in [Ids -> Nat]
  BY DEF CallsInv, HistoryOK
<1>3. SUFFICES ASSUME NEW j \in Ids, NEW s \in subs, s.id \in due'[j] PROVE Owed(j, s)'
  BY DEF CopiesOwed
<1>4. s.id \in Ids /\ s.topic \in Topics
  BY Zenon DEF BaseInv, TypeOK
<1>5. CASE j # m
  <2>1. /\ copies'[j] = copies[j] /\ calls' = calls /\ s.id \in due[j]
        /\ Len(inbox') = Len(inbox) + n
        /\ \A k \in 1..Len(inbox) : inbox'[k] = inbox[k]
        /\ \A k \in 1..Len(inbox') : k > Len(inbox) => inbox'[k].msg # j
    BY <1>1, <1>3, <1>5, Zenon DEF Published
  <2>2. Owed(j, s)
    BY <1>3, <2>1, Zenon DEF CallsInv, CopiesOwed
  <2>3. PICK a \in Nat : /\ a + Left(j, s) <= Len(inbox)
                         /\ \A k \in 1..Len(inbox) : inbox[k].msg = j <=> (a < k /\ k <= a + Left(j, s))
    BY <2>2, Zenon DEF Owed
  <2>4. Left(j, s)' = Left(j, s) /\ Left(j, s) \in Nat
    <3>1. calls[j][s.id] <= copies[j]
      BY <2>2 DEF Owed
    <3>2. calls[j][s.id] \in Nat /\ copies[j] \in Nat
      BY <1>2, <1>4, Zenon
    <3>3. copies'[j] = copies[j] /\ calls'[j][s.id] = calls[j][s.id]
      BY <2>1, Zenon
    <3>4. Left(j, s)' = Left(j, s)
      BY <3>3 DEF Left
    <3> QED
      BY <3>1, <3>2, <3>4 DEF Left
  <2>5. /\ a + Left(j, s)' <= Len(inbox')
        /\ \A k \in 1..Len(inbox') : inbox'[k].msg = j <=> (a < k /\ k <= a + Left(j, s)')
    <3>1. a + Left(j, s)' <= Len(inbox')
      BY <1>2, <2>1, <2>3, <2>4
    <3>2. ASSUME NEW k \in 1..Len(inbox')
          PROVE  inbox'[k].msg = j <=> (a < k /\ k <= a + Left(j, s)')
      <4>1. CASE k \in 1..Len(inbox)
        BY <2>1, <2>3, <2>4, <4>1, Zenon
      <4>2. CASE k > Len(inbox)
        <5>1. inbox'[k].msg # j /\ a + Left(j, s) <= Len(inbox) /\ Left(j, s) \in Nat
          BY <2>1, <2>3, <2>4, <4>2, Zenon
        <5>2. Len(inbox') \in Nat
          BY ONLY <1>2, <2>1, n \in Nat
        <5>3. ~(k <= a + Left(j, s))
          BY ONLY a \in Nat, k \in 1..Len(inbox'), <1>2, <4>2, <5>1, <5>2
        <5> QED
          BY <2>4, <5>1, <5>3, Zenon
      <4> QED
        BY <1>2, <4>1, <4>2
    <3> QED
      BY <3>1, <3>2, Zenon
  <2>6. ASSUME NEW k \in 1..Len(inbox'), inbox'[k].msg = j
        PROVE  <<inbox'[k].channel, s.topic>> \in Matches
    <3>1. k \in 1..Len(inbox)
      <4>1. ~(k > Len(inbox))
        BY <2>1, <2>6, Zenon
      <4> QED
        BY ONLY k \in 1..Len(inbox'), <1>2, <4>1
    <3> QED
      BY <2>1, <2>2, <2>6, <3>1, Zenon DEF Owed
  <2>7. copies'[j] > 0 /\ calls'[j][s.id] <= copies'[j]
    BY <2>1, <2>2, Zenon DEF Owed
  <2> QED
    BY <2>5, <2>6, <2>7, Zenon DEF Owed
<1>6. CASE j = m
  <2>1. <<c, s.topic>> \in Matches
    <3>1. PICK r \in Wanting(c) : r.id = s.id
      BY <1>1, <1>3, <1>6, Zenon DEF Published
    <3>2. r = s
      BY <3>1 DEF CallsInv, EntriesApart, Wanting
    <3> QED
      BY <3>1, <3>2 DEF Wanting
  <2>2. n > 0
    <3>1. PICK p \in Patterns : p = PatternOf[s.topic]
      BY <1>4, PatternType
    <3>2. refs[p] > 0
      <4>1. s \in SubUsers(p)
        BY <3>1 DEF SubUsers
      <4>2. Cardinality(SubUsers(p)) # 0
        BY <4>1, UsersFinite, FS_EmptySet
      <4> QED
        BY <4>2, UsersFinite
    <3>3. p \in Covering(c)
      BY <1>4, <2>1, <3>1, <3>2, RedisAssumption, MatchesWithinGlob, Zenon DEF BrokerHasPatterns, Covering
    <3> QED
      BY <1>1, <3>3, PublishEffect, FS_EmptySet DEF CallsInv
  <2>3. /\ copies'[j] = n /\ calls' = calls /\ calls[j][s.id] = 0
        /\ Len(inbox') = Len(inbox) + n
        /\ \A k \in 1..Len(inbox) : inbox'[k].msg # j
        /\ \A k \in 1..Len(inbox') : k > Len(inbox) => inbox'[k].msg = j /\ inbox'[k].channel = c
    <3>1. UnpublishedUnseen
      BY Zenon DEF CallsInv
    <3>2. calls[j][s.id] = 0 /\ \A k \in 1..Len(inbox) : inbox[k].msg # j
      BY <1>4, <1>6, <3>1, Zenon DEF UnpublishedUnseen
    <3> QED
      BY <1>1, <1>6, <3>2, Zenon DEF Published
  <2>4. Left(j, s)' = n
    BY <2>3 DEF Left
  <2>5. /\ Len(inbox) + Left(j, s)' <= Len(inbox')
        /\ \A k \in 1..Len(inbox') :
             inbox'[k].msg = j <=> (Len(inbox) < k /\ k <= Len(inbox) + Left(j, s)')
    <3>1. Len(inbox) + Left(j, s)' <= Len(inbox')
      BY <1>2, <2>3, <2>4
    <3>2. ASSUME NEW k \in 1..Len(inbox')
          PROVE  inbox'[k].msg = j <=> (Len(inbox) < k /\ k <= Len(inbox) + Left(j, s)')
      <4>1. CASE k \in 1..Len(inbox)
        BY <1>2, <2>3, <4>1, Zenon
      <4>2. CASE k > Len(inbox)
        BY <1>2, <2>3, <2>4, <4>2
      <4> QED
        BY <1>2, <4>1, <4>2
    <3> QED
      BY <3>1, <3>2, Zenon
  <2>6. ASSUME NEW k \in 1..Len(inbox'), inbox'[k].msg = j
        PROVE  <<inbox'[k].channel, s.topic>> \in Matches
    <3>1. k > Len(inbox)
      BY <1>2, <2>3, <2>6
    <3> QED
      BY <2>1, <2>3, <3>1, Zenon
  <2>7. copies'[j] > 0 /\ calls'[j][s.id] <= copies'[j]
    BY <2>2, <2>3
  <2> QED
    BY <1>2, <2>5, <2>6, <2>7, Zenon DEF Owed
<1> QED
  BY <1>5, <1>6

\* A copy is dispatched to everyone it is due to, and is one less to come.
LEMMA ListenOwes ==
  ASSUME BaseInv, CallsInv, closing = "no", Listen
  PROVE  HistoryOK' /\ UnpublishedUnseen' /\ CopiesOwed'
<1> DEFINE h == Head(inbox)
<1>1. /\ inbox \in Seq(Copy) /\ inbox # <<>> /\ inbox' = Tail(inbox)
      /\ UNCHANGED <<running, subs, strays, pc, closing, copies, due, ops>>
      /\ calls \in [Ids -> [Ids -> Nat]] /\ copies \in [Ids -> Nat]
  BY DEF Listen, CallsInv, HistoryOK, tables
<1>2. /\ inbox' \in Seq(Copy) /\ Len(inbox') = Len(inbox) - 1 /\ Len(inbox) \in Nat \ {0}
      /\ h = inbox[1] /\ h \in Copy
      /\ \A k \in 1..Len(inbox) - 1 : inbox'[k] = inbox[k + 1]
  BY <1>1, RestShifted
<1>3. h.msg \in Ids
  BY <1>2, Zenon DEF Copy
<1>4. calls' = [calls EXCEPT ![h.msg] =
        [i \in Ids |-> IF \E s \in Wanting(h.channel) : s.id = i THEN @[i] + 1 ELSE @[i]]]
  BY Zenon DEF Listen, Deliver
<1> HIDE DEF h
<1>5. /\ calls' \in [Ids -> [Ids -> Nat]]
      /\ \A j \in Ids \ {h.msg} : calls'[j] = calls[j]
      /\ \A i \in Ids : (\E s \in Wanting(h.channel) : s.id = i) => calls'[h.msg][i] = calls[h.msg][i] + 1
  BY <1>1, <1>3, <1>4
<1>6. HistoryOK'
  BY <1>1, <1>2, <1>5, Zenon DEF CallsInv, HistoryOK
<1>7. UnpublishedUnseen'
  <2> SUFFICES ASSUME NEW m \in Ids, Unpublished(m)'
               PROVE  /\ \A k \in 1..Len(inbox') : inbox'[k].msg # m
                      /\ \A i \in Ids : calls'[m][i] = 0
    BY DEF UnpublishedUnseen
  <2>1. Unpublished(m)
    BY <1>1 DEF Unpublished
  <2>2. /\ \A k \in 1..Len(inbox) : inbox[k].msg # m
        /\ \A i \in Ids : calls[m][i] = 0
    BY <2>1 DEF CallsInv, UnpublishedUnseen
  <2>3. \A k \in 1..Len(inbox') : inbox'[k].msg # m
    BY <1>2, <2>2
  <2>4. h.msg # m
    BY <1>2, <2>2
  <2> QED
    BY <1>5, <2>2, <2>3, <2>4
<1>8. CopiesOwed'
  <2> SUFFICES ASSUME NEW j \in Ids, NEW s \in subs, s.id \in due[j] PROVE Owed(j, s)'
    BY <1>1, Zenon DEF CopiesOwed
  <2>1. Owed(j, s) /\ s.id \in Ids
    BY Zenon DEF CallsInv, CopiesOwed, BaseInv, TypeOK
  <2>2. PICK a \in Nat : /\ a + Left(j, s) <= Len(inbox)
                         /\ \A k \in 1..Len(inbox) : inbox[k].msg = j <=> (a < k /\ k <= a + Left(j, s))
    BY <2>1, Zenon DEF Owed
  <2>3. Left(j, s) \in Nat /\ copies[j] \in Nat /\ calls[j][s.id] \in Nat
    BY <1>1, <2>1 DEF Owed, Left
  <2>4. ASSUME NEW k \in 1..Len(inbox'), inbox'[k].msg = j
        PROVE  <<inbox'[k].channel, s.topic>> \in Matches
    <3>1. k + 1 \in 1..Len(inbox) /\ inbox'[k] = inbox[k + 1]
      BY <1>2
    <3> QED
      BY <2>1, <2>4, <3>1 DEF Owed
  <2>5. CASE j = h.msg
    <3>1. a = 0 /\ Left(j, s) > 0
      BY <1>2, <2>2, <2>3, <2>5
    <3>2. <<h.channel, s.topic>> \in Matches
      BY <1>2, <2>1, <2>5 DEF Owed
    <3>3. calls'[j][s.id] = calls[j][s.id] + 1
      BY <1>5, <2>1, <2>5, <3>2, Zenon DEF Wanting
    <3>4. Left(j, s)' = Left(j, s) - 1
      BY <1>1, <2>3, <3>3 DEF Left
    <3>5. /\ 0 + Left(j, s)' <= Len(inbox')
          /\ \A k \in 1..Len(inbox') : inbox'[k].msg = j <=> (0 < k /\ k <= 0 + Left(j, s)')
      BY <1>2, <2>2, <2>3, <3>1, <3>4
    <3>6. copies'[j] > 0 /\ calls'[j][s.id] <= copies'[j]
      BY <1>1, <2>1, <2>3, <3>1, <3>3 DEF Owed, Left
    <3> QED
      BY <2>4, <3>5, <3>6, Zenon DEF Owed
  <2>6. CASE j # h.msg
    <3>1. Left(j, s)' = Left(j, s) /\ calls'[j] = calls[j] /\ copies' = copies
      BY <1>1, <1>5, <2>6, Zenon DEF Left
    <3>2. PICK b \in Nat : IF a = 0 THEN b = 0 ELSE b = a - 1
      OBVIOUS
    <3>3. a = 0 => Left(j, s) = 0
      BY <1>2, <2>2, <2>3, <2>6
    <3>4. /\ b + Left(j, s)' <= Len(inbox')
          /\ \A k \in 1..Len(inbox') : inbox'[k].msg = j <=> (b < k /\ k <= b + Left(j, s)')
      <4>1. b + Left(j, s)' <= Len(inbox')
        BY <1>2, <2>2, <2>3, <3>1, <3>2, <3>3
      <4>2. ASSUME NEW k \in 1..Len(inbox')
            PROVE  inbox'[k].msg = j <=> (b < k /\ k <= b + Left(j, s)')
        <5>1. k + 1 \in 1..Len(inbox) /\ inbox'[k] = inbox[k + 1]
          BY <1>2
        <5>2. inbox[k + 1].msg = j <=> (a < k + 1 /\ k + 1 <= a + Left(j, s))
          BY <2>2, <5>1, Zenon
        <5> QED
          BY <2>3, <3>1, <3>2, <3>3, <5>1, <5>2
      <4> QED
        BY <4>1, <4>2, Zenon
    <3>5. copies'[j] > 0 /\ calls'[j][s.id] <= copies'[j]
      BY <2>1, <3>1, Zenon DEF Owed
    <3> QED
      BY <2>4, <3>4, <3>5, Zenon DEF Owed
  <2> QED
    BY <2>5, <2>6, Zenon
<1> QED
  BY <1>6, <1>7, <1>8

\* Publishing, by send() or by whoever replies, and what it makes of the rest.
LEMMA PublishStep ==
  ASSUME BaseInv, UsersInv, BrokerHasPatterns, CallsInv,
         NEW m \in Ids, NEW c \in Channels \cup Topics, Publish(m, c), Unpublished(m),
         UNCHANGED <<running, tables, calls, closing>>,
         ops' \in {ops, ops + 1},
         \A t \in Threads : pc'[t].op = pc[t].op /\ pc'[t].id = pc[t].id,
         \A j \in Ids : Unpublished(j)' => Unpublished(j) /\ j # m
  PROVE  CallsInv'
<1>1. PICK n \in Nat : n = Cardinality(Covering(c)) /\ Published(m, c, n)
  BY PublishEffect, Zenon DEF CallsInv
<1>2. HistoryOK'
  BY <1>1, Zenon DEF CallsInv, HistoryOK, Published
<1>3. EntriesApart'
  <2>1. \A s \in subs' \cup strays' : s.id \in 1..ops'
    BY RedisAssumption DEF BaseInv, TypeOK, CallsInv, EntriesApart, tables
  <2>2. \A s \in subs', r \in subs' \cup strays' : s.id = r.id => s = r
    BY Zenon DEF CallsInv, EntriesApart, tables
  <2>3. ASSUME NEW j \in Ids PROVE due'[j] \subseteq due[j] \cup {s.id : s \in subs \cup strays}
    <3>1. CASE j = m
      BY <1>1, <3>1, Zenon DEF Published, Wanting
    <3>2. CASE j # m
      BY <1>1, <3>2 DEF Published
    <3> QED
      BY <3>1, <3>2, Zenon
  <2>4. \A j \in Ids : due'[j] \subseteq 1..ops'
    <3>0. ops \in Nat /\ ops' \in Nat /\ ops <= ops'
      <4>1. ops \in 0..MaxOps
        BY Zenon DEF BaseInv, TypeOK
      <4>2. ops' = ops \/ ops' = ops + 1
        OBVIOUS
      <4> QED
        BY ONLY <4>1, <4>2, RedisAssumption
    <3>1. 1..ops \subseteq 1..ops'
      BY <3>0
    <3>2. \A j \in Ids : due[j] \subseteq 1..ops
      BY Zenon DEF CallsInv, EntriesApart
    <3>3. \A s \in subs \cup strays : s.id \in 1..ops
      BY Zenon DEF CallsInv, EntriesApart
    <3>4. ASSUME NEW j \in Ids, NEW i \in due'[j] PROVE i \in 1..ops
      BY <2>3, <3>2, <3>3
    <3> QED
      BY <3>1, <3>4
  <2>5. \A t \in Threads : pc'[t].op = "subscribe" =>
          /\ \A s \in subs' \cup strays' : s.id # pc'[t].id
          /\ \A j \in Ids : pc'[t].id \notin due'[j]
    <3>1. \A t \in Threads : pc[t].op = "subscribe" =>
            /\ \A s \in subs \cup strays : s.id # pc[t].id
            /\ \A j \in Ids : pc[t].id \notin due[j]
      BY Zenon DEF CallsInv, EntriesApart
    <3> QED
      BY <2>3, <3>1 DEF tables
  <2> QED
    BY <2>1, <2>2, <2>4, <2>5, Zenon DEF EntriesApart
<1>4. UnpublishedUnseen'
  <2> SUFFICES ASSUME NEW j \in Ids, Unpublished(j)'
               PROVE  /\ \A k \in 1..Len(inbox') : inbox'[k].msg # j
                      /\ \A i \in Ids : calls'[j][i] = 0
    BY Zenon DEF UnpublishedUnseen
  <2>1. /\ j # m
        /\ \A k \in 1..Len(inbox) : inbox[k].msg # j
        /\ \A i \in Ids : calls[j][i] = 0
    <3>1. Unpublished(j) /\ j # m
      BY Zenon
    <3>2. UnpublishedUnseen
      BY Zenon DEF CallsInv
    <3> QED
      BY ONLY j \in Ids, <3>1, <3>2, Zenon DEF UnpublishedUnseen
  <2>2. \A k \in 1..Len(inbox') : inbox'[k].msg # j
    <3>1. Len(inbox) \in Nat
      BY DEF CallsInv, HistoryOK
    <3>2. ASSUME NEW k \in 1..Len(inbox') PROVE inbox'[k].msg # j
      <4>1. CASE k \in 1..Len(inbox)
        BY <1>1, <2>1, <4>1, Zenon DEF Published
      <4>2. CASE k > Len(inbox)
        BY <1>1, <2>1, <4>2, Zenon DEF Published
      <4>3. k \in 1..Len(inbox) \/ k > Len(inbox)
        BY ONLY <3>1, k \in 1..Len(inbox')
      <4> QED
        BY <4>1, <4>2, <4>3, Zenon
    <3> QED
      BY <3>2, Zenon
  <2> QED
    BY <2>1, <2>2
<1>5. CopiesOwed'
  <2>1. CASE closing = "no"
    BY <2>1, PublishOwes, Zenon DEF tables
  <2>2. CASE closing # "no"
    BY <2>2, Zenon DEF CopiesOwed
  <2> QED
    BY <2>1, <2>2, Zenon
<1> QED
  BY <1>2, <1>3, <1>4, <1>5, Zenon DEF CallsInv

\* A step that publishes and dispatches nothing and only drops entries.
LEMMA QuietStep ==
  ASSUME CallsInv, UNCHANGED <<inbox, calls, copies, due>>,
         running' => running /\ closing' = closing,
         closing' = "no" => closing = "no",
         EntriesApart', \A j \in Ids : Unpublished(j)' => Unpublished(j),
         \A s \in subs' : s \in subs \/ \A m \in Ids : s.id \notin due[m]
  PROVE  CallsInv'
<1>1. HistoryOK'
  BY Zenon DEF CallsInv, HistoryOK
<1>2. UnpublishedUnseen'
  BY Zenon DEF CallsInv, UnpublishedUnseen
<1>3. CopiesOwed'
  <2> SUFFICES ASSUME closing = "no", NEW m \in Ids, NEW s \in subs', s.id \in due[m] PROVE Owed(m, s)'
    BY Zenon DEF CopiesOwed
  <2>1. Owed(m, s)
    BY DEF CallsInv, CopiesOwed
  <2> QED
    BY <2>1, Zenon DEF Owed, Left
<1> QED
  BY <1>1, <1>2, <1>3, Zenon DEF CallsInv

\* A call that ends, having made its entry or none, leaves the ids apart.
LEMMA EntryStep ==
  ASSUME BaseInv, UsersInv, CallsInv, NEW t \in Threads, UNCHANGED <<due, ops>>,
         pc' = [pc EXCEPT ![t] = Idle],
         subs' \cup strays' \subseteq subs \cup strays \cup {Entry(t)},
         subs' \subseteq subs \cup {Entry(t)},
         pc[t].op = "subscribe" \/ UNCHANGED <<subs, strays>>
  PROVE  EntriesApart' /\ \A j \in Ids : Unpublished(j)' => Unpublished(j)
<1>1. /\ pc \in [Threads -> Call] /\ CallsOK /\ IdsApart
      /\ pc'[t].op = "idle" /\ \A u \in Threads \ {t} : pc'[u] = pc[u]
  BY DEF BaseInv, TypeOK, Call, Idle, UsersInv
<1>2. \A j \in Ids : Unpublished(j)' => Unpublished(j)
  <2> HIDE DEF Call
  <2> QED
    BY <1>1 DEF Unpublished
<1>3. CASE UNCHANGED <<subs, strays>>
  <2> HIDE DEF Call
  <2>1. EntriesApart'
    BY <1>1, <1>3 DEF CallsInv, EntriesApart
  <2> QED
    BY <1>2, <2>1, Zenon
<1>4. CASE pc[t].op = "subscribe"
  <2> DEFINE e == Entry(t)
  <2>1. e.id = pc[t].id /\ pc[t].id \in 1..ops
    BY <1>1, <1>4, Zenon DEF Entry, CallsOK
  <2> HIDE DEF e
  <2>2. \A s \in subs' \cup strays' : s \in subs \cup strays \/ s = e
    BY DEF e
  <2>3. \A s \in subs' : s \in subs \/ s = e
    BY Zenon DEF e
  <2>4. \A s \in subs \cup strays : s.id # e.id
    BY <1>4, <2>1, Zenon DEF CallsInv, EntriesApart
  <2>5. \A s \in subs' \cup strays' : s.id \in 1..ops'
    BY <2>1, <2>2, Zenon DEF CallsInv, EntriesApart
  <2>6. \A s \in subs', r \in subs' \cup strays' : s.id = r.id => s = r
    BY <2>2, <2>3, <2>4, Zenon DEF CallsInv, EntriesApart
  <2>7. ASSUME NEW u \in Threads, pc'[u].op = "subscribe"
        PROVE  /\ \A s \in subs' \cup strays' : s.id # pc'[u].id
               /\ \A m \in Ids : pc'[u].id \notin due'[m]
    <3>1. u # t /\ pc'[u] = pc[u] /\ pc[u].op = "subscribe"
      BY <1>1, <2>7, Zenon
    <3>2. pc[u].id # e.id
      BY <1>1, <1>4, <2>1, <3>1 DEF IdsApart
    <3> QED
      BY <2>2, <3>1, <3>2, Zenon DEF CallsInv, EntriesApart
  <2>8. \A m \in Ids : due'[m] \subseteq 1..ops'
    BY Zenon DEF CallsInv, EntriesApart
  <2> QED
    BY <1>2, <2>5, <2>6, <2>7, <2>8, Zenon DEF EntriesApart
<1> QED
  BY <1>3, <1>4, Zenon

\* Every step keeps what is owed to the callbacks.
LEMMA CallsStep ==
  ASSUME BaseInv, UsersInv, BrokerHasPatterns, CallsInv, Next
  PROVE  CallsInv'
<1>0. /\ TypeOK /\ CallsOK /\ pc \in [Threads -> Call] /\ ops \in Nat /\ IdsApart
      /\ HistoryOK /\ EntriesApart /\ UnpublishedUnseen /\ CopiesOwed
  BY RedisAssumption DEF BaseInv, TypeOK, Call, UsersInv, CallsInv
<1>1. CASE Send
  <2>1. PICK c \in Channels : Publish(ops + 1, c)
    BY <1>1 DEF Send
  <2>2. ops + 1 \in Ids /\ Unpublished(ops + 1)
    <3>1. ops < MaxOps /\ MaxOps \in Nat
      BY <1>1, RedisAssumption DEF Send
    <3>2. ops + 1 \in Ids /\ ops + 1 > ops
      BY <1>0, <3>1 DEF Ids
    <3> QED
      BY <3>2 DEF Unpublished
  <2>3. ops' = ops + 1 /\ UNCHANGED <<running, tables, calls, closing, pc>>
    BY <1>1, Zenon DEF Send
  <2>4. ASSUME NEW j \in Ids, Unpublished(j)' PROVE Unpublished(j) /\ j # ops + 1
    <3>1. CASE j > ops'
      <4>1. j > ops /\ j # ops + 1
        BY <1>0, <2>3, <3>1, RedisAssumption DEF Ids
      <4> QED
        BY <4>1 DEF Unpublished
    <3>2. ASSUME NEW u \in Threads, pc[u].op # "idle", pc[u].id = j PROVE j # ops + 1
      BY <1>0, <3>2 DEF CallsOK
    <3> QED
      BY <2>3, <2>4, <3>1, <3>2 DEF Unpublished
  <2> QED
    BY <2>1, <2>2, <2>3, <2>4, PublishStep
<1>2. CASE Listen
  <2>1. closing = "no" /\ UNCHANGED <<subs, strays, due, ops, pc>>
    BY <1>0, <1>2, Zenon DEF Listen, HistoryOK, tables
  <2>2. EntriesApart'
    BY <1>0, <2>1, Zenon DEF EntriesApart
  <2> QED
    BY <1>2, <2>1, <2>2, ListenOwes, Zenon DEF CallsInv
<1>3. ASSUME NEW t \in Threads, Check(t) PROVE CallsInv'
  <2>1. PICK op \in Ops, x \in Topics :
          pc' = [pc EXCEPT ![t] = [op |-> op, topic |-> x, id |-> ops + 1, replied |-> FALSE]]
    BY <1>3, Zenon DEF Check
  <2>2. /\ UNCHANGED <<running, subs, strays, inbox, closing, calls, copies, due>> /\ ops' = ops + 1
        /\ pc'[t].id = ops + 1 /\ \A u \in Threads \ {t} : pc'[u] = pc[u]
    <3>1. UNCHANGED <<running, subs, strays, inbox, closing, calls, copies, due>> /\ ops' = ops + 1
      BY <1>3, Zenon DEF Check, tables
    <3>2. pc'[t].id = ops + 1 /\ \A u \in Threads \ {t} : pc'[u] = pc[u]
      BY <1>0, <2>1
    <3> QED
      BY <3>1, <3>2, Zenon
  <2> HIDE DEF Call
  <2>3. EntriesApart'
    <3>1. EntriesApart
      BY Zenon DEF CallsInv
    <3>2. 1..ops \subseteq 1..ops' /\ ops + 1 \notin 1..ops
      <4>1. ops \in Nat /\ ops' = ops + 1
        BY <1>0, <2>2
      <4> QED
        BY ONLY <4>1
    <3>3. /\ \A s \in subs' \cup strays' : s.id \in 1..ops'
          /\ \A s \in subs', r \in subs' \cup strays' : s.id = r.id => s = r
          /\ \A m \in Ids : due'[m] \subseteq 1..ops'
      BY <2>2, <3>1, <3>2, Zenon DEF EntriesApart
    <3>4. ASSUME NEW u \in Threads, pc'[u].op = "subscribe"
          PROVE  /\ \A s \in subs' \cup strays' : s.id # pc'[u].id
                 /\ \A m \in Ids : pc'[u].id \notin due'[m]
      <4>1. CASE u = t
        <5>1. pc'[u].id \notin 1..ops
          BY <2>2, <3>2, <4>1, Zenon
        <5>2. (\A s \in subs \cup strays : s.id \in 1..ops) /\ \A m \in Ids : due[m] \subseteq 1..ops
          BY <3>1, Zenon DEF EntriesApart
        <5> QED
          BY <2>2, <5>1, <5>2, Zenon
      <4>2. CASE u # t
        <5>1. pc'[u] = pc[u] /\ pc[u].op = "subscribe"
          BY <2>2, <3>4, <4>2, Zenon
        <5>2. (\A s \in subs \cup strays : s.id # pc[u].id) /\ \A m \in Ids : pc[u].id \notin due[m]
          BY <3>1, <5>1, Zenon DEF EntriesApart
        <5> QED
          BY <2>2, <5>1, <5>2, Zenon
      <4> QED
        BY <4>1, <4>2, Zenon
    <3> QED
      BY <3>3, <3>4, Zenon DEF EntriesApart
  <2>4. \A j \in Ids : Unpublished(j)' => Unpublished(j)
    <3> SUFFICES ASSUME NEW j \in Ids, Unpublished(j)' PROVE Unpublished(j)
      OBVIOUS
    <3>1. CASE j > ops' \/ j = ops + 1
      <4>1. j > ops
        BY <1>0, <2>2, <3>1, RedisAssumption DEF Ids
      <4> QED
        BY <4>1, Zenon DEF Unpublished
    <3>2. ASSUME NEW u \in Threads, pc'[u].op \in {"request", "get reply"}, ~pc'[u].replied, pc'[u].id = j
          PROVE  Unpublished(j)
      BY <2>2, <3>1, <3>2, Zenon DEF Unpublished
    <3> QED
      BY <3>1, <3>2 DEF Unpublished
  <2> QED
    BY <2>2, <2>3, <2>4, QuietStep, Zenon
<1>4. ASSUME NEW t \in Threads, Subscribe(t) PROVE CallsInv'
  <2>1. /\ pc[t].op = "subscribe" /\ pc' = [pc EXCEPT ![t] = Idle]
        /\ subs' = subs \cup {Entry(t)}
        /\ UNCHANGED <<running, strays, inbox, closing, calls, copies, due, ops>>
    BY <1>4, Zenon DEF Subscribe
  <2>2. EntriesApart' /\ \A j \in Ids : Unpublished(j)' => Unpublished(j)
    BY <2>1, EntryStep, Zenon
  <2>3. \A s \in subs' : s \in subs \/ \A m \in Ids : s.id \notin due[m]
    BY <1>0, <2>1 DEF EntriesApart, Entry
  <2> QED
    BY <2>1, <2>2, <2>3, QuietStep, Zenon
<1>5. ASSUME NEW t \in Threads, PsubscribeRaises(t) PROVE CallsInv'
  <2>1. /\ pc' = [pc EXCEPT ![t] = Idle] /\ UNCHANGED subs
        /\ UNCHANGED strays \/ (pc[t].op = "subscribe" /\ strays' = strays \cup {Entry(t)})
        /\ UNCHANGED <<running, inbox, closing, calls, copies, due, ops>>
    BY <1>5, Zenon DEF PsubscribeRaises
  <2>2. EntriesApart' /\ \A j \in Ids : Unpublished(j)' => Unpublished(j)
    BY <2>1, EntryStep, Zenon
  <2> QED
    BY <2>1, <2>2, QuietStep
<1>6. ASSUME NEW t \in Threads, Get(t) PROVE CallsInv'
  <2>1. /\ pc' = [pc EXCEPT ![t] = Idle] /\ UNCHANGED <<subs, strays>>
        /\ UNCHANGED <<running, inbox, closing, calls, copies, due, ops>>
    BY <1>6, Zenon DEF Get, tables
  <2>2. EntriesApart' /\ \A j \in Ids : Unpublished(j)' => Unpublished(j)
    BY <2>1, EntryStep, Zenon
  <2> QED
    BY <2>1, <2>2, QuietStep, Zenon
<1>7. ASSUME NEW t \in Threads, EnsureQueue(t) PROVE CallsInv'
  <2>1. /\ pc[t].op \in {"receive", "request"}
        /\ pc' = [pc EXCEPT ![t].op = IF @ = "receive" THEN "get" ELSE "get reply"]
        /\ UNCHANGED <<running, subs, strays, inbox, closing, calls, copies, due, ops>>
    BY <1>7 DEF EnsureQueue
  <2>2. /\ pc'[t].id = pc[t].id /\ pc'[t].replied = pc[t].replied
        /\ IF pc[t].op = "receive" THEN pc'[t].op = "get" ELSE pc'[t].op = "get reply"
        /\ \A u \in Threads \ {t} : pc'[u] = pc[u]
    BY <1>0, <2>1 DEF Call
  <2> HIDE DEF Call
  <2>3. EntriesApart'
    BY <1>0, <2>1, <2>2, Zenon DEF EntriesApart
  <2>4. \A j \in Ids : Unpublished(j)' => Unpublished(j)
    BY <2>1, <2>2, Zenon DEF Unpublished
  <2> QED
    BY <2>1, <2>3, <2>4, QuietStep
<1>8. ASSUME NEW t \in Threads, Reply(t) PROVE CallsInv'
  <2>1. /\ pc[t].op \in {"request", "get reply"} /\ ~pc[t].replied
        /\ pc' = [pc EXCEPT ![t].replied = TRUE]
        /\ Publish(pc[t].id, pc[t].topic)
        /\ UNCHANGED <<running, tables, calls, closing, ops>>
    BY <1>8, Zenon DEF Reply
  <2>2. pc[t].topic \in Topics /\ pc[t].id \in Ids /\ pc[t].id <= ops /\ Unpublished(pc[t].id)
    <3>1. pc[t].topic \in Topics /\ pc[t].id \in 1..ops /\ ops \in 0..MaxOps
      BY <1>0, <2>1 DEF CallsOK, TypeOK
    <3>2. Unpublished(pc[t].id)
      BY <2>1 DEF Unpublished
    <3> QED
      BY <3>1, <3>2, RedisAssumption DEF Ids
  <2>3. /\ pc'[t].op = pc[t].op /\ pc'[t].id = pc[t].id /\ pc'[t].replied = TRUE
        /\ \A u \in Threads \ {t} : pc'[u] = pc[u]
    BY <1>0, <2>1, Zenon DEF Call
  <2> HIDE DEF Call
  <2>4. ASSUME NEW j \in Ids, Unpublished(j)' PROVE Unpublished(j) /\ j # pc[t].id
    <3>1. CASE j > ops'
      <4>0. ops' = ops /\ ops \in Nat /\ MaxOps \in Nat
        BY <1>0, <2>1, RedisAssumption, Zenon
      <4>1. j > ops /\ j # pc[t].id
        BY <2>2, <3>1, <4>0 DEF Ids
      <4> QED
        BY <4>1 DEF Unpublished
    <3>2. ASSUME NEW u \in Threads, pc'[u].op \in {"request", "get reply"}, ~pc'[u].replied, pc'[u].id = j
          PROVE  Unpublished(j) /\ j # pc[t].id
      <4>1. u # t /\ pc'[u] = pc[u]
        BY <2>3, <3>2, Zenon
      <4> QED
        BY <1>0, <2>1, <3>2, <4>1, Zenon DEF Unpublished, IdsApart
    <3> QED
      BY <2>4, <3>1, <3>2, Zenon DEF Unpublished
  <2> QED
    BY <2>1, <2>2, <2>3, <2>4, PublishStep
<1>9. ASSUME NEW s \in subs, Unsubscribe(s) PROVE CallsInv'
  <2>1. subs' = subs \ {s} /\ UNCHANGED <<running, strays, pc, inbox, closing, calls, copies, due, ops>>
    BY <1>9, Zenon DEF Unsubscribe
  <2>2. EntriesApart'
    BY <1>0, <2>1, Zenon DEF EntriesApart
  <2> QED
    BY <2>1, <2>2, QuietStep, Zenon DEF Unpublished
<1>10. CASE CloseFlag \/ CloseClear
  <2>1. /\ closing' # "no" /\ running' \in {running, FALSE} /\ UNCHANGED <<pc, inbox, calls, copies, due, ops>>
        /\ (UNCHANGED <<subs, strays>> /\ ~running') \/ (subs' = {} /\ strays' = {} /\ closing = "flag" /\ UNCHANGED running)
    BY <1>10, Zenon DEF CloseFlag, CloseClear, tables
  <2>2. EntriesApart'
    BY <1>0, <2>1 DEF EntriesApart
  <2> QED
    <3>1. \A j \in Ids : Unpublished(j)' => Unpublished(j)
      BY <2>1, Zenon DEF Unpublished
    <3>2. ~running'
      BY <1>0, <2>1, Zenon DEF HistoryOK
    <3> QED
      BY <2>1, <2>2, <3>1, <3>2, QuietStep, Zenon
<1>11. CASE CloseConnection
  <2>1. /\ closing' = "done" /\ closing = "clear" /\ inbox' = <<>>
        /\ UNCHANGED <<running, subs, strays, pc, calls, copies, due, ops>>
    BY <1>11 DEF CloseConnection, tables
  <2>2. HistoryOK'
    BY <1>0, <2>1 DEF HistoryOK
  <2>3. EntriesApart'
    BY <1>0, <2>1, Zenon DEF EntriesApart
  <2>4. UnpublishedUnseen'
    <3>1. \A j \in Ids : Unpublished(j)' => Unpublished(j)
      BY <2>1 DEF Unpublished
    <3>2. Len(inbox') = 0
      BY <2>1, Zenon
    <3> QED
      BY <1>0, <2>1, <3>1, <3>2 DEF UnpublishedUnseen
  <2>5. CopiesOwed'
    BY <2>1 DEF CopiesOwed
  <2> QED
    BY <2>2, <2>3, <2>4, <2>5 DEF CallsInv
<1> QED
  BY <1>1, <1>2, <1>3, <1>4, <1>5, <1>6, <1>7, <1>8, <1>9, <1>10, <1>11, Zenon DEF Next, Close

\* A callback that is subscribed when a message is published, and still is when
\* all copies are dispatched, has been called once for each of the copies, of
\* which there is at least one, whoever else subscribed, unsubscribed or failed to
\* subscribe in between (_dispatch, subscribe, unsubscribe, _punsubscribe).
THEOREM NobodyMissesACall == Spec => []NoMissedCall
<1>1. Init => CallsInv
  <2> SUFFICES ASSUME Init PROVE CallsInv
    OBVIOUS
  <2>1. HistoryOK
    BY DEF Init, HistoryOK
  <2>2. EntriesApart /\ UnpublishedUnseen /\ CopiesOwed
    BY DEF Init, EntriesApart, UnpublishedUnseen, CopiesOwed, Idle
  <2> QED
    BY <2>1, <2>2 DEF CallsInv
<1>2. BaseInv /\ UsersInv /\ BrokerHasPatterns /\ CallsInv /\ [Next]_vars => CallsInv'
  <2> SUFFICES ASSUME BaseInv, UsersInv, BrokerHasPatterns, CallsInv, [Next]_vars PROVE CallsInv'
    BY Zenon
  <2>1. CASE UNCHANGED vars
    <3>1. HistoryOK' /\ EntriesApart'
      BY <2>1, Zenon DEF vars, CallsInv, HistoryOK, EntriesApart
    <3>2. \A j \in Ids : Unpublished(j)' => Unpublished(j)
      BY <2>1, Zenon DEF vars, Unpublished
    <3> QED
      BY <2>1, <3>1, <3>2, QuietStep, Zenon DEF vars
  <2> QED
    BY <2>1, CallsStep
<1>3. BaseInv /\ CallsInv => NoMissedCall
  <2> SUFFICES ASSUME BaseInv, CallsInv, running, inbox = <<>>, NEW m \in Ids, NEW s \in subs, s.id \in due[m]
               PROVE  copies[m] > 0 /\ calls[m][s.id] = copies[m]
    BY Zenon DEF NoMissedCall
  <2>1. Owed(m, s) /\ s.id \in Ids
    BY DEF CallsInv, HistoryOK, CopiesOwed, BaseInv, TypeOK
  <2>2. copies[m] \in Nat /\ calls[m][s.id] \in Nat /\ Len(inbox) = 0
    BY <2>1, Zenon DEF CallsInv, HistoryOK
  <2>3. PICK a \in Nat : a + Left(m, s) <= Len(inbox) /\ copies[m] > 0 /\ calls[m][s.id] <= copies[m]
    BY <2>1 DEF Owed
  <2> QED
    BY <2>2, <2>3 DEF Left
<1> QED
  BY <1>1, <1>2, <1>3, BaseInvariant, UsersInvariant, ServerHasPatterns, PTL DEF Spec
=============================================================================
