--------------------------- MODULE WorkQueueProofs ---------------------------
(***************************************************************************)
(* Proofs about WorkQueue, for every set of messages, topics, groups,      *)
(* consumers and waiting threads and every limit.  On a basic invariant of *)
(* types and tables rest the rest: no message is lost, push consumers      *)
(* never starve, nobody is left waiting in dequeue(), and with one         *)
(* consumer group the queue implements Delivery.                           *)
(***************************************************************************)
EXTENDS WorkQueueDelivery, TLAPS

-----------------------------------------------------------------------------
(* Lemmas about the data *)

\* What concatenation gives.
LEMMA Concatenated ==
  ASSUME NEW S, NEW s \in Seq(S), NEW q \in Seq(S)
  PROVE  /\ s \o q \in Seq(S) /\ Len(s \o q) = Len(s) + Len(q)
         /\ \A i \in 1..(Len(s) + Len(q)) : (s \o q)[i] = IF i <= Len(s) THEN s[i] ELSE q[i - Len(s)]
  OBVIOUS

\* The index of a round-robin pick is an index of the list.
LEMMA ModRange ==
  ASSUME NEW a \in Nat, NEW b \in Nat \ {0}
  PROVE  (a % b) + 1 \in 1..b
  OBVIOUS

\* What list.pop(i) leaves.
LEMMA PopAtProperties ==
  ASSUME NEW S, NEW s \in Seq(S), NEW i \in 1..Len(s)
  PROVE  /\ PopAt(s, i) \in Seq(S)
         /\ Len(PopAt(s, i)) = Len(s) - 1
         /\ \A j \in 1..(Len(s) - 1) :
               PopAt(s, i)[j] = IF j < i THEN s[j] ELSE s[j + 1]
<1> DEFINE a == SubSeq(s, 1, i - 1)
           b == SubSeq(s, i + 1, Len(s))
<1>1. /\ a \in Seq(S) /\ Len(a) = i - 1
      /\ \A j \in 1..(i - 1) : a[j] = s[j]
  OBVIOUS
<1>2. /\ b \in Seq(S) /\ Len(b) = Len(s) - i
      /\ \A j \in 1..(Len(s) - i) : b[j] = s[i + j]
  OBVIOUS
<1>3. PopAt(s, i) = a \o b
  BY DEF PopAt
<1> HIDE DEF a, b
<1>4. /\ a \o b \in Seq(S)
      /\ Len(a \o b) = Len(s) - 1
      /\ \A j \in 1..(Len(s) - 1) :
            (a \o b)[j] = IF j <= i - 1 THEN a[j] ELSE b[j - (i - 1)]
  <2>1. Len(a) + Len(b) = Len(s) - 1
    BY <1>1, <1>2
  <2>2. /\ a \o b \in Seq(S)
        /\ Len(a \o b) = Len(a) + Len(b)
        /\ \A j \in 1..(Len(a) + Len(b)) :
              (a \o b)[j] = IF j <= Len(a) THEN a[j] ELSE b[j - Len(a)]
    BY <1>1, <1>2, Concatenated, Zenon
  <2> QED
    BY <1>1, <2>1, <2>2
<1>5. ASSUME NEW j \in 1..(Len(s) - 1)
      PROVE  (a \o b)[j] = IF j < i THEN s[j] ELSE s[j + 1]
  <2>1. CASE j < i
    BY <1>1, <1>4, <2>1
  <2>2. CASE ~(j < i)
    <3>1. j - (i - 1) \in 1..(Len(s) - i)
      BY <2>2
    <3>2. b[j - (i - 1)] = s[i + (j - (i - 1))]
      BY <1>2, <3>1
    <3>3. ~(j <= i - 1) /\ i + (j - (i - 1)) = j + 1
      BY <2>2
    <3> QED
      BY <1>4, <2>2, <3>2, <3>3, Zenon
  <2> QED
    BY <2>1, <2>2, Zenon
<1> QED
  BY <1>3, <1>4, <1>5

\* What dict.pop(d) leaves.
LEMMA WithoutProperties ==
  ASSUME NEW f, NEW d
  PROVE  /\ DOMAIN Without(f, d) = DOMAIN f \ {d}
         /\ \A x \in DOMAIN f \ {d} : Without(f, d)[x] = f[x]
  BY DEF Without

\* An unregistered consumer has no (topic, group) key.
LEMMA NoKeyNotKey == NoKey \notin Keys
  BY DEF NoKey, Keys

-----------------------------------------------------------------------------
(* The basic inductive invariant: types, the consistency of the two         *)
(* consumer tables, and what the sweep, the delivery ids and the reaper     *)
(* threads rely on.                                                         *)

\* Entries a sweep has collected are settled before it releases the lock.
DueInFlight == due \subseteq DOMAIN inFlight /\ (LockFree => due = {})

\* A delivery id that is about to be drawn is not in use.
IdsFresh == \A d \in DOMAIN inFlight : d[1] <= lastDelivery

\* A new reaper thread never takes the place of one that was started before.
ReaperSlots ==
    /\ closing = "open" \/ ~running => reaper[2] = "none"
    /\ closing = "open" /\ ~running => reaper[1] = "none"

UnusedUnregistered == \A c \in unused : registry[c] = NoKey

BasicInv ==
    /\ TypeOK
    /\ RegistryMatchesGroups
    /\ UnusedUnregistered
    /\ DueInFlight
    /\ IdsFresh
    /\ ReaperSlots

\* A new queue satisfies the basic invariant.
LEMMA BasicInit == Init => BasicInv
<1> SUFFICES ASSUME Init PROVE BasicInv
  OBVIOUS
<1>1. TypeOK
  <2>1. /\ DOMAIN inFlight = {} /\ inFlight \in [DOMAIN inFlight -> InFlightEntry]
        /\ DOMAIN held = {} /\ held \in [DOMAIN held -> Consumers \cup {Pull}]
    BY DEF Init
  <2>2. /\ pending \in [Topics -> Seq(Message)]
        /\ groups \in [Keys -> Seq(Consumers)]
    BY DEF Init
  <2>3. /\ rrIndex \in [Keys -> Nat]
        /\ registry \in [Consumers -> Keys \cup {NoKey}]
        /\ unused \subseteq Consumers
        /\ lastDelivery \in Nat
        /\ owed \in [Topics -> Nat]
    BY DEF Init
  <2>4. /\ waiter \in [Waiters -> WaiterState]
        /\ running \in BOOLEAN
        /\ reaper \in [Reapers -> ReaperPCs]
        /\ due \subseteq DeliveryIds
        /\ owes \in [Reapers -> SUBSET Topics]
        /\ closing \in ClosingPCs
    BY Zenon DEF Init, WaiterState, NotWaiting, ReaperPCs, ClosingPCs
  <2> QED
    BY <2>1, <2>2, <2>3, <2>4 DEF Init, TypeOK
<1>2. RegistryMatchesGroups /\ UnusedUnregistered
  BY NoKeyNotKey DEF Init, RegistryMatchesGroups, UnusedUnregistered
<1>3. DueInFlight /\ IdsFresh /\ ReaperSlots
  BY DEF Init, DueInFlight, IdsFresh, ReaperSlots, Reapers
<1> QED
  BY <1>1, <1>2, <1>3 DEF BasicInv

\* notify_all keeps the waiters' states well formed.
LEMMA NotifyAllType ==
  ASSUME waiter \in [Waiters -> WaiterState], NotifyAll
  PROVE  /\ waiter' \in [Waiters -> WaiterState]
         /\ \A w \in Waiters : waiter'[w].pc # "waiting"
  BY DEF NotifyAll, WaiterState

\* _start_reaper_if_needed leaves the flag set and only ever starts a thread.
LEMMA StartReaperType ==
  ASSUME running \in BOOLEAN, reaper \in [Reapers -> ReaperPCs], StartReaperIfNeeded
  PROVE  /\ running' = TRUE
         /\ reaper' \in [Reapers -> ReaperPCs]
         /\ \A r \in Reapers : reaper'[r] = reaper[r] \/ reaper'[r] = "test"
  BY DEF StartReaperIfNeeded, ReaperPCs, Reapers

\* What one call of _try_dispatch does to the types.
LEMMA TryDispatchType ==
  ASSUME TypeOK, NEW t \in Topics, TryDispatch(t)
  PROVE  /\ pending' \in [Topics -> Seq(Message)]
         /\ DOMAIN inFlight' \subseteq DeliveryIds
         /\ inFlight' \in [DOMAIN inFlight' -> InFlightEntry]
         /\ DOMAIN held' \subseteq DeliveryIds
         /\ held' \in [DOMAIN held' -> Consumers \cup {Pull}]
         /\ lastDelivery' \in Nat
         /\ rrIndex' \in [Keys -> Nat]
         /\ running' \in BOOLEAN
         /\ reaper' \in [Reapers -> ReaperPCs]
<1>1. CASE Serving(t) = {} \/ pending[t] = <<>>
  BY <1>1 DEF TryDispatch, TypeOK, queueVars
<1>2. CASE ~(Serving(t) = {} \/ pending[t] = <<>>)
  <2> DEFINE n == Len(pending[t])
             ids == ((lastDelivery + 1)..(lastDelivery + n)) \X Serving(t)
             new == [d \in ids |-> Entry(t, pending[t][d[1] - lastDelivery])]
             to == [d \in ids |-> RoundRobin(<<t, d[2]>>, d[1] - lastDelivery)]
  <2>1. /\ pending' = [pending EXCEPT ![t] = <<>>]
        /\ MakeInFlight(new, to)
        /\ lastDelivery' = lastDelivery + n
        /\ rrIndex' = [k \in Keys |->
                         IF k[1] = t /\ k[2] \in Serving(t)
                         THEN ((rrIndex[k] + n - 1) % Len(groups[k])) + 1
                         ELSE rrIndex[k]]
        /\ StartReaperIfNeeded
    BY <1>2 DEF TryDispatch
  <2>2. pending[t] \in Seq(Message) /\ n \in Nat \ {0} /\ lastDelivery \in Nat
    BY <1>2 DEF TypeOK
  <2>3. ASSUME NEW g \in Serving(t)
        PROVE  /\ <<t, g>> \in Keys /\ g \in Groups /\ t \in Served
               /\ groups[<<t, g>>] \in Seq(Consumers)
               /\ Len(groups[<<t, g>>]) \in Nat \ {0}
               /\ rrIndex[<<t, g>>] \in Nat
    BY DEF Serving, TypeOK, Keys
  <2>4. ASSUME NEW d \in ids
        PROVE  /\ d \in DeliveryIds
               /\ new[d] \in InFlightEntry
               /\ to[d] \in Consumers
    <3>0. /\ d = <<d[1], d[2]>> /\ d[2] \in Serving(t)
          /\ d[1] \in (lastDelivery + 1)..(lastDelivery + n)
      OBVIOUS
    <3>1. d[1] - lastDelivery \in 1..n /\ d[2] \in Serving(t) /\ d \in DeliveryIds
      <4>1. d[1] \in Nat \ {0} /\ d[1] - lastDelivery \in 1..n
        BY <2>2, <3>0
      <4>2. d[2] \in Groups
        BY <2>3, <3>0, Zenon
      <4>3. <<d[1], d[2]>> \in DeliveryIds
        BY <4>1, <4>2 DEF DeliveryIds
      <4> QED
        BY <3>0, <4>1, <4>3
    <3>2. pending[t][d[1] - lastDelivery] \in Message
      BY <2>2, <3>1
    <3>3. new[d] \in InFlightEntry
      BY <2>3, <3>1, <3>2, Zenon DEF Entry, Message, InFlightEntry
    <3>4. DEFINE k == <<t, d[2]>>
                 p == ((rrIndex[k] + (d[1] - lastDelivery) - 1) % Len(groups[k])) + 1
    <3>5. rrIndex[k] + (d[1] - lastDelivery) - 1 \in Nat
      BY <2>3, <3>1
    <3>6. p \in 1..Len(groups[k])
      BY <2>3, <3>1, <3>5, ModRange
    <3>7. groups[k][p] \in Consumers
      BY <2>3, <3>1, <3>6
    <3> QED
      BY <3>1, <3>3, <3>7 DEF RoundRobin
  <2>5. ASSUME NEW k \in Keys, k[1] = t, k[2] \in Serving(t)
        PROVE  ((rrIndex[k] + n - 1) % Len(groups[k])) + 1 \in Nat
    <3>1. k = <<t, k[2]>>
      BY <2>5 DEF Keys
    <3>2. rrIndex[k] + n - 1 \in Nat /\ Len(groups[k]) \in Nat \ {0}
      BY <2>2, <2>3, <2>5, <3>1
    <3> QED
      BY <3>2, ModRange
  <2>6. DOMAIN new = ids /\ DOMAIN to = ids
    OBVIOUS
  <2> HIDE DEF n, ids, new, to
  <2>7. pending' \in [Topics -> Seq(Message)] /\ lastDelivery' \in Nat
    BY <2>1, <2>2 DEF TypeOK
  <2>8. rrIndex' \in [Keys -> Nat]
    BY <2>1, <2>5 DEF TypeOK
  <2>9. /\ DOMAIN inFlight' \subseteq DeliveryIds
        /\ inFlight' \in [DOMAIN inFlight' -> InFlightEntry]
    BY <2>1, <2>4, <2>6 DEF MakeInFlight, TypeOK
  <2>10. /\ DOMAIN held' \subseteq DeliveryIds
         /\ held' \in [DOMAIN held' -> Consumers \cup {Pull}]
    BY <2>1, <2>4, <2>6 DEF MakeInFlight, TypeOK
  <2>11. running' \in BOOLEAN /\ reaper' \in [Reapers -> ReaperPCs]
    BY <2>1, StartReaperType, Zenon DEF TypeOK
  <2> QED
    BY <2>7, <2>8, <2>9, <2>10, <2>11
<1> QED
  BY <1>1, <1>2

\* Ending a delivery keeps the tables of deliveries well typed.
LEMMA WithoutTypes ==
  ASSUME TypeOK, NEW d
  PROVE  /\ DOMAIN Without(inFlight, d) \subseteq DeliveryIds
         /\ Without(inFlight, d) \in [DOMAIN Without(inFlight, d) -> InFlightEntry]
         /\ DOMAIN Without(held, d) \subseteq DeliveryIds
         /\ Without(held, d) \in [DOMAIN Without(held, d) -> Consumers \cup {Pull}]
  BY DEF Without, TypeOK

\* Requeueing an entry keeps the pending messages well typed.
LEMMA RequeueType ==
  ASSUME TypeOK, NEW e \in InFlightEntry, Requeue(e)
  PROVE  pending' \in [Topics -> Seq(Message)]
<1> DEFINE m == [payload |-> e.payload, retry |-> e.retry + 1]
<1>1. m \in Message /\ e.topic \in Topics
  BY TopicsAssumption DEF InFlightEntry, Message
<1>2. <<m>> \o pending[e.topic] \in Seq(Message)
  BY <1>1 DEF TypeOK
<1> QED
  BY <1>1, <1>2 DEF Requeue, TypeOK

\* So does _dead_letter, which also wakes the waiters.
LEMMA DeadLetterType ==
  ASSUME TypeOK, NEW e \in InFlightEntry, DeadLetter(e)
  PROVE  /\ pending' \in [Topics -> Seq(Message)]
         /\ waiter' \in [Waiters -> WaiterState]
<1> DEFINE m == [payload |-> e.payload, retry |-> e.retry]
           u == DeadLetterOf[e.topic]
<1>1. m \in Message /\ u \in Topics
  BY TopicsAssumption DEF InFlightEntry, Message
<1>2. Append(pending[u], m) \in Seq(Message)
  BY <1>1 DEF TypeOK
<1>3. pending' = [pending EXCEPT ![u] = Append(@, m)] /\ NotifyAll
  BY DEF DeadLetter
<1>4. waiter' \in [Waiters -> WaiterState]
  BY <1>3, NotifyAllType DEF TypeOK
<1> QED
  BY <1>1, <1>2, <1>3, <1>4 DEF TypeOK

\* Every operation, thread step and close() keeps the types.
LEMMA TypeStep ==
  ASSUME BasicInv, Next
  PROVE  TypeOK'
<1> USE DEF BasicInv
<1>1. ASSUME NEW t \in Served, NEW m \in Messages, Enqueue(t, m)
      PROVE  TypeOK'
  <2>1. t \in Topics /\ [payload |-> m, retry |-> 0] \in Message
    BY TopicsAssumption DEF Message
  <2>2. pending' \in [Topics -> Seq(Message)]
    BY <1>1, <2>1 DEF Enqueue, TypeOK
  <2>3. waiter' \in [Waiters -> WaiterState]
    BY <1>1, NotifyAllType DEF Enqueue, TypeOK
  <2>4. owed' \in [Topics -> Nat] /\ sent' \subseteq Messages
    BY <1>1, <2>1 DEF Enqueue, TypeOK
  <2> QED
    BY <1>1, <2>2, <2>3, <2>4 DEF Enqueue, TypeOK, consumerVars, reaperVars
<1>2. ASSUME NEW c \in Consumers, NEW k \in Keys, Consume(c, k)
      PROVE  TypeOK'
  <2>1. k[1] \in Topics
    BY TopicsAssumption DEF Keys
  <2>2. groups' \in [Keys -> Seq(Consumers)] /\ registry' \in [Consumers -> Keys \cup {NoKey}]
    BY <1>2 DEF Consume, TypeOK
  <2>3. owed' \in [Topics -> Nat] /\ unused' \subseteq Consumers
    BY <1>2, <2>1 DEF Consume, TypeOK
  <2> QED
    BY <1>2, <2>2, <2>3, Zenon DEF Consume, TypeOK, queueVars, reaperVars, historyVars
<1>3. ASSUME NEW c \in Consumers, RemoveConsumer(c)
      PROVE  TypeOK'
  <2> DEFINE k == registry[c]
             at == {i \in DOMAIN groups[k] : groups[k][i] = c}
             i == CHOOSE i \in at : \A j \in at : i <= j
             left == IF at = {} THEN groups[k] ELSE PopAt(groups[k], i)
  <2>1. k \in Keys /\ groups[k] \in Seq(Consumers)
    BY <1>3 DEF RemoveConsumer, TypeOK
  <2>2. left \in Seq(Consumers)
    <3>1. CASE at = {}
      BY <2>1, <3>1
    <3>2. CASE at # {}
      <4>1. PICK x \in at : TRUE
        BY <3>2
      <4>2. \A j \in at : j = x
        BY <2>1, <4>1 DEF RegistryMatchesGroups
      <4>3. x \in 1..Len(groups[k])
        BY <2>1
      <4>4. \A j \in at : x <= j
        BY <4>2, <4>3
      <4>5. i = x
        BY <4>1, <4>2, <4>4
      <4> QED
        BY <2>1, <3>2, <4>3, <4>5, PopAtProperties, Zenon
    <3> QED
      BY <3>1, <3>2
  <2>3. /\ groups' = [groups EXCEPT ![k] = left]
        /\ rrIndex' = IF left = <<>> THEN [rrIndex EXCEPT ![k] = 0] ELSE rrIndex
        /\ registry' = [registry EXCEPT ![c] = NoKey]
    BY <1>3 DEF RemoveConsumer
  <2> HIDE DEF left, k
  <2>4. groups' \in [Keys -> Seq(Consumers)] /\ rrIndex' \in [Keys -> Nat]
    BY <2>2, <2>3, Zenon DEF TypeOK
  <2>5. registry' \in [Consumers -> Keys \cup {NoKey}]
    BY <2>3 DEF TypeOK
  <2> QED
    BY <1>3, <2>4, <2>5, Zenon DEF RemoveConsumer, TypeOK, queueVars, reaperVars, historyVars
<1>4. ASSUME NEW t \in Topics, Dispatch(t)
      PROVE  TypeOK'
  <2>1. TryDispatch(t)
    BY <1>4 DEF Dispatch
  <2>2. owed' \in [Topics -> Nat]
    BY <1>4 DEF Dispatch, TypeOK
  <2> QED
    BY <1>4, <2>1, <2>2, TryDispatchType, Zenon DEF Dispatch, TypeOK, historyVars
<1>5. ASSUME NEW w \in Waiters, NEW t \in Served, DequeueCall(w, t)
      PROVE  TypeOK'
  <2>1. waiter' \in [Waiters -> WaiterState]
    BY <1>5 DEF DequeueCall, TypeOK, WaiterState
  <2> QED
    BY <1>5, <2>1 DEF DequeueCall, TypeOK, queueVars, consumerVars, reaperVars, historyVars
<1>6. ASSUME NEW w \in Waiters, DequeueClosed(w) \/ DequeueEmpty(w) \/ DequeueWaitTimeout(w)
      PROVE  TypeOK'
  <2>1. waiter' \in [Waiters -> WaiterState]
    <3>1. \/ waiter' = [waiter EXCEPT ![w] = NotWaiting]
          \/ waiter' = [waiter EXCEPT ![w].pc = "waiting"] /\ waiter[w].pc = "check"
          \/ waiter' = [waiter EXCEPT ![w].pc = "check"] /\ waiter[w].pc = "waiting"
      BY <1>6 DEF DequeueClosed, DequeueEmpty, DequeueWaitTimeout
    <3>2. waiter \in [Waiters -> WaiterState] /\ NotWaiting \in WaiterState
      BY DEF TypeOK, WaiterState, NotWaiting
    <3>3. waiter[w].pc # "idle" =>
             /\ [waiter[w] EXCEPT !.pc = "check"] \in WaiterState
             /\ [waiter[w] EXCEPT !.pc = "waiting"] \in WaiterState
      BY <3>2 DEF WaiterState
    <3> QED
      BY <3>1, <3>2, <3>3
  <2> QED
    BY <1>6, <2>1 DEF DequeueClosed, DequeueEmpty, DequeueWaitTimeout, TypeOK,
                      queueVars, consumerVars, reaperVars, historyVars
<1>7. ASSUME NEW w \in Waiters, DequeueTake(w)
      PROVE  TypeOK'
  <2> DEFINE t == waiter[w].topic
             d == <<lastDelivery + 1, Pull>>
  <2>1. /\ pending[t] # <<>>
        /\ pending' = [pending EXCEPT ![t] = Tail(@)]
        /\ MakeInFlight([x \in {d} |-> Entry(t, Head(pending[t]))], [x \in {d} |-> Pull])
        /\ StartReaperIfNeeded
        /\ waiter' = [waiter EXCEPT ![w] = NotWaiting]
    BY <1>7 DEF DequeueTake
  <2>2. t \in Served /\ t \in Topics
    BY <1>7, TopicsAssumption DEF DequeueTake, TypeOK, WaiterState
  <2>3. pending[t] \in Seq(Message)
    BY <2>2 DEF TypeOK
  <2>4. Head(pending[t]) \in Message /\ Tail(pending[t]) \in Seq(Message)
    BY <2>1, <2>3
  <2>5. Entry(t, Head(pending[t])) \in InFlightEntry
    BY <2>2, <2>4 DEF Entry, Message, InFlightEntry
  <2>6. d \in DeliveryIds
    BY DEF DeliveryIds, TypeOK
  <2>7. waiter' \in [Waiters -> WaiterState]
    BY <2>1 DEF TypeOK, WaiterState, NotWaiting
  <2> HIDE DEF t, d
  <2>8. pending' \in [Topics -> Seq(Message)]
    BY <2>1, <2>2, <2>4 DEF TypeOK
  <2>9. /\ DOMAIN inFlight' \subseteq DeliveryIds
        /\ inFlight' \in [DOMAIN inFlight' -> InFlightEntry]
        /\ DOMAIN held' \subseteq DeliveryIds
        /\ held' \in [DOMAIN held' -> Consumers \cup {Pull}]
    BY <2>1, <2>5, <2>6 DEF MakeInFlight, TypeOK
  <2>10. running' \in BOOLEAN /\ reaper' \in [Reapers -> ReaperPCs]
    BY <2>1, StartReaperType, Zenon DEF TypeOK
  <2>11. lastDelivery' \in Nat
    BY <1>7 DEF DequeueTake, TypeOK
  <2> QED
    BY <1>7, <2>7, <2>8, <2>9, <2>10, <2>11 DEF DequeueTake, TypeOK, consumerVars, historyVars
<1>8. ASSUME NEW d \in DOMAIN held, Ack(d)
      PROVE  TypeOK'
  <2>1. acked' \subseteq Messages
    BY <1>8 DEF Ack, TypeOK, InFlightEntry
  <2> QED
    BY <1>8, <2>1, WithoutTypes DEF Ack, TypeOK, consumerVars, reaperVars
<1>9. ASSUME NEW d \in DOMAIN held, Abandon(d)
      PROVE  TypeOK'
  BY <1>9, WithoutTypes DEF Abandon, TypeOK, consumerVars, reaperVars, historyVars
<1>10. ASSUME NEW d \in DOMAIN held, NEW requeue \in BOOLEAN, Nack(d, requeue)
       PROVE  TypeOK'
  <2>1. CASE d \notin DOMAIN inFlight
    BY <1>10, <2>1, WithoutTypes DEF Nack, TypeOK, consumerVars, reaperVars, historyVars
  <2>2. CASE d \in DOMAIN inFlight
    <3> DEFINE e == inFlight[d]
    <3>1. e \in InFlightEntry /\ e.topic \in Topics
      BY <2>2, TopicsAssumption DEF TypeOK, InFlightEntry
    <3>2. \/ Requeue(e) /\ NotifyAll /\ owed' = [owed EXCEPT ![e.topic] = @ + 1]
          \/ DeadLetter(e) /\ UNCHANGED owed
      BY <1>10, <2>2 DEF Nack
    <3> HIDE DEF e
    <3>3. pending' \in [Topics -> Seq(Message)]
      BY <3>1, <3>2, RequeueType, DeadLetterType
    <3>4. waiter' \in [Waiters -> WaiterState]
      BY <3>1, <3>2, NotifyAllType, DeadLetterType DEF TypeOK
    <3>5. owed' \in [Topics -> Nat]
      BY <3>1, <3>2 DEF TypeOK
    <3> QED
      BY <1>10, <2>2, <3>3, <3>4, <3>5, WithoutTypes
         DEF Nack, TypeOK, consumerVars, reaperVars, historyVars
  <2> QED
    BY <2>1, <2>2
<1>11. ASSUME NEW r \in Reapers, ReaperTest(r) \/ ReaperSleep(r)
       PROVE  TypeOK'
  <2>1. reaper' \in [Reapers -> ReaperPCs]
    BY <1>11 DEF ReaperTest, ReaperSleep, TypeOK, ReaperPCs
  <2> QED
    BY <1>11, <2>1 DEF ReaperTest, ReaperSleep, TypeOK, queueVars, consumerVars, historyVars
<1>12. ASSUME NEW r \in Reapers, ReaperRelease(r)
       PROVE  TypeOK'
  <2>1. reaper' \in [Reapers -> ReaperPCs]
    BY <1>12 DEF ReaperRelease, TypeOK, ReaperPCs
  <2>2. waiter' \in [Waiters -> WaiterState]
    BY <1>12, NotifyAllType DEF ReaperRelease, TypeOK
  <2> QED
    BY <1>12, <2>1, <2>2 DEF ReaperRelease, TypeOK, queueVars, consumerVars, historyVars
<1>13. ASSUME NEW r \in Reapers, NEW S \in SUBSET DOMAIN inFlight, ReaperCollect(r, S)
       PROVE  TypeOK'
  <2>1. reaper' \in [Reapers -> ReaperPCs] /\ due' \subseteq DeliveryIds
    BY <1>13 DEF ReaperCollect, TypeOK, ReaperPCs
  <2> QED
    BY <1>13, <2>1 DEF ReaperCollect, TypeOK, queueVars, consumerVars, historyVars
<1>14. ASSUME NEW r \in Reapers, NEW d \in due, ReaperExpire(r, d)
       PROVE  TypeOK'
  <2> DEFINE e == inFlight[d]
  <2>1. e \in InFlightEntry /\ e.topic \in Topics
    BY TopicsAssumption DEF TypeOK, InFlightEntry, DueInFlight
  <2>2. \/ /\ Requeue(e) /\ UNCHANGED waiter
           /\ owes' = [owes EXCEPT ![r] = @ \cup {e.topic}]
        \/ DeadLetter(e) /\ UNCHANGED owes
    BY <1>14 DEF ReaperExpire
  <2> HIDE DEF e
  <2>3. pending' \in [Topics -> Seq(Message)]
    BY <2>1, <2>2, RequeueType, DeadLetterType
  <2>4. waiter' \in [Waiters -> WaiterState]
    BY <2>1, <2>2, DeadLetterType DEF TypeOK
  <2>5. owes' \in [Reapers -> SUBSET Topics]
    <3>1. owes \in [Reapers -> SUBSET Topics]
      BY DEF TypeOK
    <3>2. owes[r] \cup {e.topic} \in SUBSET Topics
      BY <2>1, <3>1
    <3>3. owes' = owes \/ owes' = [owes EXCEPT ![r] = owes[r] \cup {e.topic}]
      BY <2>2
    <3> QED
      BY <3>1, <3>2, <3>3
  <2>6. due' \subseteq DeliveryIds
    BY <1>14 DEF TypeOK, ReaperExpire
  <2> QED
    BY <1>14, <2>3, <2>4, <2>5, <2>6, WithoutTypes
       DEF ReaperExpire, TypeOK, consumerVars, historyVars
<1>15. ASSUME NEW r \in Reapers, NEW t \in Topics, ReaperDispatch(r, t)
       PROVE  TypeOK'
  <2>1. TryDispatch(t)
    BY <1>15 DEF ReaperDispatch
  <2>2. owes' \in [Reapers -> SUBSET Topics]
    BY <1>15 DEF ReaperDispatch, TypeOK
  <2> QED
    BY <1>15, <2>1, <2>2, TryDispatchType DEF ReaperDispatch, TypeOK, historyVars
<1>16. ASSUME CloseStopReaper \/ CloseSetFlag
       PROVE  TypeOK'
  BY <1>16, Zenon DEF CloseStopReaper, CloseSetFlag, TypeOK, ClosingPCs,
               queueVars, consumerVars, reaperVars, historyVars
<1>17. ASSUME CloseClear
       PROVE  TypeOK'
  <2>1. /\ pending' \in [Topics -> Seq(Message)]
        /\ groups' \in [Keys -> Seq(Consumers)]
        /\ registry' \in [Consumers -> Keys \cup {NoKey}]
    BY <1>17 DEF CloseClear
  <2>2. DOMAIN inFlight' = {} /\ inFlight' \in [DOMAIN inFlight' -> InFlightEntry]
    BY <1>17 DEF CloseClear
  <2>3. waiter' \in [Waiters -> WaiterState]
    BY <1>17, NotifyAllType DEF CloseClear, TypeOK
  <2>4. PendingPayloads \subseteq Messages /\ InFlightPayloads \subseteq Messages
    <3>1. ASSUME NEW t \in Topics, NEW j \in DOMAIN pending[t]
          PROVE  pending[t][j].payload \in Messages
      <4>1. pending[t] \in Seq(Message)
        BY DEF TypeOK
      <4>2. pending[t][j] \in Message
        BY <4>1
      <4> QED
        BY <4>2 DEF Message
    <3>2. \A d \in DOMAIN inFlight : inFlight[d].payload \in Messages
      BY DEF TypeOK, InFlightEntry
    <3> QED
      BY <3>1, <3>2 DEF PendingPayloads, InFlightPayloads
  <2>5. dropped' \subseteq Messages
    BY <1>17, <2>4, SMTT(20) DEF CloseClear, TypeOK
  <2> QED
    BY <1>17, <2>1, <2>2, <2>3, <2>5 DEF CloseClear, TypeOK, ClosingPCs, reaperVars
<1> QED
  BY <1>1, <1>2, <1>3, <1>4, <1>5, <1>6, <1>7, <1>8, <1>9, <1>10, <1>11, <1>12,
     <1>13, <1>14, <1>15, <1>16, <1>17 DEF Next

-----------------------------------------------------------------------------
(* The consumer tables. *)

\* Only consume, remove_consumer and close touch the consumer tables.
LEMMA ConsumerTablesChange ==
  ASSUME Next
  PROVE  \/ \E c \in Consumers, k \in Keys : Consume(c, k)
         \/ \E c \in Consumers : RemoveConsumer(c)
         \/ CloseClear
         \/ UNCHANGED <<groups, registry, unused>>
  BY Zenon DEF Next, Enqueue, Dispatch, DequeueCall, DequeueClosed, DequeueTake, DequeueEmpty,
         DequeueWaitTimeout, Ack, Nack, Abandon, ReaperTest, ReaperCollect, ReaperExpire,
         ReaperRelease, ReaperDispatch, ReaperSleep, CloseStopReaper, CloseSetFlag,
         consumerVars

\* Every step keeps the consumer tables consistent with each other.
LEMMA RegistryStep ==
  ASSUME BasicInv, Next
  PROVE  RegistryMatchesGroups' /\ UnusedUnregistered'
<1> USE DEF BasicInv
<1>0. /\ groups \in [Keys -> Seq(Consumers)]
      /\ registry \in [Consumers -> Keys \cup {NoKey}]
      /\ unused \subseteq Consumers
  BY DEF TypeOK
<1>1. ASSUME NEW c \in Consumers, NEW k \in Keys, Consume(c, k)
      PROVE  RegistryMatchesGroups' /\ UnusedUnregistered'
  <2>1. /\ c \in unused /\ unused' = unused \ {c}
        /\ groups' = [groups EXCEPT ![k] = Append(groups[k], c)]
        /\ registry' = [registry EXCEPT ![c] = k]
    BY <1>1 DEF Consume
  <2>2. UnusedUnregistered'
    BY <1>0, <2>1 DEF UnusedUnregistered
  <2>3. \A l \in Keys : \A i \in DOMAIN groups[l] : groups[l][i] # c
    BY <2>1, NoKeyNotKey DEF UnusedUnregistered, RegistryMatchesGroups
  <2>4. groups[k] \in Seq(Consumers)
    BY <1>0
  <2>5. /\ DOMAIN groups'[k] = 1..(Len(groups[k]) + 1)
        /\ \A i \in DOMAIN groups[k] : groups'[k][i] = groups[k][i]
        /\ groups'[k][Len(groups[k]) + 1] = c
        /\ DOMAIN groups[k] = 1..Len(groups[k]) /\ Len(groups[k]) \in Nat
    BY <1>0, <2>1, <2>4
  <2>6. \A l \in Keys \ {k} : groups'[l] = groups[l]
    BY <1>0, <2>1
  <2>7. ASSUME NEW x \in Consumers, NEW l \in Keys
        PROVE  /\ registry'[x] = l <=> \E i \in DOMAIN groups'[l] : groups'[l][i] = x
               /\ \A i, j \in DOMAIN groups'[l] : groups'[l][i] = groups'[l][j] => i = j
    <3>1. CASE l # k
      <4>1. groups'[l] = groups[l]
        BY <2>6, <3>1
      <4>2. registry'[x] = l <=> registry[x] = l
        BY <1>0, <2>1, <3>1, NoKeyNotKey DEF UnusedUnregistered
      <4> QED
        BY <4>1, <4>2 DEF RegistryMatchesGroups
    <3>2. CASE l = k
      <4>1. registry'[x] = k <=> x = c \/ registry[x] = k
        BY <1>0, <2>1
      <4>2. (\E i \in DOMAIN groups'[k] : groups'[k][i] = x)
               <=> x = c \/ \E i \in DOMAIN groups[k] : groups[k][i] = x
        BY <2>5
      <4>3. \A i, j \in DOMAIN groups'[k] : groups'[k][i] = groups'[k][j] => i = j
        BY <2>3, <2>5 DEF RegistryMatchesGroups
      <4> QED
        BY <3>2, <4>1, <4>2, <4>3 DEF RegistryMatchesGroups
    <3> QED
      BY <3>1, <3>2
  <2> QED
    BY <2>2, <2>7 DEF RegistryMatchesGroups
<1>2. ASSUME NEW c \in Consumers, RemoveConsumer(c)
      PROVE  RegistryMatchesGroups' /\ UnusedUnregistered'
  <2> DEFINE k == registry[c]
             s == groups[k]
             at == {i \in DOMAIN s : s[i] = c}
             least == CHOOSE i \in at : \A j \in at : i <= j
             left == IF at = {} THEN s ELSE PopAt(s, least)
  <2>1. /\ k \in Keys /\ s \in Seq(Consumers)
        /\ DOMAIN s = 1..Len(s) /\ Len(s) \in Nat
    BY <1>0, <1>2 DEF RemoveConsumer
  <2>2. PICK p \in DOMAIN s : s[p] = c
    BY <2>1 DEF RegistryMatchesGroups
  <2>3. at = {p}
    BY <2>1, <2>2 DEF RegistryMatchesGroups
  <2>4. least = p
    BY <2>1, <2>3
  <2>5. left = PopAt(s, p)
    BY <2>3, <2>4, Zenon
  <2>6. /\ groups' = [groups EXCEPT ![k] = left]
        /\ registry' = [registry EXCEPT ![c] = NoKey]
        /\ unused' = unused
    BY <1>2 DEF RemoveConsumer
  <2>7. /\ left \in Seq(Consumers) /\ Len(left) = Len(s) - 1
        /\ DOMAIN left = 1..(Len(s) - 1)
        /\ \A j \in 1..(Len(s) - 1) : left[j] = IF j < p THEN s[j] ELSE s[j + 1]
    <3> HIDE DEF k, s, at, least, left
    <3>1. p \in 1..Len(s)
      BY <2>1, <2>2
    <3>2. /\ PopAt(s, p) \in Seq(Consumers)
          /\ Len(PopAt(s, p)) = Len(s) - 1
          /\ \A j \in 1..(Len(s) - 1) :
                PopAt(s, p)[j] = IF j < p THEN s[j] ELSE s[j + 1]
      BY <2>1, <3>1, PopAtProperties, Zenon
    <3>3. left \in Seq(Consumers) /\ DOMAIN left = 1..Len(left)
      BY <2>5, <3>2
    <3> QED
      BY <2>5, <3>2, <3>3
  <2> HIDE DEF k, s, at, least, left
  <2>8. \A i, j \in DOMAIN s : s[i] = s[j] => i = j
    BY <2>1 DEF RegistryMatchesGroups, s
  <2>9. UnusedUnregistered'
    BY <1>0, <2>6 DEF UnusedUnregistered
  <2>10. \A x \in Consumers :
            (\E i \in DOMAIN left : left[i] = x) <=> x # c /\ \E i \in DOMAIN s : s[i] = x
    <3>1. ASSUME NEW i \in DOMAIN left
          PROVE  left[i] # c /\ \E j \in DOMAIN s : s[j] = left[i]
      <4> DEFINE j == IF i < p THEN i ELSE i + 1
      <4>1. j \in DOMAIN s /\ j # p
        BY <2>1, <2>2, <2>7
      <4>2. left[i] = s[j]
        BY <2>7
      <4> HIDE DEF j
      <4> QED
        BY <2>2, <2>8, <4>1, <4>2
    <3>2. ASSUME NEW j \in DOMAIN s, s[j] # c
          PROVE  \E i \in DOMAIN left : left[i] = s[j]
      <4>1. CASE j < p
        BY <2>1, <2>2, <2>7, <4>1
      <4>2. CASE j > p
        <5>1. j - 1 \in DOMAIN left /\ ~(j - 1 < p) /\ (j - 1) + 1 = j
          BY <2>1, <2>2, <2>7, <4>2
        <5>2. left[j - 1] = s[j]
          BY <2>7, <5>1
        <5> QED
          BY <5>1, <5>2
      <4> QED
        BY <2>1, <2>2, <3>2, <4>1, <4>2
    <3> QED
      BY <3>1, <3>2
  <2>11. \A i, j \in DOMAIN left : left[i] = left[j] => i = j
    <3> DEFINE from(i) == IF i < p THEN i ELSE i + 1
    <3>1. \A i \in DOMAIN left : from(i) \in DOMAIN s /\ left[i] = s[from(i)]
      BY <2>1, <2>2, <2>7
    <3>2. \A i, j \in DOMAIN left : from(i) = from(j) => i = j
      BY <2>1, <2>2, <2>7
    <3> QED
      BY <2>8, <3>1, <3>2
  <2>12. ASSUME NEW x \in Consumers, NEW l \in Keys
        PROVE  /\ registry'[x] = l <=> \E i \in DOMAIN groups'[l] : groups'[l][i] = x
               /\ \A i, j \in DOMAIN groups'[l] : groups'[l][i] = groups'[l][j] => i = j
    <3>1. CASE l # k
      <4>1. groups'[l] = groups[l]
        BY <1>0, <2>6, <3>1
      <4>2. registry'[x] = l <=> registry[x] = l
        BY <1>0, <2>6, <3>1, NoKeyNotKey DEF k
      <4> QED
        BY <4>1, <4>2 DEF RegistryMatchesGroups
    <3>2. CASE l = k
      <4>1. registry'[x] = k <=> x # c /\ registry[x] = k
        BY <1>0, <2>1, <2>6, NoKeyNotKey
      <4>2. groups'[k] = left
        BY <1>0, <2>1, <2>6
      <4>3. registry[x] = k <=> \E i \in DOMAIN s : s[i] = x
        BY <2>1 DEF RegistryMatchesGroups, s
      <4> QED
        BY <3>2, <4>1, <4>2, <4>3, <2>10, <2>11
    <3> QED
      BY <3>1, <3>2
  <2> QED
    BY <2>9, <2>12, Zenon DEF RegistryMatchesGroups
<1>3. ASSUME CloseClear
      PROVE  RegistryMatchesGroups' /\ UnusedUnregistered'
  <2>1. /\ groups' = [k \in Keys |-> <<>>]
        /\ registry' = [c \in Consumers |-> NoKey]
        /\ unused' = unused
    BY <1>3 DEF CloseClear
  <2>2. UnusedUnregistered'
    BY <1>0, <2>1 DEF UnusedUnregistered
  <2>3. RegistryMatchesGroups'
    BY <2>1, NoKeyNotKey DEF RegistryMatchesGroups
  <2> QED
    BY <2>2, <2>3
<1>4. ASSUME UNCHANGED <<groups, registry, unused>>
      PROVE  RegistryMatchesGroups' /\ UnusedUnregistered'
  BY <1>4 DEF RegistryMatchesGroups, UnusedUnregistered
<1> QED
  BY <1>1, <1>2, <1>3, <1>4, ConsumerTablesChange

-----------------------------------------------------------------------------
(* Sweeps, delivery ids and reaper threads. *)

\* The deliveries one effective call of _try_dispatch creates.
NewIds(t) ==
    ((lastDelivery + 1)..(lastDelivery + Len(pending[t]))) \X Serving(t)

\* What one call of _try_dispatch does: nothing, or one new delivery for
\* every pending message and every group, under ids not used before.
LEMMA TryDispatchEffect ==
  ASSUME TypeOK, IdsFresh, NEW t \in Topics, TryDispatch(t)
  PROVE  \/ UNCHANGED <<queueVars, rrIndex, running, reaper>>
         \/ /\ Serving(t) # {} /\ pending[t] # <<>>
            /\ pending' = [pending EXCEPT ![t] = <<>>]
            /\ lastDelivery' = lastDelivery + Len(pending[t])
            /\ DOMAIN inFlight' = DOMAIN inFlight \cup NewIds(t)
            /\ \A d \in NewIds(t) :
                  /\ d \notin DOMAIN inFlight
                  /\ d[1] - lastDelivery \in DOMAIN pending[t]
                  /\ d[1] \in Nat /\ d[1] <= lastDelivery'
                  /\ inFlight'[d] = Entry(t, pending[t][d[1] - lastDelivery])
            /\ \A d \in DOMAIN inFlight : inFlight'[d] = inFlight[d]
            /\ StartReaperIfNeeded
<1>1. CASE Serving(t) = {} \/ pending[t] = <<>>
  BY <1>1, Zenon DEF TryDispatch
<1>2. CASE ~(Serving(t) = {} \/ pending[t] = <<>>)
  <2> DEFINE n == Len(pending[t])
             ids == ((lastDelivery + 1)..(lastDelivery + n)) \X Serving(t)
             new == [d \in ids |-> Entry(t, pending[t][d[1] - lastDelivery])]
             to == [d \in ids |-> RoundRobin(<<t, d[2]>>, d[1] - lastDelivery)]
  <2>1. /\ pending' = [pending EXCEPT ![t] = <<>>]
        /\ MakeInFlight(new, to)
        /\ lastDelivery' = lastDelivery + n
        /\ StartReaperIfNeeded
    BY <1>2 DEF TryDispatch
  <2>2. /\ pending[t] \in Seq(Message) /\ n \in Nat \ {0} /\ lastDelivery \in Nat
        /\ DOMAIN pending[t] = 1..n
    BY <1>2 DEF TypeOK
  <2>3. ids = NewIds(t) /\ DOMAIN new = ids
    BY Zenon DEF NewIds
  <2>4. ASSUME NEW d \in ids
        PROVE  /\ d \notin DOMAIN inFlight
               /\ d[1] - lastDelivery \in DOMAIN pending[t]
               /\ d[1] \in Nat /\ d[1] <= lastDelivery'
               /\ new[d] = Entry(t, pending[t][d[1] - lastDelivery])
    <3>1. d[1] \in (lastDelivery + 1)..(lastDelivery + n)
      OBVIOUS
    <3>2. /\ d[1] - lastDelivery \in 1..n /\ d[1] \in Nat
          /\ d[1] <= lastDelivery + n /\ ~(d[1] <= lastDelivery)
      BY <2>2, <3>1
    <3> QED
      BY <2>1, <2>2, <3>2 DEF IdsFresh
  <2> HIDE DEF n, ids, new, to
  <2>5. /\ DOMAIN inFlight' = DOMAIN inFlight \cup ids
        /\ \A d \in ids : inFlight'[d] = new[d]
        /\ \A d \in DOMAIN inFlight \ ids : inFlight'[d] = inFlight[d]
    BY <2>1, <2>3, Zenon DEF MakeInFlight
  <2> QED
    BY <1>2, <2>1, <2>3, <2>4, <2>5 DEF n
<1> QED
  BY <1>1, <1>2

\* The same for the delivery dequeue() makes.
LEMMA DequeueTakeEffect ==
  ASSUME TypeOK, IdsFresh, NEW w \in Waiters, DequeueTake(w)
  PROVE  LET t == waiter[w].topic
             d == <<lastDelivery + 1, Pull>>
         IN  /\ t \in Served /\ t \in Topics
             /\ pending[t] \in Seq(Message) /\ pending[t] # <<>>
             /\ pending' = [pending EXCEPT ![t] = Tail(pending[t])]
             /\ d \notin DOMAIN inFlight
             /\ DOMAIN inFlight' = DOMAIN inFlight \cup {d}
             /\ inFlight'[d] = Entry(t, Head(pending[t]))
             /\ \A x \in DOMAIN inFlight : inFlight'[x] = inFlight[x]
             /\ lastDelivery' = lastDelivery + 1
             /\ StartReaperIfNeeded
<1> DEFINE t == waiter[w].topic
           d == <<lastDelivery + 1, Pull>>
           new == [x \in {d} |-> Entry(t, Head(pending[t]))]
<1>1. /\ pending[t] # <<>>
      /\ pending' = [pending EXCEPT ![t] = Tail(pending[t])]
      /\ MakeInFlight(new, [x \in {d} |-> Pull])
      /\ lastDelivery' = lastDelivery + 1
      /\ StartReaperIfNeeded
  BY DEF DequeueTake
<1>2. t \in Served /\ t \in Topics
  BY TopicsAssumption DEF DequeueTake, TypeOK, WaiterState
<1>3. pending[t] \in Seq(Message)
  BY <1>2 DEF TypeOK
<1>4. d[1] = lastDelivery + 1 /\ lastDelivery \in Nat
  BY DEF TypeOK
<1>5. d \notin DOMAIN inFlight
  BY <1>4 DEF IdsFresh
<1>6. DOMAIN new = {d} /\ new[d] = Entry(t, Head(pending[t]))
  OBVIOUS
<1> HIDE DEF t, d, new
<1>7. /\ DOMAIN inFlight' = DOMAIN inFlight \cup {d}
      /\ inFlight'[d] = new[d]
      /\ \A x \in DOMAIN inFlight : inFlight'[x] = inFlight[x]
  BY <1>1, <1>5, <1>6 DEF MakeInFlight
<1> QED
  BY <1>1, <1>2, <1>3, <1>5, <1>6, <1>7 DEF t, d

\* Nobody takes an entry away from a sweep that has collected it.
LEMMA DueStep ==
  ASSUME BasicInv, Next
  PROVE  DueInFlight'
<1> USE DEF BasicInv
<1>1. CASE LockFree /\ UNCHANGED due
  BY <1>1 DEF DueInFlight
<1>2. CASE UNCHANGED <<due, inFlight, reaper>>
  BY <1>2 DEF DueInFlight, LockFree
<1>3. ASSUME NEW r \in Reapers, ReaperTest(r) \/ ReaperSleep(r)
      PROVE  DueInFlight'
  <2>1. /\ reaper[r] # "sweep"
        /\ \A q \in Reapers \ {r} : reaper'[q] = reaper[q]
        /\ UNCHANGED <<due, inFlight>>
    BY <1>3 DEF ReaperTest, ReaperSleep, queueVars, TypeOK
  <2> QED
    BY <2>1 DEF DueInFlight, LockFree
<1>4. ASSUME NEW r \in Reapers, ReaperRelease(r)
      PROVE  DueInFlight'
  BY <1>4 DEF DueInFlight, ReaperRelease
<1>5. ASSUME NEW r \in Reapers, NEW S \in SUBSET DOMAIN inFlight, ReaperCollect(r, S)
      PROVE  DueInFlight'
  <2>1. reaper'[r] = "sweep" /\ due' = S /\ inFlight' = inFlight
    BY <1>5 DEF ReaperCollect, queueVars, TypeOK
  <2> QED
    BY <2>1 DEF DueInFlight, LockFree
<1>6. ASSUME NEW r \in Reapers, NEW d \in due, ReaperExpire(r, d)
      PROVE  DueInFlight'
  <2>1. /\ reaper'[r] = "sweep" /\ due' = due \ {d}
        /\ DOMAIN inFlight' = DOMAIN inFlight \ {d}
    BY <1>6, WithoutProperties, Zenon DEF ReaperExpire
  <2> QED
    BY <2>1, Zenon DEF DueInFlight, LockFree
<1>7. \/ LockFree /\ UNCHANGED due
      \/ UNCHANGED <<due, inFlight, reaper>>
      \/ \E r \in Reapers : \/ ReaperTest(r) \/ ReaperRelease(r) \/ ReaperSleep(r)
                            \/ \E S \in SUBSET DOMAIN inFlight : ReaperCollect(r, S)
                            \/ \E d \in due : ReaperExpire(r, d)
  BY Zenon DEF Next, Enqueue, Consume, RemoveConsumer, Dispatch, DequeueCall, DequeueClosed,
         DequeueTake, DequeueEmpty, DequeueWaitTimeout, Ack, Nack, Abandon,
         ReaperDispatch, CloseStopReaper, CloseSetFlag, CloseClear,
         queueVars, reaperVars
<1> QED
  BY <1>1, <1>2, <1>3, <1>4, <1>5, <1>6, <1>7

\* Delivery ids stay fresh.
LEMMA IdsStep ==
  ASSUME BasicInv, Next
  PROVE  IdsFresh'
<1> USE DEF BasicInv
<1>1. ASSUME NEW t \in Topics, TryDispatch(t)
      PROVE  IdsFresh'
  <2>1. lastDelivery \in Nat /\ \A d \in DOMAIN inFlight : d[1] \in Nat
    BY DEF TypeOK, DeliveryIds
  <2>2. Len(pending[t]) \in Nat
    BY DEF TypeOK
  <2>3. CASE UNCHANGED <<queueVars, rrIndex, running, reaper>>
    BY <2>3 DEF IdsFresh, queueVars
  <2>4. CASE /\ lastDelivery' = lastDelivery + Len(pending[t])
             /\ DOMAIN inFlight' = DOMAIN inFlight \cup NewIds(t)
             /\ \A d \in NewIds(t) : d[1] <= lastDelivery'
    BY <2>1, <2>2, <2>4 DEF IdsFresh
  <2> QED
    BY <1>1, <2>3, <2>4, TryDispatchEffect, Zenon
<1>2. ASSUME NEW w \in Waiters, DequeueTake(w)
      PROVE  IdsFresh'
  <2>1. lastDelivery \in Nat /\ \A d \in DOMAIN inFlight : d[1] \in Nat
    BY DEF TypeOK, DeliveryIds
  <2>2. /\ lastDelivery' = lastDelivery + 1
        /\ DOMAIN inFlight' = DOMAIN inFlight \cup {<<lastDelivery + 1, Pull>>}
    BY <1>2, DequeueTakeEffect, Zenon
  <2> QED
    BY <2>1, <2>2 DEF IdsFresh
<1>3. CASE /\ lastDelivery' = lastDelivery
           /\ \/ inFlight' = inFlight \/ inFlight' = <<>>
              \/ \E d : inFlight' = Without(inFlight, d)
  <2>1. DOMAIN inFlight' \subseteq DOMAIN inFlight
    <3>1. CASE inFlight' = inFlight
      BY <3>1
    <3>2. CASE inFlight' = <<>>
      BY <3>2
    <3>3. ASSUME NEW d, inFlight' = Without(inFlight, d)
          PROVE  DOMAIN inFlight' \subseteq DOMAIN inFlight
      BY <3>3 DEF Without
    <3> QED
      BY <1>3, <3>1, <3>2, <3>3
  <2> QED
    BY <1>3, <2>1 DEF IdsFresh
<1>4. \/ \E t \in Topics : TryDispatch(t)
      \/ \E w \in Waiters : DequeueTake(w)
      \/ /\ lastDelivery' = lastDelivery
         /\ \/ inFlight' = inFlight \/ inFlight' = <<>>
            \/ \E d : inFlight' = Without(inFlight, d)
  BY Zenon DEF Next, Enqueue, Consume, RemoveConsumer, Dispatch, DequeueCall, DequeueClosed,
         DequeueEmpty, DequeueWaitTimeout, Ack, Nack, Abandon, ReaperTest, ReaperCollect,
         ReaperExpire, ReaperRelease, ReaperDispatch, ReaperSleep, CloseStopReaper,
         CloseSetFlag, CloseClear, queueVars
<1> QED
  BY <1>1, <1>2, <1>3, <1>4

\* A reaper thread is only started into a slot not used before.
LEMMA SlotsStep ==
  ASSUME BasicInv, Next
  PROVE  ReaperSlots'
<1> USE DEF BasicInv
<1>0. reaper \in [Reapers -> ReaperPCs] /\ running \in BOOLEAN /\ 1 \in Reapers /\ 2 \in Reapers
  BY DEF TypeOK, Reapers
<1>1. CASE StartReaperIfNeeded /\ UNCHANGED closing
  BY <1>0, <1>1 DEF ReaperSlots, StartReaperIfNeeded
<1>2. CASE UNCHANGED <<running, reaper, closing>>
  BY <1>2 DEF ReaperSlots
<1>3. CASE \E r \in Reapers : /\ reaper[r] # "none"
                              /\ \A q \in Reapers \ {r} : reaper'[q] = reaper[q]
                              /\ UNCHANGED <<running, closing>>
  BY <1>0, <1>3 DEF ReaperSlots
<1>4. CASE CloseStopReaper
  BY <1>0, <1>4 DEF ReaperSlots, CloseStopReaper
<1>5. CASE closing # "open" /\ closing' # "open" /\ UNCHANGED <<running, reaper>>
  BY <1>5 DEF ReaperSlots
<1>6. ASSUME NEW r \in Reapers, \/ ReaperTest(r) \/ ReaperRelease(r) \/ ReaperSleep(r)
                                \/ \E S \in SUBSET DOMAIN inFlight : ReaperCollect(r, S)
      PROVE  /\ reaper[r] # "none"
             /\ \A q \in Reapers \ {r} : reaper'[q] = reaper[q]
             /\ UNCHANGED <<running, closing>>
  BY <1>0, <1>6 DEF ReaperTest, ReaperRelease, ReaperSleep, ReaperCollect
<1>7. ASSUME NEW t \in Topics, TryDispatch(t), UNCHANGED closing
      PROVE  \/ StartReaperIfNeeded /\ UNCHANGED closing
             \/ UNCHANGED <<running, reaper, closing>>
  BY <1>7, Zenon DEF TryDispatch
<1>8. \/ StartReaperIfNeeded /\ UNCHANGED closing
      \/ UNCHANGED <<running, reaper, closing>>
      \/ \E t \in Topics : TryDispatch(t) /\ UNCHANGED closing
      \/ \E r \in Reapers : \/ ReaperTest(r) \/ ReaperRelease(r) \/ ReaperSleep(r)
                            \/ \E S \in SUBSET DOMAIN inFlight : ReaperCollect(r, S)
      \/ CloseStopReaper
      \/ closing # "open" /\ closing' # "open" /\ UNCHANGED <<running, reaper>>
  BY Zenon DEF Next, Enqueue, Consume, RemoveConsumer, Dispatch, DequeueCall, DequeueClosed,
         DequeueTake, DequeueEmpty, DequeueWaitTimeout, Ack, Nack, Abandon, ReaperExpire,
         ReaperDispatch, CloseSetFlag, CloseClear, reaperVars
<1> QED
  BY <1>1, <1>2, <1>3, <1>4, <1>5, <1>6, <1>7, <1>8

-----------------------------------------------------------------------------
(* The invariants so far *)

\* The basic invariant holds in every reachable state.
THEOREM BasicInvariant == Spec => []BasicInv
<1>1. Init => BasicInv
  BY BasicInit
<1>2. BasicInv /\ [Next]_vars => BasicInv'
  <2> SUFFICES ASSUME BasicInv, [Next]_vars PROVE BasicInv'
    OBVIOUS
  <2>1. CASE Next
    BY <2>1, TypeStep, RegistryStep, DueStep, IdsStep, SlotsStep DEF BasicInv
  <2>2. CASE UNCHANGED vars
    BY <2>2 DEF BasicInv, vars, TypeOK, RegistryMatchesGroups, UnusedUnregistered,
                DueInFlight, LockFree, IdsFresh, ReaperSlots
  <2> QED
    BY <2>1, <2>2
<1> QED
  BY <1>1, <1>2, PTL DEF Spec

\* Type correctness of the queue's tables, for all constants.
THEOREM TypeCorrect == Spec => []TypeOK
<1>1. BasicInv => TypeOK
  BY DEF BasicInv
<1> QED
  BY <1>1, BasicInvariant, PTL

\* _consumer_groups and _consumer_registry always agree, whatever the order of
\* consume, remove_consumer and close.
THEOREM RegistryConsistent == Spec => []RegistryMatchesGroups
<1>1. BasicInv => RegistryMatchesGroups
  BY DEF BasicInv
<1> QED
  BY <1>1, BasicInvariant, PTL


-----------------------------------------------------------------------------
(* Push consumers do not starve *)

\* Some thread is still going to call _try_dispatch(t).
Promised(t) == owed[t] > 0 \/ \E r \in Reapers : t \in owes[r]

\* DispatchOwed in terms of Promised.
LEMMA DispatchOwedDef ==
  DispatchOwed <=> \A t \in Topics \ DeadLetterTopics :
                      pending[t] # <<>> /\ Serving(t) # {} => Promised(t)
  BY Zenon DEF DispatchOwed, Promised

\* After _try_dispatch(t) the topic is empty or has no consumer.
LEMMA TryDispatchDrains ==
  ASSUME TypeOK, NEW t \in Topics, TryDispatch(t), UNCHANGED groups
  PROVE  /\ pending'[t] = <<>> \/ Serving(t)' = {}
         /\ \A u \in Topics \ {t} : pending'[u] = pending[u]
  BY SMTT(20) DEF TryDispatch, TypeOK, queueVars, Serving

\* Every step that leaves a served topic nonempty leaves a dispatch on its way.
LEMMA DispatchOwedStep ==
  ASSUME BasicInv, DispatchOwed, Next
  PROVE  DispatchOwed'
<1> USE DEF BasicInv
<1> SUFFICES ASSUME NEW u \in Topics \ DeadLetterTopics,
                    pending'[u] # <<>>, Serving(u)' # {}
             PROVE  Promised(u)'
  BY DEF DispatchOwed, Promised
<1>0. /\ pending \in [Topics -> Seq(Message)] /\ owed \in [Topics -> Nat]
      /\ owes \in [Reapers -> SUBSET Topics]
      /\ groups \in [Keys -> Seq(Consumers)]
      /\ (pending[u] # <<>> /\ Serving(u) # {} => Promised(u))
  BY DispatchOwedDef DEF TypeOK
<1>1. ASSUME NEW t \in Served, NEW m \in Messages, Enqueue(t, m)
      PROVE  Promised(u)'
  <2>1. t \in Topics /\ owed' = [owed EXCEPT ![t] = @ + 1] /\ owes' = owes
    BY <1>1, TopicsAssumption DEF Enqueue, reaperVars
  <2>2. CASE u = t
    BY <1>0, <2>1, <2>2 DEF Promised
  <2>3. CASE u # t
    <3>1. pending'[u] = pending[u] /\ Serving(u)' = Serving(u) /\ owed'[u] = owed[u]
      BY <1>0, <1>1, <2>1, <2>3 DEF Enqueue, Serving, consumerVars
    <3> QED
      BY <1>0, <2>1, <3>1 DEF Promised
  <2> QED
    BY <2>2, <2>3
<1>2. ASSUME NEW c \in Consumers, NEW k \in Keys, Consume(c, k)
      PROVE  Promised(u)'
  <2>1. /\ k[1] \in Topics /\ owed' = [owed EXCEPT ![k[1]] = @ + 1]
        /\ owes' = owes /\ pending' = pending
    BY <1>2, TopicsAssumption DEF Consume, reaperVars, queueVars, Keys
  <2>2. CASE u = k[1]
    BY <1>0, <2>1, <2>2 DEF Promised
  <2>3. CASE u # k[1]
    <3>1. \A g \in Groups : <<u, g>> \in Keys => groups'[<<u, g>>] = groups[<<u, g>>]
      <4>1. groups' = [groups EXCEPT ![k] = Append(@, c)]
        BY <1>2, Zenon DEF Consume
      <4>2. \A g \in Groups : <<u, g>> # k
        BY <2>3
      <4> QED
        BY <1>0, <4>1, <4>2, Zenon
    <3>2. Serving(u)' = Serving(u) /\ owed'[u] = owed[u]
      BY <1>0, <2>1, <2>3, <3>1 DEF Serving
    <3> QED
      BY <1>0, <2>1, <3>2, Zenon DEF Promised
  <2> QED
    BY <2>2, <2>3, Zenon
<1>3. ASSUME NEW c \in Consumers, RemoveConsumer(c)
      PROVE  Promised(u)'
  <2> DEFINE k == registry[c]
  <2>1. UNCHANGED <<pending, owed, owes>> /\ k \in Keys
    BY <1>3, Zenon DEF RemoveConsumer, queueVars, reaperVars, TypeOK
  <2>2. \A l \in Keys \ {k} : groups'[l] = groups[l]
    BY <1>0, <1>3, Zenon DEF RemoveConsumer
  <2>3. \E i \in DOMAIN groups[k] : groups[k][i] = c
    BY <2>1 DEF RegistryMatchesGroups
  <2>4. groups[k] # <<>>
    BY <2>3
  <2>5. Serving(u)' \subseteq Serving(u)
    BY <2>2, <2>4, Zenon DEF Serving
  <2> QED
    BY <1>0, <2>1, <2>5, Zenon DEF Promised
<1>4. ASSUME NEW t \in Topics, Dispatch(t)
      PROVE  Promised(u)'
  <2>1. /\ TryDispatch(t) /\ UNCHANGED <<groups, owes>>
        /\ owed' = [owed EXCEPT ![t] = @ - 1]
    BY <1>4, Zenon DEF Dispatch
  <2>2. u # t
    BY <2>1, TryDispatchDrains, Zenon
  <2>3. pending'[u] = pending[u] /\ Serving(u)' = Serving(u) /\ owed'[u] = owed[u]
    BY <1>0, <2>1, <2>2, TryDispatchDrains, Zenon DEF Serving
  <2> QED
    BY <1>0, <2>1, <2>3, Zenon DEF Promised
<1>5. ASSUME NEW r \in Reapers, NEW t \in Topics, ReaperDispatch(r, t)
      PROVE  Promised(u)'
  <2>1. /\ TryDispatch(t) /\ UNCHANGED <<groups, owed>>
        /\ owes' = [owes EXCEPT ![r] = @ \ {t}]
    BY <1>5, Zenon DEF ReaperDispatch
  <2>2. u # t
    BY <2>1, TryDispatchDrains, Zenon
  <2>3. pending'[u] = pending[u] /\ Serving(u)' = Serving(u)
    BY <1>0, <2>1, <2>2, TryDispatchDrains, Zenon DEF Serving
  <2> QED
    BY <1>0, <2>1, <2>2, <2>3, Zenon DEF Promised
<1>6. ASSUME NEW w \in Waiters, DequeueTake(w)
      PROVE  Promised(u)'
  <2>1. /\ UNCHANGED <<groups, owed, owes>>
        /\ pending' = [pending EXCEPT ![waiter[w].topic] = Tail(pending[waiter[w].topic])]
        /\ pending[waiter[w].topic] # <<>>
    BY <1>6, DequeueTakeEffect, Zenon DEF DequeueTake, consumerVars
  <2>2. pending[u] # <<>> /\ Serving(u)' = Serving(u)
    BY <1>0, <2>1, Zenon DEF Serving
  <2> QED
    BY <1>0, <2>1, <2>2, Zenon DEF Promised
<1>7. ASSUME NEW e \in InFlightEntry, Requeue(e), UNCHANGED groups,
             \/ owed' = [owed EXCEPT ![e.topic] = @ + 1] /\ UNCHANGED owes
             \/ UNCHANGED owed /\ \E r \in Reapers : owes' = [owes EXCEPT ![r] = @ \cup {e.topic}]
      PROVE  Promised(u)'
  <2>1. e.topic \in Topics
    BY TopicsAssumption DEF InFlightEntry
  <2>2. CASE u = e.topic
    BY <1>0, <1>7, <2>1, <2>2 DEF Promised
  <2>3. CASE u # e.topic
    <3>1. pending'[u] = pending[u] /\ Serving(u)' = Serving(u)
      BY <1>0, <1>7, <2>3 DEF Requeue, Serving
    <3>2. Promised(u)
      BY <1>0, <3>1
    <3> QED
      BY <1>0, <1>7, <2>1, <2>3, <3>2, Zenon DEF Promised
  <2> QED
    BY <2>2, <2>3
<1>8. ASSUME NEW e \in InFlightEntry, DeadLetter(e), UNCHANGED <<groups, owed, owes>>
      PROVE  Promised(u)'
  <2>1. u # DeadLetterOf[e.topic]
    BY Zenon DEF InFlightEntry, DeadLetterTopics
  <2>2. pending'[u] = pending[u] /\ Serving(u)' = Serving(u)
    BY <1>0, <1>8, <2>1, Zenon DEF DeadLetter, Serving
  <2> QED
    BY <1>0, <1>8, <2>2 DEF Promised
<1>9. ASSUME NEW d \in DOMAIN held, NEW requeue \in BOOLEAN, Nack(d, requeue)
      PROVE  Promised(u)'
  <2>0. UNCHANGED <<groups, owes>>
    BY <1>9 DEF Nack, consumerVars, reaperVars
  <2>1. CASE d \notin DOMAIN inFlight
    <3>1. UNCHANGED <<pending, owed>>
      BY <1>9, <2>1 DEF Nack
    <3> QED
      BY <1>0, <2>0, <3>1, Zenon DEF Promised, Serving
  <2>2. CASE d \in DOMAIN inFlight
    <3>1. inFlight[d] \in InFlightEntry
      BY <2>2 DEF TypeOK
    <3>2. \/ Requeue(inFlight[d]) /\ owed' = [owed EXCEPT ![inFlight[d].topic] = @ + 1]
          \/ DeadLetter(inFlight[d]) /\ UNCHANGED owed
      BY <1>9, <2>2 DEF Nack
    <3> QED
      BY <1>7, <1>8, <2>0, <3>1, <3>2
  <2> QED
    BY <2>1, <2>2, Zenon
<1>10. ASSUME NEW r \in Reapers, NEW d \in due, ReaperExpire(r, d)
       PROVE  Promised(u)'
  <2>1. inFlight[d] \in InFlightEntry
    BY Zenon DEF TypeOK, DueInFlight
  <2>2. UNCHANGED <<groups, owed>>
    BY <1>10, Zenon DEF ReaperExpire, consumerVars
  <2>3. \/ /\ Requeue(inFlight[d])
           /\ owes' = [owes EXCEPT ![r] = @ \cup {inFlight[d].topic}]
        \/ DeadLetter(inFlight[d]) /\ UNCHANGED owes
    BY <1>10 DEF ReaperExpire
  <2> QED
    BY <1>7, <1>8, <2>1, <2>2, <2>3, Zenon
<1>11. CASE CloseClear
  BY <1>11 DEF CloseClear
<1>12. CASE UNCHANGED <<pending, groups, owed, owes>>
  <2>1. pending'[u] = pending[u] /\ owed'[u] = owed[u] /\ owes' = owes /\ Serving(u)' = Serving(u)
    BY <1>12, Zenon DEF Serving
  <2> QED
    BY <1>0, <2>1, Zenon DEF Promised
<1>13. \/ \E t \in Served, m \in Messages : Enqueue(t, m)
       \/ \E c \in Consumers, k \in Keys : Consume(c, k)
       \/ \E c \in Consumers : RemoveConsumer(c)
       \/ \E t \in Topics : Dispatch(t)
       \/ \E r \in Reapers, t \in Topics : ReaperDispatch(r, t)
       \/ \E w \in Waiters : DequeueTake(w)
       \/ \E d \in DOMAIN held, requeue \in BOOLEAN : Nack(d, requeue)
       \/ \E r \in Reapers, d \in due : ReaperExpire(r, d)
       \/ CloseClear
       \/ UNCHANGED <<pending, groups, owed, owes>>
  BY DEF Next, DequeueCall, DequeueClosed, DequeueEmpty, DequeueWaitTimeout, Ack, Abandon,
         ReaperTest, ReaperCollect, ReaperRelease, ReaperSleep, CloseStopReaper,
         CloseSetFlag, queueVars, consumerVars, reaperVars
<1> QED
  BY <1>1, <1>2, <1>3, <1>4, <1>5, <1>6, <1>9, <1>10, <1>11, <1>12, <1>13, Zenon

\* Push consumers never starve (outside dead-letter topics): whenever a message
\* is pending on a topic with a consumer, a dispatch of the topic is on its way.
THEOREM NoStarvation == Spec => []DispatchOwed
<1>1. Init => DispatchOwed
  BY DEF Init, DispatchOwed
<1>2. BasicInv /\ DispatchOwed /\ [Next]_vars => DispatchOwed'
  <2> SUFFICES ASSUME BasicInv, DispatchOwed, [Next]_vars PROVE DispatchOwed'
    BY Zenon
  <2>1. CASE UNCHANGED vars
    BY <2>1, Zenon DEF vars, DispatchOwed, Serving
  <2> QED
    BY <2>1, DispatchOwedStep
<1> QED
  BY <1>1, <1>2, BasicInvariant, PTL DEF Spec
-----------------------------------------------------------------------------
(* Waking up *)

\* While a sweep holds the lock it may already have put back messages its
\* notify_all has yet to announce; at any other time sleepers have nothing to
\* take, and nobody sleeps after close().
WakeInv ==
    /\ \A w \in Waiters : waiter[w].pc = "waiting" =>
          \/ pending[waiter[w].topic] = <<>>
          \/ \E r \in Reapers : reaper[r] = "sweep" /\ waiter[w].topic \in owes[r]
    /\ CloseWakesWaiters

\* WakeInv is preserved by every step.
LEMMA WakeStep ==
  ASSUME BasicInv, WakeInv, Next
  PROVE  WakeInv'
<1> USE DEF BasicInv
<1>0. /\ waiter \in [Waiters -> WaiterState] /\ reaper \in [Reapers -> ReaperPCs]
      /\ pending \in [Topics -> Seq(Message)] /\ owes \in [Reapers -> SUBSET Topics]
  BY DEF TypeOK
<1>1. CASE NotifyAll
  BY <1>0, <1>1, NotifyAllType DEF WakeInv, CloseWakesWaiters
<1>2. CASE UNCHANGED <<waiter, pending, reaper, owes>> /\ closing' # "cleared"
  BY <1>2 DEF WakeInv, CloseWakesWaiters
<1>3. CASE UNCHANGED <<waiter, pending, reaper, owes, closing>>
  BY <1>3, Zenon DEF WakeInv, CloseWakesWaiters
<1>4. ASSUME NEW w \in Waiters,
             LockFree \/ UNCHANGED <<pending, reaper, owes>>,
             \A v \in Waiters \ {w} : waiter'[v] = waiter[v],
             waiter'[w].pc # "waiting",
             \A t \in Topics : pending[t] = <<>> => pending'[t] = <<>>,
             UNCHANGED closing
      PROVE  WakeInv'
  <2> SUFFICES ASSUME NEW v \in Waiters, waiter'[v].pc = "waiting"
               PROVE  /\ \/ pending'[waiter'[v].topic] = <<>>
                         \/ \E r \in Reapers : reaper'[r] = "sweep" /\ waiter'[v].topic \in owes'[r]
                      /\ closing' # "cleared"
    BY Zenon DEF WakeInv, CloseWakesWaiters
  <2>1. v # w /\ waiter'[v] = waiter[v]
    BY <1>4
  <2>2. waiter[v].topic \in Topics
    BY <1>0, <2>1, TopicsAssumption, Zenon DEF WaiterState
  <2> QED
    BY <1>4, <2>1, <2>2 DEF WakeInv, CloseWakesWaiters, LockFree
<1>5. ASSUME NEW w \in Waiters, DequeueEmpty(w)
      PROVE  WakeInv'
  <2>1. /\ closing' = closing /\ closing # "cleared"
        /\ UNCHANGED <<pending, reaper, owes>>
        /\ pending[waiter[w].topic] = <<>>
        /\ waiter[w].topic \in Topics
    BY <1>0, <1>5, TopicsAssumption
       DEF DequeueEmpty, ClosedFlag, queueVars, reaperVars, WaiterState
  <2>2. \A v \in Waiters : waiter'[v].pc = "waiting" => waiter'[v] = waiter[v] \/ v = w
    BY <1>0, <1>5 DEF DequeueEmpty, WaiterState
  <2>3. waiter'[w].pc = "waiting" => waiter'[w].topic = waiter[w].topic
    BY <1>0, <1>5, SMTT(20) DEF DequeueEmpty, WaiterState, NotWaiting
  <2> QED
    BY <2>1, <2>2, <2>3 DEF WakeInv, CloseWakesWaiters
<1>6. ASSUME NEW r \in Reapers, NEW d \in due, ReaperExpire(r, d)
      PROVE  WakeInv'
  <2>1. inFlight[d] \in InFlightEntry
    BY Zenon DEF TypeOK, DueInFlight
  <2>2. CASE DeadLetter(inFlight[d])
    BY <1>1, <2>2, Zenon DEF DeadLetter
  <2>3. CASE /\ Requeue(inFlight[d])
             /\ owes' = [owes EXCEPT ![r] = @ \cup {inFlight[d].topic}]
             /\ UNCHANGED waiter
    <3>1. UNCHANGED <<reaper, closing>> /\ reaper[r] = "sweep"
      BY <1>6, Zenon DEF ReaperExpire
    <3>2. \A t \in Topics \ {inFlight[d].topic} : pending'[t] = pending[t]
      BY <1>0, <2>3 DEF Requeue
    <3>3. \A q \in Reapers : owes[q] \subseteq owes'[q]
      BY <1>0, <2>3
    <3>4. inFlight[d].topic \in owes'[r]
      BY <1>0, <2>3, Zenon
    <3>5. \A w \in Waiters : waiter[w].pc = "waiting" => waiter[w].topic \in Topics
      BY <1>0, TopicsAssumption, Zenon DEF WaiterState
    <3>6. ASSUME NEW w \in Waiters, waiter'[w].pc = "waiting"
          PROVE  \/ pending'[waiter'[w].topic] = <<>>
                 \/ \E q \in Reapers : reaper'[q] = "sweep" /\ waiter'[w].topic \in owes'[q]
      <4>1. waiter'[w] = waiter[w] /\ waiter[w].topic \in Topics
        BY <2>3, <3>5, <3>6, Zenon
      <4>2. CASE waiter[w].topic = inFlight[d].topic
        BY <3>1, <3>4, <4>1, <4>2, Zenon
      <4>3. CASE waiter[w].topic # inFlight[d].topic
        BY <3>1, <3>2, <3>3, <3>6, <4>1, <4>3 DEF WakeInv
      <4> QED
        BY <4>2, <4>3, Zenon
    <3> QED
      BY <2>3, <3>1, <3>6, Zenon DEF WakeInv, CloseWakesWaiters
  <2> QED
    BY <1>6, <2>2, <2>3, Zenon DEF ReaperExpire
<1>7. ASSUME NEW r \in Reapers, ReaperRelease(r)
      PROVE  WakeInv'
  <2>1. CASE owes[r] # {}
    BY <1>1, <1>7, <2>1, Zenon DEF ReaperRelease
  <2>2. CASE owes[r] = {}
    <3>1. UNCHANGED <<pending, owes, closing, waiter>>
      BY <1>7, <2>2, Zenon DEF ReaperRelease, queueVars
    <3>2. \A q \in Reapers \ {r} : reaper'[q] = reaper[q]
      BY <1>0, <1>7 DEF ReaperRelease
    <3> QED
      BY <2>2, <3>1, <3>2, Zenon DEF WakeInv, CloseWakesWaiters
  <2> QED
    BY <2>1, <2>2, Zenon
<1>8. ASSUME NEW r \in Reapers, NEW t \in Topics, Dispatch(t) \/ ReaperDispatch(r, t)
      PROVE  WakeInv'
  <2>1. LockFree /\ TryDispatch(t) /\ UNCHANGED <<waiter, closing>>
    BY <1>8, Zenon DEF Dispatch, ReaperDispatch
  <2>2. \A u \in Topics : pending[u] = <<>> => pending'[u] = <<>>
    BY <1>0, <2>1, Zenon DEF TryDispatch, queueVars
  <2>3. \A w \in Waiters : waiter[w].pc = "waiting" => waiter[w].topic \in Topics
    BY <1>0, TopicsAssumption, Zenon DEF WaiterState
  <2> QED
    BY <2>1, <2>2, <2>3 DEF WakeInv, CloseWakesWaiters, LockFree
<1>9. ASSUME NEW r \in Reapers,
             \/ ReaperTest(r) \/ ReaperSleep(r)
             \/ \E S \in SUBSET DOMAIN inFlight : ReaperCollect(r, S)
      PROVE  WakeInv'
  <2>1. /\ UNCHANGED <<pending, owes, closing, waiter>> /\ reaper[r] # "sweep"
        /\ \A q \in Reapers \ {r} : reaper'[q] = reaper[q]
    BY <1>0, <1>9, Zenon DEF ReaperTest, ReaperSleep, ReaperCollect, queueVars
  <2> QED
    BY <2>1, Zenon DEF WakeInv, CloseWakesWaiters
<1>10. ASSUME NEW w \in Waiters, DequeueTake(w)
       PROVE  WakeInv'
  <2>1. /\ LockFree /\ UNCHANGED closing
        /\ waiter' = [waiter EXCEPT ![w] = NotWaiting]
        /\ pending' = [pending EXCEPT ![waiter[w].topic] = Tail(pending[waiter[w].topic])]
        /\ pending[waiter[w].topic] # <<>>
    BY <1>10, DequeueTakeEffect, Zenon DEF DequeueTake
  <2>2. \A t \in Topics : pending[t] = <<>> => pending'[t] = <<>>
    BY <1>0, <2>1, Zenon
  <2> QED
    BY <1>0, <1>4, <2>1, <2>2, Zenon DEF NotWaiting
<1>11. ASSUME NEW w \in Waiters,
              \/ DequeueClosed(w) \/ DequeueWaitTimeout(w)
              \/ \E t \in Served : DequeueCall(w, t)
       PROVE  WakeInv'
  <2>1. /\ UNCHANGED <<pending, reaper, owes, closing>>
        /\ \A v \in Waiters \ {w} : waiter'[v] = waiter[v]
    BY <1>0, <1>11 DEF DequeueClosed, DequeueWaitTimeout, DequeueCall, queueVars, reaperVars
  <2>2. waiter'[w].pc # "waiting"
    BY <1>0, <1>11, SMTT(20) DEF DequeueClosed, DequeueWaitTimeout, DequeueCall, NotWaiting, WaiterState
  <2> QED
    BY <1>4, <2>1, <2>2
<1>12. \/ NotifyAll
       \/ UNCHANGED <<waiter, pending, reaper, owes>> /\ closing' # "cleared"
       \/ UNCHANGED <<waiter, pending, reaper, owes, closing>>
       \/ \E w \in Waiters : \/ DequeueEmpty(w) \/ DequeueTake(w)
                            \/ DequeueClosed(w) \/ DequeueWaitTimeout(w)
                            \/ \E t \in Served : DequeueCall(w, t)
       \/ \E r \in Reapers : \/ ReaperRelease(r) \/ ReaperTest(r) \/ ReaperSleep(r)
                            \/ \E S \in SUBSET DOMAIN inFlight : ReaperCollect(r, S)
                            \/ \E d \in due : ReaperExpire(r, d)
                            \/ \E t \in Topics : ReaperDispatch(r, t)
       \/ \E t \in Topics : Dispatch(t)
  BY Zenon DEF Next, Enqueue, Consume, RemoveConsumer, Ack, Nack, Abandon, DeadLetter,
         CloseStopReaper, CloseSetFlag, CloseClear, queueVars, reaperVars
<1>13. 1 \in Reapers
  BY DEF Reapers
<1> QED
  BY <1>1, <1>2, <1>3, <1>5, <1>6, <1>7, <1>8, <1>9, <1>10, <1>11, <1>12, <1>13

\* The wakeup invariant holds.
THEOREM WakeInvariant == Spec => []WakeInv
<1>1. Init => WakeInv
  BY DEF Init, WakeInv, CloseWakesWaiters, NotWaiting
<1>2. BasicInv /\ WakeInv /\ [Next]_vars => WakeInv'
  <2> SUFFICES ASSUME BasicInv, WakeInv, [Next]_vars PROVE WakeInv'
    BY Zenon
  <2>1. CASE UNCHANGED vars
    BY <2>1, Zenon DEF vars, WakeInv, CloseWakesWaiters
  <2> QED
    BY <2>1, WakeStep
<1> QED
  BY <1>1, <1>2, BasicInvariant, PTL DEF Spec

\* No wakeup is lost: with the lock free, a thread sleeps in dequeue() only
\* while its topic is empty.
THEOREM WakeupsArrive == Spec => []NoLostWakeup
<1>1. WakeInv => NoLostWakeup
  BY Zenon DEF WakeInv, NoLostWakeup, LockFree
<1> QED
  BY <1>1, WakeInvariant, PTL

\* After close() nobody sleeps in dequeue().
THEOREM CloseWakes == Spec => []CloseWakesWaiters
<1>1. WakeInv => CloseWakesWaiters
  BY DEF WakeInv
<1> QED
  BY <1>1, WakeInvariant, PTL

-----------------------------------------------------------------------------
(* Payloads *)

\* The first element of a sequence that has one.
LEMMA NonEmptySeq ==
  ASSUME NEW S, NEW q \in Seq(S), q # <<>>
  PROVE  /\ DOMAIN q = 1..Len(q) /\ Len(q) \in Nat \ {0}
         /\ 1 \in DOMAIN q /\ Head(q) = q[1]
<1>1. DOMAIN q = 1..Len(q) /\ Len(q) \in Nat
  OBVIOUS
<1>2. Len(q) # 0
  OBVIOUS
<1>3. Head(q) = q[1]
  OBVIOUS
<1> QED
  BY <1>1, <1>2, <1>3

\* A message joins the end, or the front, of a topic.
LEMMA AddPending ==
  ASSUME pending \in [Topics -> Seq(Message)], NEW t \in Topics, NEW x \in Message,
         \/ pending' = [pending EXCEPT ![t] = Append(@, x)]
         \/ pending' = [pending EXCEPT ![t] = <<x>> \o @]
  PROVE  /\ PendingPayloads' = PendingPayloads \cup {x.payload}
         /\ PendingOnce /\ x.payload \notin PendingPayloads => PendingOnce'
         /\ \A u \in Topics : \A i \in DOMAIN pending'[u] :
               pending'[u][i] = x \/ \E j \in DOMAIN pending[u] : pending'[u][i] = pending[u][j]
<1> DEFINE s == pending[t]
<1>0. s \in Seq(Message) /\ Len(s) \in Nat /\ DOMAIN s = 1..Len(s)
  OBVIOUS
<1>1. PICK k \in {0, 1} :
        /\ pending'[t] \in Seq(Message)
        /\ Len(pending'[t]) = Len(s) + 1
        /\ \A i \in 1..Len(s) : pending'[t][i + k] = s[i]
        /\ pending'[t][IF k = 0 THEN Len(s) + 1 ELSE 1] = x
  <2>1. CASE pending' = [pending EXCEPT ![t] = Append(@, x)]
    <3>1. pending'[t] = Append(s, x)
      BY <2>1, Zenon
    <3> QED
      BY <1>0, <3>1
  <2>2. CASE pending' = [pending EXCEPT ![t] = <<x>> \o @]
    <3>1. pending'[t] = <<x>> \o s
      BY <2>2
    <3>2. <<x>> \in Seq(Message) /\ Len(<<x>>) = 1 /\ <<x>>[1] = x
      OBVIOUS
    <3>3. /\ pending'[t] \in Seq(Message) /\ Len(pending'[t]) = Len(s) + 1
          /\ pending'[t][1] = x
          /\ \A i \in 1..Len(s) : pending'[t][i + 1] = s[i]
      BY <1>0, <3>1, <3>2
    <3> QED
      BY <3>3
  <2> QED
    BY <2>1, <2>2, Zenon
<1> DEFINE n == IF k = 0 THEN Len(s) + 1 ELSE 1
<1>2. \A u \in Topics \ {t} : pending'[u] = pending[u]
  BY Zenon
<1>3. /\ DOMAIN pending'[t] = 1..(Len(s) + 1)
      /\ n \in DOMAIN pending'[t]
      /\ \A i \in DOMAIN pending'[t] \ {n} : i - k \in DOMAIN s /\ pending'[t][i] = s[i - k]
  <2>1. DOMAIN pending'[t] = 1..(Len(s) + 1) /\ n \in 1..(Len(s) + 1)
    BY <1>0, <1>1
  <2>2. ASSUME NEW i \in 1..(Len(s) + 1), i # n
        PROVE  i - k \in 1..Len(s) /\ pending'[t][i] = s[i - k]
    <3>1. i - k \in 1..Len(s)
      BY <1>0, <2>2
    <3>2. pending'[t][(i - k) + k] = s[i - k]
      BY <1>1, <3>1
    <3> QED
      BY <3>1, <3>2
  <2> QED
    BY <1>0, <2>1, <2>2, Zenon
<1>n. pending'[t][n] = x
  BY <1>1
<1>o. \A i \in DOMAIN pending'[t] :
         \/ i = n /\ pending'[t][i].payload = x.payload
         \/ i # n /\ \E h \in DOMAIN pending[t] :
               h = i - k /\ pending'[t][i].payload = pending[t][h].payload
  <2> HIDE DEF n
  <2> QED
    BY <1>3, <1>n, Zenon
<1>p. ASSUME NEW u \in Topics, NEW i \in DOMAIN pending'[u]
      PROVE  pending'[u][i] = x \/ \E j \in DOMAIN pending[u] : pending'[u][i] = pending[u][j]
  <2> HIDE DEF n
  <2>1. CASE u = t
    BY <1>3, <1>n, <2>1, Zenon
  <2>2. CASE u # t
    BY <1>2, <2>2
  <2> QED
    BY <2>1, <2>2, Zenon
<1> HIDE DEF n, s
<1>4. ASSUME NEW m, m \in PendingPayloads' PROVE m \in PendingPayloads \cup {x.payload}
  <2>1. PICK u \in Topics : \E i \in DOMAIN pending'[u] : m = pending'[u][i].payload
    BY <1>4 DEF PendingPayloads
  <2>2. CASE u = t
    BY <1>o, <2>1, <2>2 DEF PendingPayloads
  <2>3. CASE u # t
    BY <1>2, <2>1, <2>3 DEF PendingPayloads
  <2> QED
    BY <2>2, <2>3
<1>5. ASSUME NEW m, m \in PendingPayloads \cup {x.payload} PROVE m \in PendingPayloads'
  <2>1. CASE m = x.payload
    BY <1>n, <1>3, <2>1 DEF PendingPayloads
  <2>2. CASE m \in PendingPayloads
    <3>1. PICK u \in Topics : \E i \in DOMAIN pending[u] : m = pending[u][i].payload
      BY <2>2 DEF PendingPayloads
    <3>2. CASE u = t
      <4>1. PICK i \in 1..Len(s) : m = s[i].payload
        BY <1>0, <3>1, <3>2, Zenon DEF s
      <4>2. i + k \in DOMAIN pending'[t] /\ pending'[t][i + k] = s[i]
        BY <1>0, <1>1, <1>3
      <4> QED
        BY <4>1, <4>2 DEF PendingPayloads
    <3>3. CASE u # t
      BY <1>2, <3>1, <3>3 DEF PendingPayloads
    <3> QED
      BY <3>2, <3>3, Zenon
  <2> QED
    BY <1>5, <2>1, <2>2, Zenon
<1>6. ASSUME PendingOnce, x.payload \notin PendingPayloads PROVE PendingOnce'
  <2>1. \A u \in Topics : \A i \in DOMAIN pending[u] : pending[u][i].payload # x.payload
    BY <1>6 DEF PendingPayloads
  <2>2. ASSUME NEW u \in Topics, NEW v \in Topics,
               NEW i \in DOMAIN pending'[u], NEW j \in DOMAIN pending'[v],
               pending'[u][i].payload = pending'[v][j].payload
        PROVE  u = v /\ i = j
    <3>1. CASE u # t /\ v # t
      BY <1>2, <1>6, <2>2, <3>1 DEF PendingOnce
    <3>2. CASE u = t /\ v # t
      BY <1>2, <1>6, <1>o, <2>1, <2>2, <3>2 DEF PendingOnce
    <3>3. CASE u # t /\ v = t
      BY <1>2, <1>6, <1>o, <2>1, <2>2, <3>3 DEF PendingOnce
    <3>4. CASE u = t /\ v = t
      <4>1. CASE i = n \/ j = n
        BY <1>o, <2>1, <2>2, <3>4, <4>1
      <4>2. CASE i # n /\ j # n
        <5>1. i - k = j - k
          BY <1>6, <1>o, <2>2, <3>4, <4>2 DEF PendingOnce
        <5>2. i \in Int /\ j \in Int
          BY <1>0, <1>3, <3>4
        <5> QED
          BY <3>4, <5>1, <5>2
      <4> QED
        BY <4>1, <4>2, Zenon
    <3> QED
      BY <3>1, <3>2, <3>3, <3>4, Zenon
  <2> QED
    BY <2>2 DEF PendingOnce
<1> QED
  BY <1>4, <1>5, <1>6, <1>p, Zenon

\* An entry leaves _in_flight.
LEMMA RemoveInFlight ==
  ASSUME NEW d \in DOMAIN inFlight, inFlight' = Without(inFlight, d)
  PROVE  /\ InFlightPayloads = InFlightPayloads' \cup {inFlight[d].payload}
         /\ InFlightOnce => InFlightOnce' /\ inFlight[d].payload \notin InFlightPayloads'
<1>1. /\ DOMAIN inFlight' = DOMAIN inFlight \ {d}
      /\ \A x \in DOMAIN inFlight \ {d} : inFlight'[x] = inFlight[x]
  BY WithoutProperties, Zenon
<1> HIDE DEF Without
<1>2. InFlightPayloads = InFlightPayloads' \cup {inFlight[d].payload}
  BY <1>1 DEF InFlightPayloads
<1>3. ASSUME InFlightOnce PROVE InFlightOnce' /\ inFlight[d].payload \notin InFlightPayloads'
  BY <1>1, <1>3 DEF InFlightOnce, InFlightPayloads
<1> QED
  BY <1>2, <1>3, Zenon

\* Nothing is in two places, in _pending or in _in_flight.
Apart == PendingOnce /\ InFlightOnce /\ PendingPayloads \cap InFlightPayloads = {}

\* Two places that hold one payload are the same.
LEMMA OnePlace ==
  ASSUME PendingOnce, NEW t \in Topics, NEW u \in Topics,
         NEW i \in DOMAIN pending[t], NEW j \in DOMAIN pending[u],
         pending[t][i].payload = pending[u][j].payload
  PROVE  t = u /\ i = j
  BY DEF PendingOnce

\* A step that leaves both tables alone moves nothing.
LEMMA NothingMoves ==
  ASSUME UNCHANGED <<pending, inFlight>>
  PROVE  /\ PendingPayloads' = PendingPayloads /\ InFlightPayloads' = InFlightPayloads
         /\ Apart => Apart'
<1>1. PendingPayloads' = PendingPayloads
  BY DEF PendingPayloads
<1>2. InFlightPayloads' = InFlightPayloads
  BY DEF InFlightPayloads
<1>3. PendingOnce => PendingOnce'
  BY DEF PendingOnce
<1>4. InFlightOnce => InFlightOnce'
  BY Zenon DEF InFlightOnce
<1> QED
  BY <1>1, <1>2, <1>3, <1>4 DEF Apart

\* The messages at the positions M of topic t, the first k or all of them,
\* become the deliveries q.
Moves(t, q, k, M) ==
    /\ M \subseteq DOMAIN pending[t] /\ k \in Int
    /\ DOMAIN pending[t] \subseteq Int /\ DOMAIN pending'[t] \subseteq Int
    /\ DOMAIN inFlight' = DOMAIN inFlight \cup DOMAIN q
    /\ \A d \in DOMAIN q : /\ d \notin DOMAIN inFlight
                           /\ q[d] \in M
                           /\ inFlight'[d].payload = pending[t][q[d]].payload
    /\ \A i \in M : \E d \in DOMAIN q : q[d] = i
    /\ \A d \in DOMAIN inFlight : inFlight'[d] = inFlight[d]
    /\ \A u \in Topics \ {t} : pending'[u] = pending[u]
    /\ \A i \in DOMAIN pending'[t] : /\ i + k \in DOMAIN pending[t] \ M
                                     /\ pending'[t][i] = pending[t][i + k]
    /\ \A i \in DOMAIN pending[t] \ M : i - k \in DOMAIN pending'[t]

\* Then no payload appears or disappears, and with one delivery per message
\* there is no second copy of one.
LEMMA MoveToFlight ==
  ASSUME NEW t \in Topics, NEW q, NEW k, NEW M, Moves(t, q, k, M)
  PROVE  /\ PendingPayloads \cup InFlightPayloads = PendingPayloads' \cup InFlightPayloads'
         /\ Apart /\ (\A d, e \in DOMAIN q : q[d] = q[e] => d = e) => Apart'
<1> USE DEF Moves
<1>1. ASSUME NEW m \in PendingPayloads PROVE m \in PendingPayloads' \cup InFlightPayloads'
  <2>1. PICK u \in Topics : \E i \in DOMAIN pending[u] : m = pending[u][i].payload
    BY DEF PendingPayloads
  <2>2. PICK i \in DOMAIN pending[u] : m = pending[u][i].payload
    BY <2>1, Zenon
  <2>3. CASE u # t
    <3>1. pending'[u] = pending[u]
      BY <2>3, Zenon
    <3> HIDE DEF Moves
    <3> QED
      BY <2>1, <3>1, SMTT(20) DEF PendingPayloads
  <2>4. CASE u = t /\ i \in M
    <3>1. PICK d \in DOMAIN q : d \in DOMAIN inFlight' /\ inFlight'[d].payload = pending[t][i].payload
      BY <2>4, SMTT(20)
    <3> HIDE DEF Moves
    <3> QED
      BY <2>2, <2>4, <3>1, Zenon DEF InFlightPayloads
  <2>5. CASE u = t /\ i \notin M
    <3>1. i - k \in DOMAIN pending'[t] /\ (i - k) + k = i
      BY <2>5
    <3>2. pending'[t][i - k] = pending[t][i]
      BY <3>1
    <3>3. \E j \in DOMAIN pending'[t] : m = pending'[t][j].payload
      BY <2>2, <2>5, <3>1, <3>2
    <3> QED
      BY <3>3, SMTT(20) DEF PendingPayloads
  <2> QED
    BY <2>3, <2>4, <2>5, Zenon
<1>2. InFlightPayloads \subseteq InFlightPayloads'
  BY DEF InFlightPayloads
<1>3. PendingPayloads' \subseteq PendingPayloads
  <2> SUFFICES ASSUME NEW m \in PendingPayloads' PROVE m \in PendingPayloads
    BY Zenon
  <2>1. PICK u \in Topics : \E i \in DOMAIN pending'[u] : m = pending'[u][i].payload
    BY SMTT(20) DEF PendingPayloads
  <2>2. \E i \in DOMAIN pending[u] : m = pending[u][i].payload
    BY <2>1, SMTT(20)
  <2> QED
    BY <2>2, SMTT(20) DEF PendingPayloads
<1>4. \A m \in InFlightPayloads' :
         m \in InFlightPayloads \/ \E d \in DOMAIN q : m = pending[t][q[d]].payload
  BY DEF InFlightPayloads
<1>5. \A d \in DOMAIN q : pending[t][q[d]].payload \in PendingPayloads
  BY DEF PendingPayloads
<1>6. ASSUME Apart, \A d, e \in DOMAIN q : q[d] = q[e] => d = e
      PROVE  Apart'
  <2>1. PendingOnce'
    <3> SUFFICES ASSUME NEW u \in Topics, NEW v \in Topics,
                        NEW i \in DOMAIN pending'[u], NEW j \in DOMAIN pending'[v],
                        pending'[u][i].payload = pending'[v][j].payload
                 PROVE  u = v /\ i = j
      BY Zenon DEF PendingOnce
    <3> DEFINE at(w, x) == IF w = t THEN x + k ELSE x
    <3>1. at(u, i) \in DOMAIN pending[u] /\ pending'[u][i] = pending[u][at(u, i)]
      BY Zenon
    <3>2. at(v, j) \in DOMAIN pending[v] /\ pending'[v][j] = pending[v][at(v, j)]
      BY Zenon
    <3>4. pending[u][at(u, i)].payload = pending[v][at(v, j)].payload
      BY <3>1, <3>2, Zenon
    <3>5. PendingOnce
      BY <1>6, Zenon DEF Apart
    <3>3. u = v /\ at(u, i) = at(v, j)
      <4> HIDE DEF at, Moves
      <4>1. \A x \in DOMAIN pending[u], y \in DOMAIN pending[v] :
               pending[u][x].payload = pending[v][y].payload => u = v /\ x = y
        BY <3>5, Zenon DEF PendingOnce
      <4> QED
        BY <3>1, <3>2, <3>4, <4>1, Zenon
    <3> QED
      BY <3>3
  <2>2. InFlightOnce'
    <3>1. \A d \in DOMAIN inFlight : inFlight[d].payload \in InFlightPayloads
      BY Zenon DEF InFlightPayloads
    <3>2. \A d, e \in DOMAIN q : pending[t][q[d]].payload = pending[t][q[e]].payload => d = e
      BY <1>6, SMTT(20) DEF Apart, PendingOnce
    <3>3. \A d \in DOMAIN q : inFlight'[d].payload \notin InFlightPayloads
      BY <1>5, <1>6, Zenon DEF Apart
    <3>4. /\ DOMAIN inFlight' = DOMAIN inFlight \cup DOMAIN q
          /\ \A d \in DOMAIN inFlight : inFlight'[d] = inFlight[d]
          /\ \A d \in DOMAIN q : inFlight'[d].payload = pending[t][q[d]].payload
      BY Zenon
    <3> HIDE DEF Moves
    <3> SUFFICES ASSUME NEW d \in DOMAIN inFlight', NEW e \in DOMAIN inFlight',
                        inFlight'[d].payload = inFlight'[e].payload
                 PROVE  d = e
      BY Zenon DEF InFlightOnce
    <3>5. CASE d \in DOMAIN inFlight /\ e \in DOMAIN inFlight
      BY <1>6, <3>4, <3>5, Zenon DEF Apart, InFlightOnce
    <3>6. CASE d \in DOMAIN q /\ e \in DOMAIN q
      BY <3>2, <3>4, <3>6, Zenon
    <3>7. CASE d \in DOMAIN q /\ e \in DOMAIN inFlight
      BY <3>1, <3>3, <3>4, <3>7, Zenon
    <3>8. CASE d \in DOMAIN inFlight /\ e \in DOMAIN q
      BY <3>1, <3>3, <3>4, <3>8, Zenon
    <3> QED
      BY <3>4, <3>5, <3>6, <3>7, <3>8, Zenon
  <2>3. ASSUME NEW m \in PendingPayloads', m \in InFlightPayloads' PROVE FALSE
    <3>1. m \notin InFlightPayloads
      BY <1>3, <1>6, Zenon DEF Apart
    <3>2. PICK h \in M : m = pending[t][h].payload
      BY <1>4, <2>3, <3>1, Zenon
    <3>0. \A u \in Topics : \A i \in DOMAIN pending[u] :
             m = pending[u][i].payload => u = t /\ i = h
      <4>1. h \in DOMAIN pending[t] /\ PendingOnce
        BY <1>6, Zenon DEF Apart
      <4>2. ASSUME NEW u \in Topics, NEW i \in DOMAIN pending[u], m = pending[u][i].payload
            PROVE  u = t /\ i = h
        <5>1. pending[u][i].payload = pending[t][h].payload
          BY <3>2, <4>2, Zenon
        <5> QED
          BY <4>1, <5>1, OnePlace
      <4> QED
        BY <4>2, Zenon
    <3>3. PICK u \in Topics : \E i \in DOMAIN pending'[u] : m = pending'[u][i].payload
      BY DEF PendingPayloads
    <3>4. CASE u # t
      BY <3>0, <3>3, <3>4, Zenon
    <3>5. CASE u = t
      <4>1. PICK i \in DOMAIN pending[t] \ M : m = pending[t][i].payload
        BY <3>3, <3>5
      <4> QED
        BY <3>0, <3>2, <4>1, Zenon
    <3> QED
      BY <3>4, <3>5, Zenon
  <2> QED
    BY <2>1, <2>2, <2>3 DEF Apart
<1> QED
  BY <1>1, <1>2, <1>3, <1>4, <1>5, <1>6

\* One _try_dispatch, in terms of payloads.
LEMMA TryDispatchPayloads ==
  ASSUME TypeOK, IdsFresh, NEW t \in Topics, TryDispatch(t)
  PROVE  /\ PendingPayloads \cup InFlightPayloads = PendingPayloads' \cup InFlightPayloads'
         /\ Apart /\ (\A g, h \in Groups : g = h) => Apart'
<1>1. CASE UNCHANGED <<queueVars, rrIndex, running, reaper>>
  <2>1. UNCHANGED <<pending, inFlight>>
    BY <1>1, Zenon DEF queueVars
  <2> QED
    BY <2>1, NothingMoves
<1>2. CASE ~(UNCHANGED <<queueVars, rrIndex, running, reaper>>)
  <2> DEFINE q == [d \in NewIds(t) |-> d[1] - lastDelivery]
             M == DOMAIN pending[t]
  <2>0. /\ pending \in [Topics -> Seq(Message)] /\ lastDelivery \in Nat
        /\ pending[t] \in Seq(Message) /\ M = 1..Len(pending[t]) /\ Len(pending[t]) \in Nat
    BY DEF TypeOK
  <2>1. /\ Serving(t) # {}
        /\ pending' = [pending EXCEPT ![t] = <<>>]
        /\ DOMAIN inFlight' = DOMAIN inFlight \cup NewIds(t)
        /\ \A d \in NewIds(t) : /\ d \notin DOMAIN inFlight
                                /\ d[1] - lastDelivery \in M
                                /\ inFlight'[d] = Entry(t, pending[t][d[1] - lastDelivery])
        /\ \A d \in DOMAIN inFlight : inFlight'[d] = inFlight[d]
    BY <1>2, TryDispatchEffect, Zenon
  <2>2. pending'[t] = <<>> /\ DOMAIN pending'[t] = {} /\ \A u \in Topics \ {t} : pending'[u] = pending[u]
    BY <2>0, <2>1, SMTT(20)
  <2>3. \A i \in M : \E d \in NewIds(t) : d[1] - lastDelivery = i
    <3> TAKE i \in M
    <3>1. PICK g \in Serving(t) : TRUE
      BY <2>1
    <3>2. <<lastDelivery + i, g>> \in NewIds(t)
      <4>1. lastDelivery + i \in (lastDelivery + 1)..(lastDelivery + Len(pending[t]))
        BY <2>0
      <4> QED
        BY <3>1, <4>1, Zenon DEF NewIds
    <3>3. <<lastDelivery + i, g>>[1] - lastDelivery = i
      BY <2>0
    <3> QED
      BY <3>2, <3>3, Zenon
  <2>4. \A d \in NewIds(t) : inFlight'[d].payload = pending[t][d[1] - lastDelivery].payload
    BY <2>1 DEF Entry
  <2>5. ASSUME \A g, h \in Groups : g = h, NEW d \in NewIds(t), NEW e \in NewIds(t),
               d[1] - lastDelivery = e[1] - lastDelivery
        PROVE  d = e
    BY <2>0, <2>5 DEF NewIds, Serving
  <2>6. /\ M \subseteq Int /\ DOMAIN q = NewIds(t)
        /\ \A d \in NewIds(t) : q[d] = d[1] - lastDelivery
    BY <2>0, SMTT(20)
  <2> HIDE DEF q, M
  <2>7. /\ \A d \in DOMAIN q : /\ d \notin DOMAIN inFlight
                               /\ q[d] \in M
                               /\ inFlight'[d].payload = pending[t][q[d]].payload
        /\ \A i \in M : \E d \in DOMAIN q : q[d] = i
    BY <2>1, <2>3, <2>4, <2>6
  <2>8. /\ PendingPayloads \cup InFlightPayloads = PendingPayloads' \cup InFlightPayloads'
        /\ Apart /\ (\A d, e \in DOMAIN q : q[d] = q[e] => d = e) => Apart'
    <3>1. /\ DOMAIN pending[t] \subseteq Int /\ DOMAIN pending'[t] \subseteq Int /\ 0 \in Int
          /\ DOMAIN inFlight' = DOMAIN inFlight \cup DOMAIN q
          /\ M \in SUBSET DOMAIN pending[t]
          /\ DOMAIN pending[t] \ M = {}
      BY <2>1, <2>2, <2>6, SMTT(20) DEF M
    <3>2. Moves(t, q, 0, M)
      BY <2>1, <2>2, <2>7, <3>1, Zenon DEF Moves
    <3> QED
      BY <3>2, MoveToFlight, Zenon
  <2> QED
    BY <2>5, <2>6, <2>8
<1> QED
  BY <1>1, <1>2

\* One successful dequeue, in terms of payloads.
LEMMA DequeuePayloads ==
  ASSUME TypeOK, IdsFresh, NEW w \in Waiters, DequeueTake(w)
  PROVE  /\ PendingPayloads \cup InFlightPayloads = PendingPayloads' \cup InFlightPayloads'
         /\ Apart => Apart'
<1> DEFINE t == waiter[w].topic
           d == <<lastDelivery + 1, Pull>>
           q == [x \in {d} |-> 1]
<1>1. /\ t \in Topics
      /\ pending[t] \in Seq(Message) /\ pending[t] # <<>>
      /\ pending' = [pending EXCEPT ![t] = Tail(pending[t])]
      /\ d \notin DOMAIN inFlight
      /\ DOMAIN inFlight' = DOMAIN inFlight \cup {d}
      /\ inFlight'[d] = Entry(t, Head(pending[t]))
      /\ \A x \in DOMAIN inFlight : inFlight'[x] = inFlight[x]
  BY DequeueTakeEffect, Zenon
<1> HIDE DEF t, d
<1>2. /\ pending'[t] = Tail(pending[t])
      /\ \A u \in Topics \ {t} : pending'[u] = pending[u]
  BY <1>1 DEF TypeOK
<1>3. /\ DOMAIN pending[t] = 1..Len(pending[t]) /\ Len(pending[t]) \in Nat \ {0}
      /\ DOMAIN pending'[t] = 1..(Len(pending[t]) - 1)
      /\ \A i \in DOMAIN pending'[t] : pending'[t][i] = pending[t][i + 1]
      /\ Head(pending[t]) = pending[t][1]
  <2>1. /\ DOMAIN pending[t] = 1..Len(pending[t]) /\ Len(pending[t]) \in Nat \ {0}
        /\ Head(pending[t]) = pending[t][1]
    BY <1>1, NonEmptySeq
  <2>2. /\ Tail(pending[t]) \in Seq(Message) /\ Len(Tail(pending[t])) = Len(pending[t]) - 1
        /\ \A i \in 1..(Len(pending[t]) - 1) : Tail(pending[t])[i] = pending[t][i + 1]
    BY <1>1
  <2> QED
    BY <1>2, <2>1, <2>2
<1>4. /\ DOMAIN q = {d} /\ \A x \in {d} : q[x] = 1
  BY Zenon
<1>5. inFlight'[d].payload = pending[t][1].payload
  BY <1>1, <1>3 DEF Entry
<1> HIDE DEF q
<1>6. /\ {1} \in SUBSET DOMAIN pending[t]
      /\ \A i \in DOMAIN pending'[t] : /\ i + 1 \in DOMAIN pending[t] \ {1}
                                       /\ pending'[t][i] = pending[t][i + 1]
      /\ \A i \in DOMAIN pending[t] \ {1} : i - 1 \in DOMAIN pending'[t]
      /\ DOMAIN pending[t] \subseteq Int /\ DOMAIN pending'[t] \subseteq Int
  BY <1>3
<1>7. /\ \A x \in DOMAIN q : /\ x \notin DOMAIN inFlight
                             /\ q[x] \in {1}
                             /\ inFlight'[x].payload = pending[t][q[x]].payload
      /\ \A i \in {1} : \E x \in DOMAIN q : q[x] = i
      /\ DOMAIN inFlight' = DOMAIN inFlight \cup DOMAIN q
      /\ \A x, y \in DOMAIN q : q[x] = q[y] => x = y
  BY <1>1, <1>4, <1>5, Zenon
<1>8. 1 \in Int
  OBVIOUS
<1>9. Moves(t, q, 1, {1})
  BY <1>1, <1>2, <1>6, <1>7, <1>8, Zenon DEF Moves
<1> QED
  BY <1>1, <1>7, <1>9, MoveToFlight, Zenon

-----------------------------------------------------------------------------
(* No message is lost, and none is in two places *)

Live == PendingPayloads \cup InFlightPayloads
Settled == acked \cup dropped
OneGroup == \A g, h \in Groups : g = h

\* What was sent is what is live or settled; with one group nothing is in two
\* places, and nothing is both live and settled.
CopyInv ==
    /\ sent = Live \cup Settled
    /\ OneGroup => Apart /\ Live \cap Settled = {}

\* A step that moves and settles nothing keeps CopyInv.
LEMMA CopyStutter ==
  ASSUME CopyInv, UNCHANGED <<pending, inFlight, sent, acked, dropped>>
  PROVE  CopyInv'
<1>1. Live' = Live /\ (Apart => Apart')
  BY NothingMoves DEF Live
<1>2. Settled' = Settled
  BY DEF Settled
<1> QED
  BY <1>1, <1>2 DEF CopyInv, OneGroup

\* A message that goes back to a topic, for another attempt or as a dead letter,
\* is pending again, once if it was not.
LEMMA ReturnPayloads ==
  ASSUME TypeOK, NEW d \in DOMAIN inFlight,
         Requeue(inFlight[d]) \/ DeadLetter(inFlight[d])
  PROVE  /\ PendingPayloads' = PendingPayloads \cup {inFlight[d].payload}
         /\ PendingOnce /\ inFlight[d].payload \notin PendingPayloads => PendingOnce'
<1> DEFINE e == inFlight[d]
<1>1. e \in InFlightEntry /\ pending \in [Topics -> Seq(Message)]
  BY DEF TypeOK
<1>2. PICK t \in Topics, x \in Message :
         /\ x.payload = e.payload
         /\ \/ pending' = [pending EXCEPT ![t] = Append(@, x)]
            \/ pending' = [pending EXCEPT ![t] = <<x>> \o @]
  <2>1. CASE Requeue(e)
    <3> DEFINE x == [payload |-> e.payload, retry |-> e.retry + 1]
    <3>1. e.topic \in Topics /\ x \in Message /\ x.payload = e.payload
      BY <1>1, TopicsAssumption DEF InFlightEntry, Message
    <3>2. pending' = [pending EXCEPT ![e.topic] = <<x>> \o @]
      BY <2>1, Zenon DEF Requeue
    <3> HIDE DEF x
    <3> QED
      BY <3>1, <3>2, Zenon
  <2>2. CASE DeadLetter(e)
    <3> DEFINE x == [payload |-> e.payload, retry |-> e.retry]
    <3>1. DeadLetterOf[e.topic] \in Topics /\ x \in Message /\ x.payload = e.payload
      BY <1>1, TopicsAssumption DEF InFlightEntry, Message
    <3> QED
      BY <2>2, <3>1, Zenon DEF DeadLetter
  <2> QED
    BY <2>1, <2>2, Zenon
<1> QED
  BY <1>1, <1>2, AddPending, Zenon

\* A delivery ends and its message goes back to a topic: nothing else changes.
LEMMA ReturnStep ==
  ASSUME TypeOK, CopyInv, NEW d \in DOMAIN inFlight,
         inFlight' = Without(inFlight, d),
         Requeue(inFlight[d]) \/ DeadLetter(inFlight[d]),
         UNCHANGED historyVars
  PROVE  CopyInv'
<1> DEFINE e == inFlight[d]
<1>1. /\ PendingPayloads' = PendingPayloads \cup {e.payload}
      /\ PendingOnce /\ e.payload \notin PendingPayloads => PendingOnce'
  BY ReturnPayloads
<1>2. /\ InFlightPayloads = InFlightPayloads' \cup {e.payload}
      /\ InFlightOnce => InFlightOnce' /\ e.payload \notin InFlightPayloads'
  BY RemoveInFlight
<1> HIDE DEF e
<1>3. Live' = Live /\ Settled' = Settled /\ sent' = sent
  BY <1>1, <1>2 DEF Live, Settled, historyVars
<1>4. Apart => Apart'
  BY <1>1, <1>2, Zenon DEF Apart
<1> QED
  BY <1>3, <1>4 DEF CopyInv, OneGroup

\* CopyInv is preserved by every step.
LEMMA CopyStep ==
  ASSUME BasicInv, CopyInv, Next
  PROVE  CopyInv'
<1> USE DEF BasicInv
<1>1. ASSUME NEW t \in Served, NEW m \in Messages, Enqueue(t, m)
      PROVE  CopyInv'
  <2> DEFINE x == [payload |-> m, retry |-> 0]
  <2>1. t \in Topics /\ x \in Message /\ x.payload = m
    BY TopicsAssumption, Zenon DEF Message
  <2>2. /\ pending' = [pending EXCEPT ![t] = Append(@, x)]
        /\ m \notin sent /\ sent' = sent \cup {m}
        /\ UNCHANGED <<inFlight, acked, dropped>>
    BY <1>1 DEF Enqueue
  <2> HIDE DEF x
  <2>3. /\ PendingPayloads' = PendingPayloads \cup {m}
        /\ PendingOnce /\ m \notin PendingPayloads => PendingOnce'
    <3>1. pending \in [Topics -> Seq(Message)]
      BY Zenon DEF TypeOK
    <3>2. /\ PendingPayloads' = PendingPayloads \cup {x.payload}
          /\ PendingOnce /\ x.payload \notin PendingPayloads => PendingOnce'
      BY <2>1, <2>2, <3>1, AddPending, Zenon
    <3> QED
      BY <2>1, <3>2, Zenon
  <2>4. InFlightPayloads' = InFlightPayloads /\ (InFlightOnce => InFlightOnce')
    <3>1. InFlightPayloads' = InFlightPayloads
      BY <2>2 DEF InFlightPayloads
    <3>2. InFlightOnce => InFlightOnce'
      BY <2>2 DEF InFlightOnce
    <3> QED
      BY <3>1, <3>2
  <2>5. Settled' = Settled /\ Live' = Live \cup {m} /\ m \notin Live /\ m \notin Settled
    BY <2>2, <2>3, <2>4 DEF Live, Settled, CopyInv
  <2>6. Apart => Apart'
    BY <2>3, <2>4, <2>5 DEF Apart, Live
  <2> QED
    BY <2>2, <2>5, <2>6, Zenon DEF CopyInv, OneGroup
<1>2. ASSUME NEW t \in Topics, TryDispatch(t), UNCHANGED historyVars
      PROVE  CopyInv'
  <2>1. Live' = Live /\ (Apart /\ OneGroup => Apart')
    BY <1>2, TryDispatchPayloads DEF Live, OneGroup
  <2>2. Settled' = Settled /\ sent' = sent
    BY <1>2 DEF Settled, historyVars
  <2> QED
    BY <2>1, <2>2, Zenon DEF CopyInv, OneGroup
<1>3. ASSUME NEW w \in Waiters, DequeueTake(w)
      PROVE  CopyInv'
  <2>1. Live' = Live /\ (Apart => Apart')
    BY <1>3, DequeuePayloads DEF Live
  <2>2. Settled' = Settled /\ sent' = sent
    BY <1>3 DEF DequeueTake, Settled, historyVars
  <2> QED
    BY <2>1, <2>2 DEF CopyInv, OneGroup
<1>4. CASE UNCHANGED <<pending, inFlight, sent, acked, dropped>>
  BY <1>4, CopyStutter, Zenon
<1>5. ASSUME NEW d \in DOMAIN held, Ack(d)
      PROVE  CopyInv'
  <2>1. CASE d \notin DOMAIN inFlight
    BY <1>4, <1>5, <2>1 DEF Ack
  <2>2. CASE d \in DOMAIN inFlight
    <3> DEFINE m == inFlight[d].payload
    <3>1. /\ inFlight' = Without(inFlight, d) /\ acked' = acked \cup {m}
          /\ UNCHANGED <<pending, sent, dropped>>
      BY <1>5, <2>2 DEF Ack
    <3>2. /\ InFlightPayloads = InFlightPayloads' \cup {m}
          /\ InFlightOnce => InFlightOnce' /\ m \notin InFlightPayloads'
      BY <2>2, <3>1, RemoveInFlight
    <3>3. PendingPayloads' = PendingPayloads /\ (PendingOnce => PendingOnce')
      <4>0. pending' = pending
        BY <3>1, Zenon
      <4>1. PendingPayloads' = PendingPayloads
        BY <4>0 DEF PendingPayloads
      <4>2. PendingOnce => PendingOnce'
        BY <4>0 DEF PendingOnce
      <4> QED
        BY <4>1, <4>2, Zenon
    <3> HIDE DEF m
    <3>4. Live = Live' \cup {m} /\ Settled' = Settled \cup {m} /\ sent' = sent
      BY <3>1, <3>2, <3>3 DEF Live, Settled
    <3>5. Apart => Apart' /\ m \notin Live'
      BY <3>2, <3>3, Zenon DEF Apart, Live
    <3> QED
      BY <3>4, <3>5, Zenon DEF CopyInv, OneGroup
  <2> QED
    BY <2>1, <2>2
<1>6. ASSUME NEW d \in DOMAIN held, NEW requeue \in BOOLEAN, Nack(d, requeue)
      PROVE  CopyInv'
  <2>1. CASE d \notin DOMAIN inFlight
    BY <1>4, <1>6, <2>1, Zenon DEF Nack, historyVars
  <2>2. CASE d \in DOMAIN inFlight
    <3>1. /\ inFlight' = Without(inFlight, d) /\ UNCHANGED historyVars
          /\ Requeue(inFlight[d]) \/ DeadLetter(inFlight[d])
      BY <1>6, <2>2, Zenon DEF Nack
    <3> QED
      BY <2>2, <3>1, ReturnStep, Zenon
  <2> QED
    BY <2>1, <2>2, Zenon
<1>7. ASSUME NEW r \in Reapers, NEW d \in due, ReaperExpire(r, d)
      PROVE  CopyInv'
  <2>1. /\ inFlight' = Without(inFlight, d) /\ UNCHANGED historyVars
        /\ Requeue(inFlight[d]) \/ DeadLetter(inFlight[d])
    BY <1>7 DEF ReaperExpire
  <2>2. d \in DOMAIN inFlight
    BY Zenon DEF DueInFlight
  <2> QED
    BY <2>1, <2>2, ReturnStep, Zenon
<1>8. CASE CloseClear
  <2>1. /\ pending' = [t \in Topics |-> <<>>] /\ inFlight' = <<>>
        /\ dropped' = dropped \cup Live /\ UNCHANGED <<sent, acked>>
    BY <1>8 DEF CloseClear, Live
  <2>2. DOMAIN inFlight' = {} /\ \A t \in Topics : DOMAIN pending'[t] = {}
    BY <2>1
  <2>3. PendingPayloads' = {} /\ InFlightPayloads' = {}
    BY <2>2, Zenon DEF PendingPayloads, InFlightPayloads
  <2>4. PendingOnce' /\ InFlightOnce'
    BY <2>2 DEF PendingOnce, InFlightOnce
  <2>5. Live' = {} /\ Settled' = Settled \cup Live
    BY <2>1, <2>3, Zenon DEF Live, Settled
  <2> QED
    BY <2>1, <2>3, <2>4, <2>5 DEF CopyInv, Apart
<1>9. \/ \E t \in Served, m \in Messages : Enqueue(t, m)
      \/ \E t \in Topics : TryDispatch(t) /\ UNCHANGED historyVars
      \/ \E w \in Waiters : DequeueTake(w)
      \/ \E d \in DOMAIN held : Ack(d) \/ \E requeue \in BOOLEAN : Nack(d, requeue)
      \/ \E r \in Reapers, d \in due : ReaperExpire(r, d)
      \/ CloseClear
      \/ UNCHANGED <<pending, inFlight, sent, acked, dropped>>
  BY Zenon DEF Next, Consume, RemoveConsumer, Dispatch, DequeueCall, DequeueClosed, DequeueEmpty,
         DequeueWaitTimeout, Abandon, ReaperTest, ReaperCollect, ReaperRelease,
         ReaperDispatch, ReaperSleep, CloseStopReaper, CloseSetFlag, queueVars, historyVars
<1> QED
  BY <1>1, <1>2, <1>3, <1>4, <1>5, <1>6, <1>7, <1>8, <1>9

\* The copy invariant holds.
THEOREM CopyInvariant == Spec => []CopyInv
<1>1. Init => CopyInv
  <2> SUFFICES ASSUME Init PROVE CopyInv
    OBVIOUS
  <2>1. DOMAIN inFlight = {} /\ \A t \in Topics : DOMAIN pending[t] = {}
    BY DEF Init
  <2>2. PendingPayloads = {} /\ InFlightPayloads = {} /\ PendingOnce /\ InFlightOnce
    BY <2>1, Zenon DEF PendingPayloads, InFlightPayloads, PendingOnce, InFlightOnce
  <2> QED
    BY <2>2 DEF Init, CopyInv, Apart, Live, Settled
<1>2. BasicInv /\ CopyInv /\ [Next]_vars => CopyInv'
  <2> SUFFICES ASSUME BasicInv, CopyInv, [Next]_vars PROVE CopyInv'
    OBVIOUS
  <2>1. CASE UNCHANGED vars
    BY <2>1, CopyStutter DEF vars
  <2> QED
    BY <2>1, CopyStep
<1> QED
  BY <1>1, <1>2, BasicInvariant, PTL DEF Spec

\* No accepted message is lost before it is acked or close() discards it.
THEOREM Conservation == Spec => []NoMessageLost
<1>1. CopyInv => NoMessageLost
  BY Zenon DEF CopyInv, NoMessageLost, Live, Settled
<1> QED
  BY <1>1, CopyInvariant, PTL

\* With one consumer group a message is in one place, and never comes back
\* after it was acked.
THEOREM NoSecondCopy == Spec => []SingleCopy
<1>1. CopyInv => SingleCopy
  BY Zenon DEF CopyInv, SingleCopy, OneGroup, Apart, Live, Settled
<1> QED
  BY <1>1, CopyInvariant, PTL

-----------------------------------------------------------------------------
(* Retries *)

Allowed(n) == n = 0 \/ n < MaxRetries

\* RetriesBounded is preserved by every step.
LEMMA RetriesStep ==
  ASSUME BasicInv, RetriesBounded, Next
  PROVE  RetriesBounded'
<1> USE DEF BasicInv
<1>0. /\ pending \in [Topics -> Seq(Message)]
      /\ \A t \in Topics : \A i \in DOMAIN pending[t] : Allowed(pending[t][i].retry)
      /\ \A d \in DOMAIN inFlight : Allowed(inFlight[d].retry)
  BY Zenon DEF TypeOK, RetriesBounded, Allowed
<1>1. ASSUME NEW t \in Topics, NEW x \in Message, Allowed(x.retry),
             \/ pending' = [pending EXCEPT ![t] = Append(@, x)]
             \/ pending' = [pending EXCEPT ![t] = <<x>> \o @],
             \/ UNCHANGED inFlight
             \/ \E d : inFlight' = Without(inFlight, d)
      PROVE  RetriesBounded'
  <2>1. \A u \in Topics : \A i \in DOMAIN pending'[u] :
           pending'[u][i] = x \/ \E j \in DOMAIN pending[u] : pending'[u][i] = pending[u][j]
    BY <1>0, <1>1, AddPending, Zenon
  <2>2. \A d \in DOMAIN inFlight' : d \in DOMAIN inFlight /\ inFlight'[d] = inFlight[d]
    <3>1. CASE UNCHANGED inFlight
      BY <3>1
    <3>2. CASE \E d : inFlight' = Without(inFlight, d)
      <4>1. PICK d : inFlight' = Without(inFlight, d)
        BY <3>2
      <4> QED
        BY <4>1 DEF Without
    <3> QED
      BY <1>1, <3>1, <3>2
  <2>3. \A u \in Topics : \A i \in DOMAIN pending'[u] : Allowed(pending'[u][i].retry)
    BY <1>0, <1>1, <2>1, Zenon
  <2>4. \A d \in DOMAIN inFlight' : Allowed(inFlight'[d].retry)
    BY <1>0, <2>2
  <2> QED
    BY <2>3, <2>4, Zenon DEF RetriesBounded, Allowed
<1>2. ASSUME NEW t \in Served, NEW m \in Messages, Enqueue(t, m)
      PROVE  RetriesBounded'
  <2> DEFINE x == [payload |-> m, retry |-> 0]
  <2>1. t \in Topics /\ x \in Message /\ Allowed(x.retry)
    BY TopicsAssumption DEF Message, Allowed
  <2>2. pending' = [pending EXCEPT ![t] = Append(@, x)] /\ UNCHANGED inFlight
    BY <1>2 DEF Enqueue
  <2> HIDE DEF x
  <2> QED
    BY <1>1, <2>1, <2>2, Zenon
<1>3. ASSUME NEW d \in DOMAIN inFlight, inFlight' = Without(inFlight, d),
             \/ Retryable(inFlight[d]) /\ Requeue(inFlight[d])
             \/ DeadLetter(inFlight[d])
      PROVE  RetriesBounded'
  <2> DEFINE e == inFlight[d]
  <2>1. e \in InFlightEntry /\ Allowed(e.retry)
    BY <1>0 DEF TypeOK
  <2>2. CASE Retryable(e) /\ Requeue(e)
    <3> DEFINE x == [payload |-> e.payload, retry |-> e.retry + 1]
    <3>1. e.topic \in Topics /\ x \in Message /\ Allowed(x.retry)
      BY <2>1, <2>2, TopicsAssumption DEF InFlightEntry, Message, Retryable, Allowed
    <3>2. pending' = [pending EXCEPT ![e.topic] = <<x>> \o @]
      BY <2>2 DEF Requeue
    <3> HIDE DEF x
    <3> QED
      BY <1>1, <1>3, <3>1, <3>2, Zenon
  <2>3. CASE DeadLetter(e)
    <3> DEFINE x == [payload |-> e.payload, retry |-> e.retry]
    <3>1. DeadLetterOf[e.topic] \in Topics /\ x \in Message /\ Allowed(x.retry)
      BY <2>1, TopicsAssumption DEF InFlightEntry, Message, Allowed
    <3>2. pending' = [pending EXCEPT ![DeadLetterOf[e.topic]] = Append(@, x)]
      BY <2>3 DEF DeadLetter
    <3> HIDE DEF x
    <3> QED
      BY <1>1, <1>3, <3>1, <3>2, Zenon
  <2> QED
    BY <1>3, <2>2, <2>3
<1>4. ASSUME NEW t \in Topics, TryDispatch(t)
      PROVE  RetriesBounded'
  <2>1. CASE UNCHANGED <<queueVars, rrIndex, running, reaper>>
    BY <2>1, Zenon DEF queueVars, RetriesBounded
  <2>2. CASE ~(UNCHANGED <<queueVars, rrIndex, running, reaper>>)
    <3>1. /\ pending' = [pending EXCEPT ![t] = <<>>]
          /\ DOMAIN inFlight' = DOMAIN inFlight \cup NewIds(t)
          /\ \A d \in NewIds(t) : /\ d[1] - lastDelivery \in DOMAIN pending[t]
                                  /\ inFlight'[d] = Entry(t, pending[t][d[1] - lastDelivery])
          /\ \A d \in DOMAIN inFlight : inFlight'[d] = inFlight[d]
      BY <1>4, <2>2, TryDispatchEffect, Zenon
    <3>2. ASSUME NEW d \in NewIds(t) PROVE Allowed(inFlight'[d].retry)
      <4>1. inFlight'[d].retry = pending[t][d[1] - lastDelivery].retry
        BY <3>1 DEF Entry
      <4>2. Allowed(pending[t][d[1] - lastDelivery].retry)
        BY <1>0, <3>1, Zenon
      <4> QED
        BY <4>1, <4>2, Zenon
    <3>3. \A d \in DOMAIN inFlight' : Allowed(inFlight'[d].retry)
      BY <1>0, <3>1, <3>2, Zenon
    <3>4. \A u \in Topics : \A i \in DOMAIN pending'[u] : Allowed(pending'[u][i].retry)
      <4>1. DOMAIN pending'[t] = {} /\ \A u \in Topics \ {t} : pending'[u] = pending[u]
        BY <1>0, <3>1
      <4> QED
        BY <1>0, <4>1, Zenon
    <3> QED
      BY <3>3, <3>4, Zenon DEF RetriesBounded, Allowed
  <2> QED
    BY <2>1, <2>2, Zenon
<1>5. ASSUME NEW w \in Waiters, DequeueTake(w)
      PROVE  RetriesBounded'
  <2> DEFINE t == waiter[w].topic
             d == <<lastDelivery + 1, Pull>>
  <2>1. /\ t \in Topics
        /\ pending[t] \in Seq(Message) /\ pending[t] # <<>>
        /\ pending' = [pending EXCEPT ![t] = Tail(pending[t])]
        /\ DOMAIN inFlight' = DOMAIN inFlight \cup {d}
        /\ inFlight'[d] = Entry(t, Head(pending[t]))
        /\ \A x \in DOMAIN inFlight : inFlight'[x] = inFlight[x]
    BY <1>5, DequeueTakeEffect, Zenon
  <2> HIDE DEF t, d
  <2>2. 1 \in DOMAIN pending[t] /\ Head(pending[t]) = pending[t][1]
    BY <2>1, NonEmptySeq, Zenon
  <2>3. Allowed(inFlight'[d].retry)
    <3>1. inFlight'[d].retry = pending[t][1].retry
      BY <2>1, <2>2, SMTT(20) DEF Entry
    <3> QED
      BY <1>0, <2>1, <2>2, <3>1, Zenon
  <2>4. \A x \in DOMAIN inFlight' : Allowed(inFlight'[x].retry)
    BY <1>0, <2>1, <2>3, Zenon
  <2>5. \A i \in DOMAIN Tail(pending[t]) :
           i + 1 \in DOMAIN pending[t] /\ Tail(pending[t])[i] = pending[t][i + 1]
    BY <2>1
  <2>6. /\ pending'[t] = Tail(pending[t])
        /\ \A u \in Topics \ {t} : pending'[u] = pending[u]
    BY <1>0, <2>1, Zenon
  <2>7. \A i \in DOMAIN pending'[t] : Allowed(pending'[t][i].retry)
    BY <1>0, <2>1, <2>5, <2>6
  <2>8. \A u \in Topics : \A i \in DOMAIN pending'[u] : Allowed(pending'[u][i].retry)
    BY <1>0, <2>6, <2>7, Zenon
  <2> QED
    BY <2>4, <2>8, Zenon DEF RetriesBounded, Allowed
<1>6. ASSUME NEW d, UNCHANGED pending, inFlight' = Without(inFlight, d)
      PROVE  RetriesBounded'
  BY <1>6 DEF Without, RetriesBounded
<1>7. CASE UNCHANGED <<pending, inFlight>>
  BY <1>7 DEF RetriesBounded
<1>8. CASE CloseClear
  <2>1. pending' = [t \in Topics |-> <<>>] /\ inFlight' = <<>>
    BY <1>8 DEF CloseClear
  <2>2. DOMAIN inFlight' = {} /\ \A t \in Topics : DOMAIN pending'[t] = {}
    BY <2>1
  <2> QED
    BY <2>2 DEF RetriesBounded
<1>9. ASSUME NEW d \in DOMAIN held, NEW requeue \in BOOLEAN, Nack(d, requeue)
      PROVE  RetriesBounded'
  <2>1. CASE d \notin DOMAIN inFlight
    BY <1>7, <1>9, <2>1, Zenon DEF Nack
  <2>2. CASE d \in DOMAIN inFlight
    <3>1. /\ inFlight' = Without(inFlight, d)
          /\ \/ Retryable(inFlight[d]) /\ Requeue(inFlight[d])
             \/ DeadLetter(inFlight[d])
      BY <1>9, <2>2 DEF Nack
    <3> QED
      BY <1>3, <2>2, <3>1
  <2> QED
    BY <2>1, <2>2, Zenon
<1>10. ASSUME NEW r \in Reapers, NEW d \in due, ReaperExpire(r, d)
       PROVE  RetriesBounded'
  <2>1. /\ inFlight' = Without(inFlight, d) /\ d \in DOMAIN inFlight
        /\ \/ Retryable(inFlight[d]) /\ Requeue(inFlight[d])
           \/ DeadLetter(inFlight[d])
    BY <1>10, Zenon DEF ReaperExpire, DueInFlight
  <2> QED
    BY <1>3, <2>1, Zenon
<1>11. ASSUME NEW d \in DOMAIN held, Ack(d)
       PROVE  RetriesBounded'
  BY <1>6, <1>7, <1>11, Zenon DEF Ack
<1>12. \/ \E t \in Served, m \in Messages : Enqueue(t, m)
       \/ \E t \in Topics : TryDispatch(t)
       \/ \E w \in Waiters : DequeueTake(w)
       \/ \E d \in DOMAIN held : Ack(d) \/ \E requeue \in BOOLEAN : Nack(d, requeue)
       \/ \E r \in Reapers, d \in due : ReaperExpire(r, d)
       \/ CloseClear
       \/ UNCHANGED <<pending, inFlight>>
  BY Zenon DEF Next, Consume, RemoveConsumer, Dispatch, DequeueCall, DequeueClosed, DequeueEmpty,
         DequeueWaitTimeout, Abandon, ReaperTest, ReaperCollect, ReaperRelease,
         ReaperDispatch, ReaperSleep, CloseStopReaper, CloseSetFlag, queueVars
<1> QED
  BY <1>2, <1>4, <1>5, <1>7, <1>8, <1>9, <1>10, <1>11, <1>12, Zenon

\* A message is never delivered with a retry count of max_retries or more.
THEOREM RetriesLimited == Spec => []RetriesBounded
<1>1. Init => RetriesBounded
  <2> SUFFICES ASSUME Init PROVE RetriesBounded
    OBVIOUS
  <2>1. DOMAIN inFlight = {} /\ \A t \in Topics : DOMAIN pending[t] = {}
    BY DEF Init
  <2> QED
    BY <2>1, Zenon DEF RetriesBounded
<1>2. BasicInv /\ RetriesBounded /\ [Next]_vars => RetriesBounded'
  <2> SUFFICES ASSUME BasicInv, RetriesBounded, [Next]_vars PROVE RetriesBounded'
    OBVIOUS
  <2>1. CASE UNCHANGED vars
    BY <2>1, Zenon DEF vars, RetriesBounded
  <2> QED
    BY <2>1, RetriesStep
<1> QED
  BY <1>1, <1>2, BasicInvariant, PTL DEF Spec

-----------------------------------------------------------------------------
(* The reaper *)

Alive(r) == reaper[r] \notin {"none", "exited"}

WatchInv ==
    /\ running => \E r \in Reapers : Alive(r)
    /\ DOMAIN inFlight # {} /\ closing \in {"open", "cleared"} => running

\* WatchInv is preserved by every step.
LEMMA WatchStep ==
  ASSUME BasicInv, WatchInv, Next
  PROVE  WatchInv'
<1> USE DEF BasicInv
<1>0. reaper \in [Reapers -> ReaperPCs] /\ running \in BOOLEAN /\ 1 \in Reapers /\ 2 \in Reapers
  BY Zenon DEF TypeOK, Reapers
<1>1. CASE StartReaperIfNeeded
  <2>1. running' /\ (running => UNCHANGED reaper)
    BY <1>0, <1>1 DEF StartReaperIfNeeded
  <2>2. ~running => reaper'[1] = "test" \/ reaper'[2] = "test"
    BY <1>0, <1>1, Zenon DEF StartReaperIfNeeded
  <2> QED
    BY <1>0, <2>1, <2>2 DEF WatchInv, Alive
<1>2. CASE /\ UNCHANGED <<running, closing>>
           /\ \A r \in Reapers : Alive(r) => Alive(r)'
           /\ DOMAIN inFlight' # {} => DOMAIN inFlight # {}
  BY <1>2, Zenon DEF WatchInv
<1>3. ASSUME NEW r \in Reapers, ReaperTest(r)
      PROVE  WatchInv'
  <2>1. /\ UNCHANGED <<running, closing, inFlight>>
        /\ reaper[r] = "test"
        /\ \A q \in Reapers \ {r} : reaper'[q] = reaper[q]
        /\ running => reaper'[r] = "wait"
    BY <1>0, <1>3 DEF ReaperTest, queueVars
  <2>2. running => \A q \in Reapers : Alive(q) => Alive(q)'
    BY <2>1 DEF Alive
  <2> QED
    BY <2>1, <2>2, Zenon DEF WatchInv
<1>4. CASE CloseStopReaper
  BY <1>4 DEF CloseStopReaper, WatchInv
<1>5. CASE CloseSetFlag
  BY <1>5 DEF CloseSetFlag, WatchInv, reaperVars, queueVars, Alive
<1>6. CASE CloseClear
  <2>1. inFlight' = <<>> /\ UNCHANGED <<running, reaper>>
    BY <1>6 DEF CloseClear, reaperVars
  <2>2. DOMAIN inFlight' = {}
    BY <2>1
  <2> QED
    BY <2>1, <2>2, Zenon DEF WatchInv, Alive
<1>7. ASSUME NEW r \in Reapers,
             \/ ReaperRelease(r) \/ ReaperSleep(r)
             \/ \E S \in SUBSET DOMAIN inFlight : ReaperCollect(r, S)
      PROVE  WatchInv'
  <2>1. /\ UNCHANGED <<running, closing, inFlight>>
        /\ \A q \in Reapers \ {r} : reaper'[q] = reaper[q]
        /\ reaper'[r] \in {"hand", "test", "sweep"}
    BY <1>0, <1>7, Zenon DEF ReaperRelease, ReaperSleep, ReaperCollect, queueVars
  <2> QED
    BY <1>2, <2>1, Zenon DEF Alive
<1>8. ASSUME NEW t \in Topics, TryDispatch(t), UNCHANGED closing
      PROVE  WatchInv'
  <2>1. CASE UNCHANGED <<queueVars, rrIndex, running, reaper>>
    BY <1>2, <1>8, <2>1 DEF queueVars, Alive
  <2>2. CASE StartReaperIfNeeded
    BY <1>1, <2>2, Zenon
  <2> QED
    BY <1>8, <2>1, <2>2, TryDispatchEffect, Zenon
<1>9. ASSUME NEW d, \/ UNCHANGED inFlight \/ inFlight' = Without(inFlight, d),
             UNCHANGED <<running, reaper, closing>>
      PROVE  WatchInv'
  <2>1. DOMAIN inFlight' \subseteq DOMAIN inFlight
    BY <1>9, WithoutProperties, Zenon
  <2> QED
    BY <1>2, <1>9, <2>1, Zenon DEF Alive
<1>10. \/ StartReaperIfNeeded
       \/ \E d : /\ \/ UNCHANGED inFlight \/ inFlight' = Without(inFlight, d)
                 /\ UNCHANGED <<running, reaper, closing>>
       \/ \E r \in Reapers : \/ ReaperTest(r) \/ ReaperRelease(r) \/ ReaperSleep(r)
                            \/ \E S \in SUBSET DOMAIN inFlight : ReaperCollect(r, S)
       \/ \E t \in Topics : TryDispatch(t) /\ UNCHANGED closing
       \/ CloseStopReaper \/ CloseSetFlag \/ CloseClear
  BY Zenon DEF Next, Enqueue, Consume, RemoveConsumer, Dispatch, DequeueCall, DequeueClosed,
         DequeueTake, DequeueEmpty, DequeueWaitTimeout, Ack, Nack, Abandon, ReaperExpire,
         ReaperDispatch, queueVars, reaperVars
<1> QED
  BY <1>1, <1>3, <1>4, <1>5, <1>6, <1>7, <1>8, <1>9, <1>10, Zenon

\* While a delivery is in flight a reaper thread watches it.
THEOREM Watched == Spec => []ReaperWatches
<1>1. Init => WatchInv
  <2> SUFFICES ASSUME Init PROVE WatchInv
    OBVIOUS
  <2>1. DOMAIN inFlight = {} /\ running = FALSE
    BY DEF Init
  <2> QED
    BY <2>1, Zenon DEF WatchInv
<1>2. BasicInv /\ WatchInv /\ [Next]_vars => WatchInv'
  <2> SUFFICES ASSUME BasicInv, WatchInv, [Next]_vars PROVE WatchInv'
    OBVIOUS
  <2>1. CASE UNCHANGED vars
    BY <2>1 DEF vars, WatchInv, Alive
  <2> QED
    BY <2>1, WatchStep
<1>3. WatchInv => ReaperWatches
  BY DEF WatchInv, ReaperWatches, Alive
<1> QED
  BY <1>1, <1>2, <1>3, BasicInvariant, PTL DEF Spec

-----------------------------------------------------------------------------
(* Delivery is implemented.  The copy invariant says that the places of     *)
(* Delivery are disjoint in every reachable state; what is left is that     *)
(* every step moves messages the way Delivery does.                         *)

\* A step that only moves messages from _pending to _in_flight hands them out.
LEMMA HandOutStep ==
  ASSUME Live' = Live, Apart, Apart', InFlightPayloads \subseteq InFlightPayloads',
         UNCHANGED <<acked, dropped>>
  PROVE  Promise!Next
<1> DEFINE S == PendingPayloads \ PendingPayloads'
<1>1. PendingPayloads' = PendingPayloads \ S /\ InFlightPayloads' = InFlightPayloads \cup S
  BY DEF Live, Apart
<1>2. S \in SUBSET PendingPayloads
  OBVIOUS
<1> HIDE DEF S
<1>3. Promise!HandOut(S)
  BY <1>1, <1>2 DEF Promise!HandOut
<1> QED
  BY <1>2, <1>3 DEF Promise!Next

\* A delivery that ends with its message back on a topic gives it back.
LEMMA GiveBackStep ==
  ASSUME TypeOK, Apart, NEW d \in DOMAIN inFlight, inFlight' = Without(inFlight, d),
         Requeue(inFlight[d]) \/ DeadLetter(inFlight[d]),
         UNCHANGED historyVars
  PROVE  Promise!Next
<1> DEFINE e == inFlight[d]
<1>1. PendingPayloads' = PendingPayloads \cup {e.payload}
  BY ReturnPayloads, Zenon
<1>2. /\ InFlightPayloads = InFlightPayloads' \cup {e.payload}
      /\ e.payload \notin InFlightPayloads'
  BY RemoveInFlight, Zenon DEF Apart
<1>3. e.payload \in Messages
  BY DEF TypeOK, InFlightEntry
<1> HIDE DEF e
<1>4. Promise!GiveBack(e.payload)
  BY <1>1, <1>2, Zenon DEF Promise!GiveBack, historyVars
<1> QED
  BY <1>3, <1>4, Zenon DEF Promise!Next

\* Every step of the work queue is a step of Delivery or changes none of its
\* places.
LEMMA PromiseStep ==
  ASSUME OneGroup, BasicInv, CopyInv, CopyInv', Next
  PROVE  [Promise!Next]_(Promise!places)
<1>0. /\ TypeOK /\ IdsFresh /\ DueInFlight
      /\ Apart /\ Apart' /\ Live \cap Settled = {} /\ sent = Live \cup Settled
  <2>1. OneGroup'
    BY DEF OneGroup
  <2> QED
    BY <2>1 DEF BasicInv, CopyInv
<1>1. ASSUME NEW t \in Served, NEW m \in Messages, Enqueue(t, m)
      PROVE  Promise!Next
  <2> DEFINE x == [payload |-> m, retry |-> 0]
  <2>1. t \in Topics /\ x \in Message /\ x.payload = m
    BY TopicsAssumption, Zenon DEF Message
  <2>2. /\ pending' = [pending EXCEPT ![t] = Append(@, x)]
        /\ m \notin sent
        /\ UNCHANGED <<inFlight, acked, dropped>>
    BY <1>1 DEF Enqueue
  <2> HIDE DEF x
  <2>3. PendingPayloads' = PendingPayloads \cup {m}
    <3>1. pending \in [Topics -> Seq(Message)]
      BY <1>0, Zenon DEF TypeOK
    <3>2. PendingPayloads' = PendingPayloads \cup {x.payload}
      BY <2>1, <2>2, <3>1, AddPending, Zenon
    <3> QED
      BY <2>1, <3>2, Zenon
  <2>4. InFlightPayloads' = InFlightPayloads
    BY <2>2 DEF InFlightPayloads
  <2>5. Promise!Accept(m)
    BY <1>0, <2>2, <2>3, <2>4 DEF Promise!Accept, Live, Settled
  <2> QED
    BY <2>5, Zenon DEF Promise!Next
<1>2. ASSUME NEW t \in Topics, TryDispatch(t), UNCHANGED historyVars
      PROVE  Promise!Next
  <2>1. Live' = Live
    BY <1>0, <1>2, TryDispatchPayloads, Zenon DEF Live
  <2>2. InFlightPayloads \subseteq InFlightPayloads'
    <3>1. /\ DOMAIN inFlight \subseteq DOMAIN inFlight'
          /\ \A d \in DOMAIN inFlight : inFlight'[d] = inFlight[d]
      <4>1. CASE UNCHANGED <<queueVars, rrIndex, running, reaper>>
        BY <4>1, Zenon DEF queueVars
      <4>2. CASE ~(UNCHANGED <<queueVars, rrIndex, running, reaper>>)
        BY <1>0, <1>2, <4>2, TryDispatchEffect, Zenon
      <4> QED
        BY <4>1, <4>2
    <3> QED
      BY <3>1, Zenon DEF InFlightPayloads
  <2> QED
    BY <1>0, <1>2, <2>1, <2>2, HandOutStep DEF historyVars
<1>3. ASSUME NEW w \in Waiters, DequeueTake(w)
      PROVE  Promise!Next
  <2>1. Live' = Live
    BY <1>0, <1>3, DequeuePayloads, Zenon DEF Live
  <2>2. InFlightPayloads \subseteq InFlightPayloads'
    <3>1. /\ DOMAIN inFlight \subseteq DOMAIN inFlight'
          /\ \A d \in DOMAIN inFlight : inFlight'[d] = inFlight[d]
      BY <1>0, <1>3, DequeueTakeEffect, Zenon
    <3> QED
      BY <3>1 DEF InFlightPayloads
  <2>3. UNCHANGED <<acked, dropped>>
    BY <1>3, Zenon DEF DequeueTake, historyVars
  <2> QED
    BY <1>0, <2>1, <2>2, <2>3, HandOutStep, Zenon
<1>4. CASE UNCHANGED <<pending, inFlight, sent, acked, dropped>>
  <2>1. PendingPayloads' = PendingPayloads /\ InFlightPayloads' = InFlightPayloads
    BY <1>4, NothingMoves, Zenon
  <2> QED
    BY <1>4, <2>1, Zenon DEF Promise!places
<1>5. ASSUME NEW d \in DOMAIN held, Ack(d)
      PROVE  [Promise!Next]_(Promise!places)
  <2>1. CASE d \notin DOMAIN inFlight
    BY <1>4, <1>5, <2>1, Zenon DEF Ack
  <2>2. CASE d \in DOMAIN inFlight
    <3> DEFINE m == inFlight[d].payload
    <3>1. /\ inFlight' = Without(inFlight, d) /\ acked' = acked \cup {m}
          /\ UNCHANGED <<pending, dropped>>
      BY <1>5, <2>2, Zenon DEF Ack
    <3>2. InFlightPayloads = InFlightPayloads' \cup {m} /\ m \notin InFlightPayloads'
      BY <1>0, <2>2, <3>1, RemoveInFlight, Zenon DEF Apart
    <3>3. PendingPayloads' = PendingPayloads
      BY <3>1 DEF PendingPayloads
    <3>4. m \in Messages
      BY <1>0, <2>2, Zenon DEF TypeOK, InFlightEntry
    <3> HIDE DEF m
    <3>5. Promise!Confirm(m)
      BY <3>1, <3>2, <3>3, Zenon DEF Promise!Confirm
    <3> QED
      BY <3>4, <3>5, Zenon DEF Promise!Next
  <2> QED
    BY <2>1, <2>2, Zenon
<1>6. ASSUME NEW d \in DOMAIN held, NEW requeue \in BOOLEAN, Nack(d, requeue)
      PROVE  [Promise!Next]_(Promise!places)
  <2>1. CASE d \notin DOMAIN inFlight
    BY <1>4, <1>6, <2>1, Zenon DEF Nack, historyVars
  <2>2. CASE d \in DOMAIN inFlight
    <3>1. /\ inFlight' = Without(inFlight, d) /\ UNCHANGED historyVars
          /\ Requeue(inFlight[d]) \/ DeadLetter(inFlight[d])
      BY <1>6, <2>2, Zenon DEF Nack
    <3> QED
      BY <1>0, <2>2, <3>1, GiveBackStep, Zenon
  <2> QED
    BY <2>1, <2>2, Zenon
<1>7. ASSUME NEW r \in Reapers, NEW d \in due, ReaperExpire(r, d)
      PROVE  Promise!Next
  <2>1. /\ inFlight' = Without(inFlight, d) /\ UNCHANGED historyVars
        /\ Requeue(inFlight[d]) \/ DeadLetter(inFlight[d])
    BY <1>7, Zenon DEF ReaperExpire
  <2>2. d \in DOMAIN inFlight
    BY <1>0 DEF DueInFlight
  <2> QED
    BY <1>0, <2>1, <2>2, GiveBackStep, Zenon
<1>8. CASE CloseClear
  <2>1. /\ pending' = [t \in Topics |-> <<>>] /\ inFlight' = <<>>
        /\ dropped' = dropped \cup PendingPayloads \cup InFlightPayloads
        /\ acked' = acked
    BY <1>8 DEF CloseClear
  <2>2. DOMAIN inFlight' = {} /\ \A t \in Topics : DOMAIN pending'[t] = {}
    BY <2>1
  <2>3. PendingPayloads' = {} /\ InFlightPayloads' = {}
    BY <2>2 DEF PendingPayloads, InFlightPayloads
  <2>4. Promise!Discard
    BY <2>1, <2>3, Zenon DEF Promise!Discard
  <2> QED
    BY <2>4, Zenon DEF Promise!Next
<1>9. \/ \E t \in Served, m \in Messages : Enqueue(t, m)
      \/ \E t \in Topics : TryDispatch(t) /\ UNCHANGED historyVars
      \/ \E w \in Waiters : DequeueTake(w)
      \/ \E d \in DOMAIN held : Ack(d) \/ \E requeue \in BOOLEAN : Nack(d, requeue)
      \/ \E r \in Reapers, d \in due : ReaperExpire(r, d)
      \/ CloseClear
      \/ UNCHANGED <<pending, inFlight, sent, acked, dropped>>
  BY Zenon DEF Next, Consume, RemoveConsumer, Dispatch, DequeueCall, DequeueClosed, DequeueEmpty,
         DequeueWaitTimeout, Abandon, ReaperTest, ReaperCollect, ReaperRelease,
         ReaperDispatch, ReaperSleep, CloseStopReaper, CloseSetFlag, queueVars, historyVars
<1> QED
  BY <1>1, <1>2, <1>3, <1>4, <1>5, <1>6, <1>7, <1>8, <1>9, Zenon

\* With one consumer group the work queue implements Delivery: whatever the
\* interleaving of its threads, no accepted message is lost, duplicated or
\* revived, and each leaves only by an ack or by close().
THEOREM ImplementsDelivery ==
  ASSUME OneGroup
  PROVE  Spec => KeepsPromise
<1>1. Init => Promise!Init
  <2> SUFFICES ASSUME Init PROVE Promise!Init
    OBVIOUS
  <2>1. DOMAIN inFlight = {} /\ \A t \in Topics : DOMAIN pending[t] = {}
    BY DEF Init
  <2>2. PendingPayloads = {} /\ InFlightPayloads = {}
    BY <2>1 DEF PendingPayloads, InFlightPayloads
  <2> QED
    BY <2>2 DEF Init, Promise!Init
<1>2. BasicInv /\ CopyInv /\ CopyInv' /\ [Next]_vars => [Promise!Next]_(Promise!places)
  <2> SUFFICES ASSUME BasicInv, CopyInv, CopyInv', [Next]_vars
               PROVE  [Promise!Next]_(Promise!places)
    OBVIOUS
  <2>1. CASE UNCHANGED vars
    <3>1. UNCHANGED <<pending, inFlight, acked, dropped>>
      BY <2>1 DEF vars
    <3> QED
      BY <3>1, NothingMoves DEF Promise!places
  <2> QED
    BY <2>1, PromiseStep
<1> QED
  BY <1>1, <1>2, BasicInvariant, CopyInvariant, PTL DEF Spec, KeepsPromise, Promise!Spec
=============================================================================
