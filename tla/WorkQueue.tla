------------------------------ MODULE WorkQueue ------------------------------
(***************************************************************************)
(* The competing-consumer queue of eventforge/work_queue.py.               *)
(*                                                                         *)
(* Every block under _wq_lock is one action.  Work a thread still has to   *)
(* do after it released the lock is state of its own: "owed" counts the    *)
(* threads that left a locked block and have yet to call _try_dispatch,    *)
(* "held" are the deliveries whose handler thread (or pulling client) has  *)
(* not finished, "reaper" and "closing" are the program counters of the    *)
(* visibility-timeout threads and of close().                              *)
(*                                                                         *)
(* Time is abstract: a sweep may find any set of deliveries expired, since *)
(* visibility timeouts are arbitrary.  Payloads stand for messages (an     *)
(* application enqueues each at most once); delivery ids, uuid4 in the     *)
(* code, are pairs of a serial number and the consumer group.              *)
(***************************************************************************)
EXTENDS Integers, Sequences, FiniteSets

CONSTANTS
    Messages,        \* payloads the application may enqueue
    Topics,          \* topic names
    Served,          \* topics some client enqueues to, consumes or dequeues
    DeadLetterOf,    \* "{topic}.dead_letter" of every served topic
    Groups,          \* consumer group names
    Pull,            \* the group "{topic}._pull" of dequeue()
    Consumers,       \* consumer ids
    Waiters,         \* threads that call dequeue()
    MaxSize,         \* max_work_queue_size, 0 = unlimited
    MaxRetries,      \* max_retries
    MayClose         \* whether the application calls close()

ASSUME TopicsAssumption ==
    /\ Served \subseteq Topics
    /\ DeadLetterOf \in [Served -> Topics]
    /\ \A t \in Served : DeadLetterOf[t] # t

ASSUME GroupsAssumption == Pull \notin Groups /\ Pull \notin Consumers

ASSUME LimitsAssumption == MaxSize \in Nat /\ MaxRetries \in Int /\ MayClose \in BOOLEAN

VARIABLES
    pending,         \* _pending: a deque per topic
    inFlight,        \* _in_flight: delivery id -> entry
    groups,          \* _consumer_groups: (topic, group) -> consumers, <<>> if absent
    rrIndex,         \* _rr_index
    registry,        \* _consumer_registry: consumer -> (topic, group)
    unused,          \* consumer ids (uuid4) not drawn yet
    lastDelivery,    \* serial number of the last delivery id drawn
    held,            \* deliveries in a client's hands: delivery id -> holder
    owed,            \* per topic, threads about to call _try_dispatch
    waiter,          \* what each thread is doing in dequeue()
    running,         \* _reaper_running
    reaper,          \* program counters of the reaper threads
    due,             \* expired deliveries the current sweep has yet to settle
    owes,            \* per reaper, requeued topics it has yet to dispatch
    closing,         \* progress of close()
    sent,            \* payloads enqueued so far
    acked,           \* payloads some delivery of which was acked in time
    dropped          \* payloads discarded by close()

queueVars == <<pending, inFlight, lastDelivery, held>>
consumerVars == <<groups, rrIndex, registry, unused>>
reaperVars == <<running, reaper, due, owes>>
historyVars == <<sent, acked, dropped>>
vars == <<pending, inFlight, groups, rrIndex, registry, unused, lastDelivery,
          held, owed, waiter, running, reaper, due, owes, closing, sent, acked,
          dropped>>

-----------------------------------------------------------------------------
(* Data *)

Keys == Served \X Groups
NoKey == <<>>

Message == [payload : Messages, retry : Nat]
InFlightEntry == [payload : Messages, retry : Nat, topic : Served]
DeliveryIds == (Nat \ {0}) \X (Groups \cup {Pull})

DeadLetterTopics == {DeadLetterOf[t] : t \in Served}

\* Two reaper threads suffice: one lives before close() resets
\* _reaper_running, one may be started after.
Reapers == {1, 2}
ReaperPCs == {"none", "test", "wait", "sweep", "hand", "exited"}

WaiterState ==
    [pc : {"idle"}] \cup [pc : {"check", "waiting"}, topic : Served]
NotWaiting == [pc |-> "idle"]

\* close(): the two unlocked flag writes, then the locked clearing.  The join
\* between them only delays the last step: it gives up after five seconds.
ClosingPCs == {"open", "stopping", "closed", "cleared"}
ClosedFlag == closing \in {"closed", "cleared"}

\* The reaper's sweep is the only locked block that takes several steps here.
LockFree == \A r \in Reapers : reaper[r] # "sweep"

PendingPayloads == UNION {{pending[t][i].payload : i \in DOMAIN pending[t]} : t \in Topics}
InFlightPayloads == {inFlight[d].payload : d \in DOMAIN inFlight}

Init ==
    /\ pending = [t \in Topics |-> <<>>]
    /\ inFlight = <<>>
    /\ groups = [k \in Keys |-> <<>>]
    /\ rrIndex = [k \in Keys |-> 0]
    /\ registry = [c \in Consumers |-> NoKey]
    /\ unused = Consumers
    /\ lastDelivery = 0
    /\ held = <<>>
    /\ owed = [t \in Topics |-> 0]
    /\ waiter = [w \in Waiters |-> NotWaiting]
    /\ running = FALSE
    /\ reaper = [r \in Reapers |-> "none"]
    /\ due = {}
    /\ owes = [r \in Reapers |-> {}]
    /\ closing = "open"
    /\ sent = {} /\ acked = {} /\ dropped = {}

-----------------------------------------------------------------------------
(* Internal helpers *)

\* _pending_condition.notify_all()
NotifyAll ==
    waiter' = [w \in Waiters |-> IF waiter[w].pc = "waiting"
                                 THEN [waiter[w] EXCEPT !.pc = "check"]
                                 ELSE waiter[w]]

\* Mutated form: looks for a thread instead of the flag close() resets.
StartReaperOnce ==
    IF reaper[1] # "none"
    THEN UNCHANGED <<running, reaper>>
    ELSE running' = TRUE /\ reaper' = [reaper EXCEPT ![1] = "test"]

\* _start_reaper_if_needed
StartReaperIfNeeded ==
    IF running
    THEN UNCHANGED <<running, reaper>>
    ELSE /\ running' = TRUE
         /\ LET r == IF reaper[1] = "none" THEN 1 ELSE 2
            IN  reaper' = [reaper EXCEPT ![r] = "test"]

\* _make_in_flight for every pair of "new", which maps delivery ids to
\* entries, and "to", which maps them to the clients that receive them.
MakeInFlight(new, to) ==
    /\ inFlight' = [d \in DOMAIN inFlight \cup DOMAIN new |->
                        IF d \in DOMAIN new THEN new[d] ELSE inFlight[d]]
    /\ held' = [d \in DOMAIN held \cup DOMAIN new |->
                    IF d \in DOMAIN new THEN to[d] ELSE held[d]]

Entry(t, msg) == [payload |-> msg.payload, retry |-> msg.retry, topic |-> t]

\* The groups that have a consumer on topic t.
Serving(t) == {g \in Groups : <<t, g>> \in Keys /\ groups[<<t, g>>] # <<>>}

\* The consumer that gets the n-th message of one run of the dispatch loop.
RoundRobin(k, n) == groups[k][((rrIndex[k] + n - 1) % Len(groups[k])) + 1]

\* _try_dispatch: every pending message goes to one consumer of every group.
TryDispatch(t) ==
    IF Serving(t) = {} \/ pending[t] = <<>>
    THEN UNCHANGED <<queueVars, rrIndex, running, reaper>>
    ELSE LET n   == Len(pending[t])
             ids == ((lastDelivery + 1)..(lastDelivery + n)) \X Serving(t)
             nth(d) == d[1] - lastDelivery
         IN  /\ pending' = [pending EXCEPT ![t] = <<>>]
             /\ MakeInFlight([d \in ids |-> Entry(t, pending[t][nth(d)])],
                             [d \in ids |-> RoundRobin(<<t, d[2]>>, nth(d))])
             /\ lastDelivery' = lastDelivery + n
             /\ rrIndex' = [k \in Keys |->
                              IF k[1] = t /\ k[2] \in Serving(t)
                              THEN ((rrIndex[k] + n - 1) % Len(groups[k])) + 1
                              ELSE rrIndex[k]]
             /\ StartReaperIfNeeded

\* list.pop(i) (indices from 1) and dict.pop(d).
PopAt(s, i) == SubSeq(s, 1, i - 1) \o SubSeq(s, i + 1, Len(s))
Without(f, d) == [x \in DOMAIN f \ {d} |-> f[x]]

\* Mutated form: one attempt too many.
RetryableOnceMore(e) == e.retry + 1 <= MaxRetries

\* nack() and a sweep decide alike whether an entry is tried again ...
Retryable(e) == e.retry + 1 < MaxRetries

\* ... in which case it goes to the front of its topic with the count raised,
Requeue(e) ==
    pending' = [pending EXCEPT ![e.topic] =
                    <<[payload |-> e.payload, retry |-> e.retry + 1]>> \o @]

\* and else, by _dead_letter, to the end of the dead-letter topic as it was.
DeadLetter(e) ==
    /\ pending' = [pending EXCEPT ![DeadLetterOf[e.topic]] =
                      Append(@, [payload |-> e.payload, retry |-> e.retry])]
    /\ NotifyAll

-----------------------------------------------------------------------------
(* Producers and consumers *)

\* enqueue: append unless the topic is full (then QueueFullError: no change).
Enqueue(t, m) ==
    /\ LockFree
    /\ m \notin sent
    /\ MaxSize = 0 \/ Len(pending[t]) < MaxSize
    /\ pending' = [pending EXCEPT ![t] = Append(@, [payload |-> m, retry |-> 0])]
    /\ sent' = sent \cup {m}
    /\ NotifyAll
    /\ owed' = [owed EXCEPT ![t] = @ + 1]
    /\ UNCHANGED <<inFlight, lastDelivery, held, consumerVars, reaperVars,
                   closing, acked, dropped>>

\* consume, under a fresh consumer id.
Consume(c, k) ==
    /\ LockFree
    /\ c \in unused
    /\ unused' = unused \ {c}
    /\ groups' = [groups EXCEPT ![k] = Append(@, c)]
    /\ registry' = [registry EXCEPT ![c] = k]
    /\ owed' = [owed EXCEPT ![k[1]] = @ + 1]
    /\ UNCHANGED <<queueVars, rrIndex, waiter, reaperVars, closing, historyVars>>

\* remove_consumer: the first entry with this id goes; an empty group is
\* deleted together with its round-robin index.
RemoveConsumer(c) ==
    /\ LockFree
    /\ registry[c] # NoKey
    /\ LET k    == registry[c]
           at   == {i \in DOMAIN groups[k] : groups[k][i] = c}
           left == IF at = {} THEN groups[k]
                   ELSE PopAt(groups[k], CHOOSE i \in at : \A j \in at : i <= j)
       IN  /\ groups' = [groups EXCEPT ![k] = left]
           /\ rrIndex' = IF left = <<>> THEN [rrIndex EXCEPT ![k] = 0] ELSE rrIndex
    /\ registry' = [registry EXCEPT ![c] = NoKey]
    /\ UNCHANGED <<queueVars, unused, owed, waiter, reaperVars, closing, historyVars>>

\* A thread that left a locked block of enqueue, consume or nack calls
\* _try_dispatch.
Dispatch(t) ==
    /\ LockFree
    /\ owed[t] > 0
    /\ owed' = [owed EXCEPT ![t] = @ - 1]
    /\ TryDispatch(t)
    /\ UNCHANGED <<groups, registry, unused, waiter, due, owes, closing, historyVars>>

-----------------------------------------------------------------------------
(* dequeue *)

DequeueCall(w, t) ==
    /\ waiter[w].pc = "idle"
    /\ waiter' = [waiter EXCEPT ![w] = [pc |-> "check", topic |-> t]]
    /\ UNCHANGED <<queueVars, consumerVars, owed, reaperVars, closing, historyVars>>

\* Mutated form: waits on instead of returning.
DequeueClosedWaits(w) ==
    /\ LockFree
    /\ waiter[w].pc = "check"
    /\ ClosedFlag
    /\ waiter' = [waiter EXCEPT ![w].pc = "waiting"]
    /\ UNCHANGED <<queueVars, consumerVars, owed, reaperVars, closing, historyVars>>

DequeueClosed(w) ==
    /\ LockFree
    /\ waiter[w].pc = "check"
    /\ ClosedFlag
    /\ waiter' = [waiter EXCEPT ![w] = NotWaiting]
    /\ UNCHANGED <<queueVars, consumerVars, owed, reaperVars, closing, historyVars>>

DequeueTake(w) ==
    /\ LockFree
    /\ waiter[w].pc = "check"
    /\ ~ClosedFlag
    /\ LET t == waiter[w].topic
           d == <<lastDelivery + 1, Pull>>
       IN  /\ pending[t] # <<>>
           /\ pending' = [pending EXCEPT ![t] = Tail(@)]
           /\ MakeInFlight([x \in {d} |-> Entry(t, Head(pending[t]))],
                           [x \in {d} |-> Pull])
    /\ lastDelivery' = lastDelivery + 1
    /\ StartReaperIfNeeded
    /\ waiter' = [waiter EXCEPT ![w] = NotWaiting]
    /\ UNCHANGED <<consumerVars, owed, due, owes, closing, historyVars>>

\* Nothing pending: return None once the deadline has passed, else wait.
DequeueEmpty(w) ==
    /\ LockFree
    /\ waiter[w].pc = "check"
    /\ ~ClosedFlag
    /\ pending[waiter[w].topic] = <<>>
    /\ \/ waiter' = [waiter EXCEPT ![w] = NotWaiting]
       \/ waiter' = [waiter EXCEPT ![w].pc = "waiting"]
    /\ UNCHANGED <<queueVars, consumerVars, owed, reaperVars, closing, historyVars>>

\* wait() returns on its own after the remaining time, or after one second.
DequeueWaitTimeout(w) ==
    /\ LockFree
    /\ waiter[w].pc = "waiting"
    /\ waiter' = [waiter EXCEPT ![w].pc = "check"]
    /\ UNCHANGED <<queueVars, consumerVars, owed, reaperVars, closing, historyVars>>

-----------------------------------------------------------------------------
(* Settling a delivery.  A client that holds a delivery may call ack or     *)
(* nack with its id at any time, also after it expired.  One call is enough *)
(* to consider: a second one with the same id finds nothing in _in_flight.  *)

\* Mutated form: the entry stays in _in_flight.
AckKeepsEntry(d) ==
    /\ LockFree
    /\ d \in DOMAIN held
    /\ held' = Without(held, d)
    /\ acked' = IF d \in DOMAIN inFlight THEN acked \cup {inFlight[d].payload} ELSE acked
    /\ UNCHANGED <<pending, inFlight, lastDelivery, consumerVars, owed, waiter,
                   reaperVars, closing, sent, dropped>>

Ack(d) ==
    /\ LockFree
    /\ d \in DOMAIN held
    /\ held' = Without(held, d)
    /\ IF d \in DOMAIN inFlight
       THEN /\ inFlight' = Without(inFlight, d)
            /\ acked' = acked \cup {inFlight[d].payload}
       ELSE UNCHANGED <<inFlight, acked>>
    /\ UNCHANGED <<pending, lastDelivery, consumerVars, owed, waiter,
                   reaperVars, closing, sent, dropped>>

\* nack, by a client or by _invoke_handler when the handler raises.
Nack(d, requeue) ==
    /\ LockFree
    /\ d \in DOMAIN held
    /\ held' = Without(held, d)
    /\ IF d \notin DOMAIN inFlight
       THEN UNCHANGED <<pending, inFlight, owed, waiter>>
       ELSE LET e == inFlight[d]
            IN  /\ inFlight' = Without(inFlight, d)
                /\ IF requeue /\ Retryable(e)
                   THEN /\ Requeue(e)
                        /\ NotifyAll
                        /\ owed' = [owed EXCEPT ![e.topic] = @ + 1]
                   ELSE DeadLetter(e) /\ UNCHANGED owed
    /\ UNCHANGED <<lastDelivery, consumerVars, reaperVars, closing, historyVars>>

\* The handler returns without either, or a pulling client forgets the
\* message or dies.
Abandon(d) ==
    /\ d \in DOMAIN held
    /\ held' = Without(held, d)
    /\ UNCHANGED <<pending, inFlight, lastDelivery, consumerVars, owed, waiter,
                   reaperVars, closing, historyVars>>

-----------------------------------------------------------------------------
(* _reaper_loop *)

\* The loop test and the reading of the clock, without the lock.
ReaperTest(r) ==
    /\ reaper[r] = "test"
    /\ reaper' = [reaper EXCEPT ![r] = IF running THEN "wait" ELSE "exited"]
    /\ UNCHANGED <<queueVars, consumerVars, owed, waiter, running, due, owes,
                   closing, historyVars>>

\* Mutated form: the sweep never collects anything.
ReaperCollectsNothing(r, expired) ==
    /\ LockFree
    /\ reaper[r] = "wait"
    /\ expired \subseteq DOMAIN inFlight
    /\ reaper' = [reaper EXCEPT ![r] = "sweep"]
    /\ due' = {}
    /\ UNCHANGED <<queueVars, consumerVars, owed, waiter, running, owes,
                   closing, historyVars>>

\* Taking the lock and collecting the expired entries.
ReaperCollect(r, expired) ==
    /\ LockFree
    /\ reaper[r] = "wait"
    /\ expired \subseteq DOMAIN inFlight
    /\ reaper' = [reaper EXCEPT ![r] = "sweep"]
    /\ due' = expired
    /\ UNCHANGED <<queueVars, consumerVars, owed, waiter, running, owes,
                   closing, historyVars>>

\* Mutated form: requeues without remembering to dispatch the topic.
ReaperExpireForgets(r, d) ==
    /\ reaper[r] = "sweep"
    /\ d \in due
    /\ inFlight' = Without(inFlight, d)
    /\ due' = due \ {d}
    /\ IF Retryable(inFlight[d])
       THEN Requeue(inFlight[d]) /\ UNCHANGED waiter
       ELSE DeadLetter(inFlight[d])
    /\ UNCHANGED <<lastDelivery, held, consumerVars, owed, running, reaper, owes,
                   closing, historyVars>>

\* One round of "for entry in expired", in the order of delivery.
ReaperExpire(r, d) ==
    /\ reaper[r] = "sweep"
    /\ d \in due
    /\ \A x \in due : d[1] <= x[1]
    /\ inFlight' = Without(inFlight, d)
    /\ due' = due \ {d}
    /\ LET e == inFlight[d]
       IN  IF Retryable(e)
           THEN /\ Requeue(e)
                /\ owes' = [owes EXCEPT ![r] = @ \cup {e.topic}]
                /\ UNCHANGED waiter
           ELSE DeadLetter(e) /\ UNCHANGED owes
    /\ UNCHANGED <<lastDelivery, held, consumerVars, owed, running, reaper,
                   closing, historyVars>>

\* Mutated form: releases the lock without notify_all.
ReaperReleaseSilently(r) ==
    /\ reaper[r] = "sweep"
    /\ due = {}
    /\ reaper' = [reaper EXCEPT ![r] = "hand"]
    /\ UNCHANGED <<queueVars, consumerVars, owed, waiter, running, due, owes,
                   closing, historyVars>>

\* notify_all (for requeued entries: _dead_letter did it for the others), and
\* the end of the locked block.
ReaperRelease(r) ==
    /\ reaper[r] = "sweep"
    /\ due = {}
    /\ IF owes[r] # {} THEN NotifyAll ELSE UNCHANGED waiter
    /\ reaper' = [reaper EXCEPT ![r] = "hand"]
    /\ UNCHANGED <<queueVars, consumerVars, owed, running, due, owes, closing,
                   historyVars>>

\* _try_dispatch of one requeued topic.
ReaperDispatch(r, t) ==
    /\ LockFree
    /\ reaper[r] = "hand"
    /\ t \in owes[r]
    /\ owes' = [owes EXCEPT ![r] = @ \ {t}]
    /\ TryDispatch(t)
    /\ UNCHANGED <<groups, registry, unused, owed, waiter, due, closing, historyVars>>

\* The sleep, after which the loop starts over.
ReaperSleep(r) ==
    /\ reaper[r] = "hand"
    /\ owes[r] = {}
    /\ reaper' = [reaper EXCEPT ![r] = "test"]
    /\ UNCHANGED <<queueVars, consumerVars, owed, waiter, running, due, owes,
                   closing, historyVars>>

-----------------------------------------------------------------------------
(* close: two flag writes without the lock, then the locked clearing.  The   *)
(* join of the reaper between them gives up after five seconds, so it does   *)
(* not hold the last step back.                                              *)

CloseStopReaper ==
    /\ MayClose
    /\ closing = "open"
    /\ closing' = "stopping"
    /\ running' = FALSE
    /\ UNCHANGED <<queueVars, consumerVars, owed, waiter, reaper, due, owes, historyVars>>

CloseSetFlag ==
    /\ closing = "stopping"
    /\ closing' = "closed"
    /\ UNCHANGED <<queueVars, consumerVars, owed, waiter, reaperVars, historyVars>>

CloseClear ==
    /\ LockFree
    /\ closing = "closed"
    /\ closing' = "cleared"
    /\ pending' = [t \in Topics |-> <<>>]
    /\ inFlight' = <<>>
    /\ groups' = [k \in Keys |-> <<>>]
    /\ registry' = [c \in Consumers |-> NoKey]
    /\ NotifyAll
    /\ dropped' = dropped \cup PendingPayloads \cup InFlightPayloads
    /\ UNCHANGED <<lastDelivery, held, rrIndex, unused, owed, reaperVars, sent, acked>>

Next ==
    \/ \E t \in Served, m \in Messages : Enqueue(t, m)
    \/ \E c \in Consumers, k \in Keys : Consume(c, k)
    \/ \E c \in Consumers : RemoveConsumer(c)
    \/ \E t \in Topics : Dispatch(t)
    \/ \E w \in Waiters, t \in Served : DequeueCall(w, t)
    \/ \E w \in Waiters : \/ DequeueClosed(w) \/ DequeueTake(w)
                         \/ DequeueEmpty(w) \/ DequeueWaitTimeout(w)
    \/ \E d \in DOMAIN held : \/ Ack(d) \/ Abandon(d)
                            \/ \E requeue \in BOOLEAN : Nack(d, requeue)
    \/ \E r \in Reapers : \/ ReaperTest(r) \/ ReaperRelease(r) \/ ReaperSleep(r)
                         \/ \E S \in SUBSET DOMAIN inFlight : ReaperCollect(r, S)
                         \/ \E d \in due : ReaperExpire(r, d)
                         \/ \E t \in Topics : ReaperDispatch(r, t)
    \/ CloseStopReaper \/ CloseSetFlag \/ CloseClear

Spec == Init /\ [][Next]_vars

-----------------------------------------------------------------------------
(* Properties *)

\* Every variable has its type; "due" is only used while a sweep runs.
TypeOK ==
    /\ pending \in [Topics -> Seq(Message)]
    /\ DOMAIN inFlight \subseteq DeliveryIds
    /\ inFlight \in [DOMAIN inFlight -> InFlightEntry]
    /\ groups \in [Keys -> Seq(Consumers)]
    /\ rrIndex \in [Keys -> Nat]
    /\ registry \in [Consumers -> Keys \cup {NoKey}]
    /\ unused \subseteq Consumers
    /\ lastDelivery \in Nat
    /\ DOMAIN held \subseteq DeliveryIds
    /\ held \in [DOMAIN held -> Consumers \cup {Pull}]
    /\ owed \in [Topics -> Nat]
    /\ waiter \in [Waiters -> WaiterState]
    /\ running \in BOOLEAN
    /\ reaper \in [Reapers -> ReaperPCs]
    /\ due \subseteq DeliveryIds
    /\ owes \in [Reapers -> SUBSET Topics]
    /\ closing \in ClosingPCs
    /\ sent \subseteq Messages /\ acked \subseteq Messages /\ dropped \subseteq Messages

\* No message is lost: whatever the interleaving of enqueue, dispatch, dequeue,
\* ack, nack, handler failures and sweeps, a message accepted by enqueue is
\* pending or in flight (on its topic or a dead-letter topic) until a delivery
\* of it is acked or close() discards it.
NoMessageLost ==
    sent \subseteq acked \cup dropped \cup PendingPayloads \cup InFlightPayloads

\* No message is pending twice, on one topic or on two.
PendingOnce ==
    \A t, u \in Topics : \A i \in DOMAIN pending[t], j \in DOMAIN pending[u] :
        pending[t][i].payload = pending[u][j].payload => t = u /\ i = j

\* No message is in flight under two delivery ids.
InFlightOnce ==
    \A d, e \in DOMAIN inFlight : inFlight[d].payload = inFlight[e].payload => d = e

\* With one consumer group no second copy of a message ever exists: a message
\* is in one place, so two consumers never work on it by way of two deliveries
\* that are both in force, and one that was acked (or discarded) never comes
\* back, however late the ack races with the sweep.
SingleCopy ==
    (\A g, h \in Groups : g = h) =>
        /\ PendingOnce
        /\ InFlightOnce
        /\ PendingPayloads \cap InFlightPayloads = {}
        /\ (PendingPayloads \cup InFlightPayloads) \cap (acked \cup dropped) = {}

\* Starvation freedom of push consumers, as the comment in _reaper_loop puts
\* it: whenever a topic that is not a dead-letter topic has both a pending
\* message and a consumer, some thread is still going to call _try_dispatch.
DispatchOwed ==
    \A t \in Topics \ DeadLetterTopics :
        pending[t] # <<>> /\ Serving(t) # {} =>
            owed[t] > 0 \/ \E r \in Reapers : t \in owes[r]

\* Every registered consumer is in exactly the group the registry names, once,
\* so that remove_consumer removes it and nobody else.
RegistryMatchesGroups ==
    \A c \in Consumers, k \in Keys :
        /\ registry[c] = k <=> \E i \in DOMAIN groups[k] : groups[k][i] = c
        /\ \A i, j \in DOMAIN groups[k] : groups[k][i] = groups[k][j] => i = j

\* No delivery is ever counted beyond max_retries: a message is delivered at
\* most max_retries times (once if max_retries is smaller) per topic.
RetriesBounded ==
    /\ \A t \in Topics : \A i \in DOMAIN pending[t] :
          pending[t][i].retry = 0 \/ pending[t][i].retry < MaxRetries
    /\ \A d \in DOMAIN inFlight :
          inFlight[d].retry = 0 \/ inFlight[d].retry < MaxRetries

\* No lost wakeup: a thread sleeps in dequeue() only while its topic is empty
\* (a sweep that holds the lock notifies before it releases it).
NoLostWakeup ==
    LockFree => \A w \in Waiters :
        waiter[w].pc = "waiting" => pending[waiter[w].topic] = <<>>

\* close() wakes every dequeue(): after it nobody is left waiting.
CloseWakesWaiters ==
    closing = "cleared" => \A w \in Waiters : waiter[w].pc # "waiting"

\* Whenever a delivery is in flight a reaper thread is alive that will see it
\* expire, unless close() is about to discard it.
ReaperWatches ==
    DOMAIN inFlight # {} /\ closing \in {"open", "cleared"} =>
        running /\ \E r \in Reapers : reaper[r] \notin {"none", "exited"}

-----------------------------------------------------------------------------
(* Fairness.  Threads are scheduled and get the lock in the end (the only   *)
(* thread that takes it over and over, the reaper, sleeps in between): a    *)
(* step that waits for the lock is strongly fair.  Time passes: a delivery  *)
(* that stays in flight is found expired by some sweep.  Nothing is assumed *)
(* of clients: handlers may hang, and nobody needs to call anything.        *)

Expiring(r, m) ==
    \E S \in SUBSET DOMAIN inFlight :
        m \in {inFlight[d].payload : d \in S} /\ ReaperCollect(r, S)

ReaperStep(r) ==
    \/ ReaperTest(r) \/ ReaperRelease(r) \/ ReaperSleep(r)
    \/ \E S \in SUBSET DOMAIN inFlight : ReaperCollect(r, S)
    \/ \E d \in due : ReaperExpire(r, d)
    \/ \E t \in Topics : ReaperDispatch(r, t)

DequeueStep(w) ==
    DequeueClosed(w) \/ DequeueTake(w) \/ DequeueEmpty(w) \/ DequeueWaitTimeout(w)

Fairness ==
    /\ \A t \in Topics : SF_vars(Dispatch(t))
    /\ \A r \in Reapers : SF_vars(ReaperStep(r))
    /\ \A m \in Messages : SF_vars(\E r \in Reapers : Expiring(r, m))
    /\ \A w \in Waiters : SF_vars(DequeueStep(w))
    /\ SF_vars(CloseSetFlag \/ CloseClear)

FairSpec == Spec /\ Fairness

\* Every message accepted by enqueue is in the end acked or dead-lettered (or
\* discarded by close), provided its topic does not stay without consumers:
\* also when handlers hang, raise or lose the message.
EventuallySettled ==
    \A m \in Messages :
        []<>(\/ m \notin sent
             \/ m \in acked \cup dropped
             \/ \E t \in DeadLetterTopics : \E i \in DOMAIN pending[t] : pending[t][i].payload = m
             \/ \A t \in Served : Serving(t) = {})

\* After close() every thread blocked in dequeue() returns.
CloseUnblocksDequeue ==
    \A w \in Waiters : closing = "cleared" ~> (waiter[w].pc = "idle")
=============================================================================
