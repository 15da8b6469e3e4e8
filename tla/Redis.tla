------------------------------- MODULE Redis -------------------------------
(***************************************************************************)
(* RedisTransport of src/eventforge/transports/redis.py over a broker that *)
(* sends one copy of a message for every pattern of the connection that    *)
(* matches its topic (external: PSUBSCRIBE of a Redis server).  The locked *)
(* blocks are steps; the tests of _running before them are steps of their  *)
(* own.  Topics, patterns and matching are constants here: what the        *)
(* functions compute is the business of TopicPatterns.                     *)
(***************************************************************************)
EXTENDS Integers, Sequences, FiniteSets

CONSTANTS Threads,
          Topics,      \* topics and topic patterns that clients subscribe to
          Channels,    \* topics that messages are published on
          PatternOf,   \* _to_redis_pattern, on Topics
          Glob,        \* pairs of channel and pattern that the server matches
          Matches,     \* pairs of channel and topic that _matches accepts
          MaxOps,      \* bound on subscribe, receive and send calls
          Ops,         \* the calls clients make
          None

Patterns == {PatternOf[t] : t \in Topics}

ASSUME RedisAssumption ==
  /\ IsFiniteSet(Topics)
  /\ PatternOf \in [Topics -> Patterns]
  /\ Glob \subseteq Channels \X Patterns
  /\ Matches \subseteq Channels \X Topics
  /\ Ops \subseteq {"subscribe", "receive", "request"}
  /\ MaxOps \in Nat

\* The server's glob accepts what _matches accepts (for topics without brackets,
\* which only the glob treats as special).
ASSUME MatchesWithinGlob ==
  \A c \in Channels, x \in Topics : <<c, x>> \in Matches => <<c, PatternOf[x]>> \in Glob

VARIABLES running,   \* _running
          subs,      \* _subscribers, _sub_topic, _sub_pattern: id and topic
          strays,    \* entries there whose subscribe() raised
          queued,    \* _queue_patterns: topics receive() was called for
          failed,    \* topics there whose receive() raised
          refs,      \* _pattern_refs
          broker,    \* patterns the server has for this connection
          kept,      \* history: patterns whose last PUNSUBSCRIBE was lost
          inbox,     \* copies on their way to the listener
          queue,     \* _queues, for the topics of receive()
          pc,        \* what a thread does between its check and the lock
          closing,
          calls,     \* history: callbacks invoked for a message and an id
          copies,    \* history: copies the broker made of a message
          due,       \* history: matching subscriptions when it was published
          ops

vars == <<running, subs, strays, queued, failed, refs, broker, kept, inbox, queue, pc,
          closing, calls, copies, due, ops>>
tables == <<subs, strays, queued, failed>>

Ids == 1..MaxOps
Idle == [op |-> "idle", topic |-> None, id |-> 0, replied |-> FALSE]

Init ==
  /\ running = TRUE
  /\ subs = {} /\ strays = {} /\ queued = {} /\ failed = {}
  /\ refs = [p \in Patterns |-> 0]
  /\ broker = {} /\ kept = {}
  /\ inbox = <<>>
  /\ queue = [c \in Channels |-> <<>>]
  /\ pc = [t \in Threads |-> Idle]
  /\ closing = "no"
  /\ calls = [m \in Ids |-> [i \in Ids |-> 0]]
  /\ copies = [m \in Ids |-> 0]
  /\ due = [m \in Ids |-> {}]
  /\ ops = 0

-----------------------------------------------------------------------------
(* Reference counts *)

\* _psubscribe: the server is asked when the count was 0.
Psubscribe(p) ==
  /\ broker' = IF refs[p] = 0 THEN broker \cup {p} ELSE broker
  /\ refs' = [refs EXCEPT ![p] = @ + 1]
  /\ UNCHANGED kept

\* Mutant: every unsubscription is passed on to the server.
PunsubscribeAlways(p) ==
  /\ refs' = [refs EXCEPT ![p] = IF @ = 0 THEN 0 ELSE @ - 1]
  /\ broker' = broker \ {p}
  /\ UNCHANGED kept

\* _punsubscribe: the server is told when the count falls to 0.  PUNSUBSCRIBE
\* may raise, which is swallowed: the server keeps the pattern.
Punsubscribe(p) ==
  /\ refs' = [refs EXCEPT ![p] = IF @ = 0 THEN 0 ELSE @ - 1]
  /\ \/ /\ refs[p] = 1
        /\ \/ broker' = broker \ {p} /\ kept' = kept \ {p}
           \/ kept' = kept \cup {p} /\ UNCHANGED broker
     \/ refs[p] # 1 /\ UNCHANGED <<broker, kept>>

-----------------------------------------------------------------------------
(* Publishing *)

Covering(c) == {p \in broker : <<c, p>> \in Glob}
Wanting(c) == {s \in subs \cup strays : <<c, s.topic>> \in Matches}

\* A message m reaches the server on channel c (external): one copy for every
\* matching pattern.
Publish(m, c) ==
  LET n == Cardinality(Covering(c))
  IN /\ inbox' = inbox \o [k \in 1..n |-> [msg |-> m, channel |-> c]]
     /\ copies' = [copies EXCEPT ![m] = n]
     /\ due' = [due EXCEPT ![m] = {s.id : s \in Wanting(c)}]

\* send(), by anyone.
Send ==
  /\ running /\ ops < MaxOps
  /\ \E c \in Channels : Publish(ops + 1, c)
  /\ ops' = ops + 1
  /\ UNCHANGED <<running, tables, refs, broker, kept, queue, pc, closing, calls>>

-----------------------------------------------------------------------------
(* Clients *)

\* subscribe() or receive() has found the transport running; request() of
\* MessageQueue has sent its request and goes on to receive the reply.
Check(t) ==
  /\ pc[t].op = "idle" /\ running /\ ops < MaxOps
  /\ \E op \in Ops, x \in Topics :
       /\ op # "subscribe" => x \in Channels
       /\ pc' = [pc EXCEPT ![t] = [op |-> op, topic |-> x, id |-> ops + 1, replied |-> FALSE]]
  /\ ops' = ops + 1
  /\ UNCHANGED <<running, tables, refs, broker, kept, inbox, queue, closing, calls, copies, due>>

Entry(t) == [id |-> pc[t].id, topic |-> pc[t].topic]

\* The locked part of subscribe(): the tables, then the pattern.
Subscribe(t) ==
  /\ pc[t].op = "subscribe"
  /\ subs' = subs \cup {Entry(t)}
  /\ Psubscribe(PatternOf[pc[t].topic])
  /\ pc' = [pc EXCEPT ![t] = Idle]
  /\ UNCHANGED <<running, strays, queued, failed, inbox, queue, closing, calls, copies, due, ops>>

\* Only a caller of subscribe() that returned has an id.
Unsubscribe(s) ==
  /\ s \in subs
  /\ subs' = subs \ {s}
  /\ Punsubscribe(PatternOf[s.topic])
  /\ UNCHANGED <<running, strays, queued, failed, inbox, queue, pc, closing, calls, copies, due, ops>>

\* Mutant: every receive() counts a reference, also for a known topic.
EnsureQueueAgain(t) ==
  /\ pc[t].op \in {"receive", "request"}
  /\ queued' = queued \cup {pc[t].topic}
  /\ Psubscribe(PatternOf[pc[t].topic])
  /\ pc' = [pc EXCEPT ![t].op = IF @ = "receive" THEN "get" ELSE "get reply"]
  /\ UNCHANGED <<running, subs, strays, failed, inbox, queue, closing, calls, copies, due, ops>>

\* _ensure_queue_subscription; then the thread waits on the topic's queue.
EnsureQueue(t) ==
  /\ pc[t].op \in {"receive", "request"}
  /\ IF pc[t].topic \in queued \cup failed THEN UNCHANGED <<queued, refs, broker, kept>>
     ELSE /\ queued' = queued \cup {pc[t].topic}
          /\ Psubscribe(PatternOf[pc[t].topic])
  /\ pc' = [pc EXCEPT ![t].op = IF @ = "receive" THEN "get" ELSE "get reply"]
  /\ UNCHANGED <<running, subs, strays, failed, inbox, queue, closing, calls, copies, due, ops>>

\* PSUBSCRIBE raises in a call that asks the server: the tables keep the entry
\* made just before, the count stays.
PsubscribeRaises(t) ==
  /\ pc[t].op # "idle" /\ refs[PatternOf[pc[t].topic]] = 0
  /\ \/ /\ pc[t].op = "subscribe"
        /\ strays' = strays \cup {Entry(t)} /\ UNCHANGED failed
     \/ /\ pc[t].op \in {"receive", "request"} /\ pc[t].topic \notin queued \cup failed
        /\ failed' = failed \cup {pc[t].topic} /\ UNCHANGED strays
  /\ pc' = [pc EXCEPT ![t] = Idle]
  /\ UNCHANGED <<running, subs, queued, refs, broker, kept, inbox, queue, closing, calls, copies, due, ops>>

\* receive() returns a message, or None after its timeout.
Get(t) ==
  /\ pc[t].op \in {"get", "get reply"}
  /\ LET q == queue[pc[t].topic]
     IN queue' = [queue EXCEPT ![pc[t].topic] = IF q = <<>> THEN q ELSE Tail(q)]
  /\ pc' = [pc EXCEPT ![t] = Idle]
  /\ UNCHANGED <<running, tables, refs, broker, kept, inbox, closing, calls, copies, due, ops>>

\* The responder (another process) publishes the reply to a request, once.
Reply(t) ==
  /\ pc[t].op \in {"request", "get reply"} /\ ~pc[t].replied
  /\ Publish(pc[t].id, pc[t].topic)
  /\ pc' = [pc EXCEPT ![t].replied = TRUE]
  /\ UNCHANGED <<running, tables, refs, broker, kept, queue, closing, calls, ops>>

-----------------------------------------------------------------------------
(* The listener, and closing *)

\* The callbacks of one copy m, and the queue of its topic.
Deliver(m) ==
  /\ calls' = [calls EXCEPT ![m.msg] =
       [i \in Ids |-> IF \E s \in Wanting(m.channel) : s.id = i THEN @[i] + 1 ELSE @[i]]]
  /\ queue' = [queue EXCEPT ![m.channel] = Append(@, m.msg)]

\* _listen takes the next copy and dispatches it under the lock.
Listen ==
  /\ running /\ inbox # <<>>
  /\ Deliver(Head(inbox))
  /\ inbox' = Tail(inbox)
  /\ UNCHANGED <<running, tables, refs, broker, kept, pc, closing, copies, due, ops>>

CloseFlag ==
  /\ closing = "no"
  /\ running' = FALSE /\ closing' = "flag"
  /\ UNCHANGED <<tables, refs, broker, kept, inbox, queue, pc, calls, copies, due, ops>>

\* After join(): the tables are cleared under the lock.
CloseClear ==
  /\ closing = "flag"
  /\ subs' = {} /\ strays' = {} /\ queued' = {} /\ failed' = {}
  /\ refs' = [p \in Patterns |-> 0]
  /\ closing' = "clear"
  /\ UNCHANGED <<running, broker, kept, inbox, queue, pc, calls, copies, due, ops>>

\* pubsub.close() and client.close().
CloseConnection ==
  /\ closing = "clear"
  /\ broker' = {} /\ inbox' = <<>>
  /\ closing' = "done"
  /\ UNCHANGED <<running, tables, refs, kept, queue, pc, calls, copies, due, ops>>

Close == CloseFlag \/ CloseClear \/ CloseConnection
Next ==
  \/ Send \/ Listen \/ Close
  \/ \E t \in Threads : Check(t) \/ Subscribe(t) \/ EnsureQueue(t) \/ PsubscribeRaises(t)
                        \/ Get(t) \/ Reply(t)
  \/ \E s \in subs : Unsubscribe(s)
Spec == Init /\ [][Next]_vars

-----------------------------------------------------------------------------
(* Properties *)

Calls == {"idle", "subscribe", "receive", "request", "get", "get reply"}

\* One type invariant.
TypeOK ==
  /\ running \in BOOLEAN
  /\ subs \cup strays \subseteq [id : Ids, topic : Topics]
  /\ queued \cup failed \subseteq Topics
  /\ refs \in [Patterns -> Nat]
  /\ broker \cup kept \subseteq Patterns
  /\ pc \in [Threads -> [op : Calls, topic : Topics \cup {None}, id : Nat, replied : BOOLEAN]]
  /\ closing \in {"no", "flag", "clear", "done"}
  /\ ops \in 0..MaxOps

\* A pattern's count is the number of subscriptions and receive queues that use
\* it, also when topics share a pattern and when PSUBSCRIBE has raised.
RefsCountUsers ==
  \A p \in Patterns :
    refs[p] = Cardinality({s \in subs : PatternOf[s.topic] = p})
              + Cardinality({x \in queued : PatternOf[x] = p})

\* Until close() the server has every pattern that is in use, and beyond them
\* only those whose last PUNSUBSCRIBE was lost: a swallowed exception leaves the
\* server with more than it needs, never with less, also when the pattern is
\* subscribed to again.
BrokerHasPatterns ==
  closing \in {"no", "flag"} => broker = {p \in Patterns : refs[p] > 0} \cup kept

\* A callback that was subscribed when a message was published, and still is
\* when all copies are dispatched, has been called, once for each copy that the
\* server made, whoever else subscribed and unsubscribed to the same pattern in
\* between.
NoMissedCall ==
  (running /\ inbox = <<>>)
    => \A m \in Ids : \A s \in subs :
         s.id \in due[m] => copies[m] > 0 /\ calls[m][s.id] = copies[m]

\* The topics of receive() are subscribed at the server, unless PSUBSCRIBE
\* raised for them.
QueueTopicsSubscribed ==
  closing = "no" => \A x \in queued : PatternOf[x] \in broker
=============================================================================
