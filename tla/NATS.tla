-------------------------------- MODULE NATS --------------------------------
(***************************************************************************)
(* NatsTransport of src/eventforge/transports/nats.py: threads that hand   *)
(* coroutines to a private event loop and wait for them, the loop's thread *)
(* that runs these and the callbacks of incoming messages one after the    *)
(* other, and the lock both sides take.  The server (external) sends one   *)
(* copy of a message for every subscription of the connection; topics here *)
(* are concrete.  A callback handed to the pool counts as called.          *)
(***************************************************************************)
EXTENDS Integers, Sequences, FiniteSets

CONSTANTS Threads, Topics,
          Ops,      \* calls that clients make: subscribe, receive, send
          MaxOps,   \* bound on these calls
          Queue, None

ASSUME NatsAssumption ==
  /\ Ops \subseteq {"subscribe", "receive", "send"} /\ MaxOps \in Nat
  /\ None \notin Threads /\ Queue \notin Nat

VARIABLES running,   \* _running; _nc is set to None only after it is False
          looping,   \* the event loop runs
          loop,      \* its queue: coroutines and arrived messages
          wire,      \* copies on their way
          lock,      \* _lock, while a thread waits for the loop inside it
          subs,      \* _subscribers, _sub_topic, _nats_subs
          queueSubs, \* _queue_subs
          server,    \* subscriptions at the server
          doing,     \* a thread in a call
          closing,
          calls, due,  \* history: callbacks run; subscriptions owed a message
          ops

natsVars == <<running, looping, loop, wire, lock, subs, queueSubs, server,
              doing, closing, calls, due, ops>>

Ids == 1..MaxOps
Idle == [op |-> "idle", at |-> "idle", topic |-> None, id |-> 0]
EntryOf(i) == [id |-> i.id, topic |-> i.topic]

\* Work for the loop; by is the waiting thread, or None.
Item(kind, by, id, x) == [kind |-> kind, by |-> by, id |-> id, topic |-> x]

NatsInit ==
  /\ running = TRUE /\ looping = TRUE
  /\ loop = <<>> /\ wire = <<>> /\ lock = None
  /\ subs = {} /\ queueSubs = {} /\ server = {}
  /\ doing = [t \in Threads |-> Idle]
  /\ closing = "no"
  /\ calls = [m \in Ids |-> [i \in Ids |-> 0]]
  /\ due = [m \in Ids |-> {}]
  /\ ops = 0

Goes(t, at) == doing' = [doing EXCEPT ![t].at = at]
Ends(t) == doing' = [doing EXCEPT ![t] = Idle]

-----------------------------------------------------------------------------
(* Calls *)

\* A call passes its test of _running.
Check(t) ==
  /\ doing[t].op = "idle" /\ running /\ ops < MaxOps
  /\ \E op \in Ops, x \in Topics :
       doing' = [doing EXCEPT ![t] = [op |-> op, at |-> "checked", topic |-> x, id |-> ops + 1]]
  /\ ops' = ops + 1
  /\ UNCHANGED <<running, looping, loop, wire, lock, subs, queueSubs, server,
                 closing, calls, due>>

\* _run: the coroutine of a call goes to the loop, whose answer the call awaits.
Submit(t) ==
  /\ doing[t].at = "checked" /\ doing[t].op # "receive"
  /\ loop' = Append(loop, Item(doing[t].op, t, doing[t].id, doing[t].topic))
  /\ Goes(t, "waiting")
  /\ UNCHANGED <<running, looping, wire, lock, subs, queueSubs, server,
                 closing, calls, due, ops>>

\* subscribe() goes on to the locked entry of its subscription; the others are
\* through.
Finish(t) ==
  /\ doing[t].at = "ready" /\ doing[t].op # "receive"
  /\ doing[t].op = "subscribe" => lock = None
  /\ subs' = IF doing[t].op = "subscribe" THEN subs \cup {EntryOf(doing[t])} ELSE subs
  /\ Ends(t)
  /\ UNCHANGED <<running, looping, loop, wire, lock, queueSubs, server,
                 closing, calls, due, ops>>

\* unsubscribe(): the tables under the lock, then the server through the loop.
\* Mutant: the server is not told.
UnsubscribeLocally(t, s) ==
  /\ doing[t].op = "idle" /\ lock = None /\ s \in subs
  /\ subs' = subs \ {s}
  /\ UNCHANGED <<running, looping, loop, wire, lock, queueSubs, server,
                 doing, closing, calls, due, ops>>

Unsubscribe(t, s) ==
  /\ doing[t].op = "idle" /\ lock = None /\ s \in subs
  /\ subs' = subs \ {s}
  /\ doing' = [doing EXCEPT ![t] = [op |-> "unsubscribe", at |-> "checked", topic |-> s.topic, id |-> s.id]]
  /\ UNCHANGED <<running, looping, loop, wire, lock, queueSubs, server,
                 closing, calls, due, ops>>

\* _ensure_queue_subscription: for a new topic the lock is kept while the loop
\* subscribes.
EnsureQueue(t) ==
  /\ doing[t].at = "checked" /\ doing[t].op = "receive" /\ lock = None
  /\ IF doing[t].topic \in queueSubs THEN Goes(t, "get") /\ UNCHANGED <<loop, lock>>
     ELSE /\ loop' = Append(loop, Item("subscribe", t, Queue, doing[t].topic))
          /\ lock' = t
          /\ Goes(t, "waiting")
  /\ UNCHANGED <<running, looping, wire, subs, queueSubs, server,
                 closing, calls, due, ops>>

QueueReady(t) ==
  /\ doing[t].at = "ready" /\ doing[t].op = "receive"
  /\ queueSubs' = queueSubs \cup {doing[t].topic}
  /\ lock' = None
  /\ Goes(t, "get")
  /\ UNCHANGED <<running, looping, loop, wire, subs, server,
                 closing, calls, due, ops>>

\* queue.get returns a message or times out (without a timeout it may wait for
\* ever, as its caller asked).
Get(t) ==
  /\ doing[t].at = "get"
  /\ Ends(t)
  /\ UNCHANGED <<running, looping, loop, wire, lock, subs, queueSubs, server,
                 closing, calls, due, ops>>

-----------------------------------------------------------------------------
(* The loop *)

\* The connection takes subscriptions until close() drains it.
Open == closing \in {"no", "flagged"}
Runs(kind) == looping /\ loop # <<>> /\ Head(loop).kind = kind
Answered == IF Head(loop).by \in Threads THEN Goes(Head(loop).by, "ready") ELSE UNCHANGED doing

\* nc.subscribe and subscription.unsubscribe; on a connection that is
\* being drained the coroutine raises, and so does the call, which gives its lock back.
LoopSubscribe ==
  /\ Runs("subscribe") /\ loop' = Tail(loop)
  /\ IF Open
     THEN server' = server \cup {EntryOf(Head(loop))} /\ Answered /\ UNCHANGED lock
     ELSE /\ Ends(Head(loop).by) /\ UNCHANGED server
          /\ lock' = IF lock = Head(loop).by THEN None ELSE lock
  /\ UNCHANGED <<running, looping, wire, subs, queueSubs, closing, calls, due, ops>>

LoopUnsubscribe ==
  /\ Runs("unsubscribe") /\ loop' = Tail(loop)
  /\ server' = server \ {EntryOf(Head(loop))} /\ Answered
  /\ UNCHANGED <<running, looping, wire, lock, subs, queueSubs, closing, calls, due, ops>>

\* nc.publish and flush: a copy for every subscription of the topic.
LoopSend ==
  /\ Runs("send") /\ loop' = Tail(loop)
  /\ IF ~Open THEN Ends(Head(loop).by) /\ UNCHANGED <<wire, due>>
     ELSE LET i == Head(loop)
              n == Cardinality({e \in server : e.topic = i.topic})
          IN /\ wire' = wire \o [k \in 1..n |-> Item("message", None, i.id, i.topic)]
             /\ due' = [due EXCEPT ![i.id] = IF running THEN {e.id : e \in {s \in subs : s.topic = i.topic}} ELSE {}]
             /\ Answered
  /\ UNCHANGED <<running, looping, lock, subs, queueSubs, server, closing, calls, ops>>

\* A copy arrives and its callback is scheduled on the loop.
Arrive ==
  /\ wire # <<>> /\ looping
  /\ loop' = Append(loop, Head(wire))
  /\ wire' = Tail(wire)
  /\ UNCHANGED <<running, looping, lock, subs, queueSubs, server, doing, closing,
                 calls, due, ops>>

\* Mutant: only the first matching callback runs.
WantingOne(i) == IF \E s \in subs : s.topic = i.topic
                 THEN {CHOOSE s \in subs : s.topic = i.topic} ELSE {}
Wanting(i) == {s \in subs : s.topic = i.topic}

\* Mutant: callbacks run on the loop's thread, and one that calls send() waits
\* for the thread it is on.
LoopDispatchInline ==
  /\ Runs("message") /\ lock = None
  /\ loop' = Tail(loop)
  /\ looping' = (Wanting(Head(loop)) = {})
  /\ UNCHANGED <<running, wire, lock, subs, queueSubs, server, doing, closing, calls, due, ops>>

\* _dispatch on the loop's thread, which blocks until the lock is free.
LoopDispatch ==
  /\ Runs("message") /\ lock = None
  /\ loop' = Tail(loop)
  /\ LET i == Head(loop)
     IN calls' = [calls EXCEPT ![i.id] =
          [k \in Ids |-> IF \E s \in Wanting(i) : s.id = k THEN @[k] + 1 ELSE @[k]]]
  /\ UNCHANGED <<running, looping, wire, lock, subs, queueSubs, server, doing, closing,
                 due, ops>>

\* drain: the server forgets the subscriptions, and what is on its way is
\* handled before drain returns.
LoopDrain ==
  /\ Runs("drain")
  /\ loop' = Tail(loop) \o wire \o <<Item("drained", None, 0, None)>>
  /\ server' = {} /\ wire' = <<>> /\ closing' = "draining"
  /\ UNCHANGED <<running, looping, lock, subs, queueSubs, doing, calls, due, ops>>

LoopDrained ==
  /\ Runs("drained") /\ loop' = Tail(loop)
  /\ closing' = "drained"
  /\ UNCHANGED <<running, looping, wire, lock, subs, queueSubs, server, doing, calls, due, ops>>

LoopStop ==
  /\ Runs("stop") /\ loop' = Tail(loop)
  /\ looping' = FALSE
  /\ UNCHANGED <<running, wire, lock, subs, queueSubs, server, doing, closing, calls, due, ops>>

-----------------------------------------------------------------------------
(* close() *)

CloseDrain ==
  /\ closing = "no"
  /\ running' = FALSE
  /\ loop' = Append(loop, Item("drain", None, 0, None))
  /\ closing' = "flagged"
  /\ UNCHANGED <<looping, wire, lock, subs, queueSubs, server, doing, calls, due, ops>>

CloseClear ==
  /\ closing = "drained" /\ lock = None
  /\ subs' = {} /\ queueSubs' = {}
  /\ loop' = Append(loop, Item("stop", None, 0, None))
  /\ closing' = "done"
  /\ UNCHANGED <<running, looping, wire, lock, server, doing, calls, due, ops>>

Loop == LoopSubscribe \/ LoopUnsubscribe \/ LoopSend \/ LoopDispatch \/ LoopDrain
        \/ LoopDrained \/ LoopStop
Proceed(t) == Submit(t) \/ Finish(t) \/ EnsureQueue(t) \/ QueueReady(t) \/ Get(t)
NatsNext ==
  \/ Loop \/ Arrive \/ CloseDrain \/ CloseClear
  \/ \E t \in Threads : Check(t) \/ Proceed(t) \/ (\E s \in subs : Unsubscribe(t, s))
NatsSpec == NatsInit /\ [][NatsNext]_natsVars

\* The loop's thread and the threads inside a call run, and get the lock when
\* it keeps coming free; the network delivers.  Nobody has to call anything.
Fairness == /\ SF_natsVars(Loop) /\ WF_natsVars(Arrive) /\ SF_natsVars(CloseClear)
            /\ \A t \in Threads : SF_natsVars(Proceed(t))
NatsFairSpec == NatsSpec /\ Fairness

-----------------------------------------------------------------------------
(* Properties *)

\* Every subscription at the server belongs to an entry of the tables, or to a
\* call that is still to make or to remove one: none is forgotten.
ServerAccounted ==
  \A e \in server :
    \/ e \in subs
    \/ e.id = Queue /\ e.topic \in queueSubs
    \/ \E t \in Threads : /\ doing[t].op # "idle" /\ doing[t].topic = e.topic
                          /\ e.id = (IF doing[t].op = "receive" THEN Queue ELSE doing[t].id)

\* A callback subscribed when a message was published, close() not yet called,
\* is called, unless it is unsubscribed before the copies were dispatched.
NoMissedCall ==
  (wire = <<>> /\ \A k \in DOMAIN loop : loop[k].kind # "message")
    => \A m \in Ids : \A s \in subs : s.id \in due[m] => calls[m][s.id] >= 1

\* receive() waits for the loop inside the lock that the loop waits for.
Crossed == lock # None /\ doing[lock].at = "waiting" /\ Runs("message")

\* A call from any thread returns, unless receive() and a message have crossed
\* or close() has stopped the loop under the call.
CallsReturn ==
  \A t \in Threads :
    (doing[t].op # "idle") ~> (doing[t].op = "idle" \/ Crossed \/ (closing = "done" /\ ~looping))
=============================================================================
