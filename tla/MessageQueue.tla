---------------------------- MODULE MessageQueue ----------------------------
(***************************************************************************)
(* MessageQueue (queue.py) over MemoryTransport (transports/memory.py),    *)
(* with the Eventful channels between them.                                *)
(*                                                                         *)
(* Every thread has a stack of frames, because handlers run inside send()  *)
(* and may themselves publish, subscribe or reply; the innermost frame is  *)
(* the head.  The two re-entrant locks are qlock (the queue's) and tlock   *)
(* (the transport's); what happens between two acquisitions is one step.   *)
(***************************************************************************)
EXTENDS Integers, Sequences, FiniteSets

CONSTANTS
    Threads, NoThread,
    Names,           \* topics and patterns that are subscribed to or sent to
    Replies,         \* the unique reply topics of request()
    Covers,          \* the names a subscription pattern matches
    Handlers,
    Does,            \* what a handler does: [kind, topic, fn]
    Programs,        \* what a program's threads may call: sets of [op, topic, fn]
    MaxCalls,        \* how many such calls are made
    MaxSize,         \* max_queue_size, 0 = unbounded
    Timed            \* receive() and request() give up in the end

ASSUME QueueAssumption ==
    /\ NoThread \notin Threads \union Replies /\ Replies \intersect Names = {}
    /\ \A p \in Names : p \in Covers[p]
    /\ \A h \in Handlers : /\ Does[h].kind \in {"plain", "raises", "publishes", "subscribes", "replies"}
                          /\ Does[h].topic \in Names /\ Does[h].fn \in Handlers
    /\ \A P \in Programs : \A c \in P : c.topic \in Names /\ c.fn \in Handlers

VARIABLES
    calls,           \* the program that runs, one of Programs
    topics,          \* _topics of the queue
    channels,        \* _subscribers of each topic's channel, in order
    subIds,          \* _sub_ids: [id, topic, fn]
    wired,           \* _subscribers of the transport, in order: patterns
    store,           \* _queues of the transport
    closed, qlock, tlock,
    stack,           \* frames of each thread
    serial,          \* calls and handler ids so far
    sent, answers    \* history: finished sends, results of request()

tables == <<topics, channels, subIds>>
transport == <<wired, store, closed>>
history == <<sent, answers>>
queueVars == <<calls, tables, transport, qlock, tlock, stack, serial, history>>

AllNames == Names \union Replies

Frame(at, id, topic, fn, replyTo) ==
    [at |-> at, id |-> id, topic |-> topic, fn |-> fn, replyTo |-> replyTo,
     todo |-> <<>>, run |-> <<>>, owed |-> {}, got |-> <<>>, broke |-> FALSE]

QueueInit ==
    /\ topics = {} /\ channels = [n \in Names |-> <<>>] /\ subIds = {}
    /\ wired = <<>> /\ store = [n \in AllNames |-> <<>>] /\ closed = FALSE
    /\ qlock = NoThread /\ tlock = NoThread
    /\ stack = [t \in Threads |-> <<>>] /\ serial = 0
    /\ sent = {} /\ answers = {} /\ calls \in Programs

-----------------------------------------------------------------------------
Free(lock, t) == lock \in {t, NoThread}
At(t, at) == stack[t] # <<>> /\ Head(stack[t]).at = at
Top(t) == Head(stack[t])
Become(t, f) == stack' = [stack EXCEPT ![t] = <<f>> \o Tail(@)]
Return(t) == stack' = [stack EXCEPT ![t] = Tail(@)]

\* An exception of the innermost frame: in a handler, it ends the broadcast
\* that called the handler and is swallowed by send().
Raise(t) ==
    LET rest == Tail(stack[t]) IN
    stack' = [stack EXCEPT ![t] = IF rest = <<>> THEN <<>>
                                  ELSE <<[Head(rest) EXCEPT !.run = <<>>, !.broke = TRUE]>> \o Tail(rest)]

\* send() is re-entrant: an outer send() of the same thread keeps the lock.
Unlock(t) == tlock' = IF Len(stack[t]) > 1 THEN t ELSE NoThread

Begin(t) ==
    /\ stack[t] = <<>> /\ serial < MaxCalls
    /\ serial' = serial + 1
    /\ \E c \in calls :
        \/ /\ c.op \in {"send", "topic", "receive"}
           /\ stack' = [stack EXCEPT ![t] = <<Frame(c.op, serial, c.topic, c.fn, c.topic)>>]
        \/ /\ c.op = "request"
           /\ \E r \in Replies :
                /\ \A u \in Threads : stack[u] # <<>> => stack[u][Len(stack[u])].replyTo # r
                /\ ~\E s \in sent : s.replyTo = r
                /\ stack' = [stack EXCEPT ![t] = <<Frame("send", serial, c.topic, c.fn, r)>>]
    /\ UNCHANGED <<calls, tables, transport, qlock, tlock, history>>

-----------------------------------------------------------------------------
(***************************************************************************)
(* MessageQueue.topic and subscribe.                                       *)
(***************************************************************************)
GetOrCreateUnlocks(t) ==
    /\ At(t, "topic") /\ Free(qlock, t)
    /\ topics' = topics \union {Top(t).topic}
    /\ Become(t, [Top(t) EXCEPT !.at = IF Top(t).topic \in topics THEN "attach" ELSE "wire"])
    /\ UNCHANGED <<calls, channels, subIds, transport, qlock, tlock, serial, history>>

GetOrCreate(t) ==
    /\ At(t, "topic") /\ Free(qlock, t)
    /\ IF Top(t).topic \in topics
       THEN Become(t, [Top(t) EXCEPT !.at = "attach"]) /\ UNCHANGED <<topics, qlock>>
       ELSE /\ topics' = topics \union {Top(t).topic} /\ qlock' = t
            /\ Become(t, [Top(t) EXCEPT !.at = "wire"])
    /\ UNCHANGED <<calls, channels, subIds, transport, tlock, serial, history>>

\* MemoryTransport.subscribe tests the flag before it takes the lock.
TransportSubscribe(t) ==
    /\ At(t, "wire")
    /\ IF closed THEN Raise(t) /\ qlock' = NoThread
       ELSE Become(t, [Top(t) EXCEPT !.at = "register"]) /\ UNCHANGED qlock
    /\ UNCHANGED <<calls, tables, transport, tlock, serial, history>>

TransportRegister(t) ==
    /\ At(t, "register") /\ Free(tlock, t)
    /\ wired' = Append(wired, Top(t).topic)
    /\ qlock' = NoThread
    /\ Become(t, [Top(t) EXCEPT !.at = "attach"])
    /\ UNCHANGED <<calls, tables, store, closed, tlock, serial, history>>

ChannelSubscribe(t) ==
    /\ At(t, "attach")
    /\ channels' = [channels EXCEPT ![Top(t).topic] = Append(@, Top(t).fn)]
    /\ Become(t, [Top(t) EXCEPT !.at = "record"])
    /\ UNCHANGED <<calls, topics, subIds, transport, qlock, tlock, serial, history>>

RecordId(t) ==
    /\ At(t, "record") /\ Free(qlock, t)
    /\ subIds' = subIds \union {[id |-> Top(t).id, topic |-> Top(t).topic, fn |-> Top(t).fn]}
    /\ Return(t)
    /\ UNCHANGED <<calls, topics, channels, transport, qlock, tlock, serial, history>>

\* The channel forgets the first entry equal to the handler.
Without(s, fn) ==
    LET i == CHOOSE i \in DOMAIN s : s[i] = fn /\ \A j \in 1..i - 1 : s[j] # fn
    IN  IF \E j \in DOMAIN s : s[j] = fn
        THEN [j \in 1..Len(s) - 1 |-> IF j < i THEN s[j] ELSE s[j + 1]] ELSE s

Unsubscribe(t) ==
    /\ stack[t] = <<>> /\ Free(qlock, t)
    /\ \E e \in subIds : /\ subIds' = subIds \ {e}
                         /\ channels' = [channels EXCEPT ![e.topic] = Without(@, e.fn)]
    /\ UNCHANGED <<calls, topics, transport, qlock, tlock, stack, serial, history>>

-----------------------------------------------------------------------------
(***************************************************************************)
(* MemoryTransport.send, called by publish, request and reply.             *)
(***************************************************************************)
SendTest(t) ==
    /\ At(t, "send")
    /\ IF closed THEN Raise(t) ELSE Become(t, [Top(t) EXCEPT !.at = "lock"])
    /\ UNCHANGED <<calls, tables, transport, qlock, tlock, serial, history>>

\* The message of a frame goes to the subscriptions whose pattern covers it.
Matches(f, p) == f.topic \in Covers[p]

SendLockRoom(t) ==
    /\ At(t, "lock") /\ Free(tlock, t)
    /\ tlock' = t
    /\ Become(t, [Top(t) EXCEPT !.at = IF MaxSize > 0 /\ Len(store[Top(t).topic]) >= MaxSize
                                       THEN "store" ELSE "notify",
                                !.todo = wired,
                                !.owed = {e \in subIds : Matches(Top(t), e.topic)}])
    /\ UNCHANGED <<calls, tables, transport, qlock, serial, history>>

SendLock(t) ==
    /\ At(t, "lock") /\ Free(tlock, t)
    /\ tlock' = t
    /\ Become(t, [Top(t) EXCEPT !.at = "notify", !.todo = wired,
                                !.owed = {e \in subIds : Matches(Top(t), e.topic)}])
    /\ UNCHANGED <<calls, tables, transport, qlock, serial, history>>

\* The next subscription of the transport; Eventful.fire takes a snapshot of
\* the channel's subscribers.
Fire(t) ==
    /\ At(t, "notify")
    /\ \/ Top(t).todo = <<>> /\ Become(t, [Top(t) EXCEPT !.at = "store"])
       \/ /\ Top(t).todo # <<>> /\ Matches(Top(t), Head(Top(t).todo))
          /\ Become(t, [Top(t) EXCEPT !.at = "call", !.todo = Tail(@),
                                      !.run = channels[Head(Top(t).todo)]])
       \/ /\ Top(t).todo # <<>> /\ ~Matches(Top(t), Head(Top(t).todo))
          /\ Become(t, [Top(t) EXCEPT !.todo = Tail(@)])
    /\ UNCHANGED <<calls, tables, transport, qlock, tlock, serial, history>>

\* Mutant: a reply is itself a request.
ReplyFrameRequests(f, h) == Frame("send", f.id, f.replyTo, h, f.replyTo)

\* MessageQueue.reply.
ReplyFrame(f, h) == Frame("send", f.id, f.replyTo, h, f.topic)

\* BroadcastDispatcher: the next handler, or the end of the broadcast.
CallHandler(t) ==
    LET f == Top(t)
        h == Head(f.run)
        called == [f EXCEPT !.run = Tail(@), !.got = Append(@, h)]
        push(g) == stack' = [stack EXCEPT ![t] = <<g, called>> \o Tail(@)]
    IN
    /\ At(t, "call")
    /\ \/ f.run = <<>> /\ Become(t, [f EXCEPT !.at = "notify"])
       \/ /\ f.run # <<>> /\ Does[h].kind = "plain"
          /\ Become(t, called)
       \/ /\ f.run # <<>> /\ Does[h].kind = "publishes"
          /\ push(Frame("send", f.id, Does[h].topic, h, Does[h].topic))
       \/ /\ f.run # <<>> /\ Does[h].kind = "subscribes"
          /\ push(Frame("topic", serial, Does[h].topic, Does[h].fn, Does[h].topic))
       \/ /\ f.run # <<>> /\ Does[h].kind = "replies" /\ f.replyTo \in Replies
          /\ push(ReplyFrame(f, h))
       \/ /\ f.run # <<>> /\ (Does[h].kind = "raises"
                              \/ (Does[h].kind = "replies" /\ f.replyTo \notin Replies))
          /\ Become(t, [called EXCEPT !.run = <<>>, !.broke = TRUE])
    /\ serial' = IF f.run # <<>> /\ Does[h].kind = "subscribes" THEN serial + 1 ELSE serial
    /\ UNCHANGED <<calls, tables, transport, qlock, tlock, history>>

Finished(t, result) ==
    sent' = sent \union {[id |-> Top(t).id, topic |-> Top(t).topic, replyTo |-> Top(t).replyTo,
                          result |-> result, got |-> Top(t).got, broke |-> Top(t).broke,
                          owed |-> Top(t).owed \intersect subIds]}

PutKeepsLock(t) ==
    /\ At(t, "store")
    /\ IF MaxSize > 0 /\ Len(store[Top(t).topic]) >= MaxSize
       THEN Finished(t, "full") /\ Raise(t) /\ UNCHANGED <<store, tlock>>
       ELSE /\ Unlock(t) /\ store' = [store EXCEPT ![Top(t).topic] = Append(@, Top(t).id)]
            /\ Finished(t, "stored")
            /\ IF Top(t).replyTo \in Replies
               THEN Become(t, [Top(t) EXCEPT !.at = "receive"]) ELSE Return(t)
    /\ UNCHANGED <<calls, tables, wired, closed, qlock, serial, answers>>

\* put_nowait into the topic's queue; request() goes on to receive().
Put(t) ==
    /\ At(t, "store")
    /\ IF MaxSize > 0 /\ Len(store[Top(t).topic]) >= MaxSize
       THEN Finished(t, "full") /\ Raise(t) /\ UNCHANGED store
       ELSE /\ store' = [store EXCEPT ![Top(t).topic] = Append(@, Top(t).id)]
            /\ Finished(t, "stored")
            /\ IF Top(t).replyTo \in Replies
               THEN Become(t, [Top(t) EXCEPT !.at = "receive"]) ELSE Return(t)
    /\ Unlock(t)
    /\ UNCHANGED <<calls, tables, wired, closed, qlock, serial, answers>>

-----------------------------------------------------------------------------
Answered(t, result) ==
    /\ answers' = IF Top(t).replyTo \in Replies
                  THEN answers \union {[replyTo |-> Top(t).replyTo, result |-> result]} ELSE answers
    /\ Return(t)

ReceiveTest(t) ==
    /\ At(t, "receive")
    /\ IF closed THEN Answered(t, "none")
       ELSE Become(t, [Top(t) EXCEPT !.at = "get"]) /\ UNCHANGED answers
    /\ UNCHANGED <<calls, tables, transport, qlock, tlock, serial, sent>>

\* Queue.get, without the transport's lock.
Get(t) ==
    /\ At(t, "get")
    /\ \/ /\ store[Top(t).replyTo] # <<>>
          /\ store' = [store EXCEPT ![Top(t).replyTo] = Tail(@)]
          /\ Answered(t, "message")
       \/ /\ Timed /\ store[Top(t).replyTo] = <<>>
          /\ Answered(t, "none") /\ UNCHANGED store
    /\ UNCHANGED <<calls, tables, wired, closed, qlock, tlock, serial, sent>>

CloseFlag(t) ==
    /\ stack[t] = <<>> /\ ~closed /\ \E c \in calls : c.op = "close"
    /\ closed' = TRUE
    /\ stack' = [stack EXCEPT ![t] = <<Frame("close", serial, NoThread, NoThread, NoThread)>>]
    /\ UNCHANGED <<calls, tables, wired, store, qlock, tlock, serial, history>>

CloseClear(t) ==
    /\ At(t, "close") /\ Free(tlock, t)
    /\ wired' = <<>>
    /\ Return(t)
    /\ UNCHANGED <<calls, tables, store, closed, qlock, tlock, serial, history>>

Subscribe(t) == GetOrCreate(t) \/ TransportSubscribe(t) \/ TransportRegister(t)
                \/ ChannelSubscribe(t) \/ RecordId(t)
TransportSend(t) == SendTest(t) \/ SendLock(t) \/ Fire(t) \/ CallHandler(t) \/ Put(t)
QueueReceive(t) == ReceiveTest(t) \/ Get(t)
Step(t) == Subscribe(t) \/ TransportSend(t) \/ QueueReceive(t) \/ CloseClear(t)

QueueNext == \E t \in Threads : Begin(t) \/ Unsubscribe(t) \/ CloseFlag(t) \/ Step(t)

QueueSpec == QueueInit /\ [][QueueNext]_queueVars

\* Threads run, handlers end, and whoever waits for a lock gets it when it
\* is free again and again.
QueueFairSpec == QueueSpec /\ \A t \in Threads : SF_queueVars(Step(t))

-----------------------------------------------------------------------------
Count(s, x) == Cardinality({i \in DOMAIN s : s[i] = x})

\* "one transport sub per topic" (queue.py): concurrent first uses of a topic
\* never wire it twice, which would call every handler twice; and until
\* close(), whoever finds a topic in the table may rely on deliveries.
TopicsWired ==
    \A n \in Names : /\ Count(wired, n) <= 1
                     /\ qlock = NoThread /\ ~closed /\ n \in topics => Count(wired, n) = 1

\* "notified unconditionally": a handler that is subscribed from the moment
\* send() takes the lock to its end has been called, stored or full, unless
\* a handler of the same broadcast raised or close() came in between.
SubscribersNotified ==
    ~closed => \A s \in sent : ~s.broke =>
        \A h \in Handlers : Count(s.got, h) >= Cardinality({e \in s.owed : e.fn = h})

\* request() to a topic with a replying handler finds the reply waiting: the
\* handler has run and replied before send() returned.
RequestsAnswered ==
    \A a \in answers : \A s \in sent :
        /\ s.replyTo = a.replyTo /\ a.result = "none" /\ ~closed
        /\ \E e \in s.owed : Does[e.fn].kind = "replies"
        => s.broke

\* topic() has the queue's lock and waits for the transport's, whose owner is
\* in a handler that subscribes and waits for the queue's.
Crossed ==
    \E t, u \in Threads : /\ qlock = t /\ At(t, "register") /\ tlock = u /\ t # u
                          /\ At(u, "topic") \/ At(u, "record")

\* Every call comes back: locks are released on every path, whatever the
\* handlers raise and however deep they publish.  Only a handler that
\* subscribes can block two threads for good.
CallsReturn == \A t \in Threads : stack[t] # <<>> ~> (stack[t] = <<>> \/ Crossed)
=============================================================================
