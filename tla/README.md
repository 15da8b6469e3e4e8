# TLA+ verification of eventforge

This directory holds TLA+ models of `eventforge` (the Python package under
`src/eventforge`), the TLC configurations that model-check them on small
instances, and theorems that the TLAPS proof system checks for every value of
the constants. `PROJECT.json` is the index: components, runs, mutated
definitions, the map from definitions to source lines, hazards and theorems.

To check a run, `tlc -config WorkQueue.cfg MCWorkQueue`; `PROJECT.json`
names the module of every configuration. To check the proofs of a module,
`tlapm WorkQueueProofs.tla`.

## The system and its models

| part | source | what it does | modules |
|---|---|---|---|
| WorkQueue | `work_queue.py` | competing consumers: push and pull, ack/nack, visibility timeout, retries, dead letters | `WorkQueue`, `Delivery`, `WorkQueueDelivery` |
| MessageQueue, MemoryTransport | `queue.py`, `transports/memory.py` | topics, subscriptions, publish, request and reply | `MessageQueue` |
| receiving | `receive`, `receive_async` of all transports | threads and coroutines that wait for one message | `AsyncReceive` |
| topic patterns | `_matches` of all transports | wildcards in subscriptions | `TopicPatterns` |
| TCP | `transports/tcp.py` | one server, framed connections | `TCP` |
| Redis | `transports/redis.py` | reference-counted patterns at a broker | `Redis` |
| NATS | `transports/nats.py` | threads bridged onto an event loop | `NATS` |
| RemoteQueue | `remote.py` | links to peers, broadcast | `RemoteQueue` |
| RPC, worker | `rpc.py`, `worker.py` | servers, calls, retries, round robin, the worker process | `RPC` |
| Executor | `executor.py` | inline, thread and process execution | `Executor` |
| TaskPool, TaskRunner | `task.py` | slots, the life cycle of a task | `TaskRunner` |
| Node, dispatchers | `observers.py` | round robin, least loaded with reservations | `Dispatch` |
| meters, reporters | `observers.py` | statistics over observed calls | `Meter` |
| SharedState | `types.py` | a dictionary with atomic updates | `SharedState` |
| logfire | `integrations/logfire.py` | a span per task | in `TaskRunner` |

`MC*` modules define the constants that a configuration cannot write down
(functions, symmetry sets). Two of them put modules that share no state side by
side, with a variable that says which of them a behaviour is of:
`MCConnections` (`TCP`, `RemoteQueue`, `AsyncReceive`) and `MCObservers`
(`Dispatch`, `Meter`, `SharedState`). `MCRedis` computes the patterns and filters
of `Redis` with `TopicPatterns`. Modules without one are run directly.

How the parts meet: a `MessageQueue` calls its transport with a lock held, and
the transport calls the queue's handlers with its own lock held, so the two are
one module. `WorkQueue` inherits from `MessageQueue` but uses none of it except
in `close()`. `RPC` uses a queue only to send, to subscribe and to wait for a
reply: its model takes the transport as messages that arrive late, in any order
or never. `TaskRunner` includes the channels it fires (`Eventful`) and treats
the executor as inline or as a pool that may refuse. `RemoteQueue` is built on
TCP clients, which it sees as links that open, break and close.

In every module a block under a lock, or code between two accesses to shared
state, is one action with everything it calls; what happens between two such
blocks interleaves with every other thread. Bounds are constants named `Max...`
in the guards. Where a deployment or a mode is chosen once (the three ways to run
an RPC server, inline or pooled execution, the kind of a meter), it is a variable
that Init chooses and no action changes. No run checks deadlock as such, because
in each of them the callers may run out of calls to make and everything is then
rightly idle; that calls which were made return is stated as a property instead.

Where the code departs from what one would expect, the property excludes exactly
that case, and the case is listed as a *known exception* below. All of them were
found by stating the property without the exclusion.

## The runs

| run | instance | properties |
|---|---|---|
| `work_queue` | 2 messages, 2 consumers, topic limited to 1 message, 2 attempts, `close` at any time | `DispatchOwed`, `RetriesBounded`, `ReaperWatches`, `KeepsPromise` (refinement) |
| `work_queue_live` | 1 message, a consumer and a thread in `dequeue`, `close`, fair | `NoLostWakeup`, `EventuallySettled`, `CloseUnblocksDequeue` |
| `message_queue` | 2 threads, 3 programs of up to 3 calls, stores of 1 message, fair | `TopicsWired`, `SubscribersNotified`, `RequestsAnswered`, `CallsReturn` |
| `connections` | TCP: 3 senders on one connection, or 2 connections; 2 threads on a table of links; 4 receivers | `FramesIntact`, `NoClientLeftBehind`, `DisconnectsNoticed` (fair), `LinksAccounted`, `AsyncReceivesEnd` (fair) |
| `redis` | 2 threads, 3 topics of which 2 share a pattern, 3 calls | `RefsCountUsers`, `NoMissedCall`, `SubscriptionsMeanSegments` |
| `nats` | 2 threads, 3 calls, `close` at any time, fair | `ServerAccounted`, `NoMissedCall`, `CallsReturn` |
| `rpc` | 2 calls with a retry each, 2 workers, no stop | `ResultsJustified` |
| `rpc_live` | 1 call, 2 workers, a stop or signal at any point, fair | `WorkerExitsClean`, `StopReleasesServe`, `RetriesEnd` |
| `executor` | 2 tasks and an unknown id, 3 modes, 2 workers, `stop` and restart, fair | `NoLeakedPool`, `OneTable`, `ResultAgrees`, `AcceptedTasksEnd` |
| `tasks` | 2 runs and a slot user, 2 slots, every way to ask, fair | `ConcurrencyLimit`, `LifecycleOrder`, `SpansClosed`, `CallsEnd` |
| `observers` | 3 threads, nodes of capacity 1 and 2 and a plain subscriber, 6 calls; or 2 threads on a meter of each kind; or 2 threads on a shared dictionary | `WithinCapacity`, `SaturatedMeansBusy`, `ReductionsAgree`, `MeasurementsReported`, `ElapsedIsOwn`, `UpdatesAtomic` |
| `memory_patterns` | topics and patterns of up to 3 characters | `MemoryStarIsOneSegment`, **violated** |

All but the last pass, and every property of theirs is broken by the mutated
definition that `PROJECT.json` names for it. `memory_patterns` is a disagreement
between the code and what it says of itself, described under TopicPatterns.
Symmetry is used in the safety runs `work_queue`, `rpc` and `observers`, never
with liveness.

## WorkQueue

### State and actions

One variable per table of the class (`pending`, `inFlight`, `groups`,
`rrIndex`, `registry`, `running` for `_reaper_running`), and the program
counters of the threads: `waiter` (threads in `dequeue`), `reaper`, `due` and
`owes` (the visibility-timeout thread), `closing` (`close`), `owed` (threads
that left the locked block of `enqueue`, `consume` or `nack` and still have to
call `_try_dispatch`), `held` (deliveries a handler or a pulling client has in
its hands). `sent`, `acked` and `dropped` only record history.

A block under `_wq_lock` is one action, with everything it calls. The sweep of
the reaper is the exception: it takes one step per expired entry, with
`LockFree` keeping the others out meanwhile. What happens between two locked
blocks is not atomic: a dispatch owed by one thread interleaves with anything.

| action | code |
|---|---|
| `Enqueue`, `Consume`, `RemoveConsumer` | the methods up to the release of the lock |
| `Dispatch` | `_try_dispatch` by a thread that owes it; handlers start (`held`) |
| `DequeueCall/Closed/Take/Empty/WaitTimeout` | `dequeue` and its condition variable |
| `Ack`, `Nack`, `Abandon` | a client settles a delivery, late or in time, or never does |
| `ReaperTest/Collect/Expire/Release/Dispatch/Sleep` | one round of `_reaper_loop` |
| `CloseStopReaper/SetFlag/Clear` | `close`: two unlocked writes, then the locked part |

Abstractions: a message is its payload and its retry count, enqueued at most
once under one payload; a delivery id (a uuid4 in the code) is a serial number
with the consumer group; consumer ids are never reused. Time is left out: a
sweep may find any set of deliveries expired, because every message may have
its own visibility timeout. Topics form the finite set `Topics`; clients use
those in `Served`, so that `"{topic}.dead_letter"` chains stay finite. `close`
is called at most once (`MayClose`), hence two reaper threads at most. A client
settles a delivery at most once: a second call finds nothing in `_in_flight`
and changes nothing. The user-supplied headers that could overwrite the
`_wq_*` ones are left out.

### Runs

The bounds: two messages are needed for the order of requeues and for a requeue
that meets a full topic; two consumers for round robin, removal of one of two and
a consumer that leaves between a locked block and its dispatch; two attempts for
a retry and its end in the dead-letter topic. `work_queue_live` needs only one
message, which a consumer and a thread in `dequeue` compete for, because every
property of it is about one message or one thread.

Known exceptions:

- `_dead_letter` wakes threads in `dequeue` but nobody calls `_try_dispatch` for
  the dead-letter topic, so consumers registered on it are not served
  (`DispatchOwed` leaves those topics out; compare the comment at
  `work_queue.py:467`).
- A copy that one group nacks, or lets expire, is delivered again to every
  group ("Each group gets its own copy", `tests/test_work_queue.py:303`); the
  refinement is stated for one group.
- Requeues ignore `max_work_queue_size` ("Max pending messages per topic",
  `work_queue.py:54`).
- A delivery between the first statement of `close` and its locked part starts a
  reaper thread that nothing stops ("Stop reaper thread", `work_queue.py:311`);
  `ReaperWatches` counts on it.

### Fairness

`Fairness` assumes that threads run and that one that keeps asking for the lock
gets it in the end (strong fairness for the locked blocks of `_try_dispatch`,
the reaper, `dequeue` and `close`), which holds because every holder releases
the lock after finitely many steps and the only thread that takes it over and
over, the reaper, sleeps between rounds. It assumes that a timed wait of
`dequeue` returns and that a delivery which stays in flight is found expired by
some sweep, as time passes. Nothing is assumed of clients: handlers may hang,
raise or forget the message, and nobody needs to enqueue, ack or consume.

### What it promises

`Delivery` says what a work queue is for, without threads, tables, topics or
timeouts: an accepted message is waiting, in one worker's hands, done, or
discarded by `close()`, and moves between these places only by being handed
out, confirmed, given back or discarded. `WorkQueueDelivery` instantiates it:
waiting is what is pending on any topic (dead letters included), working is
what is in flight, done and discarded are the history variables. Every step of
the work queue with one consumer group is a step of `Delivery` or leaves the
places alone, so that a late ack, a sweep that overtakes it, a dispatch of
several messages at once and `close()` between two steps lose, double or revive
nothing. With several groups it does not hold. TLC checks the refinement as
`KeepsPromise` in `work_queue`; it is also proved.

## MessageQueue over MemoryTransport

Handlers run inside `send()`, with the transport's lock held, and may publish,
subscribe or reply themselves. Every thread therefore has a stack of frames;
the innermost frame says which call it is in and how far. `qlock` and `tlock`
are the two re-entrant locks. `topics`, `channels` and `subIds` are the queue's
tables, `wired` and `store` the transport's.

| actions | code |
|---|---|
| `GetOrCreate`, `TransportSubscribe`, `TransportRegister`, `ChannelSubscribe`, `RecordId` | `subscribe`, through `topic()` and the transport |
| `Unsubscribe` | `unsubscribe` |
| `SendTest`, `SendLock`, `Fire`, `CallHandler`, `Put` | `publish`: the closed test, the lock, one handler at a time, the store |
| `ReceiveTest`, `Get` | `receive` and the wait of `request` |
| `CloseFlag`, `CloseClear` | `close` |

`message_queue` runs one of three programs on two threads: subscribing, with a
handler that itself subscribes; publishing into stores of one message, with a
wildcard and handlers that raise or publish further; requesting and replying
while the transport may be closed. Three calls let a subscription, its removal
and a send overlap. It shows that a topic is wired to the transport once, and
before anybody relies on it; that whoever is subscribed throughout a send is
called, also when the store is full; that the reply is there when `request` looks
for it; and that calls return. It assumes that threads run and that a lock which
is free again and again is granted in the end.

Known exceptions: a handler that subscribes and a thread that creates a topic
wait for each other's lock for ever (`Crossed`); a `subscribe` that passed its
closed test registers after `close`; a receiver without a timeout stays blocked
after `close` (the receivers of this run have one).

## AsyncReceive

`receive` blocks in `queue.get`; `receive_async` runs a `get(timeout=1)` on a
thread of the default executor under `wait_for`. The four transports share this
code, so one topic of one transport stands for all. A coroutine (`call`) and the
thread that works for it (`job`) are separate, which is where the interest is:
`wait_for` abandons the coroutine, not the thread.

In `connections` two blocking callers and two coroutines share one worker thread
and two messages, and one coroutine may give up while its thread occupies the only
worker. Every coroutine comes back, and its thread with it, without anybody
sending: what makes this so is the one second of `get`, not the timeout of the
caller. The fairness is that the executor starts jobs when it has a free thread,
that a `get` in a job ends (a message, or its second is over) and that the loop
resumes a coroutine whose job is done; that `wait_for` gives up is not assumed,
nor anything of blocking callers. Known exceptions: after `wait_for` gives up,
the abandoned thread takes the next message and drops it (`gaveUp`); a wait of
more than one second, or without a limit, is cut to one second.

## TopicPatterns

Each transport turns a pattern into tokens for a matching engine (`fnmatch`,
`re`, the Redis glob, NATS subjects); the model does the same, character by
character, because the characters are what the code gets right or wrong.

`SubscriptionsMeanSegments` runs through every topic of up to three and every
pattern of up to four characters over `a`, `b`, `.`, `?` and `*` whose stars are
whole segments. The reference is a meaning on segments: `*` is one segment, `**`
one or more, anything else itself. What a subscriber gets is what the broker's
pattern and the local filter both accept:

- behind Redis exactly what is meant, although the server's glob takes `?` and
  both stars for more than that;
- behind NATS exactly what is meant if `**` comes last (elsewhere it makes the
  subject invalid) and no segment is empty;
- over TCP at least what is meant, and nothing else if the pattern has neither a
  `*` segment, which crosses segments there, nor a `?`, which is any character;
- in memory the same, but nothing is said of patterns with a `*` segment.

`src/README.md:148` lets `**` stand for any number of segments; no transport takes
it for none, so that `a.**` does not get `a`.

Finding (`memory_patterns`): `MemoryTransport._matches` replaces `*` by `[^.]*`
and gives that to `fnmatch`, to which it is one of the characters `^` and `.`
followed by anything. A subscription to `*` therefore does not get `a`, nor one
to `events.*` the topic `events.user`, against "Topic strings support `*` (one
segment)" (`src/README.md:148`), the docstring (`memory.py:142`) and the example
in `src/docs/queue.md:35-39`.

## TCP

One server, clients with one connection each, threads that send on both sides.
A frame travels in two chunks because `sendall` may need several writes; two
are enough for the bytes of two frames to mix. A socket closed while its reader
blocks in `recv` is held open by that call. The variables are the flags and
socket tables of both classes, the reading loops (`reader`, `hand`), the accept
loop, and the threads in `send`.

`connections` has one client with two sending threads at the server and one of its
own, or two clients and one sender. Frames arrive whole and in order; a
connection accepted during `close` is not kept; a dropped client leaves the list,
if the loops run and get the lock. Known exceptions: two threads on one *client*
transport mix their frames, since its `send` takes no lock (each client has one
sending thread here); before Python 3.10 an idle second ends the accept loop,
since `socket.timeout` is not yet a `TimeoutError` there.

## Redis

The tables `subs`, `queued` (topics of `receive`) and `refs`, and at the broker
the patterns of the connection and the copies on their way. Calls test
`_running` first and take the lock later (`Check`, then `Subscribe`,
`EnsureQueue`), so `close` comes in between. `PSUBSCRIBE` may raise
(`PsubscribeRaises`), which leaves an entry in the tables (`strays`, `failed`);
what `PUNSUBSCRIBE` raises is swallowed, so that the server may keep a pattern
nobody uses until it is used and given up again (`kept`).
`MCRedis` uses `a.b`, `a.*` and `a.**`, of which the last two share a Redis pattern.

`redis` shows that a count equals the users of its pattern, and that a callback
that stays is called once for every copy the server made. Known exceptions:
overlapping patterns make the server send several copies; a failed `PSUBSCRIBE`
is never retried for that topic; a reply that is published before `receive` has
subscribed is lost; a `subscribe` that passed its test survives `close`.

## NATS

Threads hand coroutines to the private loop (`Submit`) and wait (`Finish`); the
loop runs these and the callbacks of incoming messages one after the other
(`Loop...`); both sides take the same lock. `nats` has two threads on one topic, so
that subscriptions, receivers and messages meet, with `close` at any time: no
server subscription is forgotten, no subscriber misses a message, and calls
return if the loop and the threads run. Known exceptions: two subscriptions of a
topic run each callback twice; `receive` waits for the loop with the lock held
while the loop waits for the lock (`Crossed`); a call overtaken by `close` waits
for a loop that has stopped.

## RemoteQueue

The table of links and its insertion order; a link is dialled, closed and
written outside the lock (`Dial`, `Install`, `CloseLink`, `Push`), and may break
at any time. In `connections` two threads use two peers and up to three links: an
open link is in the table or in the hands of the thread that will close or
install it, and no lookup finds a closed one. Known exceptions: a broadcast ends
at the first dead peer; a `connect` that overlaps `close` installs its link into
the emptied table.

## RPC and the worker process

Per worker the program counters of `serve` and `stop` and the fields they
share; per call its attempt, and requests and replies in transit, which may be
late, reordered, or in transit for ever, which is how one is lost. A call is one
call of a client made by `with_retry` around a round-robin client. `send` and
`receive` raise a timeout, a connection error or anything else, `send` also after
the request is on its way (the memory transport calls the subscribers before it
finds its store full). `stop` is five steps, since it takes no lock: the flag, the
event, the test of `_sub_id`, `unsubscribe`, and `_sub_id = None`.

`rpc` (two calls, two workers, one retry each, every kind of method, workers that
are told to serve again and again): what a caller gets is what happened to its
last attempt; a reply to an abandoned attempt is never taken for a later one; and
only timeouts and connection errors are retried, up to the last attempt, while
every other exception ends the call.
`rpc_live` adds a `stop` or a signal at any point: a worker that exits leaves no
subscription, a waiting `serve` is released and calls end, given running threads
and expiring timeouts; nothing is assumed about messages. Known exceptions: a
SIGTERM before `serve` clears its event is forgotten; a `stop` before `_sub_id` is
assigned leaves the handler subscribed, so that the next `serve` runs each method
twice; an exception with an empty message comes back as a value, since
`call` tests `if response.error` (`failsSilently`).

## Executor

`submit` is five steps (`Start`, `ReadPool`, `PoolSubmit`, `StoreFuture`,
`AddDoneCallback`), `stop` two, `result` three; the pools of
`concurrent.futures` are external: futures resolve once, wake their waiters and
then run the callback in the worker. Workers may crash (processes) or end with
`SystemExit`.

`executor` (inline, threads or processes): no pool leaks, an id is in exactly one of
the two tables, `result` gives the task's own outcome by every path, and accepted
tasks end across `stop`, restart and a crash, given that bodies end and a pool
serves in order. Known exceptions: the assertion in `submit` can fail when `stop`
comes between the start and the read of the pool; a task that ends with
`SystemExit` has no result and takes its worker with it (`Exited`).

## TaskPool and TaskRunner

A caller is one call of `run`, or of `slot` for the members of `Slots`. Getting
a slot is `Call` (counted as queued), the semaphore, `Settle`; then `FireStart`,
`Body`, `FireOutcome`, `FireComplete`; then `Leave` and `Signal`. A fire stops at
the first observer that raises. `spans` is the table of `LogfireMeter`.

`tasks`: the limit holds; channels fire in order and, inline, a failure is never
reported as success; the spans of calls that got past `on_start` are closed
although a callback behind the meter raises; everybody who waits for a slot gets
one, if bodies end and the semaphore does not starve a waiter. Known exceptions:
on a pool a failure of the function is reported as success; an observer that
raises in `on_start` suppresses `on_complete` and leaves a span open; a
non-blocking acquire with a timeout stays counted as queued.

## Dispatchers and Node

Threads fire through least-loaded dispatchers (`Lock`, `ReadLoad` per
subscriber, `TakeNext`/`SkipNext` per candidate, `Saturated`) and round robins
(`Rotate`), or call a node directly. A reservation is given back by `release`,
which stops at zero (`Release`); `__call__`, for a round robin or a direct caller,
decrements without a test (`Uncount`).
Node and dispatcher locks are different, so
releases interleave with a selection. `observers`: no dispatcher overbooks a node,
whatever round robins and direct callers do to it, and "all subscribers
saturated" means that calls which run, or which ended during the selection, held
every slot. Known exceptions: `load` exceeds 1, since direct calls never look at
the capacity; the pick can be stale; the error for saturation can come with a
slot that has just become free (`left`).

## Meters and reporters

`update` is a fold over observations, `Updated` and `Reduce` are the code's, and
`Reference` defines the reductions on the whole list of observations since the
last reset. Timed calls keep their start in the context of the call. Reporters
register on classes while measurements are fired.

`observers`: every reduction equals the reference, with negative values and
weights of 0; a measurement reaches a reporter once per registration although
others raise; each call is timed from its own start. Known exceptions: the CPU
time of a call includes that of other threads; a meter attached during a call
subtracts the start of another clock (`ElapsedIsOwn` is about calls whose start
the meter got).

## SharedState

`set`, `delete`, `clear` and `update` under one re-entrant lock; `update` is a
read and a write with the user's function in between, which may raise or call
back, so that a thread has a stack of updates. `expected` is what the changes
give when they take effect one at a time. `observers` (two threads, two keys,
four calls): no update is lost. Known exception: a function that changes the key
it computes (`SameKey`) loses that change.

## Proofs

Each theorem holds for every value of the constants that satisfies the named
assumption of the module, which TLC evaluates in every run that uses it.

| proof module | about |
|---|---|
| `WorkQueueProofs` | `WorkQueue`, `WorkQueueDelivery` |
| `QueueSteps`, `QueueProofs` | `MessageQueue` |
| `CallProofs` | `TaskRunner`, `RPC` |
| `RedisProofs` | `Redis` |
| `NatsProofs` | `NATS` |
| `ConnectionProofs` | `TCP`, `RemoteQueue` |
| `ThreadProofs` | `Dispatch`, `SharedState`, `Executor` |

A proof module extends the models it is about, so that a theorem states the very
definition a run checks; models that share a proof module therefore name their
`Init`, `Next` and `Spec` after themselves. What a proof needs of the constants
is in the named assumption of the model. Where the code may also be used
otherwise it is a hypothesis of the theorem instead: one consumer group
(WorkQueue), `SpansFirst` (TaskRunner), `~SameKey` (SharedState) and
`OneSenderEach` (TCP), all explained below. `FiniteSetTheorems` is instantiated
where a proof module begins to count, not at its head: the prover carries every
fact in sight through every step. The lemmas of `QueueSteps` and `QueueProofs`
that count assume `FiniteLaws` by name, which says what they use of finite sets;
`FiniteLawsHold` proves it from the library, and the theorems need no assumption.

**WorkQueue.** `WorkQueueProofs` proves the basic inductive invariant
`BasicInv`: `TypeOK`, `RegistryMatchesGroups`, and what they need to be
inductive: consumer ids not drawn are not registered, what a sweep has
collected is in flight until it is settled and the lock is not free meanwhile
(`DueInFlight`, without which the entry a sweep settles might be gone),
delivery ids in use are below the next one (`IdsFresh`), and a new reaper
thread has a free slot (`ReaperSlots`). On it rest:

- `NoStarvation`: `DispatchOwed` is inductive over `BasicInv`. Only `Enqueue`,
  `Consume`, `Nack` and `ReaperExpire` can make a topic both nonempty and
  served, and each leaves a dispatch owed; `_try_dispatch` pays the debt only by
  emptying the topic.
- `WakeupsArrive`, `CloseWakes`: `WakeInv` says that a sleeper's topic is empty
  unless a sweep that holds the lock has put something on it and still owes the
  notification.
- `Conservation`, `NoSecondCopy`: `CopyInv` says that what was sent is exactly
  what is live or settled, and, with one group, that nothing is in two places
  or both live and settled. `AddPending`, `RemoveInFlight` and `MoveToFlight`
  are the three ways a message moves.
- `RetriesLimited`: `RetriesBounded` is inductive over `BasicInv`.
- `Watched`: a set flag means a live thread, and entries in flight mean a set
  flag except between the flag write and the clearing of `close`.

`ImplementsDelivery` is the refinement, for one consumer group: by `CopyInv` the
places of `Delivery` are disjoint, and `PromiseStep` maps each action to a step
of `Delivery` or to a stutter, with `HandOutStep` and `GiveBackStep` for the two
moves between waiting and working.

No finiteness is assumed; dead-letter topics are topics other than the one they
belong to, `Pull` is neither a group nor a consumer, `MaxSize` is a natural
number, `MaxRetries` any integer.

**MessageQueue.** A thread is a stack of frames, one for each call it is in, and a
handler that calls the queue puts a frame on top. `Moves` says what a step does to
the stacks whatever it does otherwise: the frames of the other threads stay, and
those of its own are frames it had, except the new ones of a small set. Every
action is reduced to it once (`BeginFacts`, `CallHandlerFacts`, `QuietSteps`), and
the three theorems look only at the new frames.

- `TopicsWiredOnce` rests on `TopicsInv`: only the innermost frame of a thread is
  outside a handler (`StackInv`), the owner of the queue's lock is the thread
  between the table and the transport (`LockInv`), and a topic that is in the table
  but not wired is the one of that thread (`WiredInv`). `TopicsWired` alone is not
  inductive: nothing in it says that the thread that wires has not wired before.
- `SubscribersAreNotified` follows a subscription through its life. Ids tell
  subscriptions apart, recorded or not (`EntriesInv`); what is recorded is wired
  until `close` (`ReadyInv`); a channel holds a handler at least as often as there
  are ids for it, the one between the append and the record of its id included
  (`ChannelInv`); and a broadcast has called, or has in the snapshot it is running
  through, every handler at least as often as subscriptions it owes a call to are
  on topics it has reached and still recorded (`OwedInv`). `unsubscribe` takes the
  first equal handler out of a channel, so that the entry that goes need not be the
  one whose id was given: counting handlers, rather than following entries, is what
  makes the step provable.
- `RequestsAreAnswered`: a request is the outermost call of its thread and waits
  from the moment its send ended (`RequestsInv`); a replying handler that it has
  called has put the reply in the store, or its thread is sending it right now
  (`ReplyingInv`); so when the send is over and nothing broke it the reply is there
  until the request takes it (`RepliesInv`). That the replying handler was called
  at all is `SubscribersAreNotified`. `Follows` is `Moves` with the positions of
  the frames, which the outermost frame needs.

`QueueAssumption`: reply topics are no names and `NoThread` is neither a thread nor
a reply topic, a pattern covers itself, and what handlers and programs do is of the
kinds the model has; the sets themselves are arbitrary.

**TaskPool.** `SlotsInv`: the semaphore's value is the limit minus the callers
that hold a slot, and `_active` counts the callers inside. `StepMoves` reduces
each of the actions to where it moves its caller and what that does to the
counters; `CountStep` is the arithmetic. `LimitHolds` follows for any callers
and limit (with `MaxInstances = 0` there is no limit to hold). `StatsExact` adds
`QueueInv`: the statistics agree with the threads after every step, the queue
length as long as nobody combines `blocking=False` with a timeout.

**TaskRunner.** `LifeInv` says for each place in `run` which channels were fired
(`FiredSoFar`), whether the body was reached and what is going to be reported;
`ChannelsInOrder` follows for any number of calls and any list of observers.
`NoSpanLeftOpen` assumes `SpansFirst`, that span meters are attached before every
callback that may raise: by `MetersReached` every fire then gets to them, so the
span of a call is gone once its outcome was told (`SpansInv`).

**Executor.** `NoPoolLeaks` rests on `PoolsInv`: there is no pool unless the
executor runs, so `start` never overwrites one. `TablesInv` says for each place
in `submit` in which table the id is, and that what was stored or given is the
status of the future (`Placed`, `Answered`); `IdsInOneTable` and `ResultsAreOwn`
are read off it. It holds for both runners of the done callback, the worker and
`add_done_callback` itself.

**RPC.** `ServerInv` describes the subscriptions of a server: those of a process
that calls `serve` once and is stopped by a signal (`ProcessInv`, for
`ProcessesExitClean`), and those of a server that nobody has stopped (`OnceInv`,
which is why a request runs once then). `ClientInv` adds that requests are sent
once and used up by the method that runs (`RequestsInv`), that a reply tells what
happened to the attempt it is addressed to (`RepliesInv`), and that an attempt is
given up before the next begins, for an exception of `retry_on` and for no other
(`CallInv`). `ReturnsAreJustified` follows for messages that are lost, late and out
of order and for exceptions raised at any send or receive. `Raises` and the adding
of a request occur in several actions; `RaisesStep` and `RequestAdded` treat each
once.

**Dispatch.** `NodeInv` joins `InFlightAccurate` and `WithinCapacity`: neither
is inductive alone, since a reservation is granted by looking at the counter.
`Begins`, `LeavesNode` and `NoCallMoves` are the three effects a step can have
on the calls of a node. `CountersExact` and `NeverOverbooked` follow for any
threads, nodes, capacities, dispatchers and lists.

**Redis.** `BaseInv` types the calls under way. `ServerHasPatterns` is
inductive over it: until `close`, the server has exactly the patterns with users
and those whose last `PUNSUBSCRIBE` was lost (`kept`), failing `PSUBSCRIBE`s
included. `UsersInv` gives `CountsUsers`
and `ReceiversSubscribed`: it needs `IdsApart`, or entering a subscription might
not add a user, and finiteness of the table, or counts would mean nothing.
`NobodyMissesACall` rests on `CallsInv`: for a subscription that was there when
message *m* was published, the calls it has had and the copies still in the inbox
add up to the copies the server made (`CopiesOwed`). That there is at least one
copy needs `MatchesWithinGlob`, that the server's glob accepts what `_matches`
accepts, and `ServerHasPatterns`.

**NATS.** `LoopInv`: a coroutine on the event loop is the one its thread waits
for, so what the loop does for it moves that call and no other. `ServerInv`: what
the server has subscribed is in a table, or a call is between the two and will
enter or remove it, which is `NoServerSubscriptionForgotten`.
`EveryCallbackCalled` needs the converse, that entries are subscribed at the
server until the connection is drained (`EntriesInv`), that ids tell calls and
entries apart (`IdsInv`, `DueInv`), or a message might be due to a callback that
takes a used id, and `OwedInv`: a callback that is still to be called has a copy
on its way. `CopiesKept` shows that no step but the dispatch itself loses one,
the drain of `close` included.

**TCP.** `ConnInv` follows one connection through connect, accept, registration,
its loop and the ways it ends (`ConnOf`); `NobodyStaysBehind` is its last
conjunct. `FramesSurvive` needs the contents of the streams: chunk *i* of a
stream is the half of message `Base + (i + 1) \div 2` that its parity says
(`Chunks`), nothing is missing but the second half of a frame in the making
(`Length`), and that frame belongs to the one thread that is writing (`Last`,
`OneWriter`). At the server there is one such thread because `send` holds the
lock (`JobInv`); at a client because the theorem assumes it (`OneSenderEach`),
which is the known exception above.

**RemoteQueue.** A link is in one place: dialled and in the hands of one thread,
in the table, or taken out and to be closed (`HandsInv`, `Accounted`). Replacing,
dropping and closing differ only in what they take out, so `EntryChanges` and
`ToClose` carry all three. `OrderInv` ties the list that `broadcast` and `close`
go through to the table. `NoLinkIsLost` follows for any threads, peers and links.

**SharedState.** `NoUpdateLost`: `StateInv` says that at most one thread is
inside `update`, and that every value read by a call on its stack is still the
one stored (`StackOf`). It assumes that no function changes the key it computes
(`~SameKey`), without which it does not hold.

**Checked by both.** `DispatchOwed`, `RetriesBounded`, `ReaperWatches`,
`KeepsPromise`, `NoLostWakeup` (WorkQueue); `TopicsWired`, `SubscribersNotified`,
`RequestsAnswered` (MessageQueue); `ConcurrencyLimit`, `LifecycleOrder`,
`SpansClosed` (TaskRunner); `NoLeakedPool`, `OneTable`, `ResultAgrees` (Executor);
`ResultsJustified`, `WorkerExitsClean` (RPC); `WithinCapacity` (Dispatch);
`UpdatesAtomic` (SharedState); `FramesIntact`, `NoClientLeftBehind` (TCP);
`LinksAccounted` (RemoteQueue);
`RefsCountUsers`, `NoMissedCall` (Redis); `ServerAccounted`, `NoMissedCall` (NATS):
the runs show them on small instances,
the theorems for all.

**Only proved.** `TypeOK` and `RegistryMatchesGroups` of the work queue,
`CloseWakesWaiters`, `NoMessageLost`, `SingleCopy`, the statistics of the pool, the
counters of nodes, the patterns at the Redis server.

**Only model-checked.** Everything about liveness, which needs reasoning about
fairness and `ENABLED` (with it all of `AsyncReceive`); the recursive matchers of `TopicPatterns` and the folds
of `Meter` (`ReductionsAgree`, `MeasurementsReported`), which would need induction
over sequences, as `SaturatedMeansBusy` (Dispatch) would over the sum of the
capacities; and one safety property without a theorem, `ElapsedIsOwn` (Meter).

## Not modelled

- `ConcurrentDispatcher`, which only submits to an `Executor`, `set_dispatcher`,
  and the string forms of `Observable`.
- `MemoryMeter`, which reads `tracemalloc`, and what a `LoggingReporter` writes.
- The `task` decorator, which wires a runner to a queue; `map` and the
  asynchronous variants of `Executor`, which are loops over `submit` and
  `result`.
- The subscription tables of the TCP transports, which are locked dictionaries
  like the memory transport's; `unsubscribe` of the memory transport, which
  `MessageQueue` never calls; validation of message models.
- Connecting and reconnecting to NATS, which the client library does.
- Registration of RPC methods while serving, `serve_async`, and the worker's
  argument parsing and imports.
- The record types of `types.py`, logfire attributes and metric loggers: no
  state.
- Values of timeouts, and limits the code does not have (unbounded receive
  queues, socket buffers).
