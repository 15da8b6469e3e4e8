----------------------------- MODULE TaskRunner -----------------------------
(***************************************************************************)
(* TaskPool and TaskRunner of eventforge/task.py, with the broadcast       *)
(* channels they fire (Eventful, BroadcastDispatcher) and the span meter   *)
(* of integrations/logfire.py as an observer that keeps state.             *)
(*                                                                         *)
(* A caller is one call: of TaskRunner.run, or of TaskPool.slot for the    *)
(* members of Slots.  Every block under the pool's lock, every semaphore   *)
(* operation and every fire is one step.  A fire calls the observers in    *)
(* order and stops at the first that raises.                               *)
(***************************************************************************)
EXTENDS Integers, Sequences, FiniteSets

CONSTANTS
    Callers,         \* calls made by threads of the application
    Slots,           \* those that use pool.slot() without a runner
    Asks,            \* how these ask: "block", "timed", "try", "tryTimed"
    MaxInstances,    \* max_instances, 0 = None
    Observers,       \* observers of the four channels, in subscription order
    Fragile,         \* those that may raise
    Spans            \* those that are LogfireMeters

ASSUME PoolAssumption ==
    /\ IsFiniteSet(Callers) /\ Slots \subseteq Callers
    /\ MaxInstances \in Nat /\ (Slots # {} => MaxInstances > 0)
    /\ Observers \in Seq({Observers[i] : i \in DOMAIN Observers})

VARIABLES
    inline,          \* the executor's mode is SEQUENTIAL, for good
    pc,              \* where each call is
    ask,             \* how it asks for a slot
    permits,         \* value of the semaphore
    queued, active, processed,   \* _queued, _active, _total_processed
    error,           \* ctx.error is set
    body,            \* what the function did
    fired,           \* channels fired by the call, in order
    spans,           \* _active_spans: (call, meter)
    published,       \* topic suffix the outcome was published under
    outcome          \* what run() gave its caller

pool == <<permits, queued, active, processed>>
context == <<error, body, fired, spans, published, outcome>>
vars == <<inline, pc, ask, pool, context>>

Init ==
    /\ inline \in BOOLEAN
    /\ pc = [c \in Callers |-> "idle"]
    /\ \E run \in {"block", "timed"} :   \* with instance_timeout or without
          ask \in {a \in [Callers -> Asks \union {run}] :
                    \A c \in Callers : IF c \in Slots THEN a[c] \in Asks ELSE a[c] = run}
    /\ permits = MaxInstances
    /\ queued = 0 /\ active = 0 /\ processed = 0
    /\ error = [c \in Callers |-> FALSE]
    /\ body = [c \in Callers |-> "none"]
    /\ fired = [c \in Callers |-> <<>>]
    /\ spans = {}
    /\ published = [c \in Callers |-> "none"]
    /\ outcome = [c \in Callers |-> "none"]

Goto(c, from, to) == pc[c] = from /\ pc' = [pc EXCEPT ![c] = to]

(***************************************************************************)
(* TaskPool.acquire: count as queued, ask the semaphore, count as active.  *)
(***************************************************************************)
Call(c) ==
    /\ Goto(c, "idle", IF MaxInstances > 0 THEN "asking" ELSE "start")
    /\ queued' = IF MaxInstances > 0 THEN queued + 1 ELSE queued
    /\ UNCHANGED <<inline, ask, permits, active, processed, context>>

SemaphoreAcquire(c) ==
    /\ Goto(c, "asking", "granted")
    /\ ask[c] # "tryTimed" /\ permits > 0
    /\ permits' = permits - 1
    /\ UNCHANGED <<inline, ask, queued, active, processed, context>>

SemaphoreRefuse(c) ==
    /\ Goto(c, "asking", "refused")
    /\ ask[c] \in {"timed", "try"} /\ permits = 0
    /\ UNCHANGED <<inline, ask, pool, context>>

\* threading.Semaphore takes no timeout in a non-blocking call.
SemaphoreRaise(c) ==
    /\ Goto(c, "asking", "done")
    /\ ask[c] = "tryTimed"
    /\ outcome' = [outcome EXCEPT ![c] = "raised"]
    /\ UNCHANGED <<inline, ask, pool, error, body, fired, spans, published>>

SettleAnyway(c) ==
    /\ \E from \in {"granted", "refused"} : Goto(c, from, IF c \in Slots THEN "leave" ELSE "start")
    /\ queued' = queued - 1 /\ active' = active + 1
    /\ UNCHANGED <<inline, ask, permits, processed, context>>

\* A refused run() raises TimeoutError, a refused slot() yields False.
Settle(c) ==
    /\ queued' = queued - 1
    /\ \/ /\ Goto(c, "granted", IF c \in Slots THEN "leave" ELSE "start")
          /\ active' = active + 1 /\ UNCHANGED outcome
       \/ /\ Goto(c, "refused", "done")
          /\ outcome' = [outcome EXCEPT ![c] = "timeout"] /\ UNCHANGED active
    /\ UNCHANGED <<inline, ask, permits, processed, error, body, fired, spans, published>>

-----------------------------------------------------------------------------
(***************************************************************************)
(* TaskRunner._execute.                                                    *)
(***************************************************************************)

\* What a fire may do: the observers it reaches, and whether one raises.
Fires == { [reached |-> {Observers[i] : i \in 1..k - 1}, raises |-> k <= Len(Observers)] :
           k \in {j \in 1..Len(Observers) + 1 : j <= Len(Observers) => Observers[j] \in Fragile} }

\* LogfireMeter.on_start and _close_span of the meters a fire reached.
OpenSpans(c, reached) == spans' = spans \union ({c} \X (reached \intersect Spans))
CloseSpans(c, reached) == spans' = spans \ ({c} \X reached)

FireStart(c) ==
    \E f \in Fires :
        /\ Goto(c, "start", IF f.raises THEN "leave" ELSE "body")
        /\ fired' = [fired EXCEPT ![c] = Append(@, "start")]
        /\ OpenSpans(c, f.reached)
        /\ outcome' = IF f.raises THEN [outcome EXCEPT ![c] = "raised"] ELSE outcome
        /\ UNCHANGED <<inline, ask, pool, error, body, published>>

\* Inline, the function's exception is the error.  Otherwise only a refused
\* submit() is: result(...).value of a failed task is None.
Body(c) ==
    /\ Goto(c, "body", "outcome")
    /\ \/ \E b \in {"ok", "raised"} :
             /\ body' = [body EXCEPT ![c] = b]
             /\ error' = [error EXCEPT ![c] = inline /\ b = "raised"]
       \/ ~inline /\ error' = [error EXCEPT ![c] = TRUE] /\ UNCHANGED body
    /\ UNCHANGED <<inline, ask, pool, fired, spans, published, outcome>>

\* The outcome's channel, the LogfireMeter's _close_span, the publication
\* (which may fail unnoticed).
OutcomeTo(c, next, closing) ==
    LET channel == IF error[c] THEN "failure" ELSE "success" IN
    \E f \in Fires :
        /\ Goto(c, "outcome", IF f.raises THEN next ELSE "complete")
        /\ fired' = [fired EXCEPT ![c] = Append(@, channel)]
        /\ IF channel \in closing THEN CloseSpans(c, f.reached) ELSE UNCHANGED spans
        /\ \E p \in IF f.raises THEN {"none"} ELSE {"none", channel} :
               published' = [published EXCEPT ![c] = p]
        /\ outcome' = [outcome EXCEPT ![c] = IF error[c] \/ f.raises THEN "raised" ELSE "value"]
        /\ UNCHANGED <<inline, ask, pool, error, body>>

FireOutcomeNoFinally(c) == OutcomeTo(c, "leave", {"success", "failure"})

FireOutcomeNoFailure(c) == OutcomeTo(c, "complete", {"success"})

FireOutcome(c) == OutcomeTo(c, "complete", {"success", "failure"})

FireComplete(c) ==
    \E f \in Fires :
        /\ Goto(c, "complete", "leave")
        /\ fired' = [fired EXCEPT ![c] = Append(@, "complete")]
        /\ outcome' = IF f.raises THEN [outcome EXCEPT ![c] = "raised"] ELSE outcome
        /\ UNCHANGED <<inline, ask, pool, error, body, spans, published>>

-----------------------------------------------------------------------------
LeaveOnValue(c) ==
    /\ Goto(c, "leave", IF MaxInstances > 0 /\ outcome[c] # "raised" THEN "signal" ELSE "done")
    /\ IF MaxInstances > 0 THEN active' = active - 1 /\ processed' = processed + 1
       ELSE UNCHANGED <<active, processed>>
    /\ UNCHANGED <<inline, ask, permits, queued, context>>

\* TaskPool.release, in the finally of run() and of slot().
Leave(c) ==
    /\ Goto(c, "leave", IF MaxInstances > 0 THEN "signal" ELSE "done")
    /\ IF MaxInstances > 0 THEN active' = active - 1 /\ processed' = processed + 1
       ELSE UNCHANGED <<active, processed>>
    /\ UNCHANGED <<inline, ask, permits, queued, context>>

Signal(c) ==
    /\ Goto(c, "signal", "done")
    /\ permits' = permits + 1
    /\ UNCHANGED <<inline, ask, queued, active, processed, context>>

Acquire(c) == Call(c) \/ SemaphoreAcquire(c) \/ SemaphoreRefuse(c) \/ SemaphoreRaise(c) \/ Settle(c)
Execute(c) == FireStart(c) \/ Body(c) \/ FireOutcome(c) \/ FireComplete(c)
Release(c) == Leave(c) \/ Signal(c)

Run(c) == c \notin Slots /\ (Acquire(c) \/ Execute(c) \/ Release(c))
Slot(c) == c \in Slots /\ (Acquire(c) \/ Release(c))
Step(c) == Run(c) \/ Slot(c)

Next == \E c \in Callers : Step(c)

Spec == Init /\ [][Next]_vars

\* Threads run, bodies and observers end, and a thread that waits at the
\* semaphore is woken in the end; whether a call is made is up to the caller.
FairSpec ==
    /\ Spec
    /\ \A c \in Callers : WF_vars(pc[c] # "idle" /\ Step(c)) /\ SF_vars(SemaphoreAcquire(c))

-----------------------------------------------------------------------------
Asking == {c \in Callers : pc[c] \in {"asking", "granted", "refused"}}
Inside == {c \in Callers : pc[c] \in {"start", "body", "outcome", "complete", "leave"}}
Holding == {c \in Callers : pc[c] \in {"granted", "signal"}} \union Inside

\* TaskPool.stats.
Stats == [active |-> active, queued |-> queued, available |-> MaxInstances - active]

TypeOK ==
    /\ permits \in 0..MaxInstances /\ queued \in Nat /\ active \in Nat /\ processed \in Nat
    /\ pc \in [Callers -> {"idle", "asking", "granted", "refused", "start", "body", "outcome",
                           "complete", "leave", "signal", "done"}]

\* No more than max_instances calls are between acquire and release,
\* whatever the interleaving of granted, refused and returned slots.
ConcurrencyLimit == MaxInstances > 0 => Cardinality(Inside) <= MaxInstances

\* The pool's counters and the semaphore, which are updated in separate
\* steps, always agree with what the threads are doing (TaskPool.stats).
\* Only a non-blocking acquire with a timeout, for which the semaphore
\* raises, stays counted as queued.
CountersAgree ==
    MaxInstances > 0 =>
        /\ Stats.active = Cardinality(Inside)
        /\ Stats.available = MaxInstances - Cardinality(Inside)
        /\ permits = MaxInstances - Cardinality(Holding)
        /\ (\A c \in Callers : ask[c] # "tryTimed") => Stats.queued = Cardinality(Asking)

\* A call whose body was reached fires start, then exactly one of success
\* and failure, then complete, whichever observers raise on the way; and if
\* the function raised in a sequential executor, run() raises, failure is
\* what is fired and published, and never success ("Called on failed
\* execution", docs/task.md).
LifecycleOrder ==
    \A c \in Callers :
        /\ pc[c] \in {"leave", "signal", "done"} /\ (body[c] # "none" \/ error[c]) =>
            \E ch \in {"success", "failure"} :
                fired[c] = <<"start", ch, "complete">> /\ (ch = "failure" <=> error[c])
        /\ inline /\ pc[c] = "done" /\ body[c] = "raised" =>
            outcome[c] = "raised" /\ fired[c][2] = "failure" /\ published[c] # "success"

\* Span meters are attached before callbacks that may raise.
SpansFirst ==
    \A i, j \in DOMAIN Observers : Observers[i] \in Spans /\ Observers[j] \in Fragile => i < j

\* A span meter that is attached before every callback that may raise closes
\* the span of each call that got past on_start, also if a callback raises
\* when the outcome is reported ("opens / closes a Logfire span per task
\* execution", logfire.py:51).
SpansClosed ==
    \A c \in Callers :
        pc[c] = "done" /\ Len(fired[c]) > 1 => ~\E o \in Spans : <<c, o>> \in spans

\* Every call ends: slots are given back on every path, raising observers
\* and bodies included, so that those who wait get one.
CallsEnd == \A c \in Callers : pc[c] = "asking" ~> pc[c] = "done"
=============================================================================
