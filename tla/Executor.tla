------------------------------ MODULE Executor ------------------------------
(***************************************************************************)
(* Executor of eventforge/executor.py.  A task is one call of submit() and *)
(* the calls of result() with the id it returned; each block under _lock   *)
(* and each operation of the pool is one step.  The pools of               *)
(* concurrent.futures are external: futures resolve once, notify threads   *)
(* in future.result(), then run the done callback in the worker.           *)
(***************************************************************************)
EXTENDS Integers, FiniteSets

CONSTANTS
    Tasks,
    Unknown,         \* ids that result() is asked for and submit() never returned
    Bodies,          \* what a body may do: "completed", "failed", "exit"
    MaxWorkers,      \* max_workers
    MaxStops         \* how often stop() is called

ASSUME ExecutorAssumption ==
    /\ Unknown \subseteq Tasks
    /\ Bodies \subseteq {"completed", "failed", "exit"}
    /\ MaxWorkers \in Nat \ {0} /\ MaxStops \in Nat

VARIABLES
    mode,            \* the executor's ExecutionMode, for good
    running, pool,   \* _running, _pool (0 = None)
    pools,           \* every pool constructed: "open", "shutdown", "broken"
    dead,            \* workers of each pool that ended
    stopping,        \* pools between the two halves of stop()
    stops,
    submit,          \* where the submit() of each task is
    poolOf,          \* the pool it read
    future,          \* state of its future
    attached,        \* tasks with a done callback not run yet
    futures, results,   \* _futures, _results
    getter           \* where the result() of each task is, or what it gave

poolVars == <<mode, running, pool, pools, dead, stopping, stops>>
vars == <<poolVars, submit, poolOf, future, attached, futures, results, getter>>

Pools == 1..MaxStops + 1
Resolved == {"completed", "failed", "exit", "broken"}

\* TaskResult made of a resolved future; an exit passes "except Exception".
Status(f) == CASE f = "completed" -> "completed" [] f = "exit" -> "reraised" [] OTHER -> "failed"

Init ==
    /\ mode \in {"sequential", "thread", "process"}
    /\ running = FALSE /\ pool = 0 /\ stopping = {} /\ stops = 0
    /\ pools = [p \in Pools |-> "none"] /\ dead = [p \in Pools |-> 0]
    /\ submit = [t \in Tasks |-> "new"] /\ poolOf = [t \in Tasks |-> 0]
    /\ future = [t \in Tasks |-> "none"]
    /\ attached = {} /\ futures = {}
    /\ results = [t \in Tasks |-> "none"] /\ getter = [t \in Tasks |-> "idle"]

Goto(t, from, to) == submit[t] = from /\ submit' = [submit EXCEPT ![t] = to]

-----------------------------------------------------------------------------
(***************************************************************************)
(* submit()                                                                *)
(***************************************************************************)
SubmitInline(t) ==
    /\ mode = "sequential"
    /\ \E b \in Bodies :
        /\ Goto(t, "new", IF b = "exit" THEN "raised" ELSE "returned")
        /\ results' = IF b = "exit" THEN results ELSE [results EXCEPT ![t] = b]
    /\ UNCHANGED <<poolVars, poolOf, future, attached, futures, getter>>

NewPool == pools' = [pools EXCEPT ![CHOOSE p \in Pools : pools[p] = "none"] = "open"]
           /\ pool' = (CHOOSE p \in Pools : pools[p] = "none")

StartUnguarded(t) ==
    /\ mode # "sequential"
    /\ Goto(t, "new", "started")
    /\ IF \E p \in Pools : pools[p] = "none" THEN NewPool ELSE UNCHANGED <<pool, pools>>
    /\ running' = TRUE
    /\ UNCHANGED <<mode, dead, stopping, stops, poolOf, future, attached, futures, results, getter>>

Start(t) ==
    /\ mode # "sequential"
    /\ Goto(t, "new", "started")
    /\ IF running THEN UNCHANGED <<pool, pools>> ELSE NewPool
    /\ running' = TRUE
    /\ UNCHANGED <<mode, dead, stopping, stops, poolOf, future, attached, futures, results, getter>>

ReadPool(t) ==
    /\ Goto(t, "started", IF pool = 0 THEN "asserted" ELSE "pooled")
    /\ poolOf' = [poolOf EXCEPT ![t] = pool]
    /\ UNCHANGED <<poolVars, future, attached, futures, results, getter>>

\* A pool that was shut down or has broken refuses.
PoolSubmit(t) ==
    LET accepted == pools[poolOf[t]] = "open" IN
    /\ Goto(t, "pooled", IF accepted THEN "queued" ELSE "raised")
    /\ future' = IF accepted THEN [future EXCEPT ![t] = "pending"] ELSE future
    /\ UNCHANGED <<poolVars, poolOf, attached, futures, results, getter>>

StoreFuture(t) ==
    /\ Goto(t, "queued", "stored")
    /\ futures' = futures \union {t}
    /\ UNCHANGED <<poolVars, poolOf, future, attached, results, getter>>

OnCompleteUnstored(t) ==
    /\ futures' = futures \ {t} /\ UNCHANGED results

OnCompleteOptimistic(t) ==
    /\ results' = IF future[t] = "exit" THEN results ELSE [results EXCEPT ![t] = "completed"]
    /\ futures' = IF future[t] = "exit" THEN futures ELSE futures \ {t}

OnComplete(t) ==
    IF future[t] = "exit" THEN UNCHANGED <<results, futures>>
    ELSE /\ results' = [results EXCEPT ![t] = Status(future[t])]
         /\ futures' = futures \ {t}

AddDoneCallbackMissed(t) ==
    /\ Goto(t, "stored", "returned")
    /\ attached' = IF future[t] \in Resolved THEN attached ELSE attached \union {t}
    /\ UNCHANGED <<results, futures, poolVars, poolOf, future, getter>>

\* add_done_callback calls at once when the future is resolved.
AddDoneCallback(t) ==
    /\ IF future[t] \in Resolved
       THEN /\ Goto(t, "stored", IF future[t] = "exit" THEN "raised" ELSE "returned")
            /\ OnComplete(t) /\ UNCHANGED attached
       ELSE /\ Goto(t, "stored", "returned")
            /\ attached' = attached \union {t} /\ UNCHANGED <<results, futures>>
    /\ UNCHANGED <<poolVars, poolOf, future, getter>>

-----------------------------------------------------------------------------
(***************************************************************************)
(* The workers of a pool (external) and the done callback.                 *)
(***************************************************************************)
Working(t) == future[t] = "running" \/ (future[t] \in Resolved /\ t \in attached)
Busy(p) == {t \in Tasks : poolOf[t] = p /\ Working(t)}

WorkerTake(t) ==
    /\ future[t] = "pending" /\ Cardinality(Busy(poolOf[t])) + dead[poolOf[t]] < MaxWorkers
    /\ future' = [future EXCEPT ![t] = "running"]
    /\ UNCHANGED <<poolVars, submit, poolOf, attached, futures, results, getter>>

WorkerEnd(t) ==
    /\ future[t] = "running"
    /\ \E b \in Bodies : future' = [future EXCEPT ![t] = b]
    /\ UNCHANGED <<poolVars, submit, poolOf, attached, futures, results, getter>>

\* An exit leaves the callback and ends the thread that ran it: the worker,
\* or the thread that manages the processes.
Callback(t) ==
    /\ t \in attached /\ future[t] \in Resolved
    /\ attached' = attached \ {t}
    /\ OnComplete(t)
    /\ dead' = IF future[t] # "exit" THEN dead
               ELSE [dead EXCEPT ![poolOf[t]] = IF mode = "process" THEN MaxWorkers ELSE @ + 1]
    /\ UNCHANGED <<mode, running, pool, pools, stopping, stops, submit, poolOf, future, getter>>

\* A worker process dies: every future of its pool gets BrokenProcessPool.
WorkerCrash(p) ==
    /\ mode = "process" /\ pools[p] \in {"open", "shutdown"}
    /\ \E t \in Tasks : poolOf[t] = p /\ future[t] = "running"
    /\ pools' = [pools EXCEPT ![p] = "broken"]
    /\ future' = [t \in Tasks |-> IF poolOf[t] = p /\ future[t] \in {"pending", "running"}
                                  THEN "broken" ELSE future[t]]
    /\ UNCHANGED <<mode, running, pool, dead, stopping, stops, submit, poolOf, attached, futures,
                   results, getter>>

-----------------------------------------------------------------------------
(***************************************************************************)
(* stop(): the table under the lock, the pool outside of it.               *)
(***************************************************************************)
Stop ==
    /\ running /\ stops < MaxStops
    /\ stops' = stops + 1
    /\ stopping' = stopping \union ({pool} \ {0})
    /\ pool' = 0 /\ running' = FALSE
    /\ UNCHANGED <<mode, pools, dead, submit, poolOf, future, attached, futures, results, getter>>

Shutdown(p) ==
    /\ p \in stopping
    /\ stopping' = stopping \ {p}
    /\ pools' = IF pools[p] = "open" THEN [pools EXCEPT ![p] = "shutdown"] ELSE pools
    /\ UNCHANGED <<mode, running, pool, dead, stops, submit, poolOf, future, attached, futures,
                   results, getter>>

-----------------------------------------------------------------------------
(***************************************************************************)
(* result()                                                                *)
(***************************************************************************)
Gave(t, r) == getter' = [getter EXCEPT ![t] = r]

ResultCall(t) ==
    /\ getter[t] = "idle" /\ (submit[t] = "returned" \/ t \in Unknown)
    /\ Gave(t, "look")
    /\ UNCHANGED <<poolVars, submit, poolOf, future, attached, futures, results>>

\* Neither a result nor a future: sleep and look again.
ResultLook(t) ==
    /\ getter[t] = "look"
    /\ \/ results[t] # "none" /\ Gave(t, results[t])
       \/ results[t] = "none" /\ t \in futures /\ Gave(t, "wait")
    /\ UNCHANGED <<poolVars, submit, poolOf, future, attached, futures, results>>

ResultWait(t) ==
    /\ getter[t] = "wait" /\ future[t] \in Resolved
    /\ Gave(t, Status(future[t]))
    /\ UNCHANGED <<poolVars, submit, poolOf, future, attached, futures, results>>

\* With a timeout; without one, this step is not taken.
ResultTimeout(t) ==
    /\ \/ getter[t] = "wait" /\ future[t] \notin Resolved
       \/ getter[t] = "look" /\ results[t] = "none" /\ t \notin futures
    /\ Gave(t, "timeout")
    /\ UNCHANGED <<poolVars, submit, poolOf, future, attached, futures, results>>

Submit(t) == SubmitInline(t) \/ Start(t) \/ ReadPool(t) \/ PoolSubmit(t) \/ StoreFuture(t)
             \/ AddDoneCallback(t)
Worker(t) == WorkerTake(t) \/ WorkerEnd(t) \/ Callback(t)
Result(t) == ResultLook(t) \/ ResultWait(t)

Next ==
    \/ \E t \in Tasks \ Unknown : Submit(t) \/ Worker(t)
    \/ \E t \in Tasks : ResultCall(t) \/ Result(t) \/ ResultTimeout(t)
    \/ Stop
    \/ \E p \in Pools : Shutdown(p) \/ WorkerCrash(p)

Spec == Init /\ [][Next]_vars

\* Threads run and bodies end.  A pool serves its tasks in order, so each
\* is taken although others compete for the worker.
FairSpec ==
    /\ Spec
    /\ \A t \in Tasks \ Unknown :
        /\ WF_vars(submit[t] # "new" /\ Submit(t))
        /\ SF_vars(WorkerTake(t)) /\ WF_vars(Worker(t))

-----------------------------------------------------------------------------
\* Concurrent first submits never "each construct (and leak) their own pool"
\* (start): a pool that is open is the executor's or about to be shut down.
NoLeakedPool == {p \in Pools : pools[p] = "open"} \subseteq {pool} \union stopping

\* Once submit() has returned, the id is in exactly one of the two tables,
\* so result() never mistakes it for an unknown one and no future is kept.
\* An exit is the exception: nothing is ever stored for it.
OneTable ==
    \A t \in Tasks : submit[t] = "returned" /\ future[t] # "exit" =>
        (t \in futures <=> results[t] = "none")

\* Whichever path result() takes, the table or the future, it gives the
\* task's own outcome.
ResultAgrees ==
    \A t \in Tasks : future[t] # "none" =>
        /\ getter[t] \in {"completed", "failed", "reraised"} => getter[t] = Status(future[t])
        /\ results[t] # "none" => results[t] = Status(future[t])

\* A task that ended with SystemExit or KeyboardInterrupt: its callback
\* stores nothing and takes the worker with it.
Exited == \E u \in Tasks : future[u] = "exit"

\* A task the pool accepted gets a result, across stop(), a crash of a
\* worker and any number of other tasks, unless one of them exits.
AcceptedTasksEnd ==
    \A t \in Tasks : submit[t] = "queued" ~> (results[t] # "none" \/ Exited)
=============================================================================
