---------------------------- MODULE ThreadProofs ----------------------------
(***************************************************************************)
(* What the threads of one process share without losing count.  Executor:  *)
(* no pool is left open, an id is in one of the two tables, and result()   *)
(* gives the task's own outcome, for any number of tasks, workers and      *)
(* stops.  Dispatch: a node's counter is exact and its capacity is never   *)
(* overbooked, for any number of threads, nodes, dispatchers and fires.    *)
(* SharedState: no update() is lost, for any threads, keys, values and     *)
(* depth of nested calls, when no function changes the key it computes.    *)
(***************************************************************************)
EXTENDS Executor, Dispatch, SharedState, TLAPS

(* The pools *)

\* The executor has a pool only while it runs, and knows every open one.
PoolsInv ==
  /\ pools \in [Pools -> {"none", "open", "shutdown", "broken"}]
  /\ ~running => pool = 0
  /\ NoLeakedPool

\* 0 stands for no pool.
LEMMA PoolNumbers == 0 \notin Pools
  BY DEF Pools

\* Every step of the executor keeps PoolsInv.
LEMMA PoolsStep ==
  ASSUME PoolsInv, [Next]_vars
  PROVE  PoolsInv'
<1> USE DEF PoolsInv, NoLeakedPool
<1>1. CASE UNCHANGED <<running, pool, pools, stopping>>
  BY <1>1
<1>2. ASSUME NEW t \in Tasks, Start(t) PROVE PoolsInv'
  <2>1. CASE running
    BY <1>2, <2>1 DEF Start
  <2>2. CASE ~running
    <3>1. NewPool /\ running' = TRUE /\ stopping' = stopping /\ pool = 0
      BY <1>2, <2>2 DEF Start
    <3>2. PICK p : pools' = [pools EXCEPT ![p] = "open"] /\ pool' = p
      BY <3>1, Zenon DEF NewPool
    <3>3. pools' \in [Pools -> {"none", "open", "shutdown", "broken"}]
      BY <3>2, Zenon
    <3>4. \A q \in Pools : pools'[q] = "open" => q = p \/ pools[q] = "open"
      BY <3>2
    <3> QED
      BY <3>1, <3>2, <3>3, <3>4, PoolNumbers
  <2> QED
    BY <2>1, <2>2
<1>3. CASE Stop
  BY <1>3, PoolNumbers DEF Stop
<1>4. ASSUME NEW p \in Pools, Shutdown(p) PROVE PoolsInv'
  <2>1. /\ stopping' = stopping \ {p} /\ UNCHANGED <<running, pool>>
        /\ pools' = IF pools[p] = "open" THEN [pools EXCEPT ![p] = "shutdown"] ELSE pools
    BY <1>4 DEF Shutdown
  <2>2. pools' \in [Pools -> {"none", "open", "shutdown", "broken"}]
    BY <2>1
  <2>3. \A q \in Pools : pools'[q] = "open" => q # p /\ pools[q] = "open"
    BY <2>1
  <2> QED
    BY <2>1, <2>2, <2>3
<1>5. ASSUME NEW p \in Pools, WorkerCrash(p) PROVE PoolsInv'
  <2>1. pools' = [pools EXCEPT ![p] = "broken"] /\ UNCHANGED <<running, pool, stopping>>
    BY <1>5 DEF WorkerCrash
  <2>2. \A q \in Pools : pools'[q] = "open" => pools[q] = "open"
    BY <2>1
  <2> QED
    BY <2>1, <2>2
<1>6. CASE UNCHANGED vars
  BY <1>1, <1>6, Zenon DEF vars, poolVars
<1>7. ASSUME NEW t \in Tasks, Submit(t) \/ Worker(t) \/ ResultCall(t) \/ Result(t) \/ ResultTimeout(t)
      PROVE  PoolsInv'
  BY <1>1, <1>2, <1>7, Zenon DEF Submit, SubmitInline, ReadPool, PoolSubmit, StoreFuture, AddDoneCallback,
    Worker, WorkerTake, WorkerEnd, Callback, ResultCall, Result, ResultLook, ResultWait,
    ResultTimeout, poolVars
<1> QED
  BY <1>3, <1>4, <1>5, <1>6, <1>7 DEF Next

\* First submits and stops that race never leave a pool open that is neither
\* the executor's nor about to be shut down (Executor.start, stop).
THEOREM NoPoolLeaks == Spec => []NoLeakedPool
<1>1. Init => PoolsInv
  <2> SUFFICES ASSUME Init PROVE PoolsInv
    OBVIOUS
  <2> QED
    BY DEF Init, PoolsInv, NoLeakedPool
<1>2. PoolsInv /\ [Next]_vars => PoolsInv'
  BY PoolsStep
<1>3. PoolsInv => NoLeakedPool
  BY Zenon DEF PoolsInv
<1> QED
  BY <1>1, <1>2, <1>3, PTL DEF Spec

-----------------------------------------------------------------------------
(* The tables *)

\* Where a submit() may be, what a table may hold, what result() may give.
Submits == {"new", "started", "asserted", "pooled", "queued", "stored", "returned", "raised"}
Outcomes == {"completed", "failed"}
Given == {"completed", "failed", "reraised"}

\* The types of the tables and the calls.
TablesType ==
  /\ submit \in [Tasks -> Submits]
  /\ future \in [Tasks -> {"none", "pending", "running"} \cup Resolved]
  /\ results \in [Tasks -> {"none"} \cup Outcomes]
  /\ getter \in [Tasks -> {"idle", "look", "wait", "timeout"} \cup Given]
  /\ attached \subseteq Tasks /\ futures \subseteq Tasks

\* In neither table, in _futures alone, in _results alone.
Absent(t) == t \notin futures /\ results[t] = "none"
Kept(t) == t \in futures /\ results[t] = "none"
Settled(t) == t \notin futures /\ results[t] # "none"

\* Where a task is, by where its submit() is: a future that was resolved is
\* moved from one table to the other by whoever runs its callback.
Placed(t) ==
  /\ submit[t] \in {"new", "started", "asserted", "pooled"} =>
       future[t] = "none" /\ Absent(t) /\ t \notin attached
  /\ submit[t] = "queued" => future[t] # "none" /\ Absent(t) /\ t \notin attached
  /\ submit[t] = "stored" => future[t] # "none" /\ Kept(t) /\ t \notin attached
  /\ submit[t] = "raised" =>
       \/ future[t] = "none" /\ Absent(t) /\ t \notin attached
       \/ future[t] = "exit" /\ Kept(t) /\ t \notin attached
  /\ submit[t] = "returned" =>
       \/ future[t] = "none" /\ Settled(t) /\ t \notin attached
       \/ future[t] # "none" /\ Kept(t) /\ t \in attached
       \/ future[t] = "exit" /\ Kept(t) /\ t \notin attached
       \/ /\ future[t] \in Resolved \ {"exit"} /\ Settled(t) /\ t \notin attached
          /\ results[t] = Status(future[t])

\* Only an id that submit() returned, or made up, is asked for, and what was
\* given is the outcome.
Answered(t) ==
  /\ getter[t] # "idle" => submit[t] = "returned" \/ t \in Unknown
  /\ t \in Unknown => submit[t] = "new"
  /\ getter[t] \in Given /\ future[t] # "none" =>
       future[t] \in Resolved /\ getter[t] = Status(future[t])

TaskInv(t) == Placed(t) /\ Answered(t)
TablesInv == TablesType /\ \A t \in Tasks : TaskInv(t)

\* A step of one task leaves the others where they are.
Aside(u) ==
  /\ submit'[u] = submit[u] /\ future'[u] = future[u] /\ results'[u] = results[u]
  /\ getter'[u] = getter[u]
  /\ (u \in futures' <=> u \in futures) /\ (u \in attached' <=> u \in attached)

\* The invariant of a task that a step leaves alone.
LEMMA AsideKept ==
  ASSUME NEW u \in Tasks, TaskInv(u), Aside(u)
  PROVE  TaskInv(u)'
BY DEF TaskInv, Placed, Answered, Absent, Kept, Settled, Aside

\* A future that was resolved without an exit has an outcome to store.
LEMMA StatusGiven == \A f \in Resolved \ {"exit"} : Status(f) \in Outcomes /\ Status(f) # "none"
BY Zenon DEF Status, Resolved, Outcomes

\* submit() of one task.
LEMMA SubmitStep ==
  ASSUME TablesInv, NEW t \in Tasks \ Unknown, Submit(t)
  PROVE  TablesInv'
<1>0. TablesType /\ TaskInv(t) /\ \A u \in Tasks : TaskInv(u)
  BY DEF TablesInv
<1> SUFFICES TablesType' /\ TaskInv(t)' /\ \A u \in Tasks \ {t} : Aside(u)
  BY <1>0, AsideKept DEF TablesInv
<1> USE DEF TablesType, Goto
<1>1. CASE SubmitInline(t)
  <2>1. PICK b \in Bodies :
          /\ submit[t] = "new" /\ submit' = [submit EXCEPT ![t] = IF b = "exit" THEN "raised" ELSE "returned"]
          /\ results' = IF b = "exit" THEN results ELSE [results EXCEPT ![t] = b]
          /\ UNCHANGED <<future, attached, futures, getter>>
    BY <1>1, Zenon DEF SubmitInline
  <2>2. b \in {"completed", "failed", "exit"}
    BY ExecutorAssumption
  <2>3. TablesType' /\ \A u \in Tasks \ {t} : Aside(u)
    BY <1>0, <2>1, <2>2 DEF Submits, Outcomes, Aside
  <2>4. TaskInv(t)'
    BY <1>0, <2>1, <2>2 DEF TaskInv, Placed, Answered, Absent, Settled
  <2> QED
    BY <2>3, <2>4
<1>2. CASE Start(t) \/ ReadPool(t)
  <2>1. /\ submit[t] \in {"new", "started"}
        /\ \E to \in {"started", "asserted", "pooled"} : submit' = [submit EXCEPT ![t] = to]
        /\ UNCHANGED <<future, attached, futures, results, getter>>
    BY <1>2 DEF Start, ReadPool
  <2>2. TablesType' /\ \A u \in Tasks \ {t} : Aside(u)
    BY <1>0, <2>1 DEF Submits, Aside
  <2>3. TaskInv(t)'
    BY <1>0, <2>1 DEF TaskInv, Placed, Answered, Absent
  <2> QED
    BY <2>2, <2>3
<1>3. CASE PoolSubmit(t)
  <2>1. PICK accepted \in BOOLEAN :
          /\ submit[t] = "pooled" /\ submit' = [submit EXCEPT ![t] = IF accepted THEN "queued" ELSE "raised"]
          /\ future' = IF accepted THEN [future EXCEPT ![t] = "pending"] ELSE future
          /\ UNCHANGED <<attached, futures, results, getter>>
    BY <1>3, Zenon DEF PoolSubmit
  <2>2. TablesType' /\ \A u \in Tasks \ {t} : Aside(u)
    BY <1>0, <2>1 DEF Submits, Aside
  <2>3. getter[t] = "idle"
    BY <1>0, <2>1 DEF TaskInv, Answered
  <2>4. TaskInv(t)'
    BY <1>0, <2>1, <2>3 DEF TaskInv, Placed, Answered, Absent, Given
  <2> QED
    BY <2>2, <2>4
<1>4. CASE StoreFuture(t)
  <2>1. TablesType' /\ \A u \in Tasks \ {t} : Aside(u)
    BY <1>0, <1>4, Zenon DEF StoreFuture, Submits, Aside
  <2>2. TaskInv(t)'
    BY <1>0, <1>4 DEF StoreFuture, TaskInv, Placed, Answered, Absent, Kept
  <2> QED
    BY <2>1, <2>2
<1>5. CASE AddDoneCallback(t)
  <2>0. submit[t] = "stored" /\ UNCHANGED <<future, getter>> /\ Kept(t) /\ t \notin attached /\ future[t] # "none"
    BY <1>0, <1>5 DEF AddDoneCallback, TaskInv, Placed
  <2>1. CASE future[t] \notin Resolved
    <3>1. /\ submit' = [submit EXCEPT ![t] = "returned"]
          /\ attached' = attached \union {t} /\ UNCHANGED <<results, futures>>
      BY <1>5, <2>1 DEF AddDoneCallback
    <3>2. TablesType' /\ \A u \in Tasks \ {t} : Aside(u)
      BY <1>0, <2>0, <3>1, Zenon DEF Submits, Aside
    <3>3. TaskInv(t)'
      BY <1>0, <2>0, <3>1, Zenon DEF TaskInv, Placed, Answered, Kept
    <3> QED
      BY <3>2, <3>3
  <2>2. CASE future[t] = "exit"
    <3>1. submit' = [submit EXCEPT ![t] = "raised"] /\ UNCHANGED <<results, futures, attached>>
      BY <1>5, <2>2 DEF AddDoneCallback, OnComplete, Resolved
    <3>2. TablesType' /\ \A u \in Tasks \ {t} : Aside(u)
      BY <1>0, <2>0, <3>1, Zenon DEF Submits, Aside
    <3>3. TaskInv(t)'
      BY <1>0, <2>0, <2>2, <3>1 DEF TaskInv, Placed, Answered, Kept
    <3> QED
      BY <3>2, <3>3
  <2>3. CASE future[t] \in Resolved \ {"exit"}
    <3>1. /\ submit' = [submit EXCEPT ![t] = "returned"] /\ UNCHANGED attached
          /\ results' = [results EXCEPT ![t] = Status(future[t])] /\ futures' = futures \ {t}
      BY <1>5, <2>3 DEF AddDoneCallback, OnComplete
    <3>2. Status(future[t]) \in Outcomes /\ Status(future[t]) # "none"
      BY <2>3, StatusGiven, Zenon
    <3>3. TablesType' /\ \A u \in Tasks \ {t} : Aside(u)
      BY <1>0, <2>0, <3>1, <3>2, Zenon DEF Submits, Aside
    <3>4. results'[t] = Status(future'[t]) /\ Settled(t)'
      BY <1>0, <2>0, <3>1, <3>2, Zenon DEF Settled
    <3>5. TaskInv(t)'
      BY <1>0, <2>0, <2>3, <3>1, <3>4, Zenon DEF TaskInv, Placed, Answered
    <3> QED
      BY <3>3, <3>5
  <2> QED
    BY <2>1, <2>2, <2>3, Zenon
<1> QED
  BY <1>1, <1>2, <1>3, <1>4, <1>5 DEF Submit

\* The worker of one task, the done callback included.
LEMMA WorkerStep ==
  ASSUME TablesInv, NEW t \in Tasks, Worker(t)
  PROVE  TablesInv'
<1>0. TablesType /\ TaskInv(t) /\ \A u \in Tasks : TaskInv(u)
  BY DEF TablesInv
<1> SUFFICES TablesType' /\ TaskInv(t)' /\ \A u \in Tasks \ {t} : Aside(u)
  BY <1>0, AsideKept DEF TablesInv
<1> USE DEF TablesType
<1>1. CASE WorkerTake(t) \/ WorkerEnd(t)
  <2>1. PICK f \in {"running"} \cup Bodies :
          /\ future[t] \in {"pending", "running"} /\ future' = [future EXCEPT ![t] = f]
          /\ UNCHANGED <<submit, attached, futures, results, getter>>
    BY <1>1, Zenon DEF WorkerTake, WorkerEnd
  <2>2. f \in {"running", "completed", "failed", "exit"}
    BY <2>1, ExecutorAssumption
  <2>3. TablesType' /\ \A u \in Tasks \ {t} : Aside(u)
    BY <1>0, <2>1, <2>2 DEF Resolved, Aside
  <2>4. getter[t] \notin Given
    BY <1>0, <2>1 DEF TaskInv, Answered, Resolved
  <2>5. Placed(t)'
    BY <1>0, <2>1, <2>2 DEF TaskInv, Placed, Absent, Kept, Settled, Resolved
  <2>6. Answered(t)'
    BY <1>0, <2>1, <2>4, Zenon DEF TaskInv, Answered
  <2> QED
    BY <2>3, <2>5, <2>6, Zenon DEF TaskInv
<1>2. CASE Callback(t)
  <2>0. /\ t \in attached /\ future[t] \in Resolved /\ attached' = attached \ {t} /\ OnComplete(t)
        /\ UNCHANGED <<submit, future, getter>>
    BY <1>2, Zenon DEF Callback
  <2>1. submit[t] = "returned" /\ Kept(t)
    BY <1>0, <2>0 DEF TaskInv, Placed, Submits
  <2>2. CASE future[t] = "exit"
    <3>1. UNCHANGED <<results, futures>>
      BY <2>0, <2>2 DEF OnComplete
    <3>2. TablesType' /\ \A u \in Tasks \ {t} : Aside(u)
      BY <1>0, <2>0, <3>1, Zenon DEF Aside
    <3>3. TaskInv(t)'
      BY <1>0, <2>0, <2>1, <2>2, <3>1, Zenon DEF TaskInv, Placed, Answered, Kept
    <3> QED
      BY <3>2, <3>3
  <2>3. CASE future[t] # "exit"
    <3>1. results' = [results EXCEPT ![t] = Status(future[t])] /\ futures' = futures \ {t}
      BY <2>0, <2>3, Zenon DEF OnComplete
    <3>2. Status(future[t]) \in Outcomes /\ Status(future[t]) # "none"
      BY <2>0, <2>3, StatusGiven, Zenon
    <3>3. TablesType' /\ \A u \in Tasks \ {t} : Aside(u)
      BY <1>0, <2>0, <3>1, <3>2 DEF Aside
    <3>4. results'[t] = Status(future'[t]) /\ Settled(t)'
      BY <1>0, <2>0, <3>1, <3>2, Zenon DEF Settled
    <3>5. TaskInv(t)'
      BY <1>0, <2>0, <2>1, <2>3, <3>4 DEF TaskInv, Placed, Answered
    <3> QED
      BY <3>3, <3>5
  <2> QED
    BY <2>2, <2>3, Zenon
<1> QED
  BY <1>1, <1>2 DEF Worker

\* A worker process that dies resolves the futures of its pool that were
\* pending or running; their callbacks have not run.
LEMMA CrashStep ==
  ASSUME TablesInv, NEW p \in Pools, WorkerCrash(p)
  PROVE  TablesInv'
<1>0. TablesType /\ \A u \in Tasks : TaskInv(u)
  BY Zenon DEF TablesInv
<1>1. /\ future' = [u \in Tasks |-> IF poolOf[u] = p /\ future[u] \in {"pending", "running"}
                                    THEN "broken" ELSE future[u]]
      /\ UNCHANGED <<submit, attached, futures, results, getter>>
  BY Zenon DEF WorkerCrash
<1>2. TablesType'
  BY <1>0, <1>1, Zenon DEF TablesType, Resolved
<1>3. ASSUME NEW u \in Tasks PROVE TaskInv(u)'
  <2>1. CASE future'[u] = future[u]
    <3>1. Aside(u)
      BY <1>1, <2>1 DEF Aside
    <3> QED
      BY <1>0, <3>1, AsideKept
  <2>2. CASE future[u] \in {"pending", "running"} /\ future'[u] = "broken"
    <3>1. getter[u] \notin Given
      BY <1>0, <2>2, Zenon DEF TaskInv, Answered, Resolved
    <3>2. Placed(u)'
      BY <1>0, <1>1, <2>2, Zenon DEF TaskInv, Placed, Absent, Kept, Settled, Resolved
    <3>3. Answered(u)'
      BY <1>0, <1>1, <2>2, <3>1 DEF TaskInv, Answered
    <3> QED
      BY <3>2, <3>3, Zenon DEF TaskInv
  <2> QED
    BY <1>1, <2>1, <2>2
<1> QED
  BY <1>2, <1>3 DEF TablesInv

\* result() reads the tables and waits for the future outside of the lock,
\* while the callback moves the task from one table to the other.
LEMMA ResultStep ==
  ASSUME TablesInv, NEW t \in Tasks, ResultCall(t) \/ Result(t) \/ ResultTimeout(t)
  PROVE  TablesInv'
<1>0. TablesType /\ TaskInv(t) /\ \A u \in Tasks : TaskInv(u)
  BY Zenon DEF TablesInv
<1>1. UNCHANGED <<submit, future, attached, futures, results>>
  BY Zenon DEF ResultCall, Result, ResultLook, ResultWait, ResultTimeout
<1>2. PICK r : getter' = [getter EXCEPT ![t] = r] /\
        \/ r = "look" /\ (submit[t] = "returned" \/ t \in Unknown)
        \/ r \in {"wait", "timeout"} /\ getter[t] # "idle"
        \/ r = results[t] /\ r # "none" /\ getter[t] # "idle"
        \/ r = Status(future[t]) /\ future[t] \in Resolved /\ getter[t] # "idle"
  BY DEF ResultCall, Result, ResultLook, ResultWait, ResultTimeout, Gave
<1>3. r \in {"look", "wait", "timeout"} \cup Given
  BY <1>0, <1>2, Zenon DEF TablesType, Outcomes, Given, Status, Resolved
<1>4. TablesType' /\ getter'[t] = r /\ \A u \in Tasks \ {t} : Aside(u)
  BY <1>0, <1>1, <1>2, <1>3, Zenon DEF TablesType, Aside
<1>5. Placed(t)'
  BY <1>0, <1>1, Zenon DEF TaskInv, Placed, Absent, Kept, Settled
<1>6. submit[t] = "returned" \/ t \in Unknown
  BY <1>0, <1>2, Zenon DEF TaskInv, Answered
<1>7. ASSUME r \in Given, future[t] # "none" PROVE future[t] \in Resolved /\ r = Status(future[t])
  <2>1. CASE r = results[t] /\ r # "none"
    BY <1>0, <1>6, <1>7, <2>1, Zenon DEF TaskInv, Answered, Placed, Absent, Kept, Settled
  <2> QED
    BY <1>2, <1>7, <2>1, Zenon DEF Given
<1>8. Answered(t)'
  BY <1>0, <1>1, <1>4, <1>6, <1>7 DEF TaskInv, Answered
<1> QED
  BY <1>0, <1>4, <1>5, <1>8, AsideKept DEF TablesInv, TaskInv

\* TablesInv holds: the induction of the two theorems below.
THEOREM TablesInvariant == Spec => []TablesInv
<1>1. Init => TablesInv
  <2> SUFFICES ASSUME Init PROVE TablesInv
    OBVIOUS
  <2>1. TablesType
    BY DEF Init, TablesType, Submits
  <2>2. \A t \in Tasks : TaskInv(t)
    BY DEF Init, TaskInv, Placed, Answered, Absent, Given
  <2> QED
    BY <2>1, <2>2 DEF TablesInv
<1>2. TablesInv /\ [Next]_vars => TablesInv'
  <2> SUFFICES ASSUME TablesInv, [Next]_vars PROVE TablesInv'
    OBVIOUS
  <2>1. CASE UNCHANGED <<submit, future, attached, futures, results, getter>>
    BY <2>1 DEF TablesInv, TablesType, TaskInv, Placed, Answered, Absent, Kept, Settled
  <2>2. ASSUME Stop \/ (\E p \in Pools : Shutdown(p)) \/ UNCHANGED vars PROVE TablesInv'
    BY <2>1, <2>2 DEF Stop, Shutdown, vars
  <2> QED
    BY <2>2, SubmitStep, WorkerStep, CrashStep, ResultStep, Zenon DEF Next
<1> QED
  BY <1>1, <1>2, PTL DEF Spec

\* Once submit() has returned, the id is in exactly one of _futures and
\* _results, whoever ran the done callback, the worker or add_done_callback
\* itself, and whatever stop() and crashes did meanwhile.
THEOREM IdsInOneTable == Spec => []OneTable
<1>1. TablesInv => OneTable
  <2> SUFFICES ASSUME TablesInv, NEW t \in Tasks, submit[t] = "returned", future[t] # "exit"
               PROVE  t \in futures <=> results[t] = "none"
    BY Zenon DEF OneTable
  <2>1. Placed(t)
    BY Zenon DEF TablesInv, TaskInv
  <2> QED
    BY <2>1, Zenon DEF Placed, Kept, Settled
<1> QED
  BY <1>1, TablesInvariant, PTL

\* result() gives the task's own outcome, whether it finds it in the table or
\* waits for the future, and _results never holds another one.
THEOREM ResultsAreOwn == Spec => []ResultAgrees
<1>1. TablesInv => ResultAgrees
  <2> SUFFICES ASSUME TablesInv, NEW t \in Tasks, future[t] # "none"
               PROVE  /\ getter[t] \in Given => getter[t] = Status(future[t])
                      /\ results[t] # "none" => results[t] = Status(future[t])
    BY DEF ResultAgrees, Given
  <2>1. Placed(t) /\ Answered(t) /\ submit[t] \in Submits
    BY Zenon DEF TablesInv, TablesType, TaskInv
  <2>2. results[t] # "none" => results[t] = Status(future[t])
    BY <2>1, Zenon DEF Placed, Absent, Kept, Settled, Submits
  <2> QED
    BY <2>1, <2>2, Zenon DEF Answered
<1> QED
  BY <1>1, TablesInvariant, PTL

-----------------------------------------------------------------------------
(***************************************************************************)
(* The dictionary of a SharedState.                                        *)
(***************************************************************************)
\* What the dictionary holds, and a call of update() in progress.
Stored == Int \cup {Missing}
Frame == [key : Keys, old : Stored]

\* One thread at most is inside update(), no two of its calls are for the same
\* key, and what they read is still there.
StackOf(t) ==
  /\ \A i, j \in DOMAIN stack[t] : i # j => stack[t][i].key # stack[t][j].key
  /\ \A i \in DOMAIN stack[t] : stack[t][i].old = data[stack[t][i].key]
StateInv ==
  /\ data \in [Keys -> Stored]
  /\ stack \in [Users -> Seq(Frame)]
  /\ \A t, u \in Users : t # u => stack[t] = <<>> \/ stack[u] = <<>>
  /\ \A t \in Users : StackOf(t)
  /\ UpdatesAtomic

\* A stack of calls with a new one on top.
Push(x, s) == <<x>> \o s

LEMMA Prepended ==
  ASSUME NEW s \in Seq(Frame), NEW x \in Frame
  PROVE  /\ Push(x, s) \in Seq(Frame) /\ DOMAIN Push(x, s) = 1..(Len(s) + 1)
         /\ Push(x, s)[1] = x
         /\ \A i \in 2..(Len(s) + 1) : i - 1 \in DOMAIN s /\ Push(x, s)[i] = s[i - 1]
  BY DEF Push

\* The types that the invariant gives for one thread's calls of update().
LEMMA StateTypes ==
  ASSUME StateInv, NEW t \in Users
  PROVE  /\ stack[t] \in Seq(Frame) /\ Len(stack[t]) \in Nat
         /\ DOMAIN stack[t] = 1..Len(stack[t])
         /\ \A i \in DOMAIN stack[t] : stack[t][i] \in Frame
  BY DEF StateInv

\* set(), delete() and clear() of keys that no function is computing.
LEMMA ChangeStep ==
  ASSUME StateInv, UNCHANGED stack, data' \in [Keys -> Stored], expected' = data',
         NEW t \in Users, MayLock(t), NEW ks \in SUBSET Keys, \A k \in ks : ~Computing(t, k),
         \A k \in Keys \ ks : data'[k] = data[k]
  PROVE  StateInv'
<1>1. ASSUME NEW u \in Users PROVE StackOf(u)'
  <2>1. CASE u # t
    BY <2>1 DEF MayLock, StackOf
  <2>2. CASE u = t
    <3>1. \A i \in DOMAIN stack[t] : stack[t][i].key \in Keys \ ks
      BY StateTypes, Zenon DEF Computing, Frame
    <3> QED
      BY <2>2, <3>1 DEF StateInv, StackOf
  <2> QED
    BY <2>1, <2>2, Zenon
<1> QED
  BY <1>1 DEF StateInv, UpdatesAtomic

\* update() enters: one frame more, for a key that was not being computed.
LEMMA ReadStep ==
  ASSUME StateInv, ~SameKey, NEW t \in Users, NEW k \in Keys, UpdateRead(t, k)
  PROVE  StateInv'
<1>1. PICK f \in Frame : f.key = k /\ f.old = data[k] /\ f = [key |-> k, old |-> data[k]]
  BY Zenon DEF StateInv, Frame
<1>2. /\ stack' = [stack EXCEPT ![t] = Push(f, stack[t])]
      /\ UNCHANGED <<data, expected>> /\ MayLock(t) /\ ~Computing(t, k)
  BY <1>1 DEF UpdateRead, Calls, Push
<1>3. /\ stack'[t] = Push(f, stack[t])
      /\ \A u \in Users \ {t} : stack'[u] = stack[u] /\ stack[u] = <<>>
  BY <1>2 DEF StateInv, MayLock
<1>4. /\ stack'[t] \in Seq(Frame) /\ DOMAIN stack'[t] = 1..(Len(stack[t]) + 1)
      /\ stack'[t][1] = f
      /\ \A i \in 2..(Len(stack[t]) + 1) : i - 1 \in DOMAIN stack[t] /\ stack'[t][i] = stack[t][i - 1]
  <2>1. stack[t] \in Seq(Frame)
    BY StateTypes, Zenon
  <2>2. /\ Push(f, stack[t]) \in Seq(Frame) /\ DOMAIN Push(f, stack[t]) = 1..(Len(stack[t]) + 1)
        /\ Push(f, stack[t])[1] = f
        /\ \A i \in 2..(Len(stack[t]) + 1) : i - 1 \in DOMAIN stack[t] /\ Push(f, stack[t])[i] = stack[t][i - 1]
    <3>1. f \in Frame
      BY <1>1
    <3> QED
      BY ONLY <2>1, <3>1, Prepended, Zenon
  <2> QED
    BY <1>3, <2>2, Zenon
<1>5. \A i \in DOMAIN stack[t] : stack[t][i].key # k
  BY <1>2, Zenon DEF Computing
<1>6. ASSUME NEW i \in DOMAIN stack'[t], i # 1
      PROVE  i \in 2..(Len(stack[t]) + 1) /\ i - 1 \in DOMAIN stack[t] /\ stack'[t][i] = stack[t][i - 1]
  <2>1. Len(stack[t]) \in Nat
    BY StateTypes, Zenon
  <2>2. \A n \in Nat : \A l \in 1..(n + 1) : l # 1 => l \in 2..(n + 1)
    OBVIOUS
  <2>3. i \in 2..(Len(stack[t]) + 1)
    BY <1>4, <1>6, <2>1, <2>2, Zenon
  <2> QED
    BY <1>4, <2>3, Zenon
<1>7. ASSUME NEW i \in DOMAIN stack'[t] PROVE stack'[t][i].old = data'[stack'[t][i].key]
  <2>1. CASE i = 1
    BY <1>1, <1>2, <1>4, <2>1, Zenon
  <2>2. CASE i # 1
    BY <1>2, <1>6, <2>2, Zenon DEF StateInv, StackOf
  <2> QED
    BY <2>1, <2>2, Zenon
<1>8. ASSUME NEW i \in DOMAIN stack'[t], NEW j \in DOMAIN stack'[t], i # j
      PROVE  stack'[t][i].key # stack'[t][j].key
  <2>1. CASE i = 1
    BY <1>1, <1>4, <1>5, <1>6, <1>8, <2>1, Zenon
  <2>2. CASE j = 1
    BY <1>1, <1>4, <1>5, <1>6, <1>8, <2>2, Zenon
  <2>3. CASE i # 1 /\ j # 1
    <3>1. \A n : \A p, q \in 2..n : p # q => p - 1 # q - 1
      OBVIOUS
    <3>2. /\ i - 1 \in DOMAIN stack[t] /\ stack'[t][i] = stack[t][i - 1]
          /\ j - 1 \in DOMAIN stack[t] /\ stack'[t][j] = stack[t][j - 1]
          /\ i - 1 # j - 1
      BY <1>6, <1>8, <2>3, <3>1, Zenon
    <3>3. StackOf(t)
      BY Zenon DEF StateInv
    <3> QED
      BY <3>2, <3>3, Zenon DEF StackOf
  <2> QED
    BY <2>1, <2>2, <2>3, Zenon
<1>9. ASSUME NEW u \in Users PROVE StackOf(u)'
  <2>1. CASE u = t
    BY <1>7, <1>8, <2>1, Zenon DEF StackOf
  <2>2. CASE u # t
    BY <1>3, <2>2 DEF StackOf
  <2> QED
    BY <2>1, <2>2
<1> QED
  BY <1>2, <1>3, <1>4, <1>9, Zenon DEF StateInv, UpdatesAtomic

\* update() leaves: the innermost frame goes, and the key it was for may change,
\* since no other frame is for that key.
LEMMA LeaveStep ==
  ASSUME StateInv, NEW t \in Users, stack[t] # <<>>,
         stack' = [stack EXCEPT ![t] = Tail(@)],
         data' \in [Keys -> Stored], expected' = data',
         \A k \in Keys : k # Head(stack[t]).key => data'[k] = data[k]
  PROVE  StateInv'
<1>1. /\ stack'[t] = Tail(stack[t]) /\ stack'[t] \in Seq(Frame)
      /\ DOMAIN stack'[t] = 1..(Len(stack[t]) - 1)
      /\ \A i \in DOMAIN stack'[t] : i + 1 \in DOMAIN stack[t] /\ stack'[t][i] = stack[t][i + 1]
      /\ 1 \in DOMAIN stack[t] /\ Head(stack[t]) = stack[t][1]
  BY StateTypes DEF StateInv
<1>2. \A u \in Users \ {t} : stack'[u] = stack[u] /\ stack[u] = <<>>
  BY Zenon DEF StateInv
<1>3. ASSUME NEW i \in DOMAIN stack'[t] PROVE stack'[t][i].old = data'[stack'[t][i].key]
  <2>1. i + 1 # 1 /\ i + 1 \in DOMAIN stack[t] /\ stack[t][i + 1] \in Frame
    BY <1>1, StateTypes
  <2>2. stack[t][i + 1].key # stack[t][1].key /\ stack[t][i + 1].old = data[stack[t][i + 1].key]
    BY <1>1, <2>1, Zenon DEF StateInv, StackOf
  <2>3. stack[t][i + 1].key \in Keys
    BY <2>1, Zenon DEF Frame
  <2> QED
    BY <1>1, <2>2, <2>3, Zenon
<1>4. ASSUME NEW i \in DOMAIN stack'[t], NEW j \in DOMAIN stack'[t], i # j
      PROVE  stack'[t][i].key # stack'[t][j].key
  <2>1. i + 1 # j + 1 /\ i + 1 \in DOMAIN stack[t] /\ j + 1 \in DOMAIN stack[t]
    BY <1>1, <1>4, StateTypes
  <2> QED
    BY <1>1, <2>1 DEF StateInv, StackOf
<1>5. \A u \in Users : StackOf(u)'
  BY <1>2, <1>3, <1>4 DEF StackOf
<1> QED
  BY <1>1, <1>2, <1>5, Zenon DEF StateInv, UpdatesAtomic

\* No update is lost, whatever threads, keys and functions there are, as long as
\* no function changes the key it computes (SharedState.update under its lock).
THEOREM NoUpdateLost == ASSUME ~SameKey PROVE StateSpec => []UpdatesAtomic
<1>1. StateInit => StateInv
  BY DEF StateInit, StateInv, StackOf, UpdatesAtomic, Stored
<1>2. StateInv /\ [StateNext]_stateVars => StateInv'
  <2> SUFFICES ASSUME StateInv, [StateNext]_stateVars PROVE StateInv'
    OBVIOUS
  <2>0. data \in [Keys -> Stored] /\ expected = data
    BY Zenon DEF StateInv, UpdatesAtomic
  <2>1. CASE UNCHANGED stateVars
    BY <2>1 DEF stateVars, StateInv, StackOf, UpdatesAtomic
  <2>2. ASSUME NEW t \in Users, NEW k \in Keys, Set(t, k) \/ Delete(t, k) PROVE StateInv'
    <3>1. /\ UNCHANGED stack /\ MayLock(t) /\ ~Computing(t, k)
          /\ \E v \in Stored : data' = [data EXCEPT ![k] = v] /\ expected' = [expected EXCEPT ![k] = v]
      BY <2>2, StateAssumption, Zenon DEF Set, Delete, Calls, Stored
    <3>2. /\ data' \in [Keys -> Stored] /\ expected' = data'
          /\ \A l \in Keys \ {k} : data'[l] = data[l]
      BY <2>0, <3>1
    <3>3. {k} \in SUBSET Keys /\ \A l \in {k} : ~Computing(t, l)
      BY <3>1, Zenon
    <3> QED
      BY <3>1, <3>2, <3>3, ChangeStep, Zenon
  <2>3. ASSUME NEW t \in Users, Clear(t) PROVE StateInv'
    <3>1. /\ UNCHANGED stack /\ MayLock(t) /\ \A k \in Keys : ~Computing(t, k)
          /\ data' \in [Keys -> Stored] /\ expected' = data'
      BY <2>3 DEF Clear, Calls, Stored
    <3> QED
      BY <3>1, ChangeStep
  <2>4. ASSUME NEW t \in Users, NEW k \in Keys, UpdateRead(t, k) PROVE StateInv'
    BY <2>4, ReadStep, Zenon
  <2>5. ASSUME NEW t \in Users, UpdateWrite(t) \/ UpdateRaise(t) PROVE StateInv'
    <3>1. stack[t] # <<>> /\ stack' = [stack EXCEPT ![t] = Tail(@)]
      BY <2>5 DEF UpdateWrite, UpdateRaise
    <3>2. 1 \in DOMAIN stack[t] /\ Head(stack[t]) = stack[t][1] /\ stack[t][1] \in Frame
      BY <3>1, StateTypes
    <3>3. PICK f \in Frame : f = Head(stack[t])
      BY <3>2, Zenon
    <3>4. f.key \in Keys /\ f.old \in Stored /\ f.old = data[f.key]
      BY <3>2, <3>3 DEF StateInv, StackOf, Frame
    <3>5. Increment(f.old) \in Stored
      BY <3>4, StateAssumption DEF Increment, Stored
    <3>6. /\ data' \in [Keys -> Stored] /\ expected' = data'
          /\ \A k \in Keys : k # f.key => data'[k] = data[k]
      <4>1. CASE UpdateRaise(t)
        BY <2>0, <4>1, Zenon DEF UpdateRaise
      <4>2. CASE UpdateWrite(t)
        <5>1. /\ data' = [data EXCEPT ![f.key] = Increment(f.old)]
              /\ expected' = [expected EXCEPT ![f.key] = Increment(expected[f.key])]
          BY <3>3, <4>2 DEF UpdateWrite
        <5> QED
          BY <2>0, <3>4, <3>5, <5>1, Zenon
      <4> QED
        BY <2>5, <4>1, <4>2, Zenon
    <3> QED
      BY <3>1, <3>3, <3>6, LeaveStep, Zenon
  <2> QED
    BY <2>1, <2>2, <2>3, <2>4, <2>5, Zenon DEF StateNext
<1>3. StateInv => UpdatesAtomic
  BY DEF StateInv
<1> QED
  BY <1>1, <1>2, <1>3, PTL DEF StateSpec
-----------------------------------------------------------------------------
(***************************************************************************)
(* The nodes that dispatchers choose from (Dispatch).                      *)
(***************************************************************************)
InCall == {"handler", "plain"}

\* The inductive invariant: a reserved slot is a node's; counters are exact; the
\* reservations of a node are within its capacity.
NodeInv ==
  /\ inFlight \in [Nodes -> Nat]
  /\ pc \in [Threads -> States] /\ DOMAIN chosen = Threads
  /\ \A t \in Threads : pc[t] = "handler" => chosen[t] \in Nodes
  /\ InFlightAccurate
  /\ WithinCapacity

\* The facts about finite sets and their cardinality.
INSTANCE FiniteSetTheorems

\* The calls on a node are finitely many, and the reservations are among them.
LEMMA CallsFinite ==
  ASSUME NEW n
  PROVE  /\ IsFiniteSet(Running(n)) /\ Cardinality(Running(n)) \in Nat
         /\ IsFiniteSet(Reserved(n)) /\ Cardinality(Reserved(n)) \in Nat
         /\ Cardinality(Reserved(n)) <= Cardinality(Running(n))
<1>1. Running(n) \in SUBSET Threads
  BY DEF Running
<1>2. IsFiniteSet(Running(n)) /\ Cardinality(Running(n)) \in Nat
  BY <1>1, DispatchAssumption, FS_Subset, FS_CardinalityType, Zenon
<1>3. Reserved(n) \in SUBSET Running(n)
  BY DEF Reserved, Running
<1> HIDE DEF Reserved, Running
<1>4. /\ IsFiniteSet(Reserved(n))
      /\ Cardinality(Reserved(n)) <= Cardinality(Running(n))
  BY <1>2, <1>3, FS_Subset, Zenon
<1> QED
  BY <1>2, <1>4, FS_CardinalityType, Zenon

\* A step of thread t leaves the others alone.
OnlyMoves(t) ==
  /\ pc' \in [Threads -> States] /\ DOMAIN chosen' = Threads
  /\ \A u \in Threads \ {t} : pc'[u] = pc[u] /\ chosen'[u] = chosen[u]

\* Thread t begins to run node n, by a reservation or without.
LEMMA Begins ==
  ASSUME NodeInv, NEW t \in Threads, NEW n \in Nodes, OnlyMoves(t),
         pc[t] \notin InCall, pc'[t] \in InCall, chosen'[t] = n,
         inFlight' = [inFlight EXCEPT ![n] = @ + 1],
         pc'[t] = "handler" => ~Full(n)
  PROVE  NodeInv'
<1>1. Running(n)' = Running(n) \cup {t} /\ t \notin Running(n)
  BY Zenon DEF Running, OnlyMoves, InCall
<1>2. \A m \in Nodes \ {n} : Running(m)' = Running(m) /\ Reserved(m)' = Reserved(m)
  BY Zenon DEF Running, Reserved, OnlyMoves, InCall
<1>3. \/ Reserved(n)' = Reserved(n)
      \/ /\ Reserved(n)' = Reserved(n) \cup {t} /\ t \notin Reserved(n)
         /\ ~Full(n)
  BY Zenon DEF Reserved, OnlyMoves, InCall
<1>4. /\ inFlight \in [Nodes -> Nat] /\ inFlight' \in [Nodes -> Nat]
      /\ \A m \in Nodes : inFlight[m] = Cardinality(Running(m))
      /\ \A m \in Nodes : Cardinality(Reserved(m)) <= Capacity[m]
      /\ inFlight'[n] = inFlight[n] + 1
      /\ \A m \in Nodes \ {n} : inFlight'[m] = inFlight[m]
  BY DEF NodeInv, InFlightAccurate, WithinCapacity
<1>5. Capacity \in [Nodes -> Nat]
  BY DispatchAssumption, Zenon
<1>6. \A u \in Threads : pc'[u] = "handler" => chosen'[u] \in Nodes
  BY Zenon DEF NodeInv, OnlyMoves
<1> HIDE DEF Running, Reserved
<1>7. InFlightAccurate'
  <2>1. Cardinality(Running(n) \cup {t}) = Cardinality(Running(n)) + 1
    BY <1>1, CallsFinite, FS_AddElement, Zenon
  <2>2. inFlight'[n] = Cardinality(Running(n)')
    BY <1>1, <1>4, <2>1
  <2>3. \A m \in Nodes \ {n} : inFlight'[m] = Cardinality(Running(m)')
    BY <1>2, <1>4
  <2> QED
    BY <2>2, <2>3, Zenon DEF InFlightAccurate
<1>8. WithinCapacity'
  <2>1. Cardinality(Reserved(n)') <= Capacity[n]
    <3>1. CASE Reserved(n)' = Reserved(n)
      BY <1>4, <3>1, Zenon
    <3>2. CASE Reserved(n)' = Reserved(n) \cup {t} /\ t \notin Reserved(n) /\ ~Full(n)
      <4>1. Cardinality(Reserved(n) \cup {t}) = Cardinality(Reserved(n)) + 1
        BY <3>2, CallsFinite, FS_AddElement, Zenon
      <4>2. Cardinality(Reserved(n)) <= inFlight[n] /\ Cardinality(Reserved(n)) \in Nat
        BY <1>4, CallsFinite
      <4>3. inFlight[n] < Capacity[n]
        BY <1>4, <1>5, <3>2 DEF Full
      <4> QED
        BY <1>4, <1>5, <3>2, <4>1, <4>2, <4>3
    <3> QED
      BY <1>3, <3>1, <3>2, Zenon
  <2>2. \A m \in Nodes : Cardinality(Reserved(m)') <= Capacity[m]
    BY <1>2, <1>4, <2>1, Zenon
  <2> QED
    BY <2>2, Zenon DEF WithinCapacity
<1> QED
  BY <1>4, <1>6, <1>7, <1>8, Zenon DEF NodeInv, OnlyMoves

\* Thread t is through with the node it ran.
LEMMA LeavesNode ==
  ASSUME NodeInv, NEW t \in Threads, NEW n \in Nodes, OnlyMoves(t),
         pc[t] \in InCall, pc'[t] \notin InCall, chosen[t] = n,
         \/ inFlight' = [inFlight EXCEPT ![n] = IF @ > 0 THEN @ - 1 ELSE 0]
         \/ inFlight' = [inFlight EXCEPT ![n] = @ - 1]
  PROVE  NodeInv'
<1>1. Running(n)' = Running(n) \ {t} /\ t \in Running(n)
  BY Zenon DEF Running, OnlyMoves, InCall
<1>2. \A m \in Nodes \ {n} : Running(m)' = Running(m)
  BY Zenon DEF Running, OnlyMoves, InCall
<1>3. \A m \in Nodes : Reserved(m)' \in SUBSET Reserved(m)
  BY DEF Reserved, OnlyMoves, InCall
<1>4. \A u \in Threads : pc'[u] = "handler" => chosen'[u] \in Nodes
  BY Zenon DEF NodeInv, OnlyMoves, InCall
<1>5. /\ inFlight \in [Nodes -> Nat] /\ n \in Nodes
      /\ \A m \in Nodes : inFlight[m] = Cardinality(Running(m))
      /\ \A m \in Nodes : Cardinality(Reserved(m)) <= Capacity[m]
  BY Zenon DEF NodeInv, InFlightAccurate, WithinCapacity
<1> HIDE DEF Running, Reserved
<1>6. Cardinality(Running(n) \ {t}) = Cardinality(Running(n)) - 1 /\ Cardinality(Running(n)) > 0
  <2>1. Cardinality(Running(n) \ {t}) = Cardinality(Running(n)) - 1
    BY <1>1, CallsFinite, FS_RemoveElement, Zenon
  <2>2. Cardinality(Running(n)) # 0
    BY <1>1, CallsFinite, FS_EmptySet
  <2> QED
    BY <2>1, <2>2, CallsFinite
<1>7. /\ inFlight' \in [Nodes -> Nat]
      /\ inFlight'[n] = inFlight[n] - 1
      /\ \A m \in Nodes \ {n} : inFlight'[m] = inFlight[m]
  BY <1>5, <1>6
<1>8. \A m \in Nodes : inFlight'[m] = Cardinality(Running(m)')
  <2>1. inFlight'[n] = Cardinality(Running(n)')
    BY <1>1, <1>5, <1>6, <1>7, Zenon
  <2>2. \A m \in Nodes \ {n} : inFlight'[m] = Cardinality(Running(m)')
    BY <1>2, <1>5, <1>7, Zenon
  <2> QED
    BY <2>1, <2>2, Zenon
<1>9. \A m \in Nodes : Cardinality(Reserved(m)') <= Capacity[m]
  <2> TAKE m \in Nodes
  <2>1. Cardinality(Reserved(m)') <= Cardinality(Reserved(m)) /\ IsFiniteSet(Reserved(m)')
    BY <1>3, CallsFinite, FS_Subset, Zenon
  <2>2. Cardinality(Reserved(m)') \in Nat /\ Cardinality(Reserved(m)) \in Nat /\ Capacity[m] \in Nat
    BY <2>1, CallsFinite, FS_CardinalityType, DispatchAssumption, Zenon
  <2> QED
    BY <1>5, <2>1, <2>2
<1> QED
  BY <1>4, <1>7, <1>8, <1>9, Zenon DEF NodeInv, OnlyMoves, InFlightAccurate, WithinCapacity

\* A step that neither begins nor ends a call on a node.
LEMMA NoCallMoves ==
  ASSUME NodeInv, NEW t \in Threads, OnlyMoves(t), UNCHANGED inFlight,
         pc'[t] # "handler",
         \/ pc[t] \notin InCall /\ pc'[t] \notin InCall
         \/ pc[t] \notin InCall /\ chosen'[t] \notin Nodes
         \/ pc'[t] \notin InCall /\ chosen[t] \notin Nodes
  PROVE  NodeInv'
<1>1. \A n \in Nodes : Running(n)' = Running(n) /\ Reserved(n)' = Reserved(n)
  BY Zenon DEF Running, Reserved, OnlyMoves, InCall
<1>2. \A u \in Threads : pc'[u] = "handler" => chosen'[u] \in Nodes
  BY Zenon DEF NodeInv, OnlyMoves
<1> QED
  BY <1>1, <1>2, Zenon DEF NodeInv, OnlyMoves, InFlightAccurate, WithinCapacity

\* Every step preserves the invariant.
LEMMA NodeStep ==
  ASSUME NodeInv, NEW t \in Threads, Step(t)
  PROVE  NodeInv'
<1>0. /\ pc \in [Threads -> States] /\ DOMAIN chosen = Threads
      /\ inFlight \in [Nodes -> Nat]
      /\ pc[t] = "handler" => chosen[t] \in Nodes
  BY Zenon DEF NodeInv
<1>1. CASE Fire(t) \/ Lock(t) \/ ReadLoad(t) \/ SkipNext(t) \/ Saturated(t)
           \/ Rotate(t) \/ CallDirectly(t)
  <2>1. OnlyMoves(t) /\ UNCHANGED inFlight
    BY <1>0, <1>1, Zenon DEF OnlyMoves, States, Fire, Lock, ReadLoad, SkipNext, Saturated,
                      Rotate, CallDirectly
  <2>2. pc[t] \notin InCall /\ pc'[t] \notin InCall
    BY <1>0, <1>1, Zenon DEF InCall, Fire, Lock, ReadLoad, SkipNext, Saturated, Rotate, CallDirectly
  <2>3. pc'[t] # "handler"
    BY <2>2 DEF InCall
  <2> QED
    BY <2>1, <2>2, <2>3, NoCallMoves, Zenon
<1>2. CASE TakeNext(t)
  <2> DEFINE s == Head(order[t])
  <2>1. /\ OnlyMoves(t) /\ pc[t] \notin InCall /\ pc'[t] \in InCall /\ chosen'[t] = s
        /\ pc'[t] = IF s \in Nodes THEN "handler" ELSE "plain"
    BY <1>0, <1>2, Zenon DEF TakeNext, OnlyMoves, States, InCall
  <2>2. IF s \in Nodes THEN ~Full(s) /\ inFlight' = [inFlight EXCEPT ![s] = @ + 1]
        ELSE UNCHANGED inFlight
    BY <1>2, Zenon DEF TakeNext, TryAcquire
  <2> HIDE DEF s
  <2>3. CASE s \in Nodes
    BY <2>1, <2>2, <2>3, Begins, Zenon
  <2>4. CASE s \notin Nodes
    BY <2>1, <2>2, <2>4, NoCallMoves
  <2> QED
    BY <2>3, <2>4, Zenon
<1>3. CASE Enter(t)
  <2>1. /\ OnlyMoves(t) /\ pc[t] \notin InCall /\ pc'[t] = "plain" /\ chosen'[t] = chosen[t]
        /\ inFlight' = IF chosen[t] \in Nodes
                       THEN [inFlight EXCEPT ![chosen[t]] = @ + 1] ELSE inFlight
    BY <1>0, <1>3, Zenon DEF Enter, OnlyMoves, States, InCall
  <2>2. PICK n : n = chosen[t]
    BY Zenon
  <2>3. CASE n \in Nodes
    BY <2>1, <2>2, <2>3, Begins, Zenon DEF InCall
  <2>4. CASE n \notin Nodes
    BY <2>1, <2>2, <2>4, NoCallMoves, Zenon
  <2> QED
    BY <2>3, <2>4, Zenon
<1>4. CASE Finish(t) \/ Return(t)
  <2>1. OnlyMoves(t) /\ pc[t] \in InCall /\ pc'[t] \notin InCall /\ pc'[t] # "handler"
    BY <1>0, <1>4, Zenon DEF Finish, Return, OnlyMoves, States, InCall
  <2>2. IF chosen[t] \in Nodes
        THEN \/ inFlight' = [inFlight EXCEPT ![chosen[t]] = IF @ > 0 THEN @ - 1 ELSE 0]
             \/ inFlight' = [inFlight EXCEPT ![chosen[t]] = @ - 1]
        ELSE UNCHANGED inFlight
    BY <1>0, <1>4, Zenon DEF Finish, Return, Release, Uncount
  <2>3. PICK n : n = chosen[t]
    OBVIOUS
  <2>4. CASE n \in Nodes
    BY <2>1, <2>2, <2>3, <2>4, LeavesNode, Zenon
  <2>5. CASE n \notin Nodes
    BY <2>1, <2>2, <2>3, <2>5, NoCallMoves, Zenon
  <2> QED
    BY <2>4, <2>5
<1> QED
  BY <1>1, <1>2, <1>3, <1>4, Zenon DEF Step, Select

\* The invariant holds in every reachable state.
THEOREM NodeInvariant == DispatchSpec => []NodeInv
<1>1. DispatchInit => NodeInv
  <2> SUFFICES ASSUME DispatchInit PROVE NodeInv
    OBVIOUS
  <2>1. \A n \in Nodes : Running(n) = {} /\ Reserved(n) = {}
    BY Zenon DEF DispatchInit, Running, Reserved
  <2>2. /\ inFlight \in [Nodes -> Nat] /\ pc \in [Threads -> States] /\ DOMAIN chosen = Threads
        /\ \A t \in Threads : pc[t] # "handler"
        /\ \A n \in Nodes : inFlight[n] = 0
    BY DEF DispatchInit, States
  <2>3. \A n \in Nodes : Capacity[n] \in Nat
    BY DispatchAssumption
  <2> QED
    BY <2>1, <2>2, <2>3, FS_EmptySet DEF NodeInv, InFlightAccurate, WithinCapacity
<1>2. NodeInv /\ [DispatchNext]_dispatchVars => NodeInv'
  <2> SUFFICES ASSUME NodeInv, [DispatchNext]_dispatchVars PROVE NodeInv'
    OBVIOUS
  <2>1. CASE UNCHANGED dispatchVars
    BY <2>1 DEF dispatchVars, NodeInv, InFlightAccurate, WithinCapacity, Running, Reserved
  <2> QED
    BY <2>1, NodeStep, Zenon DEF DispatchNext
<1> QED
  BY <1>1, <1>2, PTL DEF DispatchSpec

\* A node's counter is the number of calls running on it, whoever made them and
\* however they end (try_acquire, release and __call__ of Node).
THEOREM CountersExact == DispatchSpec => []InFlightAccurate
  BY NodeInvariant, PTL DEF NodeInv

\* Dispatchers never reserve more than a node's capacity (try_acquire).
THEOREM NeverOverbooked == DispatchSpec => []WithinCapacity
  BY NodeInvariant, PTL DEF NodeInv

=============================================================================
