------------------------------- MODULE Meter -------------------------------
(***************************************************************************)
(* The meters and reporters of src/eventforge/observers.py: threads whose  *)
(* task calls one meter measures, clients that update or reset it, and     *)
(* reporters that register for the meter's class.  The aggregates change   *)
(* under the meter's lock in one step; the event of the change is fired    *)
(* after it, first at the subscribers of the instance, then at those of    *)
(* each class of the meter's method resolution order.                      *)
(***************************************************************************)
EXTENDS Integers, Sequences, SequencesExt, FiniteSets, FiniteSetsExt

CONSTANTS Threads,
          Epoch,       \* time.time() when the meter's clock is at 0
          Values,      \* what an extractor returns or a client reports
          Weights,     \* the n of update(val, n)
          Reporters,
          Targets,     \* Targets[r]: the classes r observes "measurement" of
          MRO,         \* the classes of the meter, most derived first
          Fragile,     \* events at which a subscriber of the instance may raise
          MaxOps,      \* MaxOps[k]: bound on calls, updates and resets for kind k
          MaxClock,    \* bound on the clock
          None

VARIABLES kind,    \* the meter, for good: "timing", "cpu" or "metrics"
          clock,   \* time.perf_counter(), or the CPU time of the process
          wired,   \* channels of the task that attach() has subscribed to
          began,   \* ctx.metadata["{name}_start"] of a thread's call, or None
          since,   \* the clock at ctx.start_time
          agg,     \* last, sum, count, max_val, min_val
          pc, event, level, value,  \* a thread's position in fire()
          registry,  \* _CLASS_SUBSCRIBERS[class]["measurement"]
          todo,      \* targets a reporter's __init__ has still to register
          obs,       \* history: observations since the last reset
          owed,      \* history: registrations when a fire began
          heard,     \* history: calls of each reporter by that fire
          ops

call == <<kind, clock, wired, began, since>>
vars == <<call, agg, pc, event, level, value, registry, todo, obs, owed, heard, ops>>

Zero == [last |-> 0, sum |-> 0, count |-> 0, max_val |-> 0, min_val |-> 0]
Classes == Range(MRO)
Silent == [r \in Reporters |-> 0]

Init ==
  /\ kind \in {"timing", "cpu", "metrics"}
  /\ clock = 0
  /\ wired \in {{}, {"start", "success"}}   \* attached at once, or later on
  /\ began = [t \in Threads |-> None]
  /\ agg = Zero
  /\ pc = [t \in Threads |-> "idle"]
  /\ event = [t \in Threads |-> None]
  /\ level = [t \in Threads |-> 0]
  /\ value = [t \in Threads |-> None]
  /\ registry = [c \in Classes |-> <<>>]
  /\ todo \in {Targets, [r \in Reporters |-> <<>>]}   \* or nobody reports
  /\ obs = <<>>
  /\ since = [t \in Threads |-> 0]
  /\ owed = [t \in Threads |-> Silent]
  /\ heard = [t \in Threads |-> Silent]
  /\ ops = 0

\* Time passes, or the process uses CPU time, inside a call or outside.
Tick ==
  /\ kind # "metrics" /\ clock < MaxClock /\ clock' = clock + 1
  /\ UNCHANGED <<kind, wired, began, since, agg, pc, event, level, value, registry, todo,
                 obs, owed, heard, ops>>

\* attach() subscribes to one channel after another, in alphabetical order.
Attach ==
  /\ \/ "start" \notin wired /\ wired' = wired \cup {"start"}
     \/ "start" \in wired /\ "success" \notin wired /\ wired' = wired \cup {"success"}
  /\ UNCHANGED <<kind, clock, began, since, agg, pc, event, level, value, registry,
                 todo, obs, owed, heard, ops>>

-----------------------------------------------------------------------------
(* The aggregator *)

\* Mutant: the extremes start from the zeros that reset() leaves.
UpdatedFromZero(a, v, n) ==
  [last |-> v, sum |-> a.sum + v * n, count |-> a.count + n,
   max_val |-> Max({a.max_val, v}), min_val |-> Min({a.min_val, v})]

\* The locked block of update(val, n).
Updated(a, v, n) ==
  [last |-> v, sum |-> a.sum + v * n, count |-> a.count + n,
   max_val |-> IF a.count = 0 THEN v ELSE Max({a.max_val, v}),
   min_val |-> IF a.count = 0 THEN v ELSE Min({a.min_val, v})]

\* REDUCTIONS, as fractions.
Reduce(reduction, a) ==
  CASE reduction = "mean"  -> IF a.count > 0 THEN <<a.sum, a.count>> ELSE <<0, 1>>
    [] reduction = "sum"   -> <<a.sum, 1>>
    [] reduction = "max"   -> <<IF a.count > 0 THEN a.max_val ELSE 0, 1>>
    [] reduction = "min"   -> <<IF a.count > 0 THEN a.min_val ELSE 0, 1>>
    [] reduction = "last"  -> <<a.last, 1>>
    [] reduction = "count" -> <<a.count, 1>>
Reductions == {"mean", "sum", "max", "min", "last", "count"}

-----------------------------------------------------------------------------
(* Firing *)

\* The entries of r in the list of class c.
Registrations(c, r) == Cardinality({i \in DOMAIN registry[c] : registry[c][i] = r})

\* A thread begins to fire e.
Fires(t, e) ==
  /\ pc' = [pc EXCEPT ![t] = "instance"]
  /\ event' = [event EXCEPT ![t] = e]
  /\ level' = [level EXCEPT ![t] = 1]
  /\ heard' = [heard EXCEPT ![t] = Silent]
  /\ owed' = [owed EXCEPT ![t] =
       [r \in Reporters |-> IF e # "measurement" THEN 0
         ELSE SumFunctionOnSet([c \in Classes |-> Registrations(c, r)], Classes)]]

\* on_start of a meter: the start is kept in the context of the call.
\* Mutant: it is kept where every call finds it.
BeganShared(t) == [x \in Threads |-> clock]
Began(t) == [began EXCEPT ![t] = clock]

\* A call begins with a new context, and the task fires "start".
OnStart(t) ==
  /\ pc[t] = "idle" /\ ops < MaxOps[kind]
  /\ began' = IF "start" \in wired THEN Began(t) ELSE [began EXCEPT ![t] = None]
  /\ since' = [since EXCEPT ![t] = clock]
  /\ pc' = [pc EXCEPT ![t] = "running"]
  /\ ops' = ops + 1
  /\ UNCHANGED <<kind, clock, wired, agg, event, level, value, registry, todo, obs, owed, heard>>

\* What measure() may return: a TimingMeter or CPUMeter the clock's advance
\* since the start in the context, for want of one since ctx.start_time or 0; a
\* MetricsMeter the extractor's result, None if that raises.
Fallback(t) == IF kind = "timing" THEN Epoch + since[t] ELSE 0
Elapsed(t) == {clock - (IF began[t] = None THEN Fallback(t) ELSE began[t])}
Extracted == Values \cup {None}
Measure(t) == IF kind = "metrics" THEN Extracted ELSE Elapsed(t)

\* on_success up to the first event: an observation goes into the aggregates
\* and "update" is fired; without one, "measurement" is.
OnSuccess(t) ==
  /\ pc[t] = "running" /\ "success" \in wired
  /\ \E v \in Measure(t) :
       /\ value' = [value EXCEPT ![t] = v]
       /\ IF v = None
          THEN UNCHANGED <<agg, obs>> /\ Fires(t, "measurement")
          ELSE /\ agg' = Updated(agg, v, 1)
               /\ obs' = Append(obs, <<v, 1>>)
               /\ Fires(t, "update")
  /\ UNCHANGED <<call, registry, todo, ops>>

\* The call fails, or "success" is fired before attach() got that far:
\* on_failure and on_complete measure nothing.
OnFailure(t) ==
  /\ pc[t] = "running"
  /\ pc' = [pc EXCEPT ![t] = "idle"]
  /\ UNCHANGED <<call, agg, event, level, value, registry, todo, obs, owed, heard, ops>>

\* A client calls update(val, n).
Update(t) ==
  /\ pc[t] = "idle" /\ ops < MaxOps[kind]
  /\ \E v \in Values, n \in Weights :
       agg' = Updated(agg, v, n) /\ obs' = Append(obs, <<v, n>>)
  /\ Fires(t, "client update")
  /\ ops' = ops + 1
  /\ UNCHANGED <<call, value, registry, todo>>

Reset(t) ==
  /\ pc[t] = "idle" /\ ops < MaxOps[kind]
  /\ agg' = Zero /\ obs' = <<>>
  /\ Fires(t, "reset")
  /\ ops' = ops + 1
  /\ UNCHANGED <<call, value, registry, todo>>

\* The subscribers of the instance run one after another in the caller; one
\* that raises ends the whole call.
FireInstance(t) ==
  /\ pc[t] = "instance"
  /\ \/ pc' = [pc EXCEPT ![t] = "classes"]
     \/ event[t] \in Fragile /\ pc' = [pc EXCEPT ![t] = "idle"]
  /\ UNCHANGED <<call, agg, event, level, value, registry, todo, obs, owed, heard, ops>>

\* Mutant: a reporter that raises keeps the ones after it from being called.
CalledFirst(c, r) == IF registry[c] # <<>> /\ Head(registry[c]) = r THEN 1 ELSE 0

\* How often the list of class c calls r: each call is isolated by its own try.
Called(c, r) == Registrations(c, r)

\* The list of the next class is copied under the registry's lock, then called.
FireClass(t) ==
  /\ pc[t] = "classes" /\ level[t] <= Len(MRO)
  /\ heard' = IF event[t] = "measurement"
              THEN [heard EXCEPT ![t] =
                     [r \in Reporters |-> @[r] + Called(MRO[level[t]], r)]]
              ELSE heard
  /\ level' = [level EXCEPT ![t] = @ + 1]
  /\ UNCHANGED <<call, agg, pc, event, value, registry, todo, obs, owed, ops>>

\* fire() is over; on_success goes on to fire "measurement".
EndFire(t) ==
  /\ pc[t] = "classes" /\ level[t] > Len(MRO)
  /\ IF event[t] = "update" THEN Fires(t, "measurement")
     ELSE /\ pc' = [pc EXCEPT ![t] = "idle"]
          /\ UNCHANGED <<event, level, owed, heard>>
  /\ UNCHANGED <<call, agg, value, registry, todo, obs, ops>>

\* Reporter.__init__ registers the next of its targets.
Register(r) ==
  /\ todo[r] # <<>>
  /\ registry' = [registry EXCEPT ![Head(todo[r])] = Append(@, r)]
  /\ todo' = [todo EXCEPT ![r] = Tail(@)]
  /\ UNCHANGED <<call, agg, pc, event, level, value, obs, owed, heard, ops>>

Call(t) == OnStart(t) \/ OnSuccess(t) \/ OnFailure(t)
Fire(t) == FireInstance(t) \/ FireClass(t) \/ EndFire(t)
Next ==
  \/ Tick \/ Attach
  \/ \E t \in Threads : Call(t) \/ Update(t) \/ Reset(t) \/ Fire(t)
  \/ \E r \in Reporters : Register(r)
Spec == Init /\ [][Next]_vars

-----------------------------------------------------------------------------
(* Properties *)

\* What a list of weighted observations reduces to, defined on the whole list.
\* Observations of weight 0 before the first weighted one do not count.
Weighted == {i \in DOMAIN obs : \E j \in 1..i : obs[j][2] > 0}
Seen == {obs[i][1] : i \in Weighted}
Reference(reduction) ==
  LET sum == FoldLeft(LAMBDA x, o : x + o[1] * o[2], 0, obs)
      count == FoldLeft(LAMBDA x, o : x + o[2], 0, obs)
  IN CASE reduction = "mean"  -> IF Seen = {} THEN <<0, 1>> ELSE <<sum, count>>
       [] reduction = "sum"   -> <<sum, 1>>
       [] reduction = "max"   -> <<IF Seen = {} THEN 0 ELSE Max(Seen), 1>>
       [] reduction = "min"   -> <<IF Seen = {} THEN 0 ELSE Min(Seen), 1>>
       [] reduction = "last"  -> <<IF obs = <<>> THEN 0 ELSE Last(obs)[1], 1>>
       [] reduction = "count" -> <<count, 1>>

\* Every reduction of the running state is what the reference computes from the
\* observations since the last reset, however updates, resets and measured
\* calls of several threads interleave, with negative values and weights of 0.
ReductionsAgree == \A k \in Reductions : Reduce(k, agg) = Reference(k)

Measuring(t) == pc[t] = "running" /\ pc'[t] = "instance"

\* The observation of a call whose "start" the meter got is what its clock
\* advanced since that call began, not since another one did: the start
\* travels in the context of the call.
ElapsedIsOwn ==
  [][\A t \in Threads : kind # "metrics" /\ began[t] # None /\ Measuring(t)
       => value'[t] = clock - since[t]]_vars

\* A measurement reaches a reporter once for every registration it had when the
\* fire began, although other reporters raise; registrations made during the
\* fire may or may not count.
MeasurementsReported ==
  \A t \in Threads :
    (pc[t] = "classes" /\ event[t] = "measurement" /\ level[t] > Len(MRO))
      => \A r \in Reporters :
           /\ owed[t][r] <= heard[t][r]
           /\ heard[t][r] <= SumFunctionOnSet([c \in Classes |-> Registrations(c, r)], Classes)
=============================================================================
