------------------------------ MODULE Dispatch ------------------------------
(***************************************************************************)
(* Node, LeastLoadedDispatcher and RoundRobinDispatcher of                 *)
(* src/eventforge/observers.py: threads that fire at one list of           *)
(* subscribers through dispatchers with a lock of their own, or that call  *)
(* a node directly.  A locked block of a Node is one step; the selection   *)
(* of a least-loaded dispatcher takes one step per load() and per          *)
(* try_acquire(), since only its own lock is held across them.             *)
(***************************************************************************)
EXTENDS Integers, Sequences, FiniteSets, Functions

CONSTANTS Threads,      \* callers
          Nodes,        \* subscribers that are Nodes
          Subscribers,  \* the list an event is fired at
          Capacity,     \* Capacity[n]: Node.capacity
          Balancers,    \* LeastLoadedDispatcher instances
          Rotators,     \* RoundRobinDispatcher instances
          Direct,       \* nodes some threads call without a dispatcher
          MaxFires,     \* bound on the fires and direct calls
          None

Members == {Subscribers[i] : i \in DOMAIN Subscribers}

ASSUME DispatchAssumption ==
  /\ IsFiniteSet(Threads)
  /\ Subscribers \in Seq(Members) /\ Subscribers # <<>>
  /\ Direct \subseteq Nodes
  /\ Capacity \in [Nodes -> Nat \ {0}]
  /\ MaxFires \in Nat
  /\ None \notin Threads /\ None \notin Nodes \cup Members

VARIABLES inFlight,  \* Node._in_flight
          lock,      \* LeastLoadedDispatcher._lock: its holder or None
          idx,       \* RoundRobinDispatcher._idx
          pc,        \* what a thread is doing
          via,       \* the dispatcher it uses
          loads,     \* the loads its selection has read, in list order
          order,     \* subscribers its selection has still to try
          chosen,    \* the subscriber it runs, or None
          left,      \* history: slots given back since a thread began its selection
          fires      \* calls made so far

dispatchVars == <<inFlight, lock, idx, pc, via, loads, order, chosen, left, fires>>

Loads == Nat \X (Nat \ {0})

\* pc: "handler" runs a reserved node's handler, "plain" a subscriber whose
\* own __call__ counts it; "entering" is a Node about to count itself.
States == {"idle", "locking", "sorting", "trying", "entering", "handler", "plain"}

\* One type invariant: _in_flight never goes below zero and the program
\* counters of the dispatchers fit their selections.
TypeOK ==
  /\ inFlight \in [Nodes -> Nat]
  /\ lock \in [Balancers -> Threads \cup {None}]
  /\ idx \in [Rotators -> Nat]
  /\ pc \in [Threads -> States]
  /\ via \in [Threads -> Balancers \cup Rotators \cup {None}]
  /\ loads \in [Threads -> Seq(Loads)]
  /\ order \in [Threads -> Seq(Members)]
  /\ chosen \in [Threads -> Members \cup Nodes \cup {None}]
  /\ left \in [Threads -> Nat]
  /\ fires \in Nat

DispatchInit ==
  /\ inFlight = [n \in Nodes |-> 0]
  /\ lock = [b \in Balancers |-> None]
  /\ idx = [r \in Rotators |-> 0]
  /\ pc = [t \in Threads |-> "idle"]
  /\ via = [t \in Threads |-> None]
  /\ loads = [t \in Threads |-> <<>>]
  /\ order = [t \in Threads |-> <<>>]
  /\ chosen = [t \in Threads |-> None]
  /\ left = [t \in Threads |-> 0]
  /\ fires = 0

-----------------------------------------------------------------------------
(* Node *)

\* load(): utilization as a fraction.  A subscriber that is no Node reports
\* what it likes (external).
LoadOf(s) ==
  IF s \in Nodes THEN {<<inFlight[s], Capacity[s]>>} ELSE {<<0, 1>>, <<1, 1>>}

\* Mutant: off by one.
Overfull(n) == inFlight[n] > Capacity[n]

Full(n) == inFlight[n] >= Capacity[n]

\* try_acquire(), when it succeeds.
TryAcquire(n) ==
  /\ ~Full(n)
  /\ inFlight' = [inFlight EXCEPT ![n] = @ + 1]

\* Mutant: an exception of the handler skips the release.
ReleaseOnSuccess(n) ==
  /\ \E raised \in BOOLEAN :
       inFlight' = IF raised THEN inFlight ELSE [inFlight EXCEPT ![n] = @ - 1]
  /\ left' = [t \in Threads |-> left[t] + 1]

\* release(): never below zero.
Release(n) ==
  /\ inFlight' = [inFlight EXCEPT ![n] = IF @ > 0 THEN @ - 1 ELSE 0]
  /\ left' = [t \in Threads |-> left[t] + 1]

\* The end of __call__ takes back what its beginning counted, without a test.
Uncount(n) ==
  /\ inFlight' = [inFlight EXCEPT ![n] = @ - 1]
  /\ left' = [t \in Threads |-> left[t] + 1]

-----------------------------------------------------------------------------
(* LeastLoadedDispatcher *)

\* dispatch() or route() is called: wait for the dispatcher's lock.
Fire(t) ==
  /\ pc[t] = "idle" /\ fires < MaxFires
  /\ \E b \in Balancers : via' = [via EXCEPT ![t] = b]
  /\ pc' = [pc EXCEPT ![t] = "locking"]
  /\ fires' = fires + 1
  /\ UNCHANGED <<inFlight, lock, idx, loads, order, chosen, left>>

Lock(t) ==
  /\ pc[t] = "locking" /\ lock[via[t]] = None
  /\ lock' = [lock EXCEPT ![via[t]] = t]
  /\ pc' = [pc EXCEPT ![t] = "sorting"]
  /\ loads' = [loads EXCEPT ![t] = <<>>]
  /\ left' = [left EXCEPT ![t] = 0]
  /\ UNCHANGED <<inFlight, idx, via, order, chosen, fires>>

\* sorted() is stable: equal loads keep the order of the list.
Before(ls, i, j) ==
  LET a == ls[i][1] * ls[j][2]
      b == ls[j][1] * ls[i][2]
  IN a < b \/ (a = b /\ i < j)
Sorted(ls) ==
  [k \in DOMAIN ls |->
    Subscribers[CHOOSE i \in DOMAIN ls :
                  Cardinality({j \in DOMAIN ls : Before(ls, j, i)}) = k - 1]]

\* sorted(subscribers, key=load) reads one load.
ReadLoad(t) ==
  /\ pc[t] = "sorting"
  /\ \E v \in LoadOf(Subscribers[Len(loads[t]) + 1]) :
       LET ls == Append(loads[t], v)
           over == Len(ls) = Len(Subscribers)
       IN /\ loads' = [loads EXCEPT ![t] = IF over THEN <<>> ELSE ls]
          /\ order' = [order EXCEPT ![t] = IF over THEN Sorted(ls) ELSE <<>>]
          /\ pc' = [pc EXCEPT ![t] = IF over THEN "trying" ELSE "sorting"]
  /\ UNCHANGED <<inFlight, lock, idx, via, chosen, left, fires>>

\* The next subscriber takes the call: a slot of a Node is reserved, any
\* other only says that it has room.  The lock is released.
TakeNext(t) ==
  LET s == Head(order[t])
  IN /\ pc[t] = "trying" /\ order[t] # <<>>
     /\ IF s \in Nodes THEN TryAcquire(s)
        ELSE UNCHANGED inFlight
     /\ pc' = [pc EXCEPT ![t] = IF s \in Nodes THEN "handler" ELSE "plain"]
     /\ chosen' = [chosen EXCEPT ![t] = s]
     /\ order' = [order EXCEPT ![t] = <<>>]
     /\ lock' = [lock EXCEPT ![via[t]] = None]
     /\ UNCHANGED <<idx, via, loads, left, fires>>

\* The next subscriber is full.
SkipNext(t) ==
  /\ pc[t] = "trying" /\ order[t] # <<>>
  /\ LET s == Head(order[t]) IN s \in Nodes => Full(s)
  /\ order' = [order EXCEPT ![t] = Tail(@)]
  /\ UNCHANGED <<inFlight, lock, idx, pc, via, loads, chosen, left, fires>>

\* "all subscribers saturated" propagates to the caller.
Saturated(t) ==
  /\ pc[t] = "trying" /\ order[t] = <<>>
  /\ lock' = [lock EXCEPT ![via[t]] = None]
  /\ via' = [via EXCEPT ![t] = None]
  /\ pc' = [pc EXCEPT ![t] = "idle"]
  /\ UNCHANGED <<inFlight, idx, loads, order, chosen, left, fires>>

\* The handler returns or raises; route() passes the exception on and
\* dispatch() logs it, after the release.
Finish(t) ==
  /\ pc[t] = "handler"
  /\ Release(chosen[t])
  /\ pc' = [pc EXCEPT ![t] = "idle"]
  /\ chosen' = [chosen EXCEPT ![t] = None]
  /\ via' = [via EXCEPT ![t] = None]
  /\ UNCHANGED <<lock, idx, loads, order, fires>>

-----------------------------------------------------------------------------
(* RoundRobinDispatcher, and calls past every dispatcher *)

NextIndex(r) == idx[r] + 1

\* The pick and the advance of the index, under the dispatcher's lock.
Rotate(t) ==
  /\ pc[t] = "idle" /\ fires < MaxFires
  /\ \E r \in Rotators :
       LET i == (idx[r] % Len(Subscribers)) + 1
       IN /\ chosen' = [chosen EXCEPT ![t] = Subscribers[i]]
          /\ idx' = [idx EXCEPT ![r] = NextIndex(r)]
          /\ via' = [via EXCEPT ![t] = r]
  /\ pc' = [pc EXCEPT ![t] = "entering"]
  /\ fires' = fires + 1
  /\ UNCHANGED <<inFlight, lock, loads, order, left>>

CallDirectly(t) ==
  /\ pc[t] = "idle" /\ fires < MaxFires
  /\ \E n \in Direct : chosen' = [chosen EXCEPT ![t] = n]
  /\ pc' = [pc EXCEPT ![t] = "entering"]
  /\ fires' = fires + 1
  /\ UNCHANGED <<inFlight, lock, idx, via, loads, order, left>>

\* Node.__call__ counts itself without looking at the capacity.
Enter(t) ==
  /\ pc[t] = "entering"
  /\ inFlight' = IF chosen[t] \in Nodes
                 THEN [inFlight EXCEPT ![chosen[t]] = @ + 1] ELSE inFlight
  /\ pc' = [pc EXCEPT ![t] = "plain"]
  /\ UNCHANGED <<lock, idx, via, loads, order, chosen, left, fires>>

\* The end of __call__, normal or by an exception, which a round robin logs.
Return(t) ==
  /\ pc[t] = "plain"
  /\ IF chosen[t] \in Nodes THEN Uncount(chosen[t]) ELSE UNCHANGED <<inFlight, left>>
  /\ pc' = [pc EXCEPT ![t] = "idle"]
  /\ chosen' = [chosen EXCEPT ![t] = None]
  /\ via' = [via EXCEPT ![t] = None]
  /\ UNCHANGED <<lock, idx, loads, order, fires>>

Select(t) == Lock(t) \/ ReadLoad(t) \/ TakeNext(t) \/ SkipNext(t) \/ Saturated(t)
Step(t) == Fire(t) \/ Select(t) \/ Finish(t) \/ Rotate(t) \/ CallDirectly(t)
           \/ Enter(t) \/ Return(t)
DispatchNext == \E t \in Threads : Step(t)
DispatchSpec == DispatchInit /\ [][DispatchNext]_dispatchVars

-----------------------------------------------------------------------------
(* Properties *)

Reserved(n) == {t \in Threads : pc[t] = "handler" /\ chosen[t] = n}
Running(n) == {t \in Threads : pc[t] \in {"handler", "plain"} /\ chosen[t] = n}

\* A dispatcher never books a node beyond its capacity, whatever other
\* dispatchers, round robins and direct callers do to the same node (the test
\* in try_acquire and its increment under the node's lock).
WithinCapacity == \A n \in Nodes : Cardinality(Reserved(n)) <= Capacity[n]

\* A node's counter is the number of calls running on it: nothing is lost or
\* counted twice on any path, the ones that raise included (a reserved handler
\* is called directly because __call__ would count it again).
InFlightAccurate == \A n \in Nodes : inFlight[n] = Cardinality(Running(n))

\* "all subscribers saturated" is raised only when the calls running on the
\* nodes, with those that ended during the selection, fill every slot: loads
\* that are stale when they are used and handlers that raised cost no slot.
SaturatedMeansBusy ==
  [][\A t \in Threads :
       (pc[t] = "trying" /\ pc'[t] = "idle")
         => Cardinality(UNION {Running(n) : n \in Nodes \cap Members}) + left[t]
              >= SumFunctionOnSet(Capacity, Nodes \cap Members)]_dispatchVars
=============================================================================
