---------------------------- MODULE MCObservers ----------------------------
(***************************************************************************)
(* For TLC: what the observers of a task share with its invocations.  The  *)
(* nodes behind dispatchers, a meter with its reporters, and a SharedState *)
(* do not interact, so a behaviour is one of the three.                    *)
(***************************************************************************)
EXTENDS SharedState, Dispatch, TLC

CONSTANTS n1, n2, plain,                                     \* of Dispatch
          Epoch, Weights, Reporters, MRO, Fragile, MaxClock, \* of Meter
          logging

VARIABLES part,      \* which of the three this behaviour is of
          kind, clock, wired, began, since, agg, position, event, level, value,
          registry, todo, obs, owed, heard, ops

\* Two nodes, with one GPU and with two, and a subscriber that only reports a load.
WithPlain == <<n1, plain, n2>>
Capacities == (n1 :> 1) @@ (n2 :> 2)

\* LoggingReporter observes Meter; any other both classes.
Targets == [r \in Reporters |-> IF r = logging THEN <<"Meter">> ELSE MRO]

MaxOps == [timing |-> 2, cpu |-> 2, metrics |-> 3]

M == INSTANCE Meter WITH Threads <- Users, None <- Missing, pc <- position

meter == <<kind, clock, wired, began, since, agg, position, event, level, value,
           registry, todo, obs, owed, heard, ops>>

TimingMRO == <<"TimingMeter", "Meter">>
SmallValues == {-1, 2}

PartInit ==
  /\ part \in {"dispatch", "meter", "state"}
  /\ DispatchInit /\ StateInit /\ M!Init
  /\ todo = Targets <=> kind # "metrics"
  /\ part # "meter" => kind = "timing" /\ wired = {}

PartNext ==
  \/ part = "dispatch" /\ DispatchNext /\ UNCHANGED <<part, stateVars, meter>>
  \/ part = "meter" /\ M!Next /\ UNCHANGED <<part, stateVars, dispatchVars>>
  \/ part = "state" /\ StateNext /\ UNCHANGED <<part, dispatchVars, meter>>

PartSpec == PartInit /\ [][PartNext]_<<part, stateVars, dispatchVars, meter>>

\* Threads, and dispatchers of a kind, are interchangeable.
DispatchSymmetry == Permutations(Threads) \cup Permutations(Balancers)

-----------------------------------------------------------------------------
\* The reductions of Meter.value are those of the observations since the last
\* reset.
ReductionsAgree == M!ReductionsAgree

\* Eventful.fire: measurements reach every reporter that was registered.
MeasurementsReported == M!MeasurementsReported

\* TimingMeter and CPUMeter measure a call from its own start.
ElapsedIsOwn == M!ElapsedIsOwn
=============================================================================
