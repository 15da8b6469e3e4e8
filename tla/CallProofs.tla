----------------------------- MODULE CallProofs -----------------------------
(***************************************************************************)
(* Calls of a task, in this process and in another.                        *)
(*                                                                         *)
(* TaskRunner: the channels of a call are fired in order, its spans are    *)
(* closed, no more than max_instances calls are inside, and the counters   *)
(* of TaskPool and its semaphore, which are updated in separate steps,     *)
(* agree with what the calls are doing; for any number of calls and any    *)
(* behaviour of bodies and observers.  RPC: a worker process leaves no     *)
(* subscription behind, and what a call returns is what happened to its    *)
(* last attempt; for any number of calls, workers, retries and stops and   *)
(* any loss or delay of messages.                                          *)
(***************************************************************************)
EXTENDS TaskRunner, RPC, TLAPS

(* Where a call is *)

PCs == {"idle", "asking", "granted", "refused", "start", "body", "outcome",
        "complete", "leave", "signal", "done"}
AskingPCs == {"asking", "granted", "refused"}
InsidePCs == {"start", "body", "outcome", "complete", "leave"}
HoldingPCs == {"granted", "signal"} \cup InsidePCs

-----------------------------------------------------------------------------
(* The channels of a call *)

Before == {"idle", "asking", "granted", "refused", "start"}
After == {"leave", "signal", "done"}
Channels == {"start", "success", "failure", "complete"}
Topics == {"none", "success", "failure"}
Outcomes == {"none", "raised", "value", "timeout"}

\* The types of the invocations and what they fired.
LifeType ==
  /\ inline \in BOOLEAN
  /\ pc \in [Callers -> PCs]
  /\ error \in [Callers -> BOOLEAN] /\ body \in [Callers -> {"none", "ok", "raised"}]
  /\ fired \in [Callers -> Seq(Channels)]
  /\ published \in [Callers -> Topics] /\ outcome \in [Callers -> Outcomes]

Channel(c) == IF error[c] THEN "failure" ELSE "success"

\* What the caller and the other processes get agrees with the channel.
Reported(c) == published[c] \in {"none", Channel(c)} /\ (error[c] => outcome[c] = "raised")

Unreached(c) == body[c] = "none" /\ ~error[c]

\* What was fired, by where the call is.
FiredSoFar(c) ==
  /\ pc[c] \in Before => fired[c] = <<>> /\ Unreached(c)
  /\ pc[c] = "body" => fired[c] = <<"start">> /\ Unreached(c)
  /\ pc[c] = "outcome" => fired[c] = <<"start">>
  /\ pc[c] = "complete" => fired[c] = <<"start", Channel(c)>> /\ Reported(c)
  /\ pc[c] \in After =>
       (Unreached(c) /\ Len(fired[c]) <= 1) \/ (fired[c] = <<"start", Channel(c), "complete">> /\ Reported(c))
  /\ inline /\ body[c] = "raised" => error[c]

LifeInv == LifeType /\ \A c \in Callers : FiredSoFar(c)

\* Sequences with the same elements are equal.
LEMMA SameFired ==
  ASSUME NEW S, NEW s \in Seq(S), NEW q \in Seq(S), Len(s) = Len(q), \A i \in 1..Len(s) : s[i] = q[i]
  PROVE  s = q
  OBVIOUS

\* Append on the sequences of channels that a call fires.
LEMMA TwoFired ==
  ASSUME NEW S, NEW x \in S, NEW y \in S
  PROVE  Append(<<x>>, y) = <<x, y>>
<1>1. <<x>> \in Seq(S) /\ <<x, y>> \in Seq(S) /\ Append(<<x>>, y) \in Seq(S)
  OBVIOUS
<1>2. Len(<<x, y>>) = 2 /\ Len(Append(<<x>>, y)) = 2
  OBVIOUS
<1>3. \A i \in 1..2 : Append(<<x>>, y)[i] = <<x, y>>[i]
  OBVIOUS
<1> QED
  BY <1>1, <1>2, <1>3, SameFired, Zenon

\* No channel fired.
LEMMA NothingFired == Len(<<>>) = 0
  OBVIOUS

\* A list of two channels and a third.
LEMMA ThreeFired ==
  ASSUME NEW S, NEW x \in S, NEW y \in S, NEW z \in S
  PROVE  Append(<<x, y>>, z) = <<x, y, z>>
<1>1. <<x, y>> \in Seq(S) /\ <<x, y, z>> \in Seq(S) /\ Append(<<x, y>>, z) \in Seq(S)
  OBVIOUS
<1>2. Len(<<x, y, z>>) = 3 /\ Len(Append(<<x, y>>, z)) = 3
  OBVIOUS
<1>3. \A i \in 1..3 : Append(<<x, y>>, z)[i] = <<x, y, z>>[i]
  OBVIOUS
<1> QED
  BY <1>1, <1>2, <1>3, SameFired, Zenon

\* A step of a call leaves what the other calls have alone.
LEMMA OthersAlone ==
  ASSUME LifeInv, NEW c \in Callers, Step(c), NEW d \in Callers \ {c}
  PROVE  /\ pc'[d] = pc[d] /\ error'[d] = error[d] /\ body'[d] = body[d] /\ fired'[d] = fired[d]
         /\ published'[d] = published[d] /\ outcome'[d] = outcome[d] /\ inline' = inline
<1> USE DEF LifeInv, LifeType, Goto
<1>1. CASE Acquire(c)
  BY <1>1, Zenon DEF Acquire, Call, SemaphoreAcquire, SemaphoreRefuse, SemaphoreRaise, Settle, context
<1>2. CASE FireStart(c) \/ FireComplete(c)
  BY <1>2 DEF FireStart, FireComplete
<1>3. CASE Body(c)
  BY <1>3 DEF Body
<1>4. CASE FireOutcome(c)
  BY <1>4 DEF FireOutcome, OutcomeTo
<1>5. CASE Release(c)
  BY <1>5, Zenon DEF Release, Leave, Signal, context
<1> QED
  BY <1>1, <1>2, <1>3, <1>4, <1>5, Zenon DEF Step, Run, Slot, Execute

\* A step of one invocation leaves the channels of the others alone.
LEMMA OthersKept ==
  ASSUME LifeInv, NEW c \in Callers, Step(c), NEW d \in Callers \ {c}
  PROVE  FiredSoFar(d)'
<1>1. FiredSoFar(d)
  BY Zenon DEF LifeInv
<1> QED
  BY <1>1, OthersAlone DEF FiredSoFar, Reported, Unreached, Channel

\* The steps of a call that fire nothing: acquire and release.
LEMMA QuietStep ==
  ASSUME LifeInv, NEW c \in Callers, Acquire(c) \/ Release(c)
  PROVE  LifeType' /\ FiredSoFar(c)'
<1> USE DEF LifeInv, LifeType, FiredSoFar, Before, After, PCs, Outcomes, Goto, context, pool
<1>0. LifeType /\ FiredSoFar(c) /\ pc[c] \in PCs
  OBVIOUS
<1>1. CASE Call(c) \/ SemaphoreAcquire(c) \/ SemaphoreRefuse(c)
  BY <1>0, <1>1, Zenon DEF Call, SemaphoreAcquire, SemaphoreRefuse, Unreached
<1>2. CASE SemaphoreRaise(c)
  BY <1>0, <1>2 DEF SemaphoreRaise, Unreached
<1>3. CASE Settle(c)
  <2>1. /\ pc[c] \in {"granted", "refused"} /\ fired[c] = <<>> /\ Unreached(c)
        /\ \E to \in {"leave", "start", "done"} : pc' = [pc EXCEPT ![c] = to]
        /\ outcome' \in {outcome, [outcome EXCEPT ![c] = "timeout"]}
        /\ UNCHANGED <<inline, error, body, fired, published>>
    BY <1>0, <1>3 DEF Settle
  <2>2. LifeType'
    <3>1. pc' \in [Callers -> PCs]
      BY <1>0, <2>1
    <3>2. outcome' \in [Callers -> Outcomes]
      BY <1>0, <2>1, Zenon
    <3> QED
      BY <1>0, <2>1, <3>1, <3>2, Zenon
  <2>3. pc'[c] \in {"leave", "start", "done"} /\ Len(fired'[c]) <= 1
    BY <1>0, <2>1
  <2>4. FiredSoFar(c)'
    BY <1>0, <2>1, <2>3, Zenon DEF Unreached
  <2> QED
    BY <2>2, <2>4
<1>4. CASE Leave(c) \/ Signal(c)
  <2>1. /\ pc[c] \in After
        /\ \E to \in {"signal", "done"} : pc' = [pc EXCEPT ![c] = to]
        /\ UNCHANGED <<inline, error, body, fired, published, outcome>>
    BY <1>0, <1>4, Zenon DEF Leave, Signal
  <2>2. LifeType' /\ pc'[c] \in {"signal", "done"}
    BY <1>0, <2>1
  <2>3. Unreached(c)' = Unreached(c) /\ Reported(c)' = Reported(c) /\ Channel(c)' = Channel(c)
    BY <2>1, Zenon DEF Unreached, Reported, Channel
  <2>4. FiredSoFar(c)'
    BY <1>0, <2>1, <2>2, <2>3, Zenon
  <2> QED
    BY <2>2, <2>4, Zenon
<1> QED
  BY <1>1, <1>2, <1>3, <1>4, Zenon DEF Acquire, Release

\* The steps of _execute.
LEMMA ExecuteStep ==
  ASSUME LifeInv, NEW c \in Callers, Execute(c)
  PROVE  LifeType' /\ FiredSoFar(c)'
<1>0. /\ LifeType /\ FiredSoFar(c) /\ pc[c] \in PCs
  BY DEF LifeInv, LifeType
<1>1. CASE FireStart(c)
  <2>1. /\ pc[c] = "start" /\ fired[c] = <<>> /\ Unreached(c)
        /\ \E to \in {"leave", "body"} : pc' = [pc EXCEPT ![c] = to]
        /\ fired' = [fired EXCEPT ![c] = Append(@, "start")]
        /\ outcome' \in {outcome, [outcome EXCEPT ![c] = "raised"]}
        /\ UNCHANGED <<inline, error, body, published>>
    BY <1>0, <1>1, Zenon DEF FireStart, Goto, FiredSoFar, Before
  <2>2. LifeType'
    <3>1. pc' \in [Callers -> PCs] /\ outcome' \in [Callers -> Outcomes]
      BY <1>0, <2>1, Zenon DEF LifeType, PCs, Outcomes
    <3>2. "start" \in Channels
      BY DEF Channels
    <3>3. fired' \in [Callers -> Seq(Channels)]
      BY <1>0, <2>1, <3>2 DEF LifeType
    <3> QED
      BY <1>0, <2>1, <3>1, <3>3 DEF LifeType
  <2>3. fired'[c] = <<"start">> /\ pc'[c] \in {"leave", "body"}
    BY <1>0, <2>1 DEF LifeType
  <2>4. Unreached(c)' /\ Len(fired'[c]) = 1
    BY <2>1, <2>3 DEF Unreached
  <2>5. FiredSoFar(c)'
    <3>1. CASE pc'[c] = "leave"
      BY <2>3, <2>4, <3>1 DEF FiredSoFar, Before, After, Unreached
    <3>2. CASE pc'[c] = "body"
      BY <2>3, <2>4, <3>2 DEF FiredSoFar, Before, After, Unreached
    <3> QED
      BY <2>3, <3>1, <3>2
  <2> QED
    BY <2>2, <2>5
<1>2. CASE Body(c)
  <2>1. /\ pc[c] = "body" /\ fired[c] = <<"start">> /\ pc' = [pc EXCEPT ![c] = "outcome"]
        /\ UNCHANGED <<inline, fired, published, outcome>>
    BY <1>0, <1>2, Zenon DEF Body, Goto, FiredSoFar
  <2>2. PICK b \in {"none", "ok", "raised"}, e \in BOOLEAN :
          /\ body' = [body EXCEPT ![c] = b] /\ error' = [error EXCEPT ![c] = e]
          /\ inline /\ b = "raised" => e
    <3>1. CASE \E b \in {"ok", "raised"} : /\ body' = [body EXCEPT ![c] = b]
                                           /\ error' = [error EXCEPT ![c] = inline /\ b = "raised"]
      BY <1>0, <3>1, Zenon DEF LifeType
    <3>2. CASE ~inline /\ error' = [error EXCEPT ![c] = TRUE] /\ UNCHANGED body
      <4>1. body' = [body EXCEPT ![c] = "none"]
        BY <1>0, <2>1, <3>2, Zenon DEF LifeType, FiredSoFar, Unreached
      <4> QED
        BY <3>2, <4>1, Zenon
    <3> QED
      BY <1>2, <3>1, <3>2 DEF Body
  <2>3. LifeType'
    BY <1>0, <2>1, <2>2, Zenon DEF LifeType, PCs
  <2>4. pc'[c] = "outcome" /\ fired'[c] = <<"start">> /\ body'[c] = b /\ error'[c] = e
    BY <1>0, <2>1, <2>2, Zenon DEF LifeType
  <2> QED
    BY <2>1, <2>2, <2>3, <2>4 DEF FiredSoFar, Before, After
<1>3. CASE FireOutcome(c)
  <2>1. /\ pc[c] = "outcome" /\ fired[c] = <<"start">> /\ pc' = [pc EXCEPT ![c] = "complete"]
        /\ fired' = [fired EXCEPT ![c] = Append(@, Channel(c))]
        /\ \E p \in {"none", Channel(c)} : published' = [published EXCEPT ![c] = p]
        /\ \E o \in {"raised", "value"} :
             outcome' = [outcome EXCEPT ![c] = o] /\ (error[c] => o = "raised")
        /\ UNCHANGED <<inline, error, body>>
    BY <1>0, <1>3, Zenon DEF FireOutcome, OutcomeTo, Goto, FiredSoFar, Channel
  <2>2. /\ "start" \in Channels /\ Channel(c) \in Channels /\ Channel(c) \in Topics
        /\ Channel(c)' = Channel(c)
    BY <2>1, Zenon DEF Channel, Channels, Topics
  <2>3. LifeType'
    <3>1. pc' \in [Callers -> PCs]
      BY <1>0, <2>1, Zenon DEF LifeType, PCs
    <3>2. fired' \in [Callers -> Seq(Channels)]
      BY <1>0, <2>1, <2>2 DEF LifeType
    <3>3. published' \in [Callers -> Topics]
      <4>1. "none" \in Topics
        BY Zenon DEF Topics
      <4> QED
        BY <1>0, <2>1, <2>2, <4>1 DEF LifeType
    <3>4. outcome' \in [Callers -> Outcomes]
      BY <1>0, <2>1, Zenon DEF LifeType, Outcomes
    <3> QED
      BY <1>0, <2>1, <3>1, <3>2, <3>3, <3>4, Zenon DEF LifeType
  <2>4. /\ pc'[c] = "complete" /\ fired'[c] = <<"start", Channel(c)>>
        /\ published'[c] \in {"none", Channel(c)}
    <3>1. Append(<<"start">>, Channel(c)) = <<"start", Channel(c)>>
      BY <2>2, TwoFired, Zenon
    <3> QED
      BY <1>0, <2>1, <3>1 DEF LifeType
  <2>5. error[c] => outcome'[c] = "raised"
    BY <1>0, <2>1, Zenon DEF LifeType
  <2>6. Reported(c)'
    BY <2>1, <2>2, <2>4, <2>5 DEF Reported
  <2> QED
    BY <1>0, <2>1, <2>2, <2>3, <2>4, <2>6 DEF FiredSoFar, Before, After
<1>4. CASE FireComplete(c)
  <2>1. /\ pc[c] = "complete" /\ fired[c] = <<"start", Channel(c)>> /\ Reported(c)
        /\ pc' = [pc EXCEPT ![c] = "leave"]
        /\ fired' = [fired EXCEPT ![c] = Append(@, "complete")]
        /\ outcome' \in {outcome, [outcome EXCEPT ![c] = "raised"]}
        /\ UNCHANGED <<inline, error, body, published>>
    BY <1>0, <1>4, Zenon DEF FireComplete, Goto, FiredSoFar
  <2>2. /\ "start" \in Channels /\ "complete" \in Channels /\ Channel(c) \in Channels
        /\ Channel(c)' = Channel(c)
    BY <2>1, Zenon DEF Channel, Channels
  <2>3. LifeType'
    <3>1. pc' \in [Callers -> PCs] /\ outcome' \in [Callers -> Outcomes]
      BY <1>0, <2>1, Zenon DEF LifeType, PCs, Outcomes
    <3>2. fired' \in [Callers -> Seq(Channels)]
      BY <1>0, <2>1, <2>2 DEF LifeType
    <3> QED
      BY <1>0, <2>1, <3>1, <3>2, Zenon DEF LifeType
  <2>4. pc'[c] = "leave" /\ fired'[c] = <<"start", Channel(c), "complete">>
    <3>1. Append(<<"start", Channel(c)>>, "complete") = <<"start", Channel(c), "complete">>
      BY <2>2, ThreeFired, Zenon
    <3> QED
      BY <1>0, <2>1, <3>1, Zenon DEF LifeType
  <2>5. outcome'[c] \in {outcome[c], "raised"}
    BY <1>0, <2>1, Zenon DEF LifeType
  <2>6. Reported(c)'
    BY <2>1, <2>2, <2>5 DEF Reported
  <2> QED
    BY <1>0, <2>1, <2>2, <2>3, <2>4, <2>6, Zenon DEF FiredSoFar, Before, After
<1> QED
  BY <1>1, <1>2, <1>3, <1>4, Zenon DEF Execute

\* LifeInv holds: the induction of the two theorems below.
THEOREM LifeInvariant == Spec => []LifeInv
<1>1. Init => LifeInv
  <2> SUFFICES ASSUME Init PROVE LifeInv
    BY Zenon
  <2>1. LifeType
    BY DEF Init, LifeType, PCs, Topics, Outcomes
  <2>2. \A c \in Callers : FiredSoFar(c)
    BY DEF Init, FiredSoFar, Unreached, Before, After
  <2> QED
    BY <2>1, <2>2 DEF LifeInv
<1>2. LifeInv /\ [Next]_vars => LifeInv'
  <2> SUFFICES ASSUME LifeInv, [Next]_vars PROVE LifeInv'
    BY Zenon
  <2>1. CASE UNCHANGED vars
    BY <2>1 DEF vars, context, LifeInv, LifeType, FiredSoFar, Unreached, Reported, Channel
  <2>2. ASSUME NEW c \in Callers, Step(c) PROVE LifeInv'
    <3>1. LifeType' /\ FiredSoFar(c)'
      BY <2>2, QuietStep, ExecuteStep, Zenon DEF Step, Run, Slot
    <3>2. \A d \in Callers \ {c} : FiredSoFar(d)'
      BY <2>2, <3>1, OthersKept
    <3> QED
      BY <3>1, <3>2, Zenon DEF LifeInv
  <2> QED
    BY <2>1, <2>2 DEF Next
<1> QED
  BY <1>1, <1>2, PTL DEF Spec

\* A call whose body was reached fires start, then success or failure, then
\* complete, whichever observers raise on the way; and an exception of the
\* function, inline, is what the caller gets, is fired as failure and is never
\* published as success (TaskRunner._execute).
THEOREM ChannelsInOrder == Spec => []LifecycleOrder
<1>1. LifeInv => LifecycleOrder
  <2> SUFFICES ASSUME LifeInv, NEW c \in Callers
               PROVE  /\ pc[c] \in After /\ (body[c] # "none" \/ error[c]) =>
                           \E ch \in {"success", "failure"} :
                             fired[c] = <<"start", ch, "complete">> /\ (ch = "failure" <=> error[c])
                      /\ inline /\ pc[c] = "done" /\ body[c] = "raised" =>
                           outcome[c] = "raised" /\ fired[c][2] = "failure" /\ published[c] # "success"
    BY Zenon DEF LifecycleOrder, After
  <2>1. FiredSoFar(c) /\ Channel(c) \in {"success", "failure"} /\ (Channel(c) = "failure" <=> error[c])
    BY Zenon DEF LifeInv, Channel
  <2>2. ASSUME pc[c] \in After, body[c] # "none" \/ error[c]
        PROVE  fired[c] = <<"start", Channel(c), "complete">> /\ Reported(c)
    BY <2>1, <2>2, Zenon DEF FiredSoFar, Unreached
  <2>3. ASSUME inline, pc[c] = "done", body[c] = "raised"
        PROVE  outcome[c] = "raised" /\ fired[c][2] = "failure" /\ published[c] # "success"
    <3>1. error[c] /\ Channel(c) = "failure" /\ pc[c] \in After
      BY <2>1, <2>3, Zenon DEF FiredSoFar, After
    <3>2. fired[c] = <<"start", "failure", "complete">> /\ Reported(c)
      BY <2>2, <3>1, Zenon
    <3>3. outcome[c] = "raised" /\ published[c] # "success"
      BY <3>1, <3>2, Zenon DEF Reported
    <3> QED
      BY <3>2, <3>3
  <2> QED
    BY <2>1, <2>2, <2>3, Zenon
<1> QED
  BY <1>1, LifeInvariant, PTL

-----------------------------------------------------------------------------
(* The spans of a call *)

Attached == {Observers[i] : i \in DOMAIN Observers}

\* The outcome of the call was reported.
Told(c) == pc[c] \in {"complete"} \cup After /\ Len(fired[c]) > 1

SpansInv ==
  /\ spans \subseteq Callers \X (Attached \intersect Spans)
  /\ \A c \in Callers : Told(c) => \A o \in Spans : <<c, o>> \notin spans

\* Whatever observer raises, a fire reaches the span meters attached before it.
LEMMA MetersReached ==
  ASSUME SpansFirst, NEW f \in Fires
  PROVE  Attached \intersect Spans \subseteq f.reached
<1> SUFFICES ASSUME NEW i \in DOMAIN Observers, Observers[i] \in Spans PROVE Observers[i] \in f.reached
  BY DEF Attached
<1>1. Len(Observers) \in Nat /\ DOMAIN Observers = 1..Len(Observers)
  BY PoolAssumption
<1>2. PICK k \in 1..Len(Observers) + 1 :
        /\ k <= Len(Observers) => Observers[k] \in Fragile
        /\ f = [reached |-> {Observers[j] : j \in 1..k - 1}, raises |-> k <= Len(Observers)]
  BY DEF Fires
<1>3. i < k
  <2>1. CASE k <= Len(Observers)
    BY <1>1, <1>2, <2>1 DEF SpansFirst
  <2>2. CASE ~(k <= Len(Observers))
    BY <1>1, <1>2, <2>2
  <2> QED
    BY <2>1, <2>2, Zenon
<1>4. i \in 1..k - 1
  BY <1>1, <1>2, <1>3
<1> QED
  BY <1>2, <1>4, Zenon

\* Nothing of it changes for the other calls.
LEMMA OthersTold ==
  ASSUME LifeInv, SpansInv, NEW c \in Callers, Step(c), NEW d \in Callers \ {c},
         \A o \in Spans : <<d, o>> \in spans' => <<d, o>> \in spans
  PROVE  Told(d)' => \A o \in Spans : <<d, o>> \notin spans'
<1>1. Told(d)' => Told(d)
  BY OthersAlone, Zenon DEF Told
<1> QED
  BY <1>1, Zenon DEF SpansInv

\* Every step of an invocation keeps SpansInv.
LEMMA SpansStep ==
  ASSUME SpansFirst, LifeInv, LifeInv', SpansInv, NEW c \in Callers, Step(c)
  PROVE  SpansInv'
<1>0. /\ FiredSoFar(c) /\ FiredSoFar(c)' /\ pc[c] \in PCs
      /\ pc \in [Callers -> PCs] /\ fired \in [Callers -> Seq(Channels)]
  BY Zenon DEF LifeInv, LifeType
<1>1. CASE FireStart(c)
  <2>1. PICK f \in Fires : /\ pc[c] = "start" /\ OpenSpans(c, f.reached)
                           /\ fired' = [fired EXCEPT ![c] = Append(@, "start")]
    BY <1>1, Zenon DEF FireStart, Goto
  <2>2. PICK k \in 1..Len(Observers) + 1 : f.reached = {Observers[j] : j \in 1..k - 1}
    BY DEF Fires
  <2>3. f.reached \subseteq Attached
    BY <2>2, PoolAssumption DEF Attached
  <2>4. spans' \subseteq Callers \X (Attached \intersect Spans)
    BY <2>1, <2>3 DEF OpenSpans, SpansInv
  <2>5. ~Told(c)'
    <3>1. fired[c] = <<>>
      BY <1>0, <2>1, Zenon DEF FiredSoFar, Before
    <3>2. Len(fired'[c]) = 1
      BY <1>0, <2>1, <3>1
    <3> QED
      BY <3>2 DEF Told
  <2>6. \A d \in Callers \ {c} : \A o \in Spans : <<d, o>> \in spans' => <<d, o>> \in spans
    BY <2>1, Zenon DEF OpenSpans
  <2> QED
    BY <2>4, <2>5, <2>6, OthersTold, Zenon DEF SpansInv
<1>2. CASE FireOutcome(c)
  <2>1. PICK f \in Fires : CloseSpans(c, f.reached)
    BY <1>2, Zenon DEF FireOutcome, OutcomeTo
  <2>2. spans' \subseteq spans
    BY <2>1, Zenon DEF CloseSpans
  <2>3. \A o \in Spans : <<c, o>> \notin spans'
    BY <2>1, MetersReached DEF CloseSpans, SpansInv
  <2> QED
    BY <2>2, <2>3, OthersTold, Zenon DEF SpansInv
<1>3. CASE ~FireStart(c) /\ ~FireOutcome(c)
  <2>1. UNCHANGED spans
    BY <1>3, Zenon DEF Step, Run, Slot, Acquire, Execute, Release, Call, SemaphoreAcquire, SemaphoreRefuse,
                SemaphoreRaise, Settle, Body, FireComplete, Leave, Signal, context
  <2>2. Told(c)' => Told(c)
    <3> USE <1>0 DEF Goto
    <3>1. CASE Acquire(c)
      <4>1. pc[c] \in Before /\ fired'[c] = fired[c]
        BY <3>1, Zenon DEF Acquire, Call, SemaphoreAcquire, SemaphoreRefuse, SemaphoreRaise, Settle, context, Before
      <4>2. fired'[c] = <<>>
        BY <4>1, Zenon DEF FiredSoFar
      <4>3. Len(fired'[c]) = 0
        BY ONLY <4>2, NothingFired, Zenon
      <4> QED
        BY <4>3 DEF Told
    <3>2. CASE Body(c)
      <4>1. pc'[c] = "outcome"
        BY <3>2, Zenon DEF Body
      <4> QED
        BY <4>1, Zenon DEF Told, After
    <3>3. CASE FireComplete(c)
      <4>1. pc[c] = "complete" /\ fired[c] = <<"start", Channel(c)>>
        BY <3>3, Zenon DEF FireComplete, FiredSoFar
      <4>2. Len(fired[c]) = 2
        BY <4>1
      <4> QED
        BY <4>1, <4>2 DEF Told
    <3>4. CASE Release(c)
      <4>1. pc[c] \in After /\ fired' = fired
        BY <3>4 DEF Release, Leave, Signal, context, After
      <4> QED
        BY <4>1, Zenon DEF Told
    <3> QED
      BY <1>3, <3>1, <3>2, <3>3, <3>4, Zenon DEF Step, Run, Slot, Execute
  <2> QED
    BY <2>1, <2>2, OthersTold, Zenon DEF SpansInv
<1> QED
  BY <1>1, <1>2, <1>3, Zenon

\* A LogfireMeter that is attached before every callback that may raise has
\* closed the span of each call that got past on_start when run() returns,
\* wherever a callback raises and whatever the other calls do.
THEOREM NoSpanLeftOpen == SpansFirst => (Spec => []SpansClosed)
<1> SUFFICES ASSUME SpansFirst PROVE Spec => []SpansClosed
  BY Zenon
<1>1. Init => SpansInv
  <2> SUFFICES ASSUME Init PROVE SpansInv
    OBVIOUS
  <2> QED
    BY DEF Init, SpansInv
<1>2. SpansInv /\ LifeInv /\ LifeInv' /\ [Next]_vars => SpansInv'
  <2> SUFFICES ASSUME SpansInv, LifeInv, LifeInv', [Next]_vars PROVE SpansInv'
    BY Zenon
  <2>1. CASE UNCHANGED vars
    BY <2>1 DEF vars, context, SpansInv, Told
  <2> QED
    BY <2>1, SpansStep DEF Next
<1>3. SpansInv => SpansClosed
  BY Zenon DEF SpansInv, SpansClosed, Told, After
<1> QED
  BY <1>1, <1>2, <1>3, LifeInvariant, PTL DEF Spec
-----------------------------------------------------------------------------
(* The server *)

ServePCs == {"off", "flag", "clear", "subscribe", "assign", "wait", "final", "exited"}
StopPCs == {"idle", "set", "test", "unsubscribe", "forget"}

\* The types of the servers.
ServerType ==
  /\ stops \in Nat
  /\ serve \in [W -> ServePCs] /\ stop \in [W -> StopPCs]
  /\ running \in [W -> BOOLEAN] /\ event \in [W -> BOOLEAN]
  /\ subId = [w \in W |-> subId[w]] /\ subs = [w \in W |-> subs[w]]
  /\ \A w \in W : IsFiniteSet(subs[w])

\* A worker process calls serve() once: the one subscription it makes is
\* remembered unless the handler of a signal removed it.
ProcessInv(w) ==
  /\ serve[w] \in {"final", "exited"} => deployment = "signalled"
  /\ deployment = "signalled" =>
       /\ serve[w] \in {"off", "flag", "clear", "subscribe"} => subs[w] = {} /\ subId[w] = 0
       /\ serve[w] = "assign" => subs[w] = {1} /\ subId[w] = 0
       /\ serve[w] \in {"wait", "final"} =>
            subs[w] \subseteq {subId[w]} /\ (stop[w] = "forget" => subs[w] = {})
       /\ serve[w] = "exited" => subs[w] = {} /\ ~running[w]

\* As long as nobody stops it, a server subscribes once, however often
\* serve() is called.
OnceInv(w) ==
  stops = 0 =>
    /\ stop[w] = "idle" /\ ~event[w] /\ serve[w] \notin {"final", "exited"}
    /\ subs[w] \subseteq {1}
    /\ serve[w] \in {"clear", "subscribe", "assign", "wait"} => running[w]
    /\ serve[w] \in {"flag", "clear", "subscribe"} \/ ~running[w] => subs[w] = {}

ServerInv == ServerType /\ \A w \in W : ProcessInv(w) /\ OnceInv(w)

\* Nothing is subscribed.
LEMMA LatestOfNone ==
  ASSUME NEW w \in W, subs[w] = {}
  PROVE  Latest(w) = 0
BY DEF Latest

\* One handler is subscribed.
LEMMA LatestOfOne ==
  ASSUME NEW w \in W, subs[w] = {1}
  PROVE  Latest(w) = 1
BY DEF Latest

\* A step of one server leaves the others alone.
ServerAside(v) ==
  /\ serve'[v] = serve[v] /\ stop'[v] = stop[v] /\ running'[v] = running[v] /\ event'[v] = event[v]
  /\ subId'[v] = subId[v] /\ subs'[v] = subs[v]

\* The invariant of a server that a step leaves alone.
LEMMA AsideKept ==
  ASSUME NEW v \in W, IsFiniteSet(subs[v]), ProcessInv(v), OnceInv(v), ServerAside(v),
         deployment' = deployment, stops \in Nat, stops' \in {stops, stops + 1}
  PROVE  IsFiniteSet(subs'[v]) /\ ProcessInv(v)' /\ OnceInv(v)'
<1>1. stops' = 0 => stops = 0
  OBVIOUS
<1> QED
  BY <1>1 DEF ServerAside, ProcessInv, OnceInv

\* What a step of server w leaves to be shown.
LEMMA OneServer ==
  ASSUME ServerInv, NEW w \in W, deployment' = deployment, stops' \in {stops, stops + 1},
         serve' \in [W -> ServePCs], stop' \in [W -> StopPCs],
         running' \in [W -> BOOLEAN], event' \in [W -> BOOLEAN],
         subId' = [v \in W |-> subId'[v]], subs' = [v \in W |-> subs'[v]],
         IsFiniteSet(subs'[w]), ProcessInv(w)', OnceInv(w)',
         \A v \in W \ {w} : ServerAside(v)
  PROVE  ServerInv'
<1>1. stops \in Nat /\ stops' \in Nat
  BY DEF ServerInv, ServerType
<1>2. \A v \in W \ {w} : IsFiniteSet(subs'[v]) /\ ProcessInv(v)' /\ OnceInv(v)'
  BY <1>1, AsideKept, Zenon DEF ServerInv, ServerType
<1> QED
  BY <1>1, <1>2, Zenon DEF ServerInv, ServerType

\* The facts about finite sets and their cardinality.
INSTANCE FiniteSetTheorems

\* The steps of serve().
LEMMA ServeStep ==
  ASSUME ServerInv, NEW w \in W,
         \/ ServeCall(w) \/ ServeFlag(w) \/ ServeClear(w) \/ ServeSubscribe(w) \/ ServeAssign(w)
         \/ ServeReturn(w) \/ WorkerExit(w)
  PROVE  ServerInv'
<1>0. ServerType /\ ProcessInv(w) /\ OnceInv(w) /\ IsFiniteSet(subs[w]) /\ serve[w] \in ServePCs
  BY DEF ServerInv, ServerType
<1>1. deployment' = deployment /\ stops' = stops /\ stop' = stop
  BY Zenon DEF ServeCall, ServeFlag, ServeClear, ServeSubscribe, ServeAssign, ServeReturn, WorkerExit
<1>2. CASE ServeCall(w) \/ ServeReturn(w)
  <2>1. /\ UNCHANGED <<running, event, subId, subs>>
        /\ \/ serve[w] = "off" /\ running[w] /\ serve' = [serve EXCEPT ![w] = "off"]
           \/ serve[w] = "off" /\ ~running[w] /\ serve' = [serve EXCEPT ![w] = "flag"]
           \/ /\ serve[w] = "wait" /\ event[w] /\ deployment = "signalled"
              /\ serve' = [serve EXCEPT ![w] = "final"]
           \/ /\ serve[w] = "wait" /\ event[w] /\ deployment # "signalled"
              /\ serve' = [serve EXCEPT ![w] = "off"]
    BY <1>2, Zenon DEF ServeCall, ServeReturn, Serve
  <2>2. serve' \in [W -> ServePCs] /\ \A v \in W \ {w} : ServerAside(v)
    BY <1>0, <1>1, <2>1, Zenon DEF ServerType, ServePCs, ServerAside
  <2>3. ProcessInv(w)' /\ OnceInv(w)'
    BY <1>0, <1>1, <2>1, Zenon DEF ServerType, ProcessInv, OnceInv
  <2> QED
    BY <1>0, <1>1, <2>1, <2>2, <2>3, OneServer, Zenon DEF ServerType
<1>3. CASE ServeFlag(w) \/ ServeClear(w)
  <2>1. /\ UNCHANGED <<subId, subs>>
        /\ \/ /\ serve[w] = "flag" /\ serve' = [serve EXCEPT ![w] = "clear"]
              /\ running' = [running EXCEPT ![w] = TRUE] /\ event' = event
           \/ /\ serve[w] = "clear" /\ serve' = [serve EXCEPT ![w] = "subscribe"]
              /\ event' = [event EXCEPT ![w] = FALSE] /\ running' = running
    BY <1>3, Zenon DEF ServeFlag, ServeClear, Serve
  <2>2. /\ serve' \in [W -> ServePCs] /\ running' \in [W -> BOOLEAN] /\ event' \in [W -> BOOLEAN]
        /\ \A v \in W \ {w} : ServerAside(v)
    BY <1>0, <1>1, <2>1, Zenon DEF ServerType, ServePCs, ServerAside
  <2>3. ProcessInv(w)' /\ OnceInv(w)'
    BY <1>0, <1>1, <2>1, Zenon DEF ServerType, ProcessInv, OnceInv
  <2> QED
    BY <1>0, <1>1, <2>1, <2>2, <2>3, OneServer, Zenon DEF ServerType
<1>4. CASE ServeSubscribe(w)
  <2>1. /\ serve[w] = "subscribe" /\ serve' = [serve EXCEPT ![w] = "assign"]
        /\ subs' = [subs EXCEPT ![w] = @ \union {Latest(w) + 1}]
        /\ UNCHANGED <<running, event, subId>>
    BY <1>4, Zenon DEF ServeSubscribe, Serve
  <2>2. serve' \in [W -> ServePCs] /\ \A v \in W \ {w} : ServerAside(v)
    BY <1>0, <1>1, <2>1, Zenon DEF ServerType, ServePCs, ServerAside
  <2>3. subs' = [v \in W |-> subs'[v]] /\ subs'[w] = subs[w] \union {Latest(w) + 1}
    BY <1>0, <2>1, Zenon DEF ServerType
  <2>4. IsFiniteSet(subs'[w])
    BY <1>0, <2>3, FS_AddElement
  <2>5. subs[w] = {} => subs'[w] = {1}
    BY <2>3, LatestOfNone
  <2>6. ProcessInv(w)' /\ OnceInv(w)'
    BY <1>0, <1>1, <2>1, <2>5, Zenon DEF ServerType, ProcessInv, OnceInv
  <2> QED
    BY <1>0, <1>1, <2>1, <2>2, <2>3, <2>4, <2>6, OneServer, Zenon DEF ServerType
<1>5. CASE ServeAssign(w)
  <2>1. /\ serve[w] = "assign" /\ subId' = [subId EXCEPT ![w] = Latest(w)]
        /\ serve' = [serve EXCEPT ![w] = IF deployment = "polling" THEN "off" ELSE "wait"]
        /\ UNCHANGED <<running, event, subs>> /\ (deployment = "signalled" => stop[w] = "idle")
    BY <1>5, Zenon DEF ServeAssign, Serve
  <2>2. serve' \in [W -> ServePCs] /\ \A v \in W \ {w} : ServerAside(v)
    BY <1>0, <1>1, <2>1, Zenon DEF ServerType, ServePCs, ServerAside
  <2>3. subId' = [v \in W |-> subId'[v]] /\ subId'[w] = Latest(w)
    BY <1>0, <2>1, Zenon DEF ServerType
  <2>4. subs[w] = {1} => subId'[w] = 1
    BY <2>3, LatestOfOne, Zenon
  <2>5. serve'[w] \in {"off", "wait"} /\ (deployment = "signalled" => serve'[w] = "wait")
    BY <1>0, <2>1, Zenon DEF ServerType
  <2>6. ProcessInv(w)'
    BY <1>0, <1>1, <2>1, <2>4, <2>5, Zenon DEF ProcessInv
  <2>7. OnceInv(w)'
    BY <1>0, <1>1, <2>1, <2>5, Zenon DEF OnceInv
  <2> QED
    BY <1>0, <1>1, <2>1, <2>2, <2>3, <2>6, <2>7, OneServer, Zenon DEF ServerType
<1>6. CASE WorkerExit(w)
  <2>1. /\ serve[w] = "final" /\ serve' = [serve EXCEPT ![w] = "exited"]
        /\ running' = [running EXCEPT ![w] = FALSE] /\ event' = event
        /\ subs' = [subs EXCEPT ![w] = @ \ {subId[w]}] /\ subId' = [subId EXCEPT ![w] = 0]
    BY <1>6, Zenon DEF WorkerExit, Serve, Unsubscribed
  <2>2. /\ serve' \in [W -> ServePCs] /\ running' \in [W -> BOOLEAN]
        /\ \A v \in W \ {w} : ServerAside(v)
    BY <1>0, <1>1, <2>1, Zenon DEF ServerType, ServePCs, ServerAside
  <2>3. /\ subs' = [v \in W |-> subs'[v]] /\ subId' = [v \in W |-> subId'[v]]
        /\ subs'[w] = subs[w] \ {subId[w]}
    BY <1>0, <2>1, Zenon DEF ServerType
  <2>4. IsFiniteSet(subs'[w])
    BY <1>0, <2>3, FS_Subset, Zenon
  <2>5. ProcessInv(w)' /\ OnceInv(w)'
    BY <1>0, <1>1, <2>1, <2>3, Zenon DEF ServerType, ProcessInv, OnceInv
  <2> QED
    BY <1>0, <1>1, <2>1, <2>2, <2>3, <2>4, <2>5, OneServer, Zenon DEF ServerType
<1> QED
  BY <1>2, <1>3, <1>4, <1>5, <1>6, Zenon

\* A stop() interferes with serve() at any point.
LEMMA StopStep ==
  ASSUME ServerInv, NEW w \in W,
         StopFlag(w) \/ StopEvent(w) \/ StopTest(w) \/ StopUnsubscribe(w) \/ StopForget(w)
  PROVE  ServerInv'
<1>0. ServerType /\ ProcessInv(w) /\ OnceInv(w) /\ IsFiniteSet(subs[w]) /\ serve[w] \in ServePCs
  BY Zenon DEF ServerInv, ServerType
<1>1. deployment' = deployment /\ serve' = serve
  BY Zenon DEF StopFlag, StopEvent, StopTest, StopUnsubscribe, StopForget
<1>2. CASE StopFlag(w)
  <2>1. /\ stop' = [stop EXCEPT ![w] = "set"] /\ stops' = stops + 1
        /\ running' = [running EXCEPT ![w] = FALSE] /\ UNCHANGED <<event, subId, subs>>
    BY <1>2, Zenon DEF StopFlag, Stop
  <2>2. /\ stop' \in [W -> StopPCs] /\ running' \in [W -> BOOLEAN] /\ ~running'[w]
        /\ \A v \in W \ {w} : ServerAside(v)
    BY <1>0, <1>1, <2>1, Zenon DEF ServerType, StopPCs, ServerAside
  <2>3. stops' # 0
    BY <1>0, <2>1 DEF ServerType
  <2>4. ProcessInv(w)' /\ OnceInv(w)'
    BY <1>0, <1>1, <2>1, <2>2, <2>3, Zenon DEF ProcessInv, OnceInv
  <2> QED
    BY <1>0, <1>1, <2>1, <2>2, <2>4, OneServer, Zenon DEF ServerType
<1>3. CASE StopEvent(w)
  <2>1. /\ stop[w] = "set" /\ stop' = [stop EXCEPT ![w] = "test"] /\ stops' = stops
        /\ event' = [event EXCEPT ![w] = TRUE] /\ UNCHANGED <<running, subId, subs>>
    BY <1>3, Zenon DEF StopEvent, Stop
  <2>2. /\ stop' \in [W -> StopPCs] /\ event' \in [W -> BOOLEAN]
        /\ \A v \in W \ {w} : ServerAside(v)
    BY <1>0, <1>1, <2>1, Zenon DEF ServerType, StopPCs, ServerAside
  <2>3. stop'[w] = "test"
    BY <1>0, <2>1, Zenon DEF ServerType
  <2>4. ProcessInv(w)' /\ OnceInv(w)'
    BY <1>0, <1>1, <2>1, <2>3, Zenon DEF ProcessInv, OnceInv
  <2> QED
    BY <1>0, <1>1, <2>1, <2>2, <2>4, OneServer, Zenon DEF ServerType
<1>4. CASE StopTest(w)
  <2>1. /\ \/ stop' = [stop EXCEPT ![w] = "idle"]
           \/ stop' = [stop EXCEPT ![w] = "unsubscribe"]
        /\ stop[w] = "test" /\ stops' = stops /\ UNCHANGED <<running, event, subId, subs>>
    BY <1>4, Zenon DEF StopTest, Stop
  <2>2. stop' \in [W -> StopPCs] /\ \A v \in W \ {w} : ServerAside(v)
    BY <1>0, <1>1, <2>1, Zenon DEF ServerType, StopPCs, ServerAside
  <2>3. stop'[w] \in {"idle", "unsubscribe"}
    BY <1>0, <2>1, Zenon DEF ServerType
  <2>4. ProcessInv(w)' /\ OnceInv(w)'
    BY <1>0, <1>1, <2>1, <2>3, Zenon DEF ProcessInv, OnceInv
  <2> QED
    BY <1>0, <1>1, <2>1, <2>2, <2>4, OneServer, Zenon DEF ServerType
<1>5. CASE StopUnsubscribe(w)
  <2>1. /\ stop[w] = "unsubscribe" /\ stop' = [stop EXCEPT ![w] = "forget"] /\ stops' = stops
        /\ subs' = [subs EXCEPT ![w] = @ \ {subId[w]}]
        /\ UNCHANGED <<running, event, subId>>
    BY <1>5, Zenon DEF StopUnsubscribe, Stop
  <2>2. stop' \in [W -> StopPCs] /\ \A v \in W \ {w} : ServerAside(v)
    BY <1>0, <1>1, <2>1, Zenon DEF ServerType, StopPCs, ServerAside
  <2>3. subs' = [v \in W |-> subs'[v]] /\ subs'[w] = subs[w] \ {subId[w]}
    BY <1>0, <2>1, Zenon DEF ServerType
  <2>4. IsFiniteSet(subs'[w])
    BY <1>0, <2>3, FS_Subset, Zenon
  <2>5. ProcessInv(w)' /\ OnceInv(w)'
    BY <1>0, <1>1, <2>1, <2>3 DEF ProcessInv, OnceInv
  <2> QED
    BY <1>0, <1>1, <2>1, <2>2, <2>3, <2>4, <2>5, OneServer, Zenon DEF ServerType
<1>6. CASE StopForget(w)
  <2>1. /\ stop[w] = "forget" /\ stop' = [stop EXCEPT ![w] = "idle"] /\ stops' = stops
        /\ subId' = [subId EXCEPT ![w] = 0] /\ UNCHANGED <<running, event, subs>>
    BY <1>6, Zenon DEF StopForget, Stop
  <2>2. /\ stop' \in [W -> StopPCs] /\ stop'[w] = "idle"
        /\ \A v \in W \ {w} : ServerAside(v)
    BY <1>0, <1>1, <2>1, Zenon DEF ServerType, StopPCs, ServerAside
  <2>3. subId' = [v \in W |-> subId'[v]] /\ subId'[w] = 0
    BY <1>0, <2>1, Zenon DEF ServerType
  <2>4. ProcessInv(w)' /\ OnceInv(w)'
    BY <1>0, <1>1, <2>1, <2>2, <2>3 DEF ProcessInv, OnceInv
  <2> QED
    BY <1>0, <1>1, <2>1, <2>2, <2>3, <2>4, OneServer, Zenon DEF ServerType
<1> QED
  BY <1>2, <1>3, <1>4, <1>5, <1>6, Zenon

\* ServerInv holds: the induction of the theorems below.
THEOREM ServerInvariant == RpcSpec => []ServerInv
<1>1. RpcInit => ServerInv
  <2> SUFFICES ASSUME RpcInit PROVE ServerInv
    OBVIOUS
  <2>1. ServerType
    BY FS_EmptySet, Zenon DEF RpcInit, ServerType, ServePCs, StopPCs
  <2>2. \A w \in W : ProcessInv(w) /\ OnceInv(w)
    BY Zenon DEF RpcInit, ProcessInv, OnceInv
  <2> QED
    BY <2>1, <2>2, Zenon DEF ServerInv
<1>2. ServerInv /\ [RpcNext]_rpcVars => ServerInv'
  <2> SUFFICES ASSUME ServerInv, [RpcNext]_rpcVars PROVE ServerInv'
    OBVIOUS
  <2>1. ASSUME UNCHANGED server PROVE ServerInv'
    BY <2>1, Zenon DEF server, ServerInv, ServerType, ProcessInv, OnceInv
  <2>2. ASSUME NEW w \in W, ServeCall(w) \/ StopFlag(w) \/ Server(w) PROVE ServerInv'
    BY <2>2, ServeStep, StopStep, Zenon DEF Server
  <2>3. ASSUME NEW c \in Calls, WithRetry(c) \/ Client(c) \/ ReceiveRaises(c) PROVE ServerInv'
    BY <2>1, <2>3, Zenon DEF WithRetry, Client, Send, SendRaises, Receive, ReceiveTimeout, ReceiveRaises
  <2>4. ASSUME (\E m \in requests : Handle(m)) \/ UNCHANGED rpcVars PROVE ServerInv'
    BY <2>1, <2>4, Zenon DEF Handle, rpcVars
  <2> QED
    BY <2>2, <2>3, <2>4, Zenon DEF RpcNext
<1> QED
  BY <1>1, <1>2, PTL DEF RpcSpec

\* A worker process that a signal stops leaves no subscription at the broker
\* and is not running, also if the handler ran while serve() was between
\* subscribing and assigning _sub_id (RPCServer.serve, stop, worker.py).
THEOREM ProcessesExitClean == RpcSpec => []WorkerExitsClean
<1>1. ServerInv => WorkerExitsClean
  BY Zenon DEF ServerInv, ProcessInv, WorkerExitsClean
<1> QED
  BY <1>1, ServerInvariant, PTL

-----------------------------------------------------------------------------
(* The calls *)

ReplyOutcomes == {"value", "emptyError", "error"}
Results == {"none", "value", "error"} \cup Exceptions

\* The types of the calls and the messages.
ClientType ==
  /\ calling \in [Calls -> {"idle", "sending", "waiting", "done"}]
  /\ kind \in [Calls -> Kinds] /\ attempt \in [Calls -> 0..MaxRetries]
  /\ result \in [Calls -> Results]
  /\ idx \in W /\ failed \subseteq Attempts
  /\ requests \subseteq [call : Calls, attempt : 0..MaxRetries, worker : W]
  /\ replies \subseteq [to : Attempts, request : Attempts, outcome : ReplyOutcomes]
  /\ executed \in [Attempts -> Nat]
  /\ answer \in [Calls -> {<<>>} \cup Attempts]

\* The request of attempt n of call c was sent.
Sent(c, n) == n < attempt[c] \/ (n = attempt[c] /\ calling[c] \in {"waiting", "done"})

\* A request is sent once, and a method runs only for a request, which it uses
\* up: once, unless the server has several subscriptions.
RequestsInv ==
  /\ \A m \in requests : Sent(m.call, m.attempt) /\ executed[<<m.call, m.attempt>>] = 0
  /\ \A m, o \in requests : m.call = o.call /\ m.attempt = o.attempt => m = o
  /\ \A c \in Calls, n \in 0..MaxRetries :
       /\ executed[<<c, n>>] > 0 => Sent(c, n)
       /\ stops = 0 => executed[<<c, n>>] <= 1

\* A reply goes to the attempt it answers and tells what its method did.
Honest(r, c, n) ==
  /\ r.request = <<c, n>> /\ r.to = <<c, n>> /\ r.outcome = Outcome(kind[c])
  /\ kind[c] # "missing" => executed[<<c, n>>] > 0

RepliesInv == \A r \in replies : \E c \in Calls, n \in 0..MaxRetries : Honest(r, c, n)

\* The attempts that failed are those before the last, and the last one too if
\* its exception was the caller's; a reply ends the call.
CallInv(c) ==
  /\ \A n \in 0..MaxRetries : <<c, n>> \in failed <=>
       n < attempt[c] \/ (n = attempt[c] /\ calling[c] = "done" /\ result[c] \in RetryOn)
  /\ calling[c] # "done" => answer[c] = <<>>
  /\ calling[c] = "done" =>
       /\ answer[c] = IF result[c] \in {"value", "error"} THEN <<c, attempt[c]>> ELSE <<>>
       /\ result[c] = "value" => kind[c] \in {"ok", "failsSilently"} /\ executed[<<c, attempt[c]>>] > 0
       /\ result[c] = "error" => kind[c] \in {"fails", "missing"}
       /\ result[c] \in RetryOn => attempt[c] = MaxRetries

ClientInv == ClientType /\ RequestsInv /\ RepliesInv /\ \A c \in Calls : CallInv(c)

\* Requests stay accounted for when none is added and none runs.
LEMMA RequestsKept ==
  ASSUME ClientInv, requests' \subseteq requests, executed' = executed, stops' = 0 => stops = 0,
         \A c \in Calls, n \in 0..MaxRetries : Sent(c, n) => Sent(c, n)'
  PROVE  RequestsInv'
<1>1. \A m \in requests : m.call \in Calls /\ m.attempt \in 0..MaxRetries
  BY Zenon DEF ClientInv, ClientType
<1> QED
  BY <1>1, Zenon DEF ClientInv, RequestsInv

\* Replies stay honest while methods only run more often.
LEMMA RepliesKept ==
  ASSUME RepliesInv, replies' \subseteq replies, kind' = kind,
         \A c \in Calls, n \in 0..MaxRetries : executed[<<c, n>>] > 0 => executed'[<<c, n>>] > 0
  PROVE  RepliesInv'
BY Zenon DEF RepliesInv, Honest

\* The invariant of a call that a step leaves alone.
LEMMA CallKept ==
  ASSUME NEW d \in Calls, CallInv(d), attempt[d] \in 0..MaxRetries,
         calling'[d] = calling[d], kind'[d] = kind[d], attempt'[d] = attempt[d], result'[d] = result[d],
         answer'[d] = answer[d],
         \A n \in 0..MaxRetries : <<d, n>> \in failed' <=> <<d, n>> \in failed,
         \A n \in 0..MaxRetries : executed[<<d, n>>] > 0 => executed'[<<d, n>>] > 0
  PROVE  CallInv(d)'
BY Zenon DEF CallInv

\* A step of a server.
LEMMA ElsewhereStep ==
  ASSUME ClientInv, UNCHANGED client, executed' = executed, stops' = 0 => stops = 0,
         requests' \subseteq requests, replies' \subseteq replies
  PROVE  ClientInv'
<1>1. ClientType'
  BY Zenon DEF ClientInv, ClientType, client
<1>2. \A c \in Calls, n \in 0..MaxRetries : Sent(c, n) => Sent(c, n)'
  BY Zenon DEF Sent, client
<1>3. RequestsInv' /\ RepliesInv'
  BY <1>2, RequestsKept, RepliesKept, Zenon DEF ClientInv, client
<1>4. \A c \in Calls : CallInv(c)'
  BY CallKept, Zenon DEF ClientInv, ClientType, client
<1> QED
  BY <1>1, <1>3, <1>4, Zenon DEF ClientInv

\* An exception, while sending or waiting, or of the method.
LEMMA RaisesStep ==
  ASSUME ClientInv, NEW c \in Calls, NEW exc \in Exceptions \cup {"error"},
         calling[c] \in {"sending", "waiting"}, Raises(c, exc), UNCHANGED <<kind, executed>>,
         exc = "error" => kind[c] \in {"fails", "missing"},
         answer'[c] = IF exc = "error" THEN <<c, attempt[c]>> ELSE <<>>,
         \A d \in Calls \ {c} : answer'[d] = answer[d]
  PROVE  /\ calling' \in [Calls -> {"idle", "sending", "waiting", "done"}]
         /\ attempt' \in [Calls -> 0..MaxRetries] /\ result' \in [Calls -> Results]
         /\ failed' \subseteq Attempts
         /\ \A d \in Calls, n \in 0..MaxRetries : Sent(d, n) => Sent(d, n)'
         /\ \A n \in 0..MaxRetries : n = attempt[c] => Sent(c, n)'
         /\ \A d \in Calls : CallInv(d)'
<1>0. ClientType /\ CallInv(c) /\ attempt[c] \in 0..MaxRetries /\ MaxRetries \in Nat
  BY RPCAssumption, Zenon DEF ClientInv, ClientType
<1>1. <<c, attempt[c]>> \in Attempts /\ exc \in Results
  BY <1>0, Zenon DEF Attempts, Results
<1>2. failed' = IF exc \in RetryOn THEN failed \union {<<c, attempt[c]>>} ELSE failed
  BY Zenon DEF Raises
<1>3. \/ /\ exc \in RetryOn => ~(attempt[c] < MaxRetries)
         /\ attempt' = attempt
         /\ calling' = [calling EXCEPT ![c] = "done"] /\ result' = [result EXCEPT ![c] = exc]
      \/ /\ exc \in RetryOn /\ attempt[c] < MaxRetries /\ attempt' = [attempt EXCEPT ![c] = @ + 1]
         /\ calling' = [calling EXCEPT ![c] = "sending"] /\ result' = result
  BY Zenon DEF Raises, Ends
<1>4. attempt' \in [Calls -> 0..MaxRetries]
  <2>1. attempt[c] < MaxRetries => attempt[c] + 1 \in 0..MaxRetries
    BY ONLY <1>0
  <2> QED
    BY <1>0, <1>3, <2>1, Zenon DEF ClientType
<1>5. /\ calling' \in [Calls -> {"idle", "sending", "waiting", "done"}]
      /\ result' \in [Calls -> Results] /\ failed' \subseteq Attempts
  BY <1>0, <1>1, <1>2, <1>3, Zenon DEF ClientType
<1>6. \/ /\ calling'[c] = "done" /\ result'[c] = exc /\ attempt'[c] = attempt[c]
         /\ exc \in RetryOn => ~(attempt[c] < MaxRetries)
      \/ exc \in RetryOn /\ calling'[c] = "sending" /\ attempt'[c] = attempt[c] + 1
  BY <1>0, <1>3, Zenon DEF ClientType
<1>7. \A d \in Calls \ {c} : /\ calling'[d] = calling[d] /\ attempt'[d] = attempt[d] /\ result'[d] = result[d]
                             /\ \A n \in 0..MaxRetries : <<d, n>> \in failed' <=> <<d, n>> \in failed
  BY <1>0, <1>2, <1>3, Zenon DEF ClientType
<1>8. ASSUME NEW n \in 0..MaxRetries, n = attempt[c] PROVE Sent(c, n)'
  <2>1. attempt[c] < attempt[c] + 1
    BY ONLY <1>0
  <2> QED
    BY <1>6, <1>8, <2>1, Zenon DEF Sent
<1>9. ASSUME NEW d \in Calls, NEW n \in 0..MaxRetries, Sent(d, n) PROVE Sent(d, n)'
  <2>1. CASE d = c
    BY <1>0, <1>6, <1>9, <2>1 DEF Sent
  <2>2. CASE d # c
    BY <1>7, <1>9, <2>2, Zenon DEF Sent
  <2> QED
    BY <2>1, <2>2, Zenon
<1>10. CallInv(c)'
  <2>1. \A n \in 0..MaxRetries : <<c, n>> \in failed' <=> (<<c, n>> \in failed \/ (exc \in RetryOn /\ n = attempt[c]))
    BY <1>2, Zenon
  <2>2. \A n \in 0..MaxRetries : <<c, n>> \in failed <=> n < attempt[c]
    BY <1>0, Zenon DEF CallInv
  <2>3. CASE /\ calling'[c] = "done" /\ result'[c] = exc /\ attempt'[c] = attempt[c]
             /\ exc \in RetryOn => ~(attempt[c] < MaxRetries)
    <3>1. exc \in RetryOn => attempt'[c] = MaxRetries
      <4>1. ~(attempt[c] < MaxRetries) => attempt[c] = MaxRetries
        BY ONLY <1>0
      <4> QED
        BY <2>3, <4>1, Zenon
    <3>2. \A n \in 0..MaxRetries : <<c, n>> \in failed' <=>
            n < attempt'[c] \/ (n = attempt'[c] /\ calling'[c] = "done" /\ result'[c] \in RetryOn)
      BY <2>1, <2>2, <2>3, Zenon
    <3>3. exc # "value" /\ (exc # "error" => exc \notin {"value", "error"})
      BY Zenon DEF Exceptions
    <3>4. answer'[c] = IF result'[c] \in {"value", "error"} THEN <<c, attempt'[c]>> ELSE <<>>
      BY <2>3, <3>3, Zenon
    <3> QED
      BY <2>3, <3>1, <3>2, <3>3, <3>4, Zenon DEF CallInv
  <2>4. CASE exc \in RetryOn /\ calling'[c] = "sending" /\ attempt'[c] = attempt[c] + 1
    <3>1. \A n \in 0..MaxRetries : (n < attempt[c] \/ n = attempt[c]) <=> n < attempt'[c]
      BY ONLY <1>0, <2>4
    <3>2. \A n \in 0..MaxRetries : <<c, n>> \in failed' <=> n < attempt'[c]
      BY <2>1, <2>2, <2>4, <3>1, Zenon
    <3>3. exc # "error"
      BY <2>4, Zenon DEF RetryOn
    <3> QED
      BY <2>4, <3>2, <3>3, Zenon DEF CallInv
  <2> QED
    BY <1>6, <2>3, <2>4, Zenon
<1>11. ASSUME NEW d \in Calls \ {c} PROVE CallInv(d)'
  BY <1>0, <1>7, CallKept, Zenon DEF ClientInv, ClientType
<1> QED
  BY <1>4, <1>5, <1>8, <1>9, <1>10, <1>11, Zenon

\* The round robin stays within the workers.
LEMMA NextIndex ==
  ASSUME idx \in W, NextClient
  PROVE  idx' \in W
<1>1. idx \in Nat /\ Workers \in Nat \ {0}
  BY RPCAssumption DEF W
<1>2. (idx + 1) % Workers \in 0..Workers - 1
  BY <1>1
<1> QED
  BY <1>2, Zenon DEF NextClient, W

\* The request of an attempt is put in transit, or is not.
LEMMA RequestAdded ==
  ASSUME ClientInv, NEW c \in Calls, calling[c] = "sending",
         requests' \in {requests, requests \union {Msg(c, idx)}},
         executed' = executed, stops' = stops,
         \A d \in Calls, n \in 0..MaxRetries : Sent(d, n) => Sent(d, n)',
         \A n \in 0..MaxRetries : n = attempt[c] => Sent(c, n)'
  PROVE  /\ requests' \subseteq [call : Calls, attempt : 0..MaxRetries, worker : W]
         /\ RequestsInv'
<1>0. ClientType /\ attempt[c] \in 0..MaxRetries /\ idx \in W
  BY Zenon DEF ClientInv, ClientType
<1> DEFINE m == Msg(c, idx)
<1>1. /\ m \in [call : Calls, attempt : 0..MaxRetries, worker : W]
      /\ m.call = c /\ m.attempt = attempt[c]
  BY <1>0, Zenon DEF Msg
<1>2. requests' \subseteq requests \union {m}
  BY Zenon
<1> HIDE DEF m
<1>3. requests' \subseteq [call : Calls, attempt : 0..MaxRetries, worker : W]
  BY <1>0, <1>1, <1>2, Zenon DEF ClientType
<1>4. ~Sent(c, attempt[c])
  <2>1. ~(attempt[c] < attempt[c])
    BY ONLY <1>0
  <2> QED
    BY <2>1, Zenon DEF Sent
<1>5. executed[<<c, attempt[c]>>] = 0
  <2>1. executed[<<c, attempt[c]>>] \in Nat
    BY <1>0, Zenon DEF ClientType, Attempts
  <2>2. ~(executed[<<c, attempt[c]>>] > 0)
    BY <1>0, <1>4, Zenon DEF ClientInv, RequestsInv
  <2> QED
    BY ONLY <2>1, <2>2
<1>6. \A o \in requests : o.call \in Calls /\ o.attempt \in 0..MaxRetries /\ (o.call # c \/ o.attempt # attempt[c])
  BY <1>0, <1>4, Zenon DEF ClientInv, ClientType, RequestsInv
<1>7. ASSUME NEW o \in requests' PROVE Sent(o.call, o.attempt)' /\ executed'[<<o.call, o.attempt>>] = 0
  <2>1. CASE o \in requests
    BY <1>6, <2>1, Zenon DEF ClientInv, RequestsInv
  <2>2. CASE o = m
    <3>1. o.call = c /\ o.attempt = attempt[c]
      BY <1>1, <2>2, Zenon
    <3>2. Sent(c, o.attempt)' /\ executed'[<<c, o.attempt>>] = 0
      BY <1>0, <1>5, <3>1, Zenon
    <3> QED
      BY <3>1, <3>2, Zenon
  <2> QED
    BY <1>2, <2>1, <2>2, Zenon
<1>8. \A o, q \in requests' : o.call = q.call /\ o.attempt = q.attempt => o = q
  BY <1>1, <1>2, <1>6, Zenon DEF ClientInv, RequestsInv
<1>9. \A d \in Calls, n \in 0..MaxRetries :
        (executed'[<<d, n>>] > 0 => Sent(d, n)') /\ (stops' = 0 => executed'[<<d, n>>] <= 1)
  BY Zenon DEF ClientInv, RequestsInv
<1> QED
  BY <1>3, <1>7, <1>8, <1>9, Zenon DEF RequestsInv

\* send() returns.
LEMMA SendStep ==
  ASSUME ClientInv, NEW c \in Calls, Send(c)
  PROVE  ClientInv'
<1>0. ClientType /\ attempt[c] \in 0..MaxRetries /\ idx \in W
  BY Zenon DEF ClientInv, ClientType
<1>1. /\ calling[c] = "sending" /\ requests' \in {requests, requests \union {Msg(c, idx)}}
      /\ calling' = [calling EXCEPT ![c] = "waiting"]
      /\ UNCHANGED <<kind, attempt, result, failed, answer, replies, executed, stops>> /\ NextClient
  BY Zenon DEF Send, server
<1>2. calling'[c] = "waiting" /\ \A d \in Calls \ {c} : calling'[d] = calling[d]
  BY <1>0, <1>1, Zenon DEF ClientType
<1>3. /\ \A d \in Calls, n \in 0..MaxRetries : Sent(d, n) => Sent(d, n)'
      /\ \A n \in 0..MaxRetries : n = attempt[c] => Sent(c, n)'
  BY <1>1, <1>2, Zenon DEF Sent
<1>4. /\ requests' \subseteq [call : Calls, attempt : 0..MaxRetries, worker : W]
      /\ RequestsInv'
  BY <1>1, <1>3, RequestAdded, Zenon
<1>5. ClientType'
  BY <1>0, <1>1, <1>4, NextIndex, Zenon DEF ClientType
<1>6. RepliesInv'
  BY <1>1, RepliesKept, Zenon DEF ClientInv
<1>7. CallInv(c)'
  BY <1>1, <1>2, Zenon DEF ClientInv, CallInv
<1>8. ASSUME NEW d \in Calls \ {c} PROVE CallInv(d)'
  BY <1>1, <1>2, CallKept, Zenon DEF ClientInv, ClientType
<1> QED
  BY <1>4, <1>5, <1>6, <1>7, <1>8, Zenon DEF ClientInv

\* send() raises, whether the request is in transit or not.
LEMMA SendRaisesStep ==
  ASSUME ClientInv, NEW c \in Calls, SendRaises(c)
  PROVE  ClientInv'
<1>0. ClientType /\ CallInv(c) /\ idx \in W
  BY Zenon DEF ClientInv, ClientType
<1>1. PICK exc \in Exceptions : Raises(c, exc)
  BY Zenon DEF SendRaises
<1>2. /\ calling[c] = "sending" /\ requests' \in {requests, requests \union {Msg(c, idx)}}
      /\ UNCHANGED <<kind, answer, replies, executed, stops>> /\ NextClient
  BY Zenon DEF SendRaises, server
<1>3. exc # "error" /\ answer'[c] = <<>>
  BY <1>0, <1>2, Zenon DEF Exceptions, CallInv
<1>4. /\ calling' \in [Calls -> {"idle", "sending", "waiting", "done"}]
      /\ attempt' \in [Calls -> 0..MaxRetries] /\ result' \in [Calls -> Results]
      /\ failed' \subseteq Attempts
      /\ \A d \in Calls, n \in 0..MaxRetries : Sent(d, n) => Sent(d, n)'
      /\ \A n \in 0..MaxRetries : n = attempt[c] => Sent(c, n)'
      /\ \A d \in Calls : CallInv(d)'
  BY <1>1, <1>2, <1>3, RaisesStep, Zenon
<1>5. /\ requests' \subseteq [call : Calls, attempt : 0..MaxRetries, worker : W]
      /\ RequestsInv'
  BY <1>2, <1>4, RequestAdded, Zenon
<1>6. ClientType'
  BY <1>0, <1>2, <1>4, <1>5, NextIndex, Zenon DEF ClientType
<1>7. RepliesInv'
  BY <1>2, RepliesKept, Zenon DEF ClientInv
<1> QED
  BY <1>4, <1>5, <1>6, <1>7, Zenon DEF ClientInv

\* The wait for the reply ends without one.
LEMMA WaitRaisesStep ==
  ASSUME ClientInv, NEW c \in Calls, ReceiveTimeout(c) \/ ReceiveRaises(c)
  PROVE  ClientInv'
<1>0. ClientType /\ CallInv(c)
  BY Zenon DEF ClientInv
<1>1. PICK exc \in Exceptions : Raises(c, exc)
  BY Zenon DEF ReceiveTimeout, ReceiveRaises, Exceptions
<1>2. calling[c] = "waiting" /\ UNCHANGED <<kind, idx, answer, requests, replies, executed, stops>>
  BY Zenon DEF ReceiveTimeout, ReceiveRaises, network, server
<1>3. exc # "error" /\ answer'[c] = <<>>
  BY <1>0, <1>2, Zenon DEF Exceptions, CallInv
<1>4. /\ calling' \in [Calls -> {"idle", "sending", "waiting", "done"}]
      /\ attempt' \in [Calls -> 0..MaxRetries] /\ result' \in [Calls -> Results]
      /\ failed' \subseteq Attempts
      /\ \A d \in Calls, n \in 0..MaxRetries : Sent(d, n) => Sent(d, n)'
      /\ \A d \in Calls : CallInv(d)'
  BY <1>1, <1>2, <1>3, RaisesStep, Zenon
<1>5. RequestsInv' /\ RepliesInv'
  BY <1>2, <1>4, RequestsKept, RepliesKept, Zenon DEF ClientInv
<1>6. ClientType'
  BY <1>0, <1>2, <1>4, Zenon DEF ClientType
<1> QED
  BY <1>4, <1>5, <1>6, Zenon DEF ClientInv

\* A call is made.
LEMMA CallStep ==
  ASSUME ClientInv, NEW c \in Calls, WithRetry(c)
  PROVE  ClientInv'
<1>0. ClientType
  BY Zenon DEF ClientInv
<1>1. /\ calling[c] = "idle" /\ calling' = [calling EXCEPT ![c] = "sending"]
      /\ UNCHANGED <<kind, attempt, result, idx, failed, answer, requests, replies, executed, stops>>
  BY Zenon DEF WithRetry, server, network
<1>2. ClientType'
  BY <1>0, <1>1, Zenon DEF ClientType
<1>3. calling'[c] = "sending" /\ \A d \in Calls \ {c} : calling'[d] = calling[d]
  BY <1>0, <1>1, Zenon DEF ClientType
<1>4. \A d \in Calls, n \in 0..MaxRetries : Sent(d, n) => Sent(d, n)'
  BY <1>1, <1>3, Zenon DEF Sent
<1>5. RequestsInv' /\ RepliesInv'
  BY <1>1, <1>4, RequestsKept, RepliesKept, Zenon DEF ClientInv
<1>6. CallInv(c)'
  BY <1>1, <1>3, Zenon DEF ClientInv, CallInv
<1>7. ASSUME NEW d \in Calls \ {c} PROVE CallInv(d)'
  BY <1>1, <1>3, CallKept, Zenon DEF ClientInv, ClientType
<1> QED
  BY <1>2, <1>5, <1>6, <1>7, Zenon DEF ClientInv

\* A call takes its reply.
LEMMA ReceiveStep ==
  ASSUME ClientInv, NEW c \in Calls, Receive(c)
  PROVE  ClientInv'
<1>0. /\ ClientType /\ RepliesInv /\ CallInv(c) /\ attempt[c] \in 0..MaxRetries
      /\ kind[c] \in {"ok", "fails", "failsSilently", "missing"}
  BY RPCAssumption, Zenon DEF ClientInv, ClientType
<1>1. PICK r \in replies :
        /\ calling[c] = "waiting" /\ r.to = <<c, attempt[c]>> /\ replies' = replies \ {r}
        /\ IF r.outcome = "error" THEN Raises(c, "error") ELSE Ends(c, "value") /\ failed' = failed
        /\ answer' = [answer EXCEPT ![c] = r.request]
        /\ UNCHANGED <<kind, idx, requests, executed, stops>>
  BY Zenon DEF Receive, ReplyTopic, server
<1>2. Honest(r, c, attempt[c])
  <2>1. PICK d \in Calls, n \in 0..MaxRetries : Honest(r, d, n)
    BY <1>0, Zenon DEF RepliesInv
  <2>2. d = c /\ n = attempt[c]
    <3>1. r.to = <<c, attempt[c]>> /\ r.to = <<d, n>>
      BY <1>1, <2>1, Zenon DEF Honest
    <3> QED
      BY ONLY <3>1
  <2> QED
    BY <2>1, <2>2, Zenon
<1>3. r.outcome \in ReplyOutcomes /\ r.request \in Attempts
  BY <1>0, Zenon DEF ClientType
<1>4. /\ answer'[c] = <<c, attempt[c]>> /\ \A d \in Calls \ {c} : answer'[d] = answer[d]
      /\ answer' \in [Calls -> {<<>>} \cup Attempts]
  BY <1>0, <1>1, <1>2, <1>3, Zenon DEF ClientType, Honest
<1>5. /\ r.outcome = "error" => kind[c] \in {"fails", "missing"}
      /\ r.outcome # "error" => kind[c] \in {"ok", "failsSilently"} /\ executed[<<c, attempt[c]>>] > 0
  BY <1>0, <1>2, Zenon DEF Honest, Outcome
<1>6. /\ calling' \in [Calls -> {"idle", "sending", "waiting", "done"}]
      /\ attempt' \in [Calls -> 0..MaxRetries] /\ result' \in [Calls -> Results]
      /\ failed' \subseteq Attempts
      /\ \A d \in Calls, n \in 0..MaxRetries : Sent(d, n) => Sent(d, n)'
      /\ \A d \in Calls : CallInv(d)'
  <2>1. CASE r.outcome = "error"
    BY <1>1, <1>4, <1>5, <2>1, RaisesStep, Zenon
  <2>2. CASE r.outcome # "error"
    <3>1. /\ calling' = [calling EXCEPT ![c] = "done"] /\ result' = [result EXCEPT ![c] = "value"]
          /\ attempt' = attempt /\ failed' = failed
      BY <1>1, <2>2, Zenon DEF Ends
    <3>2. /\ calling' \in [Calls -> {"idle", "sending", "waiting", "done"}]
          /\ attempt' \in [Calls -> 0..MaxRetries] /\ result' \in [Calls -> Results]
          /\ failed' \subseteq Attempts
      BY <1>0, <3>1, Zenon DEF ClientType, Results
    <3>3. calling'[c] = "done" /\ result'[c] = "value"
      BY <1>0, <3>1, Zenon DEF ClientType
    <3>4. \A d \in Calls \ {c} : calling'[d] = calling[d] /\ result'[d] = result[d]
      BY <1>0, <3>1, Zenon DEF ClientType
    <3>5. \A d \in Calls, n \in 0..MaxRetries : Sent(d, n) => Sent(d, n)'
      BY <1>1, <3>1, <3>3, <3>4, Zenon DEF Sent
    <3>6. CallInv(c)'
      <4>1. \A n \in 0..MaxRetries : <<c, n>> \in failed <=> n < attempt[c]
        BY <1>0, <1>1, Zenon DEF CallInv
      <4>2. "value" \notin RetryOn
        BY Zenon DEF RetryOn
      <4> QED
        BY <1>1, <1>4, <1>5, <2>2, <3>1, <3>3, <4>1, <4>2, Zenon DEF CallInv
    <3>7. ASSUME NEW d \in Calls \ {c} PROVE CallInv(d)'
      BY <1>1, <1>4, <3>1, <3>4, CallKept, Zenon DEF ClientInv, ClientType
    <3> QED
      BY <3>2, <3>5, <3>6, <3>7, Zenon
  <2> QED
    BY <2>1, <2>2, Zenon
<1>7. RequestsInv' /\ RepliesInv'
  BY <1>1, <1>6, RequestsKept, RepliesKept, Zenon DEF ClientInv
<1>8. ClientType'
  BY <1>0, <1>1, <1>4, <1>6, Zenon DEF ClientType
<1> QED
  BY <1>6, <1>7, <1>8, Zenon DEF ClientInv

\* A request runs its method once per subscription, so at most once at a
\* server that nobody stopped, and is answered if there is one at all.
LEMMA HandleStep ==
  ASSUME ServerInv, ClientInv, NEW m \in requests, Handle(m)
  PROVE  ClientInv'
<1>0. /\ ClientType /\ m.call \in Calls /\ m.attempt \in 0..MaxRetries /\ m.worker \in W
      /\ kind[m.call] \in {"ok", "fails", "failsSilently", "missing"}
  BY RPCAssumption, Zenon DEF ClientInv, ClientType
<1> DEFINE a == <<m.call, m.attempt>>
           k == Cardinality(subs[m.worker])
           r == [to |-> a, request |-> a, outcome |-> Outcome(kind[m.call])]
<1>1. /\ requests' = requests \ {m} /\ UNCHANGED client /\ stops' = stops
      /\ executed' = IF kind[m.call] = "missing" THEN executed ELSE [executed EXCEPT ![a] = @ + k]
      /\ replies' = IF subs[m.worker] = {} THEN replies ELSE replies \union {r}
  BY Zenon DEF Handle, ReplyTopic, server
<1>2. a \in Attempts /\ executed[a] = 0
  BY <1>0, Zenon DEF Attempts, ClientInv, RequestsInv
<1>3. k \in Nat /\ (subs[m.worker] # {} => k > 0) /\ (stops = 0 => k <= 1)
  <2>1. IsFiniteSet(subs[m.worker]) /\ (stops = 0 => subs[m.worker] \subseteq {1})
    BY <1>0, Zenon DEF ServerInv, ServerType, OnceInv
  <2>2. k \in Nat /\ (subs[m.worker] # {} => k # 0)
    BY <2>1, FS_CardinalityType, FS_EmptySet, Zenon
  <2>3. ASSUME stops = 0 PROVE k <= 1
    <3>1. subs[m.worker] = {} \/ subs[m.worker] = {1}
      BY <2>1, <2>3, Zenon
    <3>2. Cardinality({}) = 0 /\ Cardinality({1}) = 1
      BY FS_EmptySet, FS_Singleton, Zenon
    <3> QED
      BY <3>1, <3>2
  <2> QED
    BY <2>2, <2>3
<1> HIDE DEF k
<1>4. /\ executed' \in [Attempts -> Nat]
      /\ \A b \in Attempts : b # a => executed'[b] = executed[b]
      /\ executed'[a] = IF kind[m.call] = "missing" THEN 0 ELSE k
  <2>1. executed \in [Attempts -> Nat]
    BY <1>0, Zenon DEF ClientType
  <2>2. executed[a] + k = k
    BY <1>2, <1>3
  <2> HIDE DEF a
  <2>3. CASE kind[m.call] = "missing"
    BY <1>1, <1>2, <2>1, <2>3, Zenon
  <2>4. CASE kind[m.call] # "missing"
    <3>1. executed' = [executed EXCEPT ![a] = k]
      BY <1>1, <2>2, <2>4, Zenon
    <3> QED
      BY <1>2, <1>3, <2>1, <2>4, <3>1, Zenon
  <2> QED
    BY <2>3, <2>4, Zenon
<1>5. \A b \in Attempts : executed[b] > 0 => executed'[b] > 0
  BY <1>2, <1>4
<1>6. ClientType'
  <2>1. r \in [to : Attempts, request : Attempts, outcome : ReplyOutcomes]
    BY <1>2, Zenon DEF Outcome, ReplyOutcomes
  <2>2. requests' \subseteq requests /\ replies' \subseteq replies \union {r}
    BY <1>1, Zenon
  <2> QED
    BY <1>0, <1>1, <1>4, <2>1, <2>2, Zenon DEF ClientType, client
<1>7. \A d \in Calls, n \in 0..MaxRetries : Sent(d, n)' = Sent(d, n)
  BY <1>1, Zenon DEF Sent, client
<1>8. RequestsInv'
  <2>1. ASSUME NEW o \in requests' PROVE Sent(o.call, o.attempt)' /\ executed'[<<o.call, o.attempt>>] = 0
    <3>1. o \in requests /\ o # m /\ o.call \in Calls /\ o.attempt \in 0..MaxRetries
      BY <1>0, <1>1, <2>1, Zenon DEF ClientType
    <3>2. <<o.call, o.attempt>> # a /\ <<o.call, o.attempt>> \in Attempts
      BY <3>1, Zenon DEF ClientInv, RequestsInv, Attempts
    <3> QED
      BY <1>4, <1>7, <3>1, <3>2, Zenon DEF ClientInv, RequestsInv
  <2>2. \A o, q \in requests' : o.call = q.call /\ o.attempt = q.attempt => o = q
    BY <1>1, Zenon DEF ClientInv, RequestsInv
  <2>3. ASSUME NEW d \in Calls, NEW n \in 0..MaxRetries
        PROVE  (executed'[<<d, n>>] > 0 => Sent(d, n)') /\ (stops' = 0 => executed'[<<d, n>>] <= 1)
    <3>1. CASE <<d, n>> = a
      <4>1. Sent(d, n)
        BY <3>1, Zenon DEF ClientInv, RequestsInv
      <4>2. stops' = 0 => executed'[a] <= 1
        <5>1. /\ executed'[a] = IF kind[m.call] = "missing" THEN 0 ELSE k
              /\ k \in Nat /\ (stops' = 0 => k <= 1)
          BY <1>1, <1>3, <1>4, Zenon
        <5> QED
          BY ONLY <5>1
      <4> QED
        BY <1>7, <3>1, <4>1, <4>2, Zenon
    <3>2. CASE <<d, n>> # a
      <4>1. executed'[<<d, n>>] = executed[<<d, n>>]
        BY <1>4, <3>2, Zenon DEF Attempts
      <4> QED
        BY <1>1, <1>7, <4>1, Zenon DEF ClientInv, RequestsInv
    <3> QED
      BY <3>1, <3>2, Zenon
  <2> QED
    BY <2>1, <2>2, <2>3, Zenon DEF RequestsInv
<1>9. RepliesInv'
  <2>1. ASSUME NEW q \in replies PROVE \E c \in Calls, n \in 0..MaxRetries : Honest(q, c, n)'
    <3>1. PICK c \in Calls, n \in 0..MaxRetries : Honest(q, c, n)
      BY Zenon DEF ClientInv, RepliesInv
    <3>2. Honest(q, c, n)'
      BY <1>1, <1>5, <3>1, Zenon DEF Honest, Attempts, client
    <3> QED
      BY <3>2, Zenon
  <2>2. ASSUME NEW q, q = r, subs[m.worker] # {} PROVE Honest(q, m.call, m.attempt)'
    <3>1. kind[m.call] # "missing" => executed'[a] > 0
      BY <1>3, <1>4, <2>2, Zenon
    <3> QED
      BY <1>1, <2>2, <3>1, Zenon DEF Honest, client
  <2>3. ASSUME NEW q \in replies' PROVE q \in replies \/ (subs[m.worker] # {} /\ q = r)
    BY <1>1, <2>3, Zenon
  <2> QED
    BY <1>0, <2>1, <2>2, <2>3, Zenon DEF RepliesInv
<1>10. ASSUME NEW d \in Calls PROVE CallInv(d)'
  BY <1>1, <1>5, CallKept, Zenon DEF ClientInv, ClientType, Attempts, client
<1> QED
  BY <1>6, <1>8, <1>9, <1>10, Zenon DEF ClientInv

\* ClientInv holds: the induction of the theorem below.
THEOREM ClientInvariant == RpcSpec => []ClientInv
<1>1. RpcInit => ClientInv
  <2> SUFFICES ASSUME RpcInit PROVE ClientInv
    OBVIOUS
  <2>1. ClientType
    <3>1. 0 \in W /\ 0 \in 0..MaxRetries
      BY RPCAssumption DEF W
    <3> QED
      BY <3>1, Zenon DEF RpcInit, ClientType, Results
  <2>2. RequestsInv /\ RepliesInv
    BY DEF RpcInit, RequestsInv, RepliesInv, Attempts
  <2>3. \A c \in Calls : CallInv(c)
    BY RPCAssumption DEF RpcInit, CallInv
  <2> QED
    BY <2>1, <2>2, <2>3, Zenon DEF ClientInv
<1>2. ServerInv /\ ClientInv /\ [RpcNext]_rpcVars => ClientInv'
  <2> SUFFICES ASSUME ServerInv, ClientInv, [RpcNext]_rpcVars PROVE ClientInv'
    BY Zenon
  <2>1. CASE UNCHANGED rpcVars
    BY <2>1, ElsewhereStep, Zenon DEF rpcVars, server, network
  <2>2. ASSUME NEW w \in W, ServeCall(w) \/ StopFlag(w) \/ Server(w) PROVE ClientInv'
    <3>1. stops \in Nat
      BY Zenon DEF ServerInv, ServerType
    <3>2. UNCHANGED <<client, requests, replies, executed>> /\ stops' \in {stops, stops + 1}
      BY <2>2, Zenon DEF Server, ServeCall, ServeFlag, ServeClear, ServeSubscribe, ServeAssign, ServeReturn,
                  WorkerExit, StopFlag, StopEvent, StopTest, StopUnsubscribe, StopForget, network
    <3> QED
      BY <3>1, <3>2, ElsewhereStep
  <2> QED
    BY <2>1, <2>2, CallStep, SendStep, SendRaisesStep, ReceiveStep, WaitRaisesStep, HandleStep,
       Zenon DEF RpcNext, Client
<1> QED
  BY <1>1, <1>2, ServerInvariant, PTL DEF RpcSpec

\* Whatever is late, lost or repeated and wherever a transport raises, a call
\* returns what happened to its last attempt: a value only if the method ran for
\* it, exactly once if nobody stopped the server, and did not raise with a
\* message; an error only if the method raised or is unknown; a timeout or a
\* connection error only after every attempt, any other exception at once; and
\* never a late reply to an attempt that was given up (RPCClient.call,
\* with_retry, RPCServer._handle_request).
THEOREM ReturnsAreJustified == RpcSpec => []ResultsJustified
<1>1. ClientInv => ResultsJustified
  <2> SUFFICES ASSUME ClientInv, NEW c \in Calls, calling[c] = "done"
               PROVE  /\ answer[c] = IF result[c] \in {"value", "error"} THEN <<c, attempt[c]>> ELSE <<>>
                      /\ result[c] = "value" => kind[c] \in {"ok", "failsSilently"} /\ executed[<<c, attempt[c]>>] > 0
                      /\ result[c] = "value" /\ stops = 0 => executed[<<c, attempt[c]>>] = 1
                      /\ result[c] = "error" => kind[c] \in {"fails", "missing"}
                      /\ result[c] \in RetryOn => attempt[c] = MaxRetries
                      /\ \A n \in 0..MaxRetries : <<c, n>> \in failed <=>
                           n < attempt[c] \/ (n = attempt[c] /\ result[c] \in RetryOn)
    BY Zenon DEF ResultsJustified
  <2>1. CallInv(c) /\ attempt[c] \in 0..MaxRetries /\ executed[<<c, attempt[c]>>] \in Nat
    BY Zenon DEF ClientInv, ClientType, Attempts
  <2>2. stops = 0 => executed[<<c, attempt[c]>>] <= 1
    BY <2>1, Zenon DEF ClientInv, RequestsInv
  <2>3. result[c] = "value" => executed[<<c, attempt[c]>>] > 0
    BY <2>1, Zenon DEF CallInv
  <2>4. result[c] = "value" /\ stops = 0 => executed[<<c, attempt[c]>>] = 1
    BY ONLY <2>1, <2>2, <2>3
  <2> QED
    BY <2>1, <2>4, Zenon DEF CallInv
<1> QED
  BY <1>1, ClientInvariant, PTL

-----------------------------------------------------------------------------
(* The slots of a pool *)

\* The calls at a place of K, and the contribution of one call at place p.
At(K) == {c \in Callers : pc[c] \in K}
One(p, K) == IF p \in K THEN 1 ELSE 0

\* The inductive invariant: every counter is the number of calls it stands for.
SlotsInv ==
  /\ pc \in [Callers -> PCs]
  /\ permits \in Nat
  /\ permits = MaxInstances - Cardinality(At(HoldingPCs))
  /\ active = Cardinality(At(InsidePCs))

\* The same for the queue, which only calls that ask properly keep exact.
QueueInv ==
  (\A c \in Callers : ask[c] # "tryTimed") => queued = Cardinality(At(AskingPCs))

\* The calls at some program points are finitely many.
LEMMA CountFinite ==
  ASSUME NEW K
  PROVE  IsFiniteSet(At(K)) /\ Cardinality(At(K)) \in Nat
<1>1. At(K) \in SUBSET Callers
  BY Zenon DEF At
<1> QED
  BY <1>1, PoolAssumption, FS_Subset, FS_CardinalityType, Zenon

\* A call that moves changes the number of calls at K by itself alone.
LEMMA CountStep ==
  ASSUME pc \in [Callers -> PCs], NEW c \in Callers, NEW to \in PCs,
         pc' = [pc EXCEPT ![c] = to], NEW K
  PROVE  Cardinality(At(K)') = Cardinality(At(K)) + One(to, K) - One(pc[c], K)
<1>1. CASE to \in K /\ pc[c] \notin K
  <2>1. At(K)' = At(K) \cup {c} /\ c \notin At(K)
    BY <1>1, Zenon DEF At
  <2>2. Cardinality(At(K) \cup {c}) = Cardinality(At(K)) + 1
    BY <2>1, CountFinite, FS_AddElement, Zenon
  <2> QED
    BY <1>1, <2>1, <2>2, CountFinite DEF One
<1>2. CASE to \notin K /\ pc[c] \in K
  <2>1. At(K)' = At(K) \ {c} /\ c \in At(K)
    BY <1>2, Zenon DEF At
  <2>2. Cardinality(At(K) \ {c}) = Cardinality(At(K)) - 1
    BY <2>1, CountFinite, FS_RemoveElement, Zenon
  <2> QED
    BY <1>2, <2>1, <2>2, CountFinite DEF One
<1>3. CASE (to \in K) = (pc[c] \in K)
  <2>1. At(K)' = At(K)
    BY <1>3, Zenon DEF At
  <2> QED
    BY <1>3, <2>1, CountFinite DEF One
<1> QED
  BY <1>1, <1>2, <1>3

\* What a step of a call does to the counters, place by place.
Moves(c, to) ==
  /\ pc' = [pc EXCEPT ![c] = to]
  /\ permits' = permits - One(to, HoldingPCs) + One(pc[c], HoldingPCs)
  /\ active' = active + One(to, InsidePCs) - One(pc[c], InsidePCs)
  /\ permits' \in Nat
  /\ ask' = ask
  /\ ask[c] # "tryTimed" => queued' = queued + One(to, AskingPCs) - One(pc[c], AskingPCs)

\* What a step of run() or slot() does to the counters, by where it leads.
LEMMA StepMoves ==
  ASSUME MaxInstances > 0, pc \in [Callers -> PCs], permits \in Nat, active \in Nat,
         queued \in Int, NEW c \in Callers, Step(c)
  PROVE  \E to \in PCs : Moves(c, to)
<1> USE DEF Moves, One, PCs, AskingPCs, InsidePCs, HoldingPCs, Goto, context, pool
<1>1. CASE Call(c)
  <2>1. Moves(c, "asking")
    BY <1>1 DEF Call
  <2> QED
    BY <2>1, Zenon
<1>2. CASE SemaphoreAcquire(c)
  <2>1. Moves(c, "granted")
    BY <1>2 DEF SemaphoreAcquire
  <2> QED
    BY <2>1, Zenon
<1>3. CASE SemaphoreRefuse(c)
  <2>1. Moves(c, "refused")
    BY <1>3 DEF SemaphoreRefuse
  <2> QED
    BY <2>1, Zenon
<1>4. CASE SemaphoreRaise(c)
  <2>1. Moves(c, "done")
    BY <1>4 DEF SemaphoreRaise
  <2> QED
    BY <2>1, Zenon
<1>5. CASE Settle(c)
  <2>1. CASE pc[c] = "granted" /\ c \in Slots
    <3>1. Moves(c, "leave")
      BY <1>5, <2>1 DEF Settle
    <3> QED
      BY <3>1, Zenon
  <2>2. CASE pc[c] = "granted" /\ c \notin Slots
    <3>1. Moves(c, "start")
      BY <1>5, <2>2 DEF Settle
    <3> QED
      BY <3>1, Zenon
  <2>3. CASE pc[c] = "refused"
    <3>1. Moves(c, "done")
      BY <1>5, <2>3 DEF Settle
    <3> QED
      BY <3>1, Zenon
  <2>4. pc[c] = "granted" \/ pc[c] = "refused"
    BY <1>5, Zenon DEF Settle
  <2> HIDE DEF Moves, PCs
  <2> QED
    BY <2>1, <2>2, <2>3, <2>4, Zenon
<1>6. CASE FireStart(c)
  <2>1. PICK to \in {"leave", "body"} : Goto(c, "start", to)
    BY <1>6, Zenon DEF FireStart
  <2>2. UNCHANGED <<ask, permits, queued, active>>
    BY <1>6, Zenon DEF FireStart
  <2>3. Moves(c, to)
    BY <2>1, <2>2
  <2> QED
    BY <2>1, <2>3, Zenon
<1>7. CASE Body(c)
  <2>1. Moves(c, "outcome")
    BY <1>7 DEF Body
  <2> QED
    BY <2>1, Zenon
<1>8. CASE FireOutcome(c)
  <2>1. Moves(c, "complete")
    BY <1>8 DEF FireOutcome, OutcomeTo
  <2> QED
    BY <2>1, Zenon
<1>9. CASE FireComplete(c)
  <2>1. Moves(c, "leave")
    BY <1>9 DEF FireComplete
  <2> QED
    BY <2>1, Zenon
<1>10. CASE Leave(c)
  <2>1. Moves(c, "signal")
    BY <1>10 DEF Leave
  <2> QED
    BY <2>1, Zenon
<1>11. CASE Signal(c)
  <2>1. Moves(c, "done")
    BY <1>11 DEF Signal
  <2> QED
    BY <2>1
<1> QED
  BY <1>1, <1>2, <1>3, <1>4, <1>5, <1>6, <1>7, <1>8, <1>9, <1>10, <1>11, Zenon
  DEF Step, Run, Slot, Acquire, Execute, Release

\* The inductive steps.
LEMMA SlotsStep ==
  ASSUME MaxInstances > 0, SlotsInv, queued \in Int, NEW c \in Callers, Step(c)
  PROVE  SlotsInv' /\ queued' \in Int
<1>1. /\ pc \in [Callers -> PCs] /\ permits \in Nat /\ active \in Nat /\ MaxInstances \in Nat
      /\ permits = MaxInstances - Cardinality(At(HoldingPCs))
      /\ active = Cardinality(At(InsidePCs))
  BY CountFinite, PoolAssumption, Zenon DEF SlotsInv
<1>2. PICK to \in PCs : Moves(c, to)
  BY <1>1, StepMoves, Zenon
<1>3. /\ Cardinality(At(HoldingPCs)') = Cardinality(At(HoldingPCs)) + One(to, HoldingPCs) - One(pc[c], HoldingPCs)
      /\ Cardinality(At(InsidePCs)') = Cardinality(At(InsidePCs)) + One(to, InsidePCs) - One(pc[c], InsidePCs)
  <2>1. pc' = [pc EXCEPT ![c] = to]
    BY <1>2, Zenon DEF Moves
  <2> QED
    BY <1>1, <2>1, CountStep, Zenon
<1>4. \A p, K : One(p, K) \in Int
  BY DEF One
<1>5. /\ permits' = permits - One(to, HoldingPCs) + One(pc[c], HoldingPCs)
      /\ active' = active + One(to, InsidePCs) - One(pc[c], InsidePCs)
      /\ permits' \in Nat /\ pc' \in [Callers -> PCs]
  BY <1>1, <1>2, Zenon DEF Moves
<1>6. Cardinality(At(HoldingPCs)) \in Int /\ Cardinality(At(InsidePCs)) \in Int
  BY CountFinite
<1>7. permits' = MaxInstances - Cardinality(At(HoldingPCs)')
  BY <1>1, <1>3, <1>4, <1>5, <1>6
<1>8. active' = Cardinality(At(InsidePCs)')
  BY <1>1, <1>3, <1>4, <1>5, <1>6, Zenon
<1>9. queued' \in Int
  <2>1. queued + 1 \in Int /\ queued - 1 \in Int
    OBVIOUS
  <2>2. queued' \in {queued, queued + 1, queued - 1}
    BY Zenon DEF Step, Run, Slot, Acquire, Execute, Release, Call, SemaphoreAcquire, SemaphoreRefuse,
         SemaphoreRaise, Settle, FireStart, Body, FireOutcome, OutcomeTo, FireComplete, Leave, Signal, pool
  <2> QED
    BY <2>1, <2>2, Zenon
<1> QED
  BY <1>5, <1>7, <1>8, <1>9, Zenon DEF SlotsInv

\* Every step keeps the count of waiting calls exact.
LEMMA QueueStep ==
  ASSUME MaxInstances > 0, SlotsInv, QueueInv, queued \in Int, NEW c \in Callers, Step(c)
  PROVE  QueueInv'
<1>1. ask' = ask
  BY Zenon DEF Step, Run, Slot, Acquire, Execute, Release, Call, SemaphoreAcquire, SemaphoreRefuse,
         SemaphoreRaise, Settle, FireStart, Body, FireOutcome, OutcomeTo, FireComplete, Leave,
         Signal
<1> SUFFICES ASSUME \A x \in Callers : ask[x] # "tryTimed"
             PROVE  queued' = Cardinality(At(AskingPCs)')
  BY <1>1, Zenon DEF QueueInv
<1>2. /\ pc \in [Callers -> PCs] /\ permits \in Nat /\ active \in Nat
      /\ queued = Cardinality(At(AskingPCs))
  BY CountFinite, Zenon DEF SlotsInv, QueueInv
<1>3. PICK to \in PCs : Moves(c, to)
  BY <1>2, StepMoves, Zenon
<1>4. /\ pc' = [pc EXCEPT ![c] = to]
      /\ queued' = queued + One(to, AskingPCs) - One(pc[c], AskingPCs)
  BY <1>3, Zenon DEF Moves
<1>5. Cardinality(At(AskingPCs)') = Cardinality(At(AskingPCs)) + One(to, AskingPCs) - One(pc[c], AskingPCs)
  BY <1>2, <1>4, CountStep, Zenon
<1> QED
  BY <1>2, <1>4, <1>5, Zenon

-----------------------------------------------------------------------------
\* With a limit, the semaphore and the counter of active calls are exact.
THEOREM SlotsInvariant ==
  ASSUME MaxInstances > 0
  PROVE  Spec => [](SlotsInv /\ queued \in Int)
<1>1. Init => SlotsInv /\ queued \in Int
  <2> SUFFICES ASSUME Init PROVE SlotsInv /\ queued \in Int
    BY Zenon
  <2>1. At(HoldingPCs) = {} /\ At(InsidePCs) = {}
    BY Zenon DEF Init, At, HoldingPCs, InsidePCs
  <2>2. pc \in [Callers -> PCs] /\ permits = MaxInstances /\ active = 0 /\ queued = 0
    BY Zenon DEF Init, PCs
  <2> QED
    BY <2>1, <2>2, FS_EmptySet, PoolAssumption DEF SlotsInv
<1>2. SlotsInv /\ queued \in Int /\ [Next]_vars => (SlotsInv /\ queued \in Int)'
  <2> SUFFICES ASSUME SlotsInv, queued \in Int, [Next]_vars
               PROVE  SlotsInv' /\ queued' \in Int
    BY Zenon
  <2>1. CASE UNCHANGED vars
    BY <2>1, Zenon DEF vars, pool, SlotsInv, At
  <2> QED
    BY <2>1, SlotsStep, Zenon DEF Next
<1> QED
  BY <1>1, <1>2, PTL DEF Spec

\* No more than max_instances calls are between acquire and release, whatever
\* the order in which slots are granted, refused and returned.
THEOREM LimitHolds == Spec => []ConcurrencyLimit
<1>1. CASE MaxInstances > 0
  <2>1. SlotsInv => ConcurrencyLimit
    <3> SUFFICES ASSUME SlotsInv PROVE Cardinality(Inside) <= MaxInstances
      BY Zenon DEF ConcurrencyLimit
    <3>1. Inside = At(InsidePCs) /\ At(InsidePCs) \in SUBSET At(HoldingPCs)
      BY Zenon DEF Inside, At, InsidePCs, HoldingPCs
    <3>2. Cardinality(At(InsidePCs)) <= Cardinality(At(HoldingPCs))
      BY <3>1, CountFinite, FS_Subset, Zenon
    <3>3. Cardinality(At(HoldingPCs)) <= MaxInstances
      BY CountFinite, PoolAssumption DEF SlotsInv
    <3> QED
      BY <3>1, <3>2, <3>3, CountFinite, PoolAssumption
  <2> QED
    BY <1>1, <2>1, SlotsInvariant, PTL
<1>2. CASE ~(MaxInstances > 0)
  <2>1. ConcurrencyLimit
    BY <1>2, Zenon DEF ConcurrencyLimit
  <2> QED
    BY <2>1, PTL
<1> QED
  BY <1>1, <1>2, Zenon

\* All numbers of TaskPool.stats are exact at every moment; that of the queue
\* as long as nobody asks with blocking=False and a timeout, for which the
\* semaphore raises.
THEOREM StatsExact == Spec => []CountersAgree
<1>1. CASE MaxInstances > 0
  <2>1. Init => QueueInv
    <3> SUFFICES ASSUME Init PROVE QueueInv
      OBVIOUS
    <3>1. At(AskingPCs) = {}
      BY Zenon DEF Init, At, AskingPCs
    <3> QED
      BY <3>1, FS_EmptySet, Zenon DEF Init, QueueInv
  <2>2. SlotsInv /\ queued \in Int /\ QueueInv /\ [Next]_vars => QueueInv'
    <3> SUFFICES ASSUME SlotsInv, queued \in Int, QueueInv, [Next]_vars PROVE QueueInv'
      BY Zenon
    <3>1. CASE UNCHANGED vars
      BY <3>1, Zenon DEF vars, pool, QueueInv, At
    <3> QED
      BY <1>1, <3>1, QueueStep, Zenon DEF Next
  <2>3. SlotsInv /\ QueueInv => CountersAgree
    <3> SUFFICES ASSUME SlotsInv, QueueInv PROVE CountersAgree
      BY Zenon
    <3>1. Inside = At(InsidePCs) /\ Asking = At(AskingPCs) /\ Holding = At(HoldingPCs)
      BY Zenon DEF Inside, Asking, Holding, At, InsidePCs, AskingPCs, HoldingPCs
    <3> QED
      BY <3>1, Zenon DEF CountersAgree, Stats, SlotsInv, QueueInv
  <2> QED
    BY <1>1, <2>1, <2>2, <2>3, SlotsInvariant, PTL DEF Spec
<1>2. CASE ~(MaxInstances > 0)
  <2>1. CountersAgree
    BY <1>2 DEF CountersAgree
  <2> QED
    BY <2>1, PTL
<1> QED
  BY <1>1, <1>2

=============================================================================
