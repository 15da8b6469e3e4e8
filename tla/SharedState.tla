----------------------------- MODULE SharedState -----------------------------
(***************************************************************************)
(* SharedState of src/eventforge/types.py: a dictionary that the           *)
(* invocations of a task and its observers share.  Every method holds a    *)
(* re-entrant lock; update() holds it while it runs the caller's function, *)
(* which may call back into the same state before it returns or raises.    *)
(* The functions are counters: (x or 0) + 1.                               *)
(***************************************************************************)
EXTENDS Integers, Sequences

CONSTANTS Users, Keys,
          Values,      \* what set() stores
          SameKey,     \* whether a function may change the key it is computing
          MaxCalls,    \* bound on the calls that change the dictionary
          Missing      \* None, for a key that is absent

ASSUME StateAssumption == Values \subseteq Int /\ Missing \notin Int

VARIABLES data,      \* _data
          stack,     \* stack[t]: the update() calls t is inside, innermost first
          expected,  \* history: the value if the changes took effect one by one
          calls

stateVars == <<data, stack, expected, calls>>

StateInit ==
  /\ data = [k \in Keys |-> Missing]
  /\ stack = [t \in Users |-> <<>>]
  /\ expected = data
  /\ calls = 0

\* Mutant: the lock is released while the function runs.
Unlocked(t) == TRUE

\* _lock is free, or held by t: between two steps only update() holds it.
MayLock(t) == \A u \in Users \ {t} : stack[u] = <<>>

Computing(t, k) == \E i \in DOMAIN stack[t] : stack[t][i].key = k

\* t calls a method that changes the keys ks.
Calls(t, ks) ==
  /\ MayLock(t) /\ calls < MaxCalls
  /\ SameKey \/ \A k \in ks : ~Computing(t, k)
  /\ calls' = calls + 1

Set(t, k) ==
  /\ Calls(t, {k})
  /\ \E v \in Values :
       data' = [data EXCEPT ![k] = v] /\ expected' = [expected EXCEPT ![k] = v]
  /\ UNCHANGED stack

\* delete(), of a key that may be absent.
Delete(t, k) ==
  /\ Calls(t, {k})
  /\ data' = [data EXCEPT ![k] = Missing] /\ expected' = [expected EXCEPT ![k] = Missing]
  /\ UNCHANGED stack

Clear(t) ==
  /\ Calls(t, Keys)
  /\ data' = [k \in Keys |-> Missing] /\ expected' = data'
  /\ UNCHANGED stack

Increment(x) == IF x = Missing THEN 1 ELSE x + 1

\* update() has read the old value and calls the function.
UpdateRead(t, k) ==
  /\ Calls(t, {k})
  /\ stack' = [stack EXCEPT ![t] = <<[key |-> k, old |-> data[k]]>> \o @]
  /\ UNCHANGED <<data, expected>>

\* The innermost function returns; its result is stored.
UpdateWrite(t) ==
  /\ stack[t] # <<>>
  /\ LET u == Head(stack[t])
     IN /\ data' = [data EXCEPT ![u.key] = Increment(u.old)]
        /\ expected' = [expected EXCEPT ![u.key] = Increment(@)]
  /\ stack' = [stack EXCEPT ![t] = Tail(@)]
  /\ UNCHANGED calls

\* The innermost function raises, and the exception leaves update().  The
\* function around it may catch it.
UpdateRaise(t) ==
  /\ stack[t] # <<>>
  /\ stack' = [stack EXCEPT ![t] = Tail(@)]
  /\ UNCHANGED <<data, expected, calls>>

StateNext ==
  \E t \in Users :
    \/ Clear(t) \/ UpdateWrite(t) \/ UpdateRaise(t)
    \/ \E k \in Keys : Set(t, k) \/ Delete(t, k) \/ UpdateRead(t, k)
StateSpec == StateInit /\ [][StateNext]_stateVars

-----------------------------------------------------------------------------
(* Properties *)

\* No update is lost: the dictionary holds what the changes give when they take
\* effect one at a time, in the order of their writes.  Functions may run for
\* any time, raise, and call update(), set() or delete() of the same state.
UpdatesAtomic == data = expected
=============================================================================
