------------------------------ MODULE Delivery ------------------------------
(***************************************************************************)
(* What a work queue promises its users, without threads, tables, topics,  *)
(* groups or timeouts: a message that was accepted is in exactly one place *)
(* and leaves the queue only by being done or by the queue being closed.   *)
(***************************************************************************)
CONSTANT Messages

VARIABLES waiting,    \* accepted, in nobody's hands
          working,    \* in one worker's hands
          done,       \* confirmed by its worker
          discarded   \* thrown away when the queue was closed

places == <<waiting, working, done, discarded>>

Init == waiting = {} /\ working = {} /\ done = {} /\ discarded = {}

Accept(m) ==
    /\ m \notin waiting \cup working \cup done \cup discarded
    /\ waiting' = waiting \cup {m}
    /\ UNCHANGED <<working, done, discarded>>

\* Some messages are handed out, each to one worker.
HandOut(S) ==
    /\ S \subseteq waiting
    /\ waiting' = waiting \ S
    /\ working' = working \cup S
    /\ UNCHANGED <<done, discarded>>

Confirm(m) ==
    /\ m \in working
    /\ working' = working \ {m}
    /\ done' = done \cup {m}
    /\ UNCHANGED <<waiting, discarded>>

\* The worker failed, refused or took too long: the message waits again, for
\* the next attempt or as a dead letter.
GiveBack(m) ==
    /\ m \in working
    /\ working' = working \ {m}
    /\ waiting' = waiting \cup {m}
    /\ UNCHANGED <<done, discarded>>

Discard ==
    /\ discarded' = discarded \cup waiting \cup working
    /\ waiting' = {} /\ working' = {}
    /\ UNCHANGED done

Next ==
    \/ \E m \in Messages : Accept(m) \/ Confirm(m) \/ GiveBack(m)
    \/ \E S \in SUBSET waiting : HandOut(S)
    \/ Discard

Spec == Init /\ [][Next]_places
=============================================================================
