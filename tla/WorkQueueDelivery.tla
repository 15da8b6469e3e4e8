-------------------------- MODULE WorkQueueDelivery --------------------------
(***************************************************************************)
(* The work queue as an implementation of Delivery.  What waits is what is *)
(* pending on any topic, what is worked on is what is in flight.  A late   *)
(* ack, a sweep that overtakes it, a dispatch of several messages and the  *)
(* steps of the threads in between are steps of Delivery or stutter.       *)
(***************************************************************************)
EXTENDS WorkQueue

Promise == INSTANCE Delivery WITH
    waiting <- PendingPayloads, working <- InFlightPayloads,
    done <- acked, discarded <- dropped

\* With one consumer group the work queue keeps Delivery's promise: every step
\* of enqueue, _try_dispatch, dequeue, ack, nack, the sweep and close() moves
\* messages between places the way Delivery allows, and no step loses,
\* duplicates or revives one.
KeepsPromise == Promise!Spec
=============================================================================
