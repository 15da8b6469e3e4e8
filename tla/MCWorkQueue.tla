---------------------------- MODULE MCWorkQueue ----------------------------
(* Small instances of WorkQueue for TLC. *)
EXTENDS WorkQueueDelivery, TLC

\* One topic and its dead letters, which nobody reads.
JobsTopics == {"jobs", "jobs.dl"}
JobsServed == {"jobs"}
JobsDeadLetterOf == [t \in JobsServed |-> "jobs.dl"]

Symmetry ==
    Permutations(Messages) \cup Permutations(Consumers) \cup Permutations(Waiters)
=============================================================================
