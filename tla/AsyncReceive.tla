---------------------------- MODULE AsyncReceive ----------------------------
(***************************************************************************)
(* receive() and receive_async() on the queue of one topic, which the      *)
(* transports of src/eventforge/transports write in the same words, and    *)
(* what request_async() and call_async() wait with.  An asynchronous call  *)
(* hands Queue.get(timeout=1) to the event loop's thread pool and waits    *)
(* for it with asyncio.wait_for: the thread and the waiting coroutine end  *)
(* independently of each other.                                            *)
(***************************************************************************)
EXTENDS Naturals, Sequences, FiniteSets

CONSTANTS Messages,
          Callers,     \* calls of receive()
          Coroutines,  \* calls of receive_async()
          Timed,       \* the calls with a timeout
          Workers,     \* threads of the loop's default executor
          MaxQueue,    \* max_queue_size
          Nothing      \* None

ASSUME MessagesAssumption == Nothing \notin Messages

Calls == Callers \cup Coroutines

VARIABLES queue,    \* _queues[topic]
          ended,    \* _closed
          pool,     \* jobs the executor has not started
          thread,   \* what the thread of a call does
          taken,    \* the message it took from the queue, or None
          call,     \* the call itself
          result,   \* what the call returned
          gaveUp,   \* history: coroutines whose timeout has passed
          put       \* history: messages the queue took

receiveVars == <<queue, ended, pool, thread, taken, call, result, gaveUp, put>>

ReceiveInit ==
  /\ queue = <<>> /\ ended = FALSE /\ pool = <<>>
  /\ thread = [c \in Calls |-> "none"]
  /\ taken = [c \in Calls |-> Nothing]
  /\ call = [c \in Calls |-> "none"]
  /\ result = [c \in Calls |-> Nothing]
  /\ gaveUp = {} /\ put = {}

\* send() puts a message on the topic's queue, unless that is full.
Offer(m) ==
  /\ ~ended /\ m \notin put /\ Len(queue) < MaxQueue
  /\ queue' = Append(queue, m) /\ put' = put \cup {m}
  /\ UNCHANGED <<ended, pool, thread, taken, call, result, gaveUp>>

\* close() does not touch the queues.
CloseQueue ==
  /\ ~ended /\ ended' = TRUE
  /\ UNCHANGED <<queue, pool, thread, taken, call, result, gaveUp, put>>

\* receive() blocks in get(); receive_async() leaves get() to the executor.
Receive(c) ==
  /\ c \in Callers /\ call[c] = "none" /\ ~ended
  /\ call' = [call EXCEPT ![c] = "waiting"]
  /\ thread' = [thread EXCEPT ![c] = "get"]
  /\ UNCHANGED <<queue, ended, pool, taken, result, gaveUp, put>>
ReceiveAsync(c) ==
  /\ c \in Coroutines /\ call[c] = "none" /\ ~ended
  /\ call' = [call EXCEPT ![c] = "waiting"]
  /\ thread' = [thread EXCEPT ![c] = "queued"]
  /\ pool' = Append(pool, c)
  /\ UNCHANGED <<queue, ended, taken, result, gaveUp, put>>

\* A worker of the executor starts the next job.
StartJob ==
  /\ pool # <<>>
  /\ Cardinality({c \in Coroutines : thread[c] = "get"}) < Workers
  /\ thread' = [thread EXCEPT ![Head(pool)] = "get"]
  /\ pool' = Tail(pool)
  /\ UNCHANGED <<queue, ended, taken, call, result, gaveUp, put>>

\* get() returns a message.
Take(c) ==
  /\ thread[c] = "get" /\ queue # <<>>
  /\ taken' = [taken EXCEPT ![c] = Head(queue)]
  /\ queue' = Tail(queue)
  /\ thread' = [thread EXCEPT ![c] = "done"]
  /\ UNCHANGED <<ended, pool, call, result, gaveUp, put>>

\* Mutant: a job's get() has the timeout of the caller, if there is one.
OnlyTimed(c) == c \in Timed

\* Whether get() has a timeout: the caller's, or one second in a job.
MayRaiseEmpty(c) == c \in Coroutines \cup Timed

\* get() raises Empty: its timeout has passed, and the queue is empty.
RaiseEmpty(c) ==
  /\ thread[c] = "get" /\ queue = <<>> /\ MayRaiseEmpty(c)
  /\ thread' = [thread EXCEPT ![c] = "done"]
  /\ UNCHANGED <<queue, ended, pool, taken, call, result, gaveUp, put>>

\* The call ends with what its thread found.
Return(c) ==
  /\ call[c] = "waiting" /\ thread[c] = "done"
  /\ call' = [call EXCEPT ![c] = "returned"]
  /\ result' = [result EXCEPT ![c] = taken[c]]
  /\ UNCHANGED <<queue, ended, pool, thread, taken, gaveUp, put>>

Cancel(s, c) ==
  LET i == CHOOSE i \in DOMAIN s : s[i] = c
  IN [j \in 1..Len(s) - 1 |-> IF j < i THEN s[j] ELSE s[j + 1]]

\* wait_for gives up.  A job that has not started is cancelled; a thread in
\* get() goes on, and what it finds or has found is dropped.
GiveUp(c) ==
  /\ c \in Coroutines \cap Timed /\ call[c] = "waiting"
  /\ call' = [call EXCEPT ![c] = "returned"]
  /\ gaveUp' = gaveUp \cup {c}
  /\ pool' = IF thread[c] = "queued" THEN Cancel(pool, c) ELSE pool
  /\ thread' = [thread EXCEPT ![c] = IF @ = "queued" THEN "none" ELSE @]
  /\ UNCHANGED <<queue, ended, taken, result, put>>

EndGet(c) == Take(c) \/ RaiseEmpty(c)
ReceiveNext ==
  \/ \E m \in Messages : Offer(m)
  \/ CloseQueue \/ StartJob
  \/ \E c \in Calls : Receive(c) \/ ReceiveAsync(c) \/ EndGet(c) \/ Return(c) \/ GiveUp(c)

\* The executor and the event loop go on, and the get() of a job ends by itself,
\* if only because its second is over.  Nothing else has to happen: wait_for
\* need not give up, and nobody need send.
ReceiveFairness ==
  /\ WF_receiveVars(StartJob)
  /\ \A c \in Coroutines : WF_receiveVars(EndGet(c)) /\ WF_receiveVars(Return(c))
ReceiveSpec == ReceiveInit /\ [][ReceiveNext]_receiveVars /\ ReceiveFairness

-----------------------------------------------------------------------------
(* Properties *)

\* Every receive_async() comes back, with a timeout of its own or without, even
\* if nobody sends and its job has to wait for a worker behind the threads of
\* calls that gave up; and then no thread of it goes on to take messages: what
\* its thread took is what it returned, or is lost because wait_for gave up.
AsyncReceivesEnd ==
  \A c \in Coroutines :
    call[c] = "waiting" ~>
      /\ call[c] = "returned" /\ thread[c] \notin {"queued", "get"}
      /\ result[c] = taken[c] \/ c \in gaveUp
=============================================================================
