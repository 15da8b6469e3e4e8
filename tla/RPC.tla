-------------------------------- MODULE RPC --------------------------------
(***************************************************************************)
(* RPCServer, RPCClient, RoundRobinRPCClient and with_retry of             *)
(* eventforge/rpc.py, and the worker process of eventforge/worker.py that  *)
(* serves until a signal stops it.                                         *)
(*                                                                         *)
(* Each worker has its own queue and transport.  Requests and replies are  *)
(* messages in transit that arrive in any order, late or never: one that   *)
(* is lost is in transit for ever.  A call is one call of a retrying       *)
(* client around a round-robin client.                                     *)
(***************************************************************************)
EXTENDS Integers, FiniteSets

CONSTANTS
    Calls,           \* calls made by threads of the application
    Kinds,           \* what the called methods do: "ok", "fails", "failsSilently", "missing"
    Workers,         \* 0..Workers-1 are the servers of the pool
    MaxRetries,      \* max_retries of with_retry
    MaxStops         \* how often stop() is called or SIGTERM is sent

ASSUME RPCAssumption ==
    /\ Kinds \subseteq {"ok", "fails", "failsSilently", "missing"}
    /\ Workers \in Nat \ {0} /\ MaxRetries \in Nat /\ MaxStops \in Nat

VARIABLES
    deployment,      \* how servers are run, for good: see Deployments
    serve, stop,     \* program counters of serve() and stop() of each worker
    running, event, subId,   \* _running, _stop_event, _sub_id (0 = None)
    subs,            \* subscriptions of _handle_request at the queue
    stops,
    calling, kind, attempt, result,   \* of each call
    idx,             \* _idx of the round-robin client
    requests, replies,   \* messages in transit
    executed,        \* (call, attempt) for each run of a method, with a count
    failed,          \* attempts that ended in an exception of retry_on
    answer           \* the attempt whose reply each call took

server == <<deployment, serve, stop, running, event, subId, subs, stops>>
client == <<calling, kind, attempt, result, idx, failed, answer>>
network == <<requests, replies, executed>>
rpcVars == <<server, client, network>>

W == 0..Workers - 1

\* serve(blocking=False), serve() in a thread that another one stops, and a
\* worker process, where stop() runs in a signal handler of that thread.
Deployments == {"polling", "blocking", "signalled"}
Attempts == Calls \X (0..MaxRetries)

RpcInit ==
    /\ deployment \in Deployments
    /\ serve = [w \in W |-> "off"] /\ stop = [w \in W |-> "idle"] /\ stops = 0
    /\ running = [w \in W |-> FALSE] /\ event = [w \in W |-> FALSE]
    /\ subId = [w \in W |-> 0] /\ subs = [w \in W |-> {}]
    /\ calling = [c \in Calls |-> "idle"] /\ kind \in [Calls -> Kinds]
    /\ attempt = [c \in Calls |-> 0] /\ result = [c \in Calls |-> "none"]
    /\ idx = 0
    /\ requests = {} /\ replies = {} /\ failed = {}
    /\ answer = [c \in Calls |-> <<>>]
    /\ executed = [a \in Attempts |-> 0]

-----------------------------------------------------------------------------
(***************************************************************************)
(* RPCServer.serve and stop, one assignment or call per step.              *)
(***************************************************************************)
Serve(w, from, to) ==
    /\ serve[w] = from /\ serve' = [serve EXCEPT ![w] = to]
    /\ deployment = "signalled" => stop[w] = "idle"

ServeCall(w) ==
    /\ Serve(w, "off", IF running[w] THEN "off" ELSE "flag")
    /\ UNCHANGED <<deployment, stop, running, event, subId, subs, stops, client, network>>

ServeFlag(w) ==
    /\ Serve(w, "flag", "clear")
    /\ running' = [running EXCEPT ![w] = TRUE]
    /\ UNCHANGED <<deployment, stop, event, subId, subs, stops, client, network>>

ServeClear(w) ==
    /\ Serve(w, "clear", "subscribe")
    /\ event' = [event EXCEPT ![w] = FALSE]
    /\ UNCHANGED <<deployment, stop, running, subId, subs, stops, client, network>>

Latest(w) == CHOOSE i \in subs[w] \union {0} : \A j \in subs[w] : i >= j

ServeSubscribe(w) ==
    /\ Serve(w, "subscribe", "assign")
    /\ subs' = [subs EXCEPT ![w] = @ \union {Latest(w) + 1}]
    /\ UNCHANGED <<deployment, stop, running, event, subId, stops, client, network>>

\* _sub_id is assigned once on() has returned.
ServeAssign(w) ==
    /\ Serve(w, "assign", IF deployment = "polling" THEN "off" ELSE "wait")
    /\ subId' = [subId EXCEPT ![w] = Latest(w)]
    /\ UNCHANGED <<deployment, stop, running, event, subs, stops, client, network>>

ServeReturn(w) ==
    /\ Serve(w, "wait", IF deployment = "signalled" THEN "final" ELSE "off")
    /\ event[w]
    /\ UNCHANGED <<deployment, stop, running, event, subId, subs, stops, client, network>>

Unsubscribed(w) ==
    /\ subs' = [subs EXCEPT ![w] = @ \ {subId[w]}]
    /\ subId' = [subId EXCEPT ![w] = 0]

WorkerExitUnstopped(w) ==
    /\ Serve(w, "final", "exited")
    /\ UNCHANGED <<deployment, stop, running, event, subId, subs, stops, client, network>>

\* The worker's finally: stop() once more, close the transport, exit.
WorkerExit(w) ==
    /\ Serve(w, "final", "exited")
    /\ running' = [running EXCEPT ![w] = FALSE] /\ Unsubscribed(w)
    /\ UNCHANGED <<deployment, stop, event, stops, client, network>>

Stop(w, from, to) == stop[w] = from /\ stop' = [stop EXCEPT ![w] = to]

StopFlag(w) ==
    /\ Stop(w, "idle", "set") /\ stops < MaxStops
    /\ stops' = stops + 1
    /\ running' = [running EXCEPT ![w] = FALSE]
    /\ UNCHANGED <<deployment, serve, event, subId, subs, client, network>>

StopEventUnset(w) ==
    /\ Stop(w, "set", "test")
    /\ UNCHANGED <<deployment, serve, event, running, subId, subs, stops, client, network>>

StopEvent(w) ==
    /\ Stop(w, "set", "test")
    /\ event' = [event EXCEPT ![w] = TRUE]
    /\ UNCHANGED <<deployment, serve, running, subId, subs, stops, client, network>>

StopTest(w) ==
    /\ Stop(w, "test", IF subId[w] = 0 THEN "idle" ELSE "unsubscribe")
    /\ UNCHANGED <<deployment, serve, running, event, subId, subs, stops, client, network>>

StopUnsubscribe(w) ==
    /\ Stop(w, "unsubscribe", "forget")
    /\ subs' = [subs EXCEPT ![w] = @ \ {subId[w]}]
    /\ UNCHANGED <<deployment, serve, running, event, subId, stops, client, network>>

StopForget(w) ==
    /\ Stop(w, "forget", "idle")
    /\ subId' = [subId EXCEPT ![w] = 0]
    /\ UNCHANGED <<deployment, serve, running, event, subs, stops, client, network>>

-----------------------------------------------------------------------------
(***************************************************************************)
(* A call: with_retry around RoundRobinRPCClient around RPCClient.call.    *)
(***************************************************************************)
Msg(c, w) == [call |-> c, attempt |-> attempt[c], worker |-> w]

ReplyTopicOfCall(c, n) == <<c, 0>>

\* "_rpc_reply.{request.id}": a topic of its own for every attempt.
ReplyTopic(c, n) == <<c, n>>

WithRetry(c) ==
    /\ calling[c] = "idle"
    /\ calling' = [calling EXCEPT ![c] = "sending"]
    /\ UNCHANGED <<kind, attempt, result, idx, failed, answer, server, network>>

\* What a transport may raise: TimeoutError, ConnectionError, or another one
\* ("Transport is closed", TransportFullError, an error of a client library).
Exceptions == {"timeout", "connection", "other"}
RetryOn == {"timeout", "connection"}

Ends(c, r) ==
    /\ calling' = [calling EXCEPT ![c] = "done"] /\ result' = [result EXCEPT ![c] = r]
    /\ UNCHANGED attempt

\* _RetryingClient.call: an exception of retry_on starts the next attempt, as
\* long as there is one; any other propagates to the caller.
Raises(c, exc) ==
    /\ failed' = IF exc \in RetryOn THEN failed \union {<<c, attempt[c]>>} ELSE failed
    /\ IF exc \in RetryOn /\ attempt[c] < MaxRetries
       THEN /\ calling' = [calling EXCEPT ![c] = "sending"] /\ attempt' = [attempt EXCEPT ![c] = @ + 1]
            /\ UNCHANGED result
       ELSE Ends(c, exc)

NextClient == idx' = (idx + 1) % Workers

Send(c) ==
    /\ calling[c] = "sending"
    /\ NextClient
    /\ requests' = requests \union {Msg(c, idx)}
    /\ calling' = [calling EXCEPT ![c] = "waiting"]
    /\ UNCHANGED <<kind, attempt, result, failed, answer, replies, executed, server>>

\* send() raises, with nothing sent or after the request was: MemoryTransport
\* hands it to the subscribers before it finds its queue full.
SendRaises(c) ==
    /\ calling[c] = "sending"
    /\ NextClient
    /\ requests' \in {requests, requests \union {Msg(c, idx)}}
    /\ \E exc \in Exceptions : Raises(c, exc)
    /\ UNCHANGED <<kind, answer, replies, executed, server>>

\* _handle_request, once per subscription.  A method that raises with an
\* empty message gives an error that is the empty string.
Outcome(k) == CASE k = "ok" -> "value" [] k = "failsSilently" -> "emptyError" [] OTHER -> "error"

Handle(m) ==
    LET a == <<m.call, m.attempt>> IN
    /\ m \in requests
    /\ requests' = requests \ {m}
    /\ executed' = IF kind[m.call] = "missing" THEN executed
                   ELSE [executed EXCEPT ![a] = @ + Cardinality(subs[m.worker])]
    /\ replies' = IF subs[m.worker] = {} THEN replies
                  ELSE replies \union {[to |-> ReplyTopic(m.call, m.attempt), request |-> a,
                                        outcome |-> Outcome(kind[m.call])]}
    /\ UNCHANGED <<server, client>>

\* "if response.error": the empty string counts as no error.
Receive(c) ==
    /\ calling[c] = "waiting"
    /\ \E r \in replies :
        /\ r.to = ReplyTopic(c, attempt[c])
        /\ replies' = replies \ {r}
        /\ IF r.outcome = "error" THEN Raises(c, "error") ELSE Ends(c, "value") /\ UNCHANGED failed
        /\ answer' = [answer EXCEPT ![c] = r.request]
    /\ UNCHANGED <<kind, idx, requests, executed, server>>

ReceiveTimeoutNotLast(c) ==
    /\ calling[c] = "waiting" /\ attempt[c] < MaxRetries
    /\ Raises(c, "timeout")
    /\ UNCHANGED <<kind, idx, answer, network, server>>

\* receive() gives None after its timeout, or at once when the transport is
\* closed, whether a reply is there or not.
ReceiveTimeout(c) ==
    /\ calling[c] = "waiting"
    /\ Raises(c, "timeout")
    /\ UNCHANGED <<kind, idx, answer, network, server>>

\* The subscription that receive() makes at a broker raises.
ReceiveRaises(c) ==
    /\ calling[c] = "waiting"
    /\ \E exc \in Exceptions : Raises(c, exc)
    /\ UNCHANGED <<kind, idx, answer, network, server>>

Server(w) == \/ ServeFlag(w) \/ ServeClear(w) \/ ServeSubscribe(w) \/ ServeAssign(w)
             \/ ServeReturn(w) \/ WorkerExit(w)
             \/ StopEvent(w) \/ StopTest(w) \/ StopUnsubscribe(w) \/ StopForget(w)
Client(c) == Send(c) \/ SendRaises(c) \/ Receive(c) \/ ReceiveTimeout(c)

RpcNext ==
    \/ \E w \in W : ServeCall(w) \/ StopFlag(w) \/ Server(w)
    \/ \E c \in Calls : WithRetry(c) \/ Client(c) \/ ReceiveRaises(c)
    \/ \E m \in requests : Handle(m)

RpcSpec == RpcInit /\ [][RpcNext]_rpcVars

\* Threads run, a send() and a wait with a timeout end; messages owe nobody
\* arrival, and transports no exception.
RpcFairSpec == RpcSpec /\ (\A w \in W : WF_rpcVars(Server(w))) /\ (\A c \in Calls : WF_rpcVars(Client(c)))

-----------------------------------------------------------------------------
\* What the caller gets is what happened to its last attempt.  A value or a
\* method's error is the answer to that attempt, never a late reply to one that
\* was given up.  A value comes from a method that ran, once as long as nobody
\* stops the server, however often serve() is called; it stands for a failure
\* only when the exception has no message (str(e) is then the empty string).  An
\* error is one of a method that raised or is unknown.  Only exceptions of
\* retry_on are retried, to the last attempt; "everything else propagates
\* immediately so application errors aren't masked" (with_retry).
ResultsJustified ==
    \A c \in Calls : calling[c] = "done" =>
        LET last == <<c, attempt[c]>> IN
        /\ answer[c] = IF result[c] \in {"value", "error"} THEN last ELSE <<>>
        /\ result[c] = "value" => kind[c] \in {"ok", "failsSilently"} /\ executed[last] > 0
        /\ result[c] = "value" /\ stops = 0 => executed[last] = 1
        /\ result[c] = "error" => kind[c] \in {"fails", "missing"}
        /\ result[c] \in RetryOn => attempt[c] = MaxRetries
        /\ \A n \in 0..MaxRetries :
             <<c, n>> \in failed <=> n < attempt[c] \/ (n = attempt[c] /\ result[c] \in RetryOn)

\* The handler of a worker may run while serve() is between subscribing and
\* remembering the subscription: the process still leaves none behind.
WorkerExitsClean == \A w \in W : serve[w] = "exited" => subs[w] = {} /\ ~running[w]

\* A worker that waits for the stop event and is told to stop comes back.
StopReleasesServe ==
    \A w \in W : (serve[w] = "wait" /\ stop[w] = "set") ~> serve[w] # "wait"

\* Every call ends, with lost messages and servers that come and go.
RetriesEnd == \A c \in Calls : calling[c] = "sending" ~> calling[c] = "done"
=============================================================================
