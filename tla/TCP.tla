-------------------------------- MODULE TCP --------------------------------
(***************************************************************************)
(* TCPServerTransport and TCPClientTransport of                            *)
(* src/eventforge/transports/tcp.py: one server, clients with one          *)
(* connection each, threads that send on either side.  A frame travels in  *)
(* two chunks, since sendall() may need several writes; a reader takes a   *)
(* frame once both are there.  A socket that is closed while its reader    *)
(* blocks in recv() is held open by that call: the other side sees the end *)
(* of the stream only when the reader has left it (external: the kernel).  *)
(***************************************************************************)
EXTENDS Integers, Sequences, FiniteSets

CONSTANTS Clients,
          ServerThreads,  \* threads that call send() of the server
          ClientThreads,  \* threads that call send() of a client
          Owner,          \* Owner[t]: the client of a client thread
          MaxSends,       \* MaxSends[t]: bound on the messages of a thread
          Casts,          \* sets of clients and threads that take part together
          Server, None

ASSUME PartiesAssumption ==
  /\ Server \notin Clients /\ Clients \cap {"off", "waiting", "ended"} = {}
  /\ ServerThreads \cap ClientThreads = {} /\ None \notin ServerThreads
  /\ Owner \in [ClientThreads -> Clients]
  /\ MaxSends \in [ServerThreads \cup ClientThreads -> Nat]

Threads == ServerThreads \cup ClientThreads
Msgs == Threads \X Nat
Jobs == [msg : Msgs, todo : SUBSET Clients, part : {1, 2}]
ASSUME NoneAssumption == None \notin Jobs
Ends == Clients \X {"server", "client"}
Other(e) == <<e[1], IF e[2] = "server" THEN "client" ELSE "server">>
Process(e) == IF e[2] = "server" THEN Server ELSE e[1]

VARIABLES cast,       \* who takes part, one of Casts
          running,    \* _running, of the server and of each client
          listening,  \* the server socket is open
          acceptor,   \* _accept_loop: off, waiting, ended or the client it holds
          backlog,    \* connections the kernel has for accept()
          clients,    \* server._clients
          fd,         \* the socket object of an end: none, open, closed
          reader,     \* its receive loop
          hand,       \* the frame the loop has read
          stream,     \* chunks on their way to an end
          lock,       \* server._lock, while a send() holds it
          job,        \* a thread in send(): message, clients to do, part
          sends,      \* messages a thread has sent
          closing,    \* TCPServerTransport.close
          sent, got,  \* history: messages sent to, dispatched at an end
          garbled     \* history: a reader got a frame nobody sent

vars == <<cast, running, listening, acceptor, backlog, clients, fd, reader, hand,
          stream, lock, job, sends, closing, sent, got, garbled>>
net == <<cast, listening, backlog>>
history == <<sent, got, garbled>>

Init ==
  /\ cast \in Casts
  /\ running = [p \in Clients \cup {Server} |-> FALSE]
  /\ listening = FALSE /\ acceptor = "off" /\ backlog = {}
  /\ clients = {}
  /\ fd = [e \in Ends |-> "none"]
  /\ reader = [e \in Ends |-> "none"]
  /\ hand = [e \in Ends |-> None]
  /\ stream = [e \in Ends |-> <<>>]
  /\ lock = None
  /\ job = [t \in Threads |-> None]
  /\ sends = [t \in Threads |-> 0]
  /\ closing = "no"
  /\ sent = [e \in Ends |-> <<>>] /\ got = [e \in Ends |-> <<>>]
  /\ garbled = FALSE

\* The kernel has dropped an end: its socket is closed and nobody is in recv().
Dropped(e) == fd[e] = "closed" /\ reader[e] # "recv"

-----------------------------------------------------------------------------
(* Connections *)

Start ==
  /\ acceptor = "off" /\ closing = "no"
  /\ running' = [running EXCEPT ![Server] = TRUE]
  /\ listening' = TRUE
  /\ acceptor' = "waiting"
  /\ UNCHANGED <<cast, backlog, clients, fd, reader, hand, stream, lock, job, sends, closing, history>>

Connect(c) ==
  /\ c \in cast /\ listening /\ fd[<<c, "client">>] = "none"
  /\ backlog' = backlog \cup {c}
  /\ running' = [running EXCEPT ![c] = TRUE]
  /\ fd' = [fd EXCEPT ![<<c, "client">>] = "open"]
  /\ reader' = [reader EXCEPT ![<<c, "client">>] = "recv"]
  /\ UNCHANGED <<cast, listening, acceptor, clients, hand, stream, lock, job, sends, closing, history>>

\* accept() returns a connection.
Accept(c) ==
  /\ acceptor = "waiting" /\ listening /\ c \in backlog
  /\ acceptor' = c
  /\ backlog' = backlog \ {c}
  /\ fd' = [fd EXCEPT ![<<c, "server">>] = "open"]
  /\ UNCHANGED <<cast, running, listening, clients, reader, hand, stream, lock, job, sends, closing, history>>

\* The connection is listed under the lock, its thread started, the loop tested.
AcceptRegister(c) ==
  /\ acceptor = c /\ lock = None
  /\ clients' = clients \cup {c}
  /\ reader' = [reader EXCEPT ![<<c, "server">>] = "test"]
  /\ acceptor' = IF running[Server] THEN "waiting" ELSE "ended"
  /\ UNCHANGED <<running, net, fd, hand, stream, lock, job, sends, closing, history>>

\* accept() times out after a second, goes on and tests the flag (since Python
\* 3.10; before that socket.timeout was only an OSError, as in AcceptFails).
AcceptTimeout ==
  /\ acceptor = "waiting" /\ ~running[Server]
  /\ acceptor' = "ended"
  /\ UNCHANGED <<running, net, clients, fd, reader, hand, stream, lock, job, sends, closing, history>>

\* accept() on the closed server socket.
AcceptFails ==
  /\ acceptor = "waiting" /\ ~listening
  /\ acceptor' = "ended"
  /\ UNCHANGED <<running, net, clients, fd, reader, hand, stream, lock, job, sends, closing, history>>

-----------------------------------------------------------------------------
(* Receive loops: _client_loop of the server, _recv_loop of a client *)

\* The loop of a new server thread tests _running before it reads.
\* Mutant: it reads first.
FirstRead(c) == "recv"
FirstTest(c) == IF running[Server] THEN "recv" ELSE "over"

LoopStart(c) ==
  /\ reader[<<c, "server">>] = "test"
  /\ reader' = [reader EXCEPT ![<<c, "server">>] = FirstTest(c)]
  /\ UNCHANGED <<running, net, acceptor, clients, fd, hand, stream, lock, job, sends, closing, history>>

\* _recv_msg: a frame of two chunks of one message, or bytes that deserialize
\* to nothing, which end the loop.
Recv(e) ==
  /\ reader[e] = "recv" /\ Len(stream[e]) >= 2
  /\ LET a == stream[e][1]
         b == stream[e][2]
         whole == a[1] = b[1] /\ a[2] = 1 /\ b[2] = 2
     IN /\ reader' = [reader EXCEPT ![e] = IF whole THEN "got" ELSE "over"]
        /\ hand' = [hand EXCEPT ![e] = IF whole THEN a[1] ELSE None]
        /\ garbled' = (garbled \/ ~whole)
  /\ stream' = [stream EXCEPT ![e] = SubSeq(@, 3, Len(@))]
  /\ UNCHANGED <<running, net, acceptor, clients, fd, lock, job, sends, closing, sent, got>>

\* recv() returns nothing: the other side is gone and the stream is used up.
RecvEnd(e) ==
  /\ reader[e] = "recv" /\ Len(stream[e]) < 2 /\ Dropped(Other(e))
  /\ reader' = [reader EXCEPT ![e] = "over"]
  /\ UNCHANGED <<running, net, acceptor, clients, fd, hand, stream, lock, job, sends, closing, history>>

GoesOn(e) == IF running[Process(e)] THEN "recv" ELSE "over"

\* _dispatch under the lock of its side, then the test of the loop.
Dispatch(e) ==
  /\ reader[e] = "got" /\ (e[2] = "server" => lock = None)
  /\ got' = [got EXCEPT ![e] = Append(@, hand[e])]
  /\ hand' = [hand EXCEPT ![e] = None]
  /\ reader' = [reader EXCEPT ![e] = GoesOn(e)]
  /\ UNCHANGED <<running, net, acceptor, clients, fd, stream, lock, job, sends, closing, sent, garbled>>

\* Mutant: the socket is closed but stays listed.
CleanupUnlisted(c) ==
  /\ reader[<<c, "server">>] = "over" /\ lock = None
  /\ fd' = [fd EXCEPT ![<<c, "server">>] = "closed"]
  /\ reader' = [reader EXCEPT ![<<c, "server">>] = "gone"]
  /\ UNCHANGED <<running, net, acceptor, clients, hand, stream, lock, job, sends, closing, history>>

\* The finally block of _client_loop; a client's loop has none.
Cleanup(c) ==
  /\ reader[<<c, "server">>] = "over" /\ lock = None
  /\ clients' = clients \ {c}
  /\ fd' = [fd EXCEPT ![<<c, "server">>] = "closed"]
  /\ reader' = [reader EXCEPT ![<<c, "server">>] = "gone"]
  /\ UNCHANGED <<running, net, acceptor, hand, stream, lock, job, sends, closing, history>>

-----------------------------------------------------------------------------
(* Sending *)

\* One write of a frame; nothing arrives at an end that is gone.
Put(e, m, part) ==
  /\ stream' = [stream EXCEPT ![e] = IF Dropped(e) THEN @ ELSE Append(@, <<m, part>>)]
  /\ sent' = IF part = 1 THEN [sent EXCEPT ![e] = Append(@, m)] ELSE sent

Idle(t) == t \in cast /\ job[t] = None /\ sends[t] < MaxSends[t]

\* Mutant: send() of the server works without the lock.
ServerSendUnlocked(t) ==
  /\ Idle(t) /\ clients # {}
  /\ job' = [job EXCEPT ![t] = [msg |-> <<t, sends[t] + 1>>, todo |-> clients, part |-> 1]]
  /\ sends' = [sends EXCEPT ![t] = @ + 1]
  /\ UNCHANGED <<running, net, acceptor, clients, fd, reader, hand, stream, lock, closing, history>>

\* send() of the server: under the lock, to every client in turn.
ServerSend(t) ==
  /\ Idle(t) /\ clients # {} /\ lock = None
  /\ lock' = t
  /\ job' = [job EXCEPT ![t] = [msg |-> <<t, sends[t] + 1>>, todo |-> clients, part |-> 1]]
  /\ sends' = [sends EXCEPT ![t] = @ + 1]
  /\ UNCHANGED <<running, net, acceptor, clients, fd, reader, hand, stream, closing, history>>

\* The thread is through with client c, and with the send if it was the last.
NextClient(t, c) ==
  LET rest == job[t].todo \ {c}
  IN /\ job' = [job EXCEPT ![t] = IF rest = {} THEN None ELSE [@ EXCEPT !.todo = rest, !.part = 1]]
     /\ lock' = IF rest = {} THEN None ELSE lock

\* Clients are served in the order of the list: here the one chosen first is
\* finished before the next.
First(todo) == CHOOSE x \in todo : TRUE
ServerPut(t, c) ==
  /\ job[t] # None /\ c = First(job[t].todo)
  /\ fd[<<c, "server">>] = "open"
  /\ Put(<<c, "client">>, job[t].msg, job[t].part)
  /\ IF job[t].part = 1 THEN job' = [job EXCEPT ![t].part = 2] /\ UNCHANGED lock
     ELSE NextClient(t, c)
  /\ UNCHANGED <<running, net, acceptor, clients, fd, reader, hand, sends, closing, got, garbled>>

\* A write to a client that is gone fails, sooner or later: it is removed.
ServerPutFails(t, c) ==
  /\ job[t] # None /\ c = First(job[t].todo)
  /\ Dropped(<<c, "client">>) \/ fd[<<c, "server">>] = "closed"
  /\ clients' = clients \ {c}
  /\ NextClient(t, c)
  /\ UNCHANGED <<running, net, acceptor, fd, reader, hand, stream, sends, closing, history>>

\* send() of a client takes no lock.
ClientSend(t) ==
  /\ Idle(t) /\ fd[<<Owner[t], "client">>] = "open"
  /\ job' = [job EXCEPT ![t] = [msg |-> <<t, sends[t] + 1>>, todo |-> {}, part |-> 1]]
  /\ sends' = [sends EXCEPT ![t] = @ + 1]
  /\ UNCHANGED <<running, net, acceptor, clients, fd, reader, hand, stream, lock, closing, history>>

ClientPut(t) ==
  /\ job[t] # None /\ fd[<<Owner[t], "client">>] = "open"
  /\ Put(<<Owner[t], "server">>, job[t].msg, job[t].part)
  /\ job' = [job EXCEPT ![t] = IF job[t].part = 1 THEN [@ EXCEPT !.part = 2] ELSE None]
  /\ UNCHANGED <<running, net, acceptor, clients, fd, reader, hand, lock, sends, closing, got, garbled>>

\* The write raises: the client was closed, or the server is gone.
ClientPutFails(t) ==
  /\ job[t] # None
  /\ fd[<<Owner[t], "client">>] = "closed" \/ Dropped(<<Owner[t], "server">>)
  /\ job' = [job EXCEPT ![t] = None]
  /\ UNCHANGED <<running, net, acceptor, clients, fd, reader, hand, stream, lock, sends, closing, history>>

-----------------------------------------------------------------------------
(* Closing *)

\* TCPClientTransport.close.
ClientClose(c) ==
  /\ fd[<<c, "client">>] = "open"
  /\ running' = [running EXCEPT ![c] = FALSE]
  /\ fd' = [fd EXCEPT ![<<c, "client">>] = "closed"]
  /\ UNCHANGED <<net, acceptor, clients, reader, hand, stream, lock, job, sends, closing, history>>

\* TCPServerTransport.close: the flag, the locked part, the server socket.
CloseFlag ==
  /\ closing = "no" /\ acceptor # "off"
  /\ running' = [running EXCEPT ![Server] = FALSE]
  /\ closing' = "flag"
  /\ UNCHANGED <<net, acceptor, clients, fd, reader, hand, stream, lock, job, sends, history>>

CloseClients ==
  /\ closing = "flag" /\ lock = None
  /\ fd' = [e \in Ends |-> IF e[2] = "server" /\ e[1] \in clients THEN "closed" ELSE fd[e]]
  /\ clients' = {}
  /\ closing' = "clients"
  /\ UNCHANGED <<running, net, acceptor, reader, hand, stream, lock, job, sends, history>>

CloseListener ==
  /\ closing = "clients"
  /\ listening' = FALSE
  /\ closing' = "done"
  /\ UNCHANGED <<cast, running, acceptor, backlog, clients, fd, reader, hand, stream, lock, job, sends, history>>

ServerClose == CloseFlag \/ CloseClients \/ CloseListener
AcceptLoop == AcceptTimeout \/ AcceptFails
              \/ \E c \in Clients : Accept(c) \/ AcceptRegister(c)
Loop(c) == LoopStart(c) \/ Cleanup(c)
           \/ \E e \in {c} \X {"server", "client"} : Recv(e) \/ RecvEnd(e) \/ Dispatch(e)
Sending(t) == \/ t \in ServerThreads /\ (\E c \in Clients : ServerPut(t, c) \/ ServerPutFails(t, c))
              \/ t \in ClientThreads /\ (ClientPut(t) \/ ClientPutFails(t))
Call(t) == \/ t \in ServerThreads /\ ServerSend(t)
           \/ t \in ClientThreads /\ ClientSend(t)

Next ==
  \/ Start \/ AcceptLoop \/ ServerClose
  \/ \E c \in Clients : Connect(c) \/ Loop(c) \/ ClientClose(c)
  \/ \E t \in Threads : Call(t) \/ Sending(t)
Spec == Init /\ [][Next]_vars

\* Threads run and get the lock in the end; accept() returns what has arrived.
\* Nobody has to call anything.
Fairness ==
  /\ SF_vars(AcceptLoop)
  /\ \A c \in Clients : SF_vars(Loop(c))
  /\ \A t \in Threads : WF_vars(Sending(t))

-----------------------------------------------------------------------------
(* Properties *)

\* Length-prefixed frames survive: what a side dispatches is what the other
\* side sent to it, in the order of the sends, and no reader meets bytes that
\* are no message, whichever threads send at the same time.
FramesIntact ==
  /\ ~garbled
  /\ \A e \in Ends : /\ Len(got[e]) <= Len(sent[e])
                     /\ \A i \in DOMAIN got[e] : got[e][i] = sent[e][i]

\* send() of a client takes no lock: its frames are whole where one thread sends.
OneSenderEach == \A t, u \in ClientThreads : Owner[t] = Owner[u] => t = u

\* After close() a client that was accepted too late to be closed by it does
\* not stay behind: its own thread is about to remove it.
NoClientLeftBehind ==
  (closing = "done" /\ acceptor = "ended")
    => \A c \in clients : reader[<<c, "server">>] \in {"test", "over"}

\* A client whose connection has ended is taken off the list of clients.
DisconnectsNoticed ==
  \A c \in Clients : Dropped(<<c, "client">>) ~> (c \notin clients)
=============================================================================
