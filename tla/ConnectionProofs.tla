-------------------------- MODULE ConnectionProofs --------------------------
(***************************************************************************)
(* What talks to other processes, for any number of clients, threads, nodes *)
(* and messages.                                                           *)
(*                                                                         *)
(* TCP: no connection outlives close() of the server, and where a client   *)
(* has one sending thread, what an end reads is what the other end sent,   *)
(* in order, although a frame is written and read in parts.  RemoteQueue:  *)
(* no link is lost by threads that connect, disconnect, broadcast and close *)
(* at the same time.                                                       *)
(***************************************************************************)
EXTENDS TCP, RemoteQueue, TLAPS

(* The TCP transport *)

Closings == {"no", "flag", "clients", "done"}
Readers == {"none", "test", "recv", "got", "over", "gone"}

\* The states a socket, its reader and close() may be in.
ConnType ==
  /\ running \in [Clients \cup {Server} -> BOOLEAN]
  /\ acceptor \in Clients \cup {"off", "waiting", "ended"}
  /\ backlog \subseteq Clients /\ clients \subseteq Clients
  /\ fd \in [Ends -> {"none", "open", "closed"}] /\ reader \in [Ends -> Readers]
  /\ closing \in Closings

\* How far the two ends of one connection have come: the server has a socket only
\* once it accepted, a socket is closed only after its loop ended or close() began,
\* and close() leaves in the table only connections whose loop is about to find out.
ConnOf(c) ==
  LET s == <<c, "server">>
      k == <<c, "client">>
  IN /\ c \in backlog => fd[s] = "none"
     /\ fd[k] = "none" => c \notin backlog /\ fd[s] = "none" /\ reader[k] = "none"
     /\ fd[s] = "none" => reader[s] = "none" /\ c \notin clients
     /\ acceptor = c => fd[s] # "none" /\ reader[s] = "none"
     /\ fd[s] = "closed" => closing # "no" \/ reader[s] = "gone"
     /\ fd[k] = "closed" => ~running[c]
     /\ closing \in {"clients", "done"} /\ c \in clients => reader[s] \in {"test", "over"}

\* The inductive invariant behind NoClientLeftBehind.
ConnInv ==
  /\ ConnType
  /\ closing # "no" => ~running[Server]
  /\ \A c \in Clients : ConnOf(c)

\* Bytes written to an end still arrive: neither side is closed.
Live(e) == ~Dropped(e) /\ fd[Other(e)] # "closed"

\* A server thread in the middle of a broadcast holds the lock.
JobInv ==
  /\ job \in [Threads -> Jobs \cup {None}] /\ sends \in [Threads -> Nat]
  /\ lock \in ServerThreads \cup {None}
  /\ \A t \in ServerThreads : job[t] # None => lock = t

\* Thread t is sending over the connection whose other side is end e.
WritesTo(t, e) ==
  /\ job[t] # None
  /\ \/ t \in ServerThreads /\ e[2] = "client" /\ e[1] = First(job[t].todo)
     \/ t \in ClientThreads /\ e[2] = "server" /\ e[1] = Owner[t]
\* It has written the length of a frame and not the rest.
Mid(t, e) == WritesTo(t, e) /\ job[t].part = 2

MidFrame(e) == \E t \in Threads : Mid(t, e)

\* A frame that is written in part lacks its second chunk.
Missing(e) == IF MidFrame(e) THEN 1 ELSE 0
\* Messages that the reader of an end has taken out of its stream.
Base(e) == Len(got[e]) + IF reader[e] = "got" THEN 1 ELSE 0

\* The types of what goes over the connections.
FrameType ==
  /\ stream \in [Ends -> Seq(Msgs \X {1, 2})]
  /\ sent \in [Ends -> Seq(Msgs)] /\ got \in [Ends -> Seq(Msgs)]
  /\ hand \in [Ends -> Msgs \cup {None}] /\ garbled = FALSE

\* What was read is the beginning of what was sent.
Read(e) ==
  /\ Base(e) <= Len(sent[e])
  /\ \A i \in 1..Len(got[e]) : got[e][i] = sent[e][i]
  /\ reader[e] = "got" => hand[e] = sent[e][Len(got[e]) + 1]
\* A stream holds the chunks of what was sent and not read, in order.
Chunks(e) ==
  \A i \in 1..Len(stream[e]) :
    /\ Base(e) + (i + 1) \div 2 <= Len(sent[e])
    /\ stream[e][i] = <<sent[e][Base(e) + (i + 1) \div 2], 2 - (i % 2)>>
\* None is missing but the second half of the frame being written.
Length(e) ==
  Live(e) => Len(stream[e]) = 2 * (Len(sent[e]) - Base(e)) - Missing(e)
\* That frame is the last message that was sent.
Last(e) ==
  \A t \in Threads : Mid(t, e) => Len(sent[e]) > 0 /\ sent[e][Len(sent[e])] = job[t].msg
EndInv(e) == Read(e) /\ Chunks(e) /\ Length(e) /\ Last(e)

Framed == FrameType /\ \A e \in Ends : EndInv(e)

\* The two ends of a connection.
LEMMA EndsFacts ==
  /\ \A c \in Clients : <<c, "server">> \in Ends /\ <<c, "client">> \in Ends
  /\ \A c, d \in Clients : /\ <<c, "server">> # <<d, "client">>
                           /\ <<c, "server">> = <<d, "server">> <=> c = d
                           /\ <<c, "client">> = <<d, "client">> <=> c = d
  /\ \A c \in Clients : Other(<<c, "server">>) = <<c, "client">> /\ Other(<<c, "client">>) = <<c, "server">>
  /\ \A e \in Ends : e[1] \in Clients /\ (e = <<e[1], "server">> \/ e = <<e[1], "client">>)
BY DEF Ends, Other

\* What the steps do to the connections: nothing of client c but its own end
\* k, its end s at the server, changes.
Apart(c) ==
  LET s == <<c, "server">>
      k == <<c, "client">>
  IN /\ fd'[s] = fd[s] /\ fd'[k] = fd[k] /\ reader'[s] = reader[s] /\ reader'[k] = reader[k]
     /\ c \in clients' => c \in clients
     /\ c \in backlog' <=> c \in backlog
     /\ acceptor' = c => acceptor = c
     /\ running'[c] = running[c]

\* A step of another connection keeps ConnOf.
LEMMA ApartKept ==
  ASSUME NEW c \in Clients, ConnOf(c), Apart(c), closing' = closing
  PROVE  ConnOf(c)'
BY DEF ConnOf, Apart

\* An end that is closed stays closed, and nobody starts to read from it.
Steady(e) == fd[e] = "closed" => fd'[e] = "closed" /\ (reader'[e] = "recv" => reader[e] = "recv")

\* No step brings a connection back to life.
LEMMA LiveKept == (\A e \in Ends : Steady(e)) => \A e \in Ends : Live(e)' => Live(e)
<1>1. \A e \in Ends : Other(e) \in Ends
  BY DEF Ends, Other
<1> QED
  BY <1>1 DEF Steady, Live, Dropped

\* The steps that touch none of the sockets and loops.
LEMMA ListStep ==
  ASSUME ConnInv, UNCHANGED <<fd, reader, backlog, running>>, clients' \subseteq clients,
         acceptor' = acceptor \/ acceptor' = "ended",
         closing' = closing \/ (closing = "clients" /\ closing' = "done")
  PROVE  ConnInv' /\ \A e \in Ends : Steady(e)
<1>1. ConnType'
  BY DEF ConnInv, ConnType, Closings
<1>2. \A c \in Clients : ConnOf(c)'
  BY PartiesAssumption, Zenon DEF ConnInv, ConnOf, ConnType
<1> QED
  BY <1>1, <1>2, Zenon DEF ConnInv, Steady

\* A receive loop goes on.
LEMMA LoopStep ==
  ASSUME ConnInv, NEW e \in Ends, NEW x \in {"recv", "got", "over"}, reader[e] \in {"test", "recv", "got"},
         reader' = [reader EXCEPT ![e] = x], UNCHANGED <<running, acceptor, backlog, clients, fd, closing>>,
         x = "recv" => running[Process(e)], x = "got" => reader[e] = "recv"
  PROVE  ConnInv' /\ \A f \in Ends : Steady(f)
<1>1. ConnType' /\ reader'[e] = x /\ \A f \in Ends \ {e} : reader'[f] = reader[f]
  BY DEF ConnInv, ConnType, Readers
<1>2. PICK c \in Clients : e = <<c, "server">> \/ e = <<c, "client">>
  BY EndsFacts
<1>3. \A d \in Clients \ {c} : Apart(d)
  <2> SUFFICES ASSUME NEW d \in Clients \ {c} PROVE Apart(d)
    OBVIOUS
  <2>1. <<d, "server">> \in Ends \ {e} /\ <<d, "client">> \in Ends \ {e}
    BY <1>2, EndsFacts
  <2> QED
    BY <1>1, <2>1 DEF Apart
<1>4. \A d \in Clients \ {c} : ConnOf(d)'
  BY <1>3, ApartKept, Zenon DEF ConnInv
<1>5. CASE e = <<c, "server">>
  <2>1. Process(e) = Server
    BY <1>5, Zenon DEF Process
  <2>2. ConnOf(c)'
    BY <1>1, <1>5, <2>1, EndsFacts DEF ConnInv, ConnOf
  <2>3. fd[e] = "closed" => x # "recv"
    BY <1>5, <2>1, Zenon DEF ConnInv, ConnOf
  <2> QED
    BY <1>1, <1>4, <2>2, <2>3, Zenon DEF ConnInv, Steady
<1>6. CASE e = <<c, "client">>
  <2>1. Process(e) = c
    BY <1>6, Zenon DEF Process
  <2>2. ConnOf(c)'
    BY <1>1, <1>6, EndsFacts DEF ConnInv, ConnOf
  <2>3. fd[e] = "closed" => x # "recv"
    BY <1>6, <2>1, Zenon DEF ConnInv, ConnOf
  <2> QED
    BY <1>1, <1>4, <2>2, <2>3 DEF ConnInv, Steady
<1> QED
  BY <1>2, <1>5, <1>6

\* The steps by which a connection comes and goes.
LEMMA AcceptingStep ==
  ASSUME ConnInv, NEW c \in Clients, Connect(c) \/ Accept(c) \/ AcceptRegister(c) \/ Cleanup(c) \/ ClientClose(c)
  PROVE  ConnInv' /\ \A e \in Ends : Steady(e)
<1> USE PartiesAssumption, EndsFacts
<1>0. ConnType /\ (closing # "no" => ~running[Server]) /\ ConnOf(c)
  BY Zenon DEF ConnInv
<1>1. ConnType' /\ running'[Server] = running[Server] /\ closing' = closing
  <2>1. closing' = closing /\ running'[Server] = running[Server] /\ running' \in [Clients \cup {Server} -> BOOLEAN]
    BY <1>0, Zenon DEF Connect, Accept, AcceptRegister, Cleanup, ClientClose, ConnType
  <2>2. acceptor' \in Clients \cup {"off", "waiting", "ended"} /\ backlog' \subseteq Clients /\ clients' \subseteq Clients
    BY <1>0 DEF Connect, Accept, AcceptRegister, Cleanup, ClientClose, ConnType, net
  <2>3. fd' \in [Ends -> {"none", "open", "closed"}]
    BY <1>0 DEF Connect, Accept, AcceptRegister, Cleanup, ClientClose, ConnType
  <2>4. reader' \in [Ends -> Readers]
    <3>1. CASE Connect(c)
      BY <1>0, <3>1, Zenon DEF Connect, ConnType, Readers
    <3>3. CASE Accept(c) \/ ClientClose(c)
      BY <1>0, <3>3 DEF Accept, ClientClose, ConnType
    <3>2. CASE AcceptRegister(c)
      BY <1>0, <3>2, Zenon DEF AcceptRegister, ConnType, Readers
    <3>4. CASE Cleanup(c)
      BY <1>0, <3>4, Zenon DEF Cleanup, ConnType, Readers
    <3> QED
      BY <3>1, <3>2, <3>3, <3>4
  <2> QED
    BY <1>0, <2>1, <2>2, <2>3, <2>4, Zenon DEF ConnType
<1>2. \A d \in Clients \ {c} : Apart(d)
  <2> SUFFICES ASSUME NEW d \in Clients \ {c} PROVE Apart(d)
    BY Zenon
  <2>1. /\ fd'[<<d, "server">>] = fd[<<d, "server">>] /\ fd'[<<d, "client">>] = fd[<<d, "client">>]
        /\ reader'[<<d, "server">>] = reader[<<d, "server">>] /\ reader'[<<d, "client">>] = reader[<<d, "client">>]
    <3>1. ASSUME NEW e \in Ends, e # <<c, "server">>, e # <<c, "client">> PROVE fd'[e] = fd[e] /\ reader'[e] = reader[e]
      BY <1>0, <3>1 DEF Connect, Accept, AcceptRegister, Cleanup, ClientClose, ConnType
    <3> QED
      BY <3>1, Zenon
  <2>2. (d \in clients' => d \in clients) /\ (d \in backlog' <=> d \in backlog) /\ (acceptor' = d => acceptor = d)
    BY <1>0 DEF Connect, Accept, AcceptRegister, Cleanup, ClientClose, net
  <2>3. running'[d] = running[d]
    BY <1>0 DEF Connect, Accept, AcceptRegister, Cleanup, ClientClose, ConnType
  <2> QED
    BY <2>1, <2>2, <2>3, Zenon DEF Apart
<1>3. ConnOf(c)' /\ Steady(<<c, "server">>) /\ Steady(<<c, "client">>)
  <2>1. CASE Connect(c)
    BY <1>0, <2>1, Zenon DEF Connect, ConnOf, ConnType, Steady
  <2>2. CASE Accept(c)
    BY <1>0, <2>2, Zenon DEF Accept, ConnOf, ConnType, Steady
  <2>3. CASE AcceptRegister(c)
    BY <1>0, <2>3, Zenon DEF AcceptRegister, ConnOf, ConnType, Steady, net
  <2>4. CASE Cleanup(c)
    BY <1>0, <2>4, Zenon DEF Cleanup, ConnOf, ConnType, Steady, net
  <2>5. CASE ClientClose(c)
    BY <1>0, <2>5, Zenon DEF ClientClose, ConnOf, ConnType, Steady, net
  <2> QED
    BY <2>1, <2>2, <2>3, <2>4, <2>5, Zenon
<1>4. \A d \in Clients : ConnOf(d)'
  BY <1>1, <1>2, <1>3, ApartKept, Zenon DEF ConnInv
<1>5. \A e \in Ends : Steady(e)
  <2> SUFFICES ASSUME NEW e \in Ends PROVE Steady(e)
    OBVIOUS
  <2>1. PICK d \in Clients : e = <<d, "server">> \/ e = <<d, "client">>
    OBVIOUS
  <2>2. CASE d = c
    BY <1>3, <2>1, <2>2, Zenon
  <2>3. CASE d # c
    <3>1. Apart(d)
      BY <1>2, <2>3, Zenon
    <3>2. fd'[e] = fd[e] /\ reader'[e] = reader[e]
      BY <2>1, <3>1, Zenon DEF Apart
    <3> QED
      BY <3>2, Zenon DEF Steady
  <2> QED
    BY <2>2, <2>3, Zenon
<1> QED
  BY <1>0, <1>1, <1>4, <1>5, Zenon DEF ConnInv

\* Every step keeps ConnInv, and a closed end closed.
LEMMA ConnStep ==
  ASSUME ConnInv, [Next]_vars
  PROVE  ConnInv' /\ \A e \in Ends : Steady(e)
<1> USE PartiesAssumption, EndsFacts
<1>0. ConnType /\ (closing # "no" => ~running[Server]) /\ \A c \in Clients : ConnOf(c)
  BY Zenon DEF ConnInv
<1>1. CASE Start
  <2>1. ConnType' /\ UNCHANGED <<fd, reader, clients, backlog, closing>> /\ closing = "no" /\ acceptor' \notin Clients
    BY <1>0, <1>1 DEF Start, ConnType
  <2>2. \A c \in Clients : running'[c] = running[c]
    BY <1>0, <1>1, Zenon DEF Start, ConnType
  <2>3. \A c \in Clients : Apart(c)
    BY <2>1, <2>2, Zenon DEF Apart
  <2> QED
    BY <1>0, <2>1, <2>3, ApartKept, Zenon DEF ConnInv, Steady
<1>2. ASSUME NEW c \in Clients, Connect(c) \/ Accept(c) \/ AcceptRegister(c) \/ Cleanup(c) \/ ClientClose(c)
      PROVE  ConnInv' /\ \A e \in Ends : Steady(e)
  BY <1>2, AcceptingStep, Zenon
<1>3. CASE AcceptTimeout \/ AcceptFails \/ CloseListener \/ UNCHANGED vars
  BY <1>3, ListStep, Zenon DEF AcceptTimeout, AcceptFails, CloseListener, net, vars
<1>4. ASSUME NEW t \in Threads, Call(t) PROVE ConnInv' /\ \A e \in Ends : Steady(e)
  BY <1>4, ListStep, Zenon DEF Call, ServerSend, ClientSend, net
<1>5. ASSUME NEW t \in Threads, Sending(t) PROVE ConnInv' /\ \A e \in Ends : Steady(e)
  <2>1. UNCHANGED <<fd, reader, backlog, running, acceptor, closing>> /\ clients' \subseteq clients
    BY <1>5, Zenon DEF Sending, ServerPut, ServerPutFails, ClientPut, ClientPutFails, net
  <2> QED
    BY <2>1, ListStep
<1>6. ASSUME NEW c \in Clients, LoopStart(c) PROVE ConnInv' /\ \A e \in Ends : Steady(e)
  <2> DEFINE e == <<c, "server">>
  <2>1. e \in Ends /\ Process(e) = Server
    BY Zenon DEF Process
  <2> HIDE DEF e
  <2>2. /\ reader[e] = "test" /\ reader' = [reader EXCEPT ![e] = FirstTest(c)]
        /\ UNCHANGED <<running, acceptor, backlog, clients, fd, closing>>
    BY <1>6, Zenon DEF LoopStart, net, e
  <2>3. FirstTest(c) \in {"recv", "got", "over"} /\ (FirstTest(c) = "recv" => running[Server]) /\ FirstTest(c) # "got"
    BY DEF FirstTest
  <2> QED
    BY <2>1, <2>2, <2>3, LoopStep, Zenon
<1>7. ASSUME NEW e \in Ends, Recv(e) \/ RecvEnd(e) PROVE ConnInv' /\ \A f \in Ends : Steady(f)
  <2>1. PICK x \in {"got", "over"} : reader' = [reader EXCEPT ![e] = x]
    BY <1>7, Zenon DEF Recv, RecvEnd
  <2>2. reader[e] = "recv" /\ UNCHANGED <<running, acceptor, backlog, clients, fd, closing>>
    BY <1>7 DEF Recv, RecvEnd, net
  <2> QED
    BY <2>1, <2>2, LoopStep, Zenon
<1>8. ASSUME NEW e \in Ends, Dispatch(e) PROVE ConnInv' /\ \A f \in Ends : Steady(f)
  <2>1. /\ reader[e] = "got" /\ reader' = [reader EXCEPT ![e] = GoesOn(e)]
        /\ UNCHANGED <<running, acceptor, backlog, clients, fd, closing>>
    BY <1>8, Zenon DEF Dispatch, net
  <2>2. GoesOn(e) \in {"recv", "over"} /\ (GoesOn(e) = "recv" => running[Process(e)])
    BY Zenon DEF GoesOn
  <2> QED
    BY <2>1, <2>2, LoopStep, Zenon
<1>9. CASE CloseFlag
  <2>1. ConnType' /\ UNCHANGED <<fd, reader, clients, backlog, acceptor>> /\ closing' = "flag" /\ ~running'[Server]
    BY <1>0, <1>9 DEF CloseFlag, ConnType, Closings, net
  <2>2. \A c \in Clients : running'[c] = running[c]
    BY <1>0, <1>9, Zenon DEF CloseFlag, ConnType
  <2>3. \A c \in Clients : ConnOf(c)'
    BY <1>0, <2>1, <2>2, Zenon DEF ConnOf
  <2> QED
    BY <2>1, <2>3, Zenon DEF ConnInv, Steady
<1>10. CASE CloseClients
  <2>1. ConnType' /\ UNCHANGED <<running, reader, backlog, acceptor>> /\ closing' = "clients" /\ clients' = {}
    BY <1>0, <1>10, Zenon DEF CloseClients, ConnType, Closings, net
  <2>2. \A c \in Clients : /\ fd'[<<c, "client">>] = fd[<<c, "client">>]
                           /\ fd'[<<c, "server">>] = IF c \in clients THEN "closed" ELSE fd[<<c, "server">>]
    BY <1>10, Zenon DEF CloseClients
  <2>3. \A c \in Clients : ConnOf(c)'
    <3> SUFFICES ASSUME NEW c \in Clients PROVE ConnOf(c)'
      BY Zenon
    <3>1. ConnOf(c) /\ (c \in clients => fd[<<c, "server">>] # "none")
      BY <1>0 DEF ConnOf
    <3> QED
      BY <2>1, <2>2, <3>1, Zenon DEF ConnOf
  <2>4. \A e \in Ends : fd[e] = "closed" => fd'[e] = "closed"
    <3>1. fd' = [e \in Ends |-> IF e[2] = "server" /\ e[1] \in clients THEN "closed" ELSE fd[e]]
      BY <1>10 DEF CloseClients
    <3> QED
      BY <3>1, Zenon
  <2> QED
    BY <1>0, <1>10, <2>1, <2>3, <2>4, Zenon DEF ConnInv, Steady, CloseClients
<1> QED
  <2>1. \A c \in Clients : {c} \X {"server", "client"} \subseteq Ends
    BY Zenon DEF Ends
  <2> QED
    BY <1>1, <1>2, <1>3, <1>4, <1>5, <1>6, <1>7, <1>8, <1>9, <1>10, <2>1, Zenon DEF Next, AcceptLoop, ServerClose, Loop

\* ConnInv holds in every state of the transport.
THEOREM ConnInvariant == Spec => []ConnInv
<1>1. Init => ConnInv
  <2> SUFFICES ASSUME Init PROVE ConnInv
    BY Zenon
  <2>1. ConnType
    BY Zenon DEF Init, ConnType, Readers, Closings
  <2>2. \A c \in Clients : ConnOf(c)
    BY PartiesAssumption, EndsFacts DEF Init, ConnOf
  <2> QED
    BY <2>1, <2>2 DEF ConnInv, Init
<1> QED
  BY <1>1, ConnStep, PTL DEF Spec

\* Once close() has closed the sockets in the table and ended the accept loop, no
\* connection accepted meanwhile lives on (TCPServerTransport.close, _accept_loop).
THEOREM NobodyStaysBehind == Spec => []NoClientLeftBehind
<1>1. ConnInv => NoClientLeftBehind
  BY Zenon DEF ConnInv, ConnType, ConnOf, NoClientLeftBehind
<1> QED
  BY <1>1, ConnInvariant, PTL

-----------------------------------------------------------------------------
(* Frames *)

\* A thread goes on to its next write, or is done.
LEMMA JobChange ==
  ASSUME JobInv, NEW t \in Threads, NEW r \in Jobs \cup {None}, job' = [job EXCEPT ![t] = r],
         sends' \in [Threads -> Nat],
         \/ t \in ClientThreads /\ lock' = lock
         \/ /\ t \in ServerThreads /\ (lock = None \/ lock = t)
            /\ lock' = t \/ (lock' = None /\ r = None)
  PROVE  JobInv' /\ job'[t] = r /\ \A u \in Threads \ {t} : job'[u] = job[u]
<1>1. job' \in [Threads -> Jobs \cup {None}] /\ job'[t] = r /\ \A u \in Threads \ {t} : job'[u] = job[u]
  BY DEF JobInv
<1>2. \A u \in ServerThreads : u \in Threads /\ u # None /\ u \notin ClientThreads
  BY PartiesAssumption DEF Threads
<1>3. lock' \in ServerThreads \cup {None}
  BY Zenon DEF JobInv
<1>4. \A u \in ServerThreads : job'[u] # None => lock' = u
  BY <1>1, <1>2 DEF JobInv
<1> QED
  BY <1>1, <1>3, <1>4, Zenon DEF JobInv

\* Every step keeps JobInv: send() of the server runs under _lock.
LEMMA JobStep ==
  ASSUME JobInv, ConnInv, [Next]_vars
  PROVE  JobInv'
<1>1. ASSUME NEW t \in Threads, Call(t) PROVE JobInv'
  <2>1. sends[t] \in Nat /\ clients \in SUBSET Clients
    BY DEF JobInv, ConnInv, ConnType
  <2>2. \A S \in SUBSET Clients : [msg |-> <<t, sends[t] + 1>>, todo |-> S, part |-> 1] \in Jobs
    BY <2>1 DEF Jobs, Msgs
  <2>3. sends' \in [Threads -> Nat]
    <3>1. sends' = [sends EXCEPT ![t] = sends[t] + 1]
      BY <1>1 DEF Call, ServerSend, ClientSend
    <3>2. sends[t] + 1 \in Nat
      BY <2>1
    <3> QED
      BY <3>1, <3>2, Zenon DEF JobInv
  <2>4. PICK S \in SUBSET Clients : job' = [job EXCEPT ![t] = [msg |-> <<t, sends[t] + 1>>, todo |-> S, part |-> 1]]
    BY <1>1, <2>1, Zenon DEF Call, ServerSend, ClientSend
  <2>5. \/ t \in ClientThreads /\ lock' = lock
        \/ t \in ServerThreads /\ lock = None /\ lock' = t
    BY <1>1 DEF Call, ServerSend, ClientSend
  <2> QED
    BY <2>2, <2>3, <2>4, <2>5, JobChange, Zenon
<1>2. ASSUME NEW t \in ServerThreads, NEW c \in Clients, ServerPut(t, c) \/ ServerPutFails(t, c) PROVE JobInv'
  <2>0. t \in Threads
    BY Zenon DEF Threads
  <2>1. job[t] \in Jobs /\ lock = t
    BY <1>2, <2>0, Zenon DEF ServerPut, ServerPutFails, JobInv
  <2>2. UNCHANGED sends /\ sends \in [Threads -> Nat]
    BY <1>2, Zenon DEF ServerPut, ServerPutFails, JobInv
  <2>3. PICK r \in Jobs \cup {None} : job' = [job EXCEPT ![t] = r] /\ (lock' = t \/ (lock' = None /\ r = None))
    <3>1. CASE NextClient(t, c)
      <4>1. CASE job[t].todo \ {c} = {}
        BY <3>1, <4>1, Zenon DEF NextClient
      <4>2. CASE job[t].todo \ {c} # {}
        <5> DEFINE r == [job[t] EXCEPT !.todo = job[t].todo \ {c}, !.part = 1]
        <5>1. r \in Jobs
          BY <2>1, Zenon DEF Jobs
        <5>2. job' = [job EXCEPT ![t] = r] /\ lock' = t
          BY <2>1, <3>1, <4>2, Zenon DEF NextClient
        <5> QED
          BY <5>1, <5>2, Zenon
      <4> QED
        BY <4>1, <4>2
    <3>2. CASE job' = [job EXCEPT ![t].part = 2] /\ lock' = lock
      <4> DEFINE r == [job[t] EXCEPT !.part = 2]
      <4>1. r \in Jobs
        BY <2>1 DEF Jobs
      <4>2. job' = [job EXCEPT ![t] = r]
        BY <3>2
      <4> QED
        BY <2>1, <3>2, <4>1, <4>2, Zenon
    <3> QED
      BY <1>2, <3>1, <3>2, Zenon DEF ServerPut, ServerPutFails
  <2> QED
    BY <2>0, <2>1, <2>2, <2>3, JobChange, Zenon
<1>3. ASSUME NEW t \in ClientThreads, ClientPut(t) \/ ClientPutFails(t) PROVE JobInv'
  <2>0. t \in Threads
    BY DEF Threads
  <2>1. job[t] \in Jobs
    BY <1>3, <2>0, Zenon DEF ClientPut, ClientPutFails, JobInv
  <2>2. UNCHANGED <<sends, lock>> /\ sends \in [Threads -> Nat]
    BY <1>3 DEF ClientPut, ClientPutFails, JobInv
  <2>3. [job[t] EXCEPT !.part = 2] \in Jobs
    BY <2>1, Zenon DEF Jobs
  <2>4. PICK r \in Jobs \cup {None} : job' = [job EXCEPT ![t] = r]
    BY <1>3, <2>3 DEF ClientPut, ClientPutFails
  <2> QED
    BY <2>0, <2>2, <2>4, JobChange, Zenon
<1>4. CASE UNCHANGED <<job, sends, lock>>
  BY <1>4, Zenon DEF JobInv
<1>5. ASSUME NEW c \in Clients, Connect(c) \/ Loop(c) \/ ClientClose(c) PROVE UNCHANGED <<job, sends, lock>>
  BY <1>5 DEF Connect, Loop, ClientClose, LoopStart, Cleanup, Recv, RecvEnd, Dispatch
<1>6. CASE Start \/ AcceptLoop \/ ServerClose \/ UNCHANGED vars
  BY <1>4, <1>6, Zenon DEF Start, AcceptLoop, AcceptTimeout, AcceptFails, Accept, AcceptRegister, ServerClose, CloseFlag, CloseClients,
                    CloseListener, vars
<1>7. ASSUME NEW t \in Threads, Call(t) \/ Sending(t) PROVE JobInv'
  <2>1. CASE Call(t)
    BY <1>1, <2>1, Zenon
  <2>2. CASE Sending(t)
    BY <1>2, <1>3, <2>2, Zenon DEF Sending
  <2> QED
    BY <1>7, <2>1, <2>2, Zenon
<1> QED
  BY <1>4, <1>5, <1>6, <1>7 DEF Next

\* Nobody else writes to an end that a thread writes to.
LEMMA OneWriter ==
  ASSUME JobInv, OneSenderEach, NEW e \in Ends, NEW t \in Threads, NEW u \in Threads, WritesTo(t, e), WritesTo(u, e)
  PROVE  t = u
BY Zenon DEF JobInv, OneSenderEach, WritesTo

\* A step that leaves end e alone.
LEMMA QuietEnd ==
  ASSUME NEW e \in Ends, EndInv(e), stream'[e] = stream[e], sent'[e] = sent[e], got'[e] = got[e], hand'[e] = hand[e],
         reader'[e] = "got" <=> reader[e] = "got",
         Live(e)' => Live(e) /\ (MidFrame(e)' <=> MidFrame(e)),
         \A t \in Threads : Mid(t, e)' => Mid(t, e) /\ job'[t].msg = job[t].msg
  PROVE  EndInv(e)'
<1>1. Base(e)' = Base(e)
  BY Zenon DEF Base
<1>2. Read(e)' /\ Chunks(e)'
  BY <1>1, Zenon DEF EndInv, Read, Chunks
<1>3. Length(e)'
  BY <1>1, Zenon DEF EndInv, Length, Missing
<1>4. Last(e)'
  BY Zenon DEF EndInv, Last
<1> QED
  BY <1>2, <1>3, <1>4 DEF EndInv

\* Chunk i of a stream is a half of frame (i + 1) \div 2.
LEMMA Halves ==
  /\ \A k \in Nat : ((2 * k + 1) + 1) \div 2 = k + 1 /\ (2 * k + 1) % 2 = 1
  /\ \A k \in Nat : (2 * k + 1) \div 2 = k /\ (2 * k) % 2 = 0
  /\ \A i \in Nat : ((i + 2) + 1) \div 2 = ((i + 1) \div 2) + 1 /\ (i + 2) % 2 = i % 2
  /\ \A i \in Nat : (i + 1) \div 2 \in Nat /\ i % 2 \in {0, 1} /\ (i > 0 => (i + 1) \div 2 > 0)
OBVIOUS

\* A reader takes a frame: its two chunks are the next message.
LEMMA RecvStep ==
  ASSUME FrameType, NEW e \in Ends, EndInv(e), Recv(e), reader \in [Ends -> Readers], Live(e)' => Live(e)
  PROVE  EndInv(e)' /\ garbled' = FALSE /\ hand'[e] \in Msgs
<1>1. reader[e] = "recv" /\ Len(stream[e]) >= 2 /\ stream' = [stream EXCEPT ![e] = SubSeq(stream[e], 3, Len(stream[e]))]
  BY DEF Recv
<1>2. stream[e] \in Seq(Msgs \X {1, 2}) /\ sent[e] \in Seq(Msgs) /\ got[e] \in Seq(Msgs)
  BY Zenon DEF FrameType
<1> DEFINE B == Len(got[e])
           L == Len(stream[e])
<1>3. B \in Nat /\ L \in Nat /\ Len(sent[e]) \in Nat /\ Base(e) = B
  BY <1>1, <1>2 DEF Base
<1>4. \A i \in 1..L : B + (i + 1) \div 2 <= Len(sent[e]) /\ stream[e][i] = <<sent[e][B + (i + 1) \div 2], 2 - (i % 2)>>
  BY <1>3, Zenon DEF EndInv, Chunks
<1>5. stream[e][1] = <<sent[e][B + 1], 1>> /\ stream[e][2] = <<sent[e][B + 1], 2>> /\ B + 1 <= Len(sent[e])
  <2>1. (1 + 1) \div 2 = 1 /\ (2 + 1) \div 2 = 1 /\ 2 - (1 % 2) = 1 /\ 2 - (2 % 2) = 2
    OBVIOUS
  <2>2. 1 \in 1..L /\ 2 \in 1..L
    BY <1>1, <1>3
  <2> QED
    BY <1>4, <2>1, <2>2, Zenon
<1>6. /\ reader' = [reader EXCEPT ![e] = "got"] /\ hand' = [hand EXCEPT ![e] = sent[e][B + 1]]
      /\ garbled' = FALSE /\ UNCHANGED <<job, sent, got>>
  <2>1. /\ stream[e][1][1] = sent[e][B + 1] /\ stream[e][1][2] = 1
        /\ stream[e][2][1] = sent[e][B + 1] /\ stream[e][2][2] = 2
    BY <1>5
  <2> HIDE DEF B
  <2>2. reader' = [reader EXCEPT ![e] = "got"] /\ hand' = [hand EXCEPT ![e] = sent[e][B + 1]] /\ UNCHANGED <<job, sent, got>>
    BY <2>1, Zenon DEF Recv
  <2>3. garbled' = (garbled \/ FALSE)
    BY <2>1, Zenon DEF Recv
  <2> QED
    BY <2>2, <2>3, Zenon DEF FrameType
<1>7. reader'[e] = "got" /\ hand'[e] = sent[e][B + 1] /\ garbled' = FALSE /\ hand'[e] \in Msgs
  BY <1>2, <1>3, <1>5, <1>6 DEF FrameType
<1>8. Base(e)' = B + 1
  BY <1>6, <1>7, Zenon DEF Base
<1>9. Read(e)'
  BY <1>3, <1>5, <1>6, <1>7, <1>8, Zenon DEF EndInv, Read
<1>10. Len(stream'[e]) = L - 2 /\ \A i \in 1..L - 2 : stream'[e][i] = stream[e][i + 2]
  <2>1. stream'[e] = SubSeq(stream[e], 3, L)
    BY <1>1 DEF FrameType
  <2> QED
    BY <1>1, <1>2, <1>3, <2>1
<1> HIDE DEF B, L
<1>11. Chunks(e)'
  <2> SUFFICES ASSUME NEW i \in 1..L - 2
               PROVE  /\ B + 1 + (i + 1) \div 2 <= Len(sent[e])
                      /\ stream[e][i + 2] = <<sent[e][B + 1 + (i + 1) \div 2], 2 - (i % 2)>>
    BY <1>6, <1>8, <1>10, Zenon DEF Chunks
  <2>1. i + 2 \in 1..L /\ ((i + 2) + 1) \div 2 = ((i + 1) \div 2) + 1 /\ (i + 2) % 2 = i % 2
    BY <1>3, Halves
  <2>2. (i + 1) \div 2 \in Nat
    BY Halves
  <2>3. B + (((i + 1) \div 2) + 1) = B + 1 + (i + 1) \div 2
    BY <1>3, <2>2
  <2> QED
    BY <1>4, <2>1, <2>3, Zenon
<1>12. (MidFrame(e)' <=> MidFrame(e)) /\ \A t \in Threads : Mid(t, e)' <=> Mid(t, e)
  BY <1>6 DEF MidFrame, Mid, WritesTo
<1>13. Length(e)'
  <2> SUFFICES ASSUME Live(e)'
               PROVE  Len(stream'[e]) = 2 * (Len(sent[e]) - (B + 1)) - Missing(e)
    BY <1>6, <1>8, <1>12, Zenon DEF Length, Missing
  <2>1. L = 2 * (Len(sent[e]) - B) - Missing(e)
    BY <1>3, Zenon DEF EndInv, Length, L
  <2> QED
    <3>1. Len(stream'[e]) = L - 2
      BY <1>10, Zenon
    <3>2. \A X \in Nat, d \in {0, 1} : L = 2 * (X - B) - d => L - 2 = 2 * (X - (B + 1)) - d
      BY <1>3
    <3>3. Missing(e) \in {0, 1}
      BY Zenon DEF Missing
    <3> QED
      BY <1>3, <2>1, <3>1, <3>2, <3>3, Zenon
<1>14. Last(e)'
  BY <1>6, <1>12, Zenon DEF EndInv, Last
<1> QED
  BY <1>7, <1>9, <1>11, <1>13, <1>14, Zenon DEF EndInv

\* The message that was read is handed on.
LEMMA DispatchStep ==
  ASSUME FrameType, NEW e \in Ends, EndInv(e), Dispatch(e), reader \in [Ends -> Readers], Live(e)' => Live(e)
  PROVE  EndInv(e)' /\ got'[e] \in Seq(Msgs)
<1>1. /\ reader[e] = "got" /\ got' = [got EXCEPT ![e] = Append(got[e], hand[e])]
      /\ reader' = [reader EXCEPT ![e] = GoesOn(e)] /\ UNCHANGED <<job, sent, stream>>
  BY Zenon DEF Dispatch
<1>2. sent[e] \in Seq(Msgs) /\ got[e] \in Seq(Msgs) /\ Len(sent[e]) \in Nat /\ Len(got[e]) \in Nat
  BY DEF FrameType
<1>3. /\ Base(e) = Len(got[e]) + 1 /\ Len(got[e]) + 1 <= Len(sent[e]) /\ hand[e] = sent[e][Len(got[e]) + 1]
      /\ \A i \in 1..Len(got[e]) : got[e][i] = sent[e][i]
  BY <1>1, Zenon DEF EndInv, Read, Base
<1>4. hand[e] \in Msgs
  BY <1>2, <1>3
<1>5. /\ got'[e] \in Seq(Msgs) /\ Len(got'[e]) = Len(got[e]) + 1 /\ got'[e][Len(got[e]) + 1] = hand[e]
      /\ \A i \in 1..Len(got[e]) : got'[e][i] = got[e][i]
  <2>1. got'[e] = Append(got[e], hand[e])
    BY <1>1, Zenon DEF FrameType
  <2> QED
    BY <1>2, <1>4, <2>1
<1>6. reader'[e] # "got"
  BY <1>1, Zenon DEF GoesOn
<1>7. Base(e)' = Base(e)
  <2>1. Base(e)' = Len(got'[e]) + 0
    BY <1>6, Zenon DEF Base
  <2> QED
    BY <1>2, <1>3, <1>5, <2>1
<1>8. Read(e)'
  <2>1. \A i \in 1..Len(got'[e]) : got'[e][i] = sent[e][i]
    <3> SUFFICES ASSUME NEW i \in 1..Len(got[e]) + 1 PROVE got'[e][i] = sent[e][i]
      BY <1>5, Zenon
    <3>1. CASE i \in 1..Len(got[e])
      BY <1>3, <1>5, <3>1, Zenon
    <3>2. CASE i = Len(got[e]) + 1
      BY <1>3, <1>5, <3>2, Zenon
    <3> QED
      BY <1>2, <3>1, <3>2
  <2> QED
    BY <1>1, <1>3, <1>6, <1>7, <2>1, Zenon DEF Read
<1>9. Chunks(e)'
  BY <1>1, <1>7, Zenon DEF EndInv, Chunks
<1>10. (MidFrame(e)' <=> MidFrame(e)) /\ \A t \in Threads : Mid(t, e)' <=> Mid(t, e)
  BY <1>1 DEF MidFrame, Mid, WritesTo
<1>11. Length(e)'
  BY <1>1, <1>7, <1>10, Zenon DEF EndInv, Length, Missing
<1>12. Last(e)'
  BY <1>1, <1>10, Zenon DEF EndInv, Last
<1> QED
  BY <1>5, <1>8, <1>9, <1>11, <1>12, Zenon DEF EndInv

\* A thread writes the next part of its message to end e, the other side of
\* which is open, and turns to the next part or to another end.
LEMMA PutStep ==
  ASSUME FrameType, JobInv, JobInv', OneSenderEach, NEW e \in Ends, EndInv(e), NEW t \in Threads, WritesTo(t, e),
         fd[Other(e)] = "open", Put(e, job[t].msg, job[t].part), UNCHANGED <<fd, reader, hand, got>>,
         NEW r \in Jobs \cup {None}, job' = [job EXCEPT ![t] = r],
         job[t].part = 1 => r = [job[t] EXCEPT !.part = 2],
         job[t].part = 2 => r = None \/ r.part = 1
  PROVE  /\ EndInv(e)' /\ stream'[e] \in Seq(Msgs \X {1, 2}) /\ sent'[e] \in Seq(Msgs)
         /\ \A f \in Ends \ {e} : stream'[f] = stream[f] /\ sent'[f] = sent[f]
<1> DEFINE m == job[t].msg
           p == job[t].part
           L == Len(sent[e])
           B == Base(e)
           N == Len(stream[e])
<1>1. job[t] \in Jobs /\ m \in Msgs /\ p \in {1, 2}
  BY DEF JobInv, WritesTo, Jobs
<1>2. stream[e] \in Seq(Msgs \X {1, 2}) /\ sent[e] \in Seq(Msgs) /\ got[e] \in Seq(Msgs)
  BY DEF FrameType
<1>3. L \in Nat /\ N \in Nat /\ Len(got[e]) \in Nat /\ B \in Nat /\ B <= L
  <2>1. B <= L
    BY DEF EndInv, Read
  <2>2. Len(got[e]) \in Nat /\ B \in Nat
    <3>1. Len(got[e]) \in Nat
      BY <1>2
    <3>2. B = Len(got[e]) + 1 \/ B = Len(got[e]) + 0
      BY Zenon DEF Base
    <3> QED
      BY <3>1, <3>2
  <2> QED
    BY <1>2, <2>1, <2>2
<1>4. Base(e)' = B
  BY DEF Base
<1>5. Live(e) <=> ~Dropped(e)
  BY DEF Live
<1>6. Live(e)' <=> Live(e)
  BY Zenon DEF Live, Dropped
<1>7. /\ sent' = IF p = 1 THEN [sent EXCEPT ![e] = Append(sent[e], m)] ELSE sent
      /\ stream' = [stream EXCEPT ![e] = IF Dropped(e) THEN stream[e] ELSE Append(stream[e], <<m, p>>)]
  BY Zenon DEF Put
<1>8. /\ sent'[e] = IF p = 1 THEN Append(sent[e], m) ELSE sent[e]
      /\ stream'[e] = IF Dropped(e) THEN stream[e] ELSE Append(stream[e], <<m, p>>)
      /\ \A f \in Ends \ {e} : stream'[f] = stream[f] /\ sent'[f] = sent[f]
  BY <1>7, Zenon DEF FrameType
<1>9. <<m, p>> \in Msgs \X {1, 2}
  BY <1>1, Zenon
<1>10. job'[t] = r /\ \A u \in Threads \ {t} : job'[u] = job[u] /\ ~WritesTo(u, e)
  BY OneWriter, Zenon DEF JobInv
<1>11. \A u \in Threads \ {t} : ~Mid(u, e) /\ ~Mid(u, e)'
  BY <1>10, Zenon DEF Mid, WritesTo
<1> HIDE DEF m, p, L, B, N
<1>12. /\ sent'[e] \in Seq(Msgs) /\ Len(sent'[e]) = L + (IF p = 1 THEN 1 ELSE 0)
       /\ \A i \in 1..L : sent'[e][i] = sent[e][i]
       /\ p = 1 => sent'[e][L + 1] = m
  <2>1. CASE p = 1
    BY <1>1, <1>2, <1>8, <2>1 DEF L
  <2>2. CASE p # 1
    BY <1>2, <1>3, <1>8, <2>2 DEF L
  <2> QED
    BY <2>1, <2>2, Zenon
<1>13. /\ stream'[e] \in Seq(Msgs \X {1, 2}) /\ Len(stream'[e]) = N + (IF Dropped(e) THEN 0 ELSE 1)
       /\ \A i \in 1..N : stream'[e][i] = stream[e][i]
       /\ ~Dropped(e) => stream'[e][N + 1] = <<m, p>>
  <2>1. CASE Dropped(e)
    BY <1>2, <1>3, <1>8, <2>1 DEF N
  <2>2. CASE ~Dropped(e)
    BY <1>2, <1>8, <1>9, <2>2 DEF N
  <2> QED
    BY <2>1, <2>2, Zenon
<1>14. Mid(t, e) <=> p = 2
  BY Zenon DEF Mid, p
<1>15. Mid(t, e)' <=> p = 1
  <2>1. CASE p = 1
    <3>1. r.part = 2 /\ r.todo = job[t].todo /\ r # None
      BY <1>1, <2>1, NoneAssumption, Zenon DEF p, Jobs
    <3> QED
      BY <1>10, <2>1, <3>1, Zenon DEF Mid, WritesTo
  <2>2. CASE p = 2
    BY <1>10, <2>2 DEF Mid, WritesTo, p
  <2> QED
    BY <1>1, <2>1, <2>2, Zenon DEF p
<1>16. (MidFrame(e) <=> p = 2) /\ (MidFrame(e)' <=> p = 1)
  BY <1>11, <1>14, <1>15, Zenon DEF MidFrame
<1>17. Read(e)'
  <2>1. B <= Len(sent'[e])
    BY <1>3, <1>12
  <2>2. Len(got[e]) <= B /\ (reader[e] = "got" => B = Len(got[e]) + 1)
    <3>1. CASE reader[e] = "got"
      BY <1>3, <3>1 DEF Base, B
    <3>2. CASE reader[e] # "got"
      <4>1. B = Len(got[e]) + 0
        BY <3>2, Zenon DEF Base, B
      <4> QED
        BY <1>3, <3>2, <4>1
    <3> QED
      BY <3>1, <3>2, Zenon
  <2>3. \A i \in 1..Len(got[e]) : i \in 1..L
    BY <1>3, <2>2
  <2>4. reader[e] = "got" => Len(got[e]) + 1 \in 1..L
    BY <1>3, <2>2
  <2> QED
    BY <1>4, <1>12, <2>1, <2>3, <2>4, Zenon DEF EndInv, Read
<1>18. Last(e)'
  <2> SUFFICES ASSUME Mid(t, e)' PROVE Len(sent'[e]) > 0 /\ sent'[e][Len(sent'[e])] = job'[t].msg
    BY <1>11, Zenon DEF Last
  <2>1. p = 1 /\ job'[t].msg = m
    BY <1>1, <1>10, <1>15, Zenon DEF p, m, Jobs
  <2> QED
    BY <1>3, <1>12, <2>1
<1>19. ~Dropped(e) => /\ p = 1 => N = 2 * (L - B)
                      /\ p = 2 => N = 2 * (L - B) - 1 /\ L > 0 /\ sent[e][L] = m
  <2> SUFFICES ASSUME ~Dropped(e) PROVE /\ p = 1 => N = 2 * (L - B)
                                        /\ p = 2 => N = 2 * (L - B) - 1 /\ L > 0 /\ sent[e][L] = m
    BY Zenon
  <2>1. N = 2 * (L - B) - Missing(e)
    BY <1>5, Zenon DEF EndInv, Length, N, L, B
  <2>2. CASE p = 1
    <3>1. Missing(e) = 0
      BY <1>16, <2>2 DEF Missing
    <3> QED
      BY <1>3, <2>1, <2>2, <3>1
  <2>3. CASE p = 2
    <3>1. Missing(e) = 1
      BY <1>16, <2>3, Zenon DEF Missing
    <3>2. L > 0 /\ sent[e][L] = m
      BY <1>14, <2>3, Zenon DEF EndInv, Last, L, m
    <3> QED
      BY <2>1, <2>3, <3>1, <3>2
  <2> QED
    BY <2>2, <2>3, Zenon
<1>20. Length(e)'
  <2> SUFFICES ASSUME ~Dropped(e) PROVE Len(stream'[e]) = 2 * (Len(sent'[e]) - B) - IF p = 1 THEN 1 ELSE 0
    BY <1>4, <1>5, <1>6, <1>16, Zenon DEF Length, Missing
  <2>1. CASE p = 1
    BY <1>3, <1>12, <1>13, <1>19, <2>1
  <2>2. CASE p = 2
    BY <1>3, <1>12, <1>13, <1>19, <2>2
  <2> QED
    BY <1>1, <2>1, <2>2, Zenon DEF p
<1>21. \A i \in 1..N : B + (i + 1) \div 2 <= L /\ stream[e][i] = <<sent[e][B + (i + 1) \div 2], 2 - (i % 2)>>
  BY Zenon DEF EndInv, Chunks, N, L, B
<1>22. Chunks(e)'
  <2> SUFFICES ASSUME NEW i \in 1..Len(stream'[e])
               PROVE  /\ B + (i + 1) \div 2 <= Len(sent'[e])
                      /\ stream'[e][i] = <<sent'[e][B + (i + 1) \div 2], 2 - (i % 2)>>
    BY <1>4, Zenon DEF Chunks
  <2> DEFINE h == (i + 1) \div 2
             q == 2 - (i % 2)
  <2>0. i \in Nat /\ i > 0 /\ h \in Nat /\ h > 0
    <3>1. i \in Nat /\ i > 0
      BY <1>13
    <3> QED
      BY <3>1, Halves, Zenon
  <2>1. CASE i \in 1..N
    <3>1. B + h <= L /\ stream[e][i] = <<sent[e][B + h], q>>
      BY <1>21, <2>1, Zenon
    <3> HIDE DEF h, q
    <3>2. B + h \in 1..L /\ B + h <= Len(sent'[e])
      BY <1>3, <1>12, <2>0, <3>1
    <3>3. sent'[e][B + h] = sent[e][B + h]
      BY <1>12, <3>2
    <3>4. stream'[e][i] = stream[e][i]
      BY <1>13, <2>1, Zenon
    <3>5. B + h <= Len(sent'[e]) /\ stream'[e][i] = <<sent'[e][B + h], q>>
      BY <3>1, <3>2, <3>3, <3>4, Zenon
    <3> QED
      BY <3>5, Zenon DEF h, q
  <2>2. CASE ~(i \in 1..N)
    <3>1. ~Dropped(e) /\ i = N + 1
      BY <1>3, <1>13, <2>2
    <3>2. L - B \in Nat
      BY <1>3
    <3>3. CASE p = 1
      <4>1. i = 2 * (L - B) + 1
        BY <1>19, <3>1, <3>3, Zenon
      <4>2. h = (L - B) + 1 /\ q = 1
        BY <3>2, <4>1, Halves
      <4> HIDE DEF h, q
      <4>3. B + h = L + 1
        BY <1>3, <4>2
      <4>4. B + h <= Len(sent'[e]) /\ sent'[e][B + h] = m
        BY <1>3, <1>12, <3>3, <4>3
      <4>5. stream'[e][i] = <<m, 1>>
        BY <1>13, <3>1, <3>3, Zenon
      <4>6. B + h <= Len(sent'[e]) /\ stream'[e][i] = <<sent'[e][B + h], q>>
        BY <4>2, <4>4, <4>5, Zenon
      <4> QED
        BY <4>6 DEF h, q
    <3>4. CASE p = 2
      <4>1. i = 2 * (L - B)
        BY <1>3, <1>19, <3>1, <3>4
      <4>2. h = L - B /\ q = 2
        BY <3>2, <4>1, Halves
      <4> HIDE DEF h, q
      <4>3. B + h = L /\ L \in 1..L
        BY <1>3, <1>19, <3>1, <3>4, <4>2
      <4>4. B + h <= Len(sent'[e]) /\ sent'[e][B + h] = m
        <5>1. sent[e][L] = m /\ sent'[e][L] = sent[e][L]
          BY <1>12, <1>19, <3>1, <3>4, <4>3, Zenon
        <5>2. L <= Len(sent'[e])
          BY <1>3, <1>12, <3>4
        <5> QED
          BY <4>3, <5>1, <5>2
      <4>5. stream'[e][i] = <<m, 2>>
        BY <1>13, <3>1, <3>4, Zenon
      <4>6. B + h <= Len(sent'[e]) /\ stream'[e][i] = <<sent'[e][B + h], q>>
        BY <4>2, <4>4, <4>5, Zenon
      <4> QED
        BY <4>6 DEF h, q
    <3> QED
      BY <1>1, <3>3, <3>4, Zenon DEF p
  <2> QED
    BY <2>1, <2>2, Zenon
<1> QED
  BY <1>8, <1>12, <1>13, <1>17, <1>18, <1>20, <1>22, Zenon DEF EndInv

\* A thread's job changes without a write: the ends it was in the middle of a
\* frame with are not live any more.
LEMMA JobAside ==
  ASSUME Framed, UNCHANGED <<stream, sent, got, hand, garbled>>, \A e \in Ends : Live(e)' => Live(e),
         \A e \in Ends : reader'[e] = "got" <=> reader[e] = "got",
         NEW t \in Threads, \A u \in Threads \ {t} : job'[u] = job[u],
         \A e \in Ends : ~Mid(t, e)' /\ (Live(e)' => ~Mid(t, e))
  PROVE  Framed'
<1>1. FrameType'
  BY Zenon DEF Framed, FrameType
<1>2. ASSUME NEW e \in Ends PROVE EndInv(e)'
  <2>1. EndInv(e)
    BY Zenon DEF Framed
  <2>2. \A u \in Threads \ {t} : Mid(u, e)' <=> Mid(u, e)
    BY Zenon DEF Mid, WritesTo
  <2>3. Live(e)' => Live(e) /\ (MidFrame(e)' <=> MidFrame(e))
    BY <2>2, Zenon DEF MidFrame
  <2>4. \A u \in Threads : Mid(u, e)' => Mid(u, e) /\ job'[u].msg = job[u].msg
    BY <2>2, Zenon
  <2> QED
    BY <2>1, <2>3, <2>4, QuietEnd, Zenon
<1> QED
  BY <1>1, <1>2, Zenon DEF Framed

\* Steps that neither write nor read.
LEMMA NoWrite ==
  ASSUME Framed, UNCHANGED <<job, stream, sent, got, hand, garbled>>, \A e \in Ends : Live(e)' => Live(e),
         \A e \in Ends : reader'[e] = "got" <=> reader[e] = "got"
  PROVE  Framed'
<1>1. FrameType'
  BY Zenon DEF Framed, FrameType
<1>2. ASSUME NEW e \in Ends PROVE EndInv(e)'
  <2>1. EndInv(e)
    BY Zenon DEF Framed
  <2>2. (MidFrame(e)' <=> MidFrame(e)) /\ \A u \in Threads : Mid(u, e)' <=> Mid(u, e)
    BY Zenon DEF MidFrame, Mid, WritesTo
  <2> QED
    BY <2>1, <2>2, QuietEnd, Zenon
<1> QED
  BY <1>1, <1>2, Zenon DEF Framed

\* The steps that neither read nor write.
LEMMA ConnectionsAside ==
  ASSUME ConnInv, Framed, \A e \in Ends : Live(e)' => Live(e),
         \/ Start \/ AcceptLoop \/ ServerClose \/ UNCHANGED vars
         \/ \E c \in Clients : Connect(c) \/ ClientClose(c) \/ LoopStart(c) \/ Cleanup(c)
         \/ \E e \in Ends : RecvEnd(e)
  PROVE  Framed'
<1> USE EndsFacts
<1>0. reader \in [Ends -> Readers]
  BY DEF ConnInv, ConnType
<1>1. CASE Start \/ ServerClose \/ AcceptTimeout \/ AcceptFails \/ UNCHANGED vars
  <2>1. UNCHANGED <<job, stream, sent, got, hand, garbled, reader>>
    BY <1>1, Zenon DEF Start, ServerClose, CloseFlag, CloseClients, CloseListener, AcceptTimeout, AcceptFails, vars, history
  <2> QED
    BY <2>1, NoWrite, Zenon
<1>2. ASSUME NEW c \in Clients, Accept(c) \/ ClientClose(c) PROVE Framed'
  <2>1. UNCHANGED <<job, stream, sent, got, hand, garbled, reader>>
    BY <1>2, Zenon DEF Accept, ClientClose, history
  <2> QED
    BY <2>1, NoWrite, Zenon
<1>3. ASSUME NEW e \in Ends, NEW x, x # "got", reader[e] # "got", reader' = [reader EXCEPT ![e] = x],
             UNCHANGED <<job, stream, sent, got, hand, garbled>>
      PROVE  Framed'
  BY <1>0, <1>3, NoWrite, Zenon
<1>4. ASSUME NEW c \in Clients, Connect(c) \/ AcceptRegister(c) PROVE Framed'
  <2>1. ConnOf(c)
    BY Zenon DEF ConnInv
  <2>2. CASE Connect(c)
    BY <1>3, <2>1, <2>2, Zenon DEF Connect, ConnOf, history
  <2>3. CASE AcceptRegister(c)
    BY <1>3, <2>1, <2>3, Zenon DEF AcceptRegister, ConnOf, history
  <2> QED
    BY <1>4, <2>2, <2>3
<1>5. ASSUME NEW c \in Clients, LoopStart(c) \/ Cleanup(c) PROVE Framed'
  <2>1. CASE LoopStart(c)
    BY <1>3, <2>1, Zenon DEF LoopStart, FirstTest, history
  <2>2. CASE Cleanup(c)
    BY <1>3, <2>2, Zenon DEF Cleanup, history
  <2> QED
    BY <1>5, <2>1, <2>2, Zenon
<1>6. ASSUME NEW e \in Ends, RecvEnd(e) PROVE Framed'
  BY <1>3, <1>6, Zenon DEF RecvEnd, history
<1> QED
  BY <1>1, <1>2, <1>4, <1>5, <1>6, Zenon DEF AcceptLoop

\* A reader takes a frame or hands it on.
LEMMA ReadStep ==
  ASSUME ConnInv, Framed, \A e \in Ends : Live(e)' => Live(e), NEW e \in Ends, Recv(e) \/ Dispatch(e)
  PROVE  Framed'
<1>0. reader \in [Ends -> Readers] /\ FrameType /\ \A f \in Ends : EndInv(f)
  BY Zenon DEF ConnInv, ConnType, Framed
<1>1. \A f \in Ends \ {e} : stream'[f] = stream[f] /\ got'[f] = got[f] /\ hand'[f] = hand[f] /\ reader'[f] = reader[f]
  <2>1. CASE Recv(e)
    BY <1>0, <2>1, Zenon DEF Recv, FrameType
  <2>2. CASE Dispatch(e)
    BY <1>0, <2>2, Zenon DEF Dispatch, FrameType
  <2> QED
    BY <2>1, <2>2
<1>2. UNCHANGED <<job, sent>>
  BY Zenon DEF Recv, Dispatch
<1>3. ASSUME NEW f \in Ends \ {e} PROVE EndInv(f)'
  <2>1. stream'[f] = stream[f] /\ got'[f] = got[f] /\ hand'[f] = hand[f] /\ reader'[f] = reader[f]
    BY <1>1, Zenon
  <2>2. (MidFrame(f)' <=> MidFrame(f)) /\ \A u \in Threads : Mid(u, f)' <=> Mid(u, f)
    BY <1>2, Zenon DEF MidFrame, Mid, WritesTo
  <2> QED
    BY <1>0, <1>2, <2>1, <2>2, QuietEnd, Zenon
<1>4. EndInv(e)'
  BY <1>0, RecvStep, DispatchStep, Zenon
<1>5. FrameType'
  <2>1. CASE Recv(e)
    <3>1. garbled' = FALSE /\ hand' \in [Ends -> Msgs \cup {None}]
      <4>1. garbled' = FALSE /\ hand'[e] \in Msgs
        BY <1>0, <2>1, RecvStep, Zenon
      <4>2. PICK w : hand' = [hand EXCEPT ![e] = w]
        BY <2>1, Zenon DEF Recv
      <4> QED
        BY <1>0, <4>1, <4>2, Zenon DEF FrameType
    <3>2. SubSeq(stream[e], 3, Len(stream[e])) \in Seq(Msgs \X {1, 2})
      <4> DEFINE F == Msgs \X {1, 2}
      <4>1. stream[e] \in Seq(F)
        BY <1>0, Zenon DEF FrameType
      <4> HIDE DEF F
      <4>2. SubSeq(stream[e], 3, Len(stream[e])) \in Seq(F)
        BY ONLY <4>1
      <4> QED
        BY <4>2, Zenon DEF F
    <3>3. stream' \in [Ends -> Seq(Msgs \X {1, 2})]
      BY <1>0, <2>1, <3>2, Zenon DEF FrameType, Recv
    <3> QED
      BY <1>0, <1>2, <2>1, <3>1, <3>3, Zenon DEF FrameType, Recv
  <2>2. CASE Dispatch(e)
    <3>1. got' \in [Ends -> Seq(Msgs)]
      <4>1. got'[e] \in Seq(Msgs)
        BY <1>0, <2>2, DispatchStep, Zenon
      <4>2. got' = [got EXCEPT ![e] = Append(got[e], hand[e])]
        BY <2>2 DEF Dispatch
      <4> QED
        BY <1>0, <4>1, <4>2, Zenon DEF FrameType
    <3>2. hand' \in [Ends -> Msgs \cup {None}]
      BY <1>0, <2>2, Zenon DEF FrameType, Dispatch
    <3> QED
      BY <1>0, <1>2, <2>2, <3>1, <3>2, Zenon DEF FrameType, Dispatch
  <2> QED
    BY <2>1, <2>2
<1> QED
  BY <1>3, <1>4, <1>5, Zenon DEF Framed

\* A send begins: with the first part of its first frame.
LEMMA CallFrames ==
  ASSUME JobInv, Framed, \A e \in Ends : Live(e)' => Live(e), NEW t \in Threads, Call(t)
  PROVE  Framed'
<1>1. PICK S : job' = [job EXCEPT ![t] = [msg |-> <<t, sends[t] + 1>>, todo |-> S, part |-> 1]]
  BY Zenon DEF Call, ServerSend, ClientSend
<1>2. job[t] = None /\ UNCHANGED <<stream, sent, got, hand, garbled, reader>>
  BY Zenon DEF Call, ServerSend, ClientSend, Idle, history
<1>3. job'[t].part = 1 /\ \A u \in Threads \ {t} : job'[u] = job[u]
  <2>1. DOMAIN job = Threads
    BY DEF JobInv
  <2>2. job'[t] = [msg |-> <<t, sends[t] + 1>>, todo |-> S, part |-> 1]
    BY <1>1, <2>1, Zenon
  <2> QED
    BY <1>1, <2>1, <2>2, Zenon
<1>4. \A e \in Ends : ~Mid(t, e) /\ ~Mid(t, e)'
  BY <1>2, <1>3 DEF Mid, WritesTo
<1> QED
  BY <1>2, <1>3, <1>4, JobAside, Zenon

\* The write of a thread, to a client or to the server.
LEMMA WriteFrames ==
  ASSUME OneSenderEach, JobInv, JobInv', Framed, \A e \in Ends : Live(e)' => Live(e),
         NEW e \in Ends, NEW t \in Threads, WritesTo(t, e), \A f \in Ends \ {e} : ~WritesTo(t, f),
         fd[Other(e)] = "open", Put(e, job[t].msg, job[t].part), UNCHANGED <<fd, reader, hand, got, garbled>>,
         NEW r \in Jobs \cup {None}, job' = [job EXCEPT ![t] = r],
         job[t].part = 1 => r = [job[t] EXCEPT !.part = 2],
         job[t].part = 2 => r = None \/ r.part = 1
  PROVE  Framed'
<1>0. FrameType /\ \A f \in Ends : EndInv(f)
  BY DEF Framed
<1>1. /\ EndInv(e)' /\ stream'[e] \in Seq(Msgs \X {1, 2}) /\ sent'[e] \in Seq(Msgs)
      /\ \A f \in Ends \ {e} : stream'[f] = stream[f] /\ sent'[f] = sent[f]
  BY <1>0, PutStep, Zenon
<1>2. job[t] \in Jobs /\ job'[t] = r /\ \A u \in Threads \ {t} : job'[u] = job[u]
  BY DEF JobInv, WritesTo
<1>3. \A f \in Ends \ {e} : ~Mid(t, f) /\ ~Mid(t, f)'
  <2> SUFFICES ASSUME NEW f \in Ends \ {e} PROVE ~Mid(t, f)'
    BY Zenon DEF Mid
  <2>1. CASE job[t].part = 1
    <3>1. r.todo = job[t].todo
      BY <1>2, <2>1, Zenon DEF Jobs
    <3>2. WritesTo(t, f)' => WritesTo(t, f)
      BY <1>2, <3>1, Zenon DEF WritesTo
    <3> QED
      BY <3>2, Zenon DEF Mid
  <2>2. CASE job[t].part = 2
    BY <1>2, <2>2 DEF Mid, WritesTo
  <2> QED
    BY <1>2, <2>1, <2>2, Zenon DEF Jobs
<1>4. ASSUME NEW f \in Ends \ {e} PROVE EndInv(f)'
  <2>1. \A u \in Threads : Mid(u, f)' <=> Mid(u, f)
    BY <1>2, <1>3 DEF Mid, WritesTo
  <2>2. MidFrame(f)' <=> MidFrame(f)
    BY <2>1, Zenon DEF MidFrame
  <2>3. \A u \in Threads : Mid(u, f)' => Mid(u, f) /\ job'[u].msg = job[u].msg
    BY <1>2, <1>3, <2>1, Zenon
  <2> QED
    BY <1>0, <1>1, <2>2, <2>3, QuietEnd, Zenon
<1>5. FrameType'
  <2>1. stream' \in [Ends -> Seq(Msgs \X {1, 2})]
    <3>1. PICK s : stream' = [stream EXCEPT ![e] = s]
      BY Zenon DEF Put
    <3> QED
      BY <1>0, <1>1, <3>1, Zenon DEF FrameType
  <2>2. sent' \in [Ends -> Seq(Msgs)]
    <3>1. sent' = sent \/ \E s : sent' = [sent EXCEPT ![e] = s]
      BY Zenon DEF Put
    <3> QED
      BY <1>0, <1>1, <3>1, Zenon DEF FrameType
  <2> QED
    BY <1>0, <2>1, <2>2, Zenon DEF FrameType
<1> QED
  BY <1>1, <1>4, <1>5, Zenon DEF Framed

\* The server writes half a frame to one client, or finds it gone.
LEMMA ServerFrames ==
  ASSUME OneSenderEach, JobInv, JobInv', Framed, \A e \in Ends : Live(e)' => Live(e),
         NEW t \in ServerThreads, NEW c \in Clients, ServerPut(t, c) \/ ServerPutFails(t, c)
  PROVE  Framed'
<1> DEFINE e == <<c, "client">>
<1>0. t \in Threads /\ t \notin ClientThreads /\ e \in Ends /\ Other(e) = <<c, "server">> /\ e[1] = c /\ e[2] = "client"
  BY EndsFacts, PartiesAssumption, Zenon DEF Threads
<1>1. job[t] # None /\ c = First(job[t].todo) /\ job[t] \in Jobs
  BY <1>0, Zenon DEF ServerPut, ServerPutFails, JobInv
<1>2. WritesTo(t, e)
  BY <1>0, <1>1, Zenon DEF WritesTo
<1>3. \A f \in Ends \ {e} : ~WritesTo(t, f)
  <2> SUFFICES ASSUME NEW f \in Ends, WritesTo(t, f) PROVE f = e
    BY Zenon
  <2>1. f[2] = "client" /\ f[1] = c
    BY <1>0, <1>1, Zenon DEF WritesTo
  <2> QED
    BY <2>1 DEF Ends
<1> HIDE DEF e
<1>4. \A S : [job[t] EXCEPT !.todo = S, !.part = 1].part = 1
  BY <1>1, Zenon DEF Jobs
<1>5. ASSUME NextClient(t, c)
      PROVE  \E r \in Jobs \cup {None} : job' = [job EXCEPT ![t] = r] /\ (r = None \/ r.part = 1)
  <2>1. CASE job[t].todo \ {c} = {}
    BY <1>5, <2>1, Zenon DEF NextClient
  <2>2. CASE job[t].todo \ {c} # {}
    <3> DEFINE r == [job[t] EXCEPT !.todo = job[t].todo \ {c}, !.part = 1]
    <3>1. r \in Jobs /\ r.part = 1
      BY <1>1, Zenon DEF Jobs
    <3>2. job' = [job EXCEPT ![t] = r]
      BY <1>5, <2>2, Zenon DEF NextClient
    <3> QED
      BY <3>1, <3>2, Zenon
  <2> QED
    BY <2>1, <2>2, Zenon
<1>6. CASE ServerPut(t, c)
  <2>1. /\ fd[Other(e)] = "open" /\ Put(e, job[t].msg, job[t].part)
        /\ UNCHANGED <<fd, reader, hand, got, garbled>>
    BY <1>0, <1>6, Zenon DEF ServerPut, e
  <2>2. CASE job[t].part = 1
    <3> DEFINE r == [job[t] EXCEPT !.part = 2]
    <3>1. r \in Jobs /\ job' = [job EXCEPT ![t] = r]
      BY <1>1, <1>6, <2>2, Zenon DEF ServerPut, Jobs
    <3>2. (job[t].part = 1 => r = [job[t] EXCEPT !.part = 2]) /\ (job[t].part = 2 => r = None \/ r.part = 1)
      BY <2>2
    <3>3. t \in Threads /\ e \in Ends
      BY <1>0
    <3> HIDE DEF r
    <3> QED
      BY <1>2, <1>3, <2>1, <3>1, <3>2, <3>3, WriteFrames, Zenon
  <2>3. CASE job[t].part = 2
    <3>1. PICK r \in Jobs \cup {None} : job' = [job EXCEPT ![t] = r] /\ (r = None \/ r.part = 1)
      BY <1>5, <1>6, <2>3 DEF ServerPut
    <3>2. (job[t].part = 1 => r = [job[t] EXCEPT !.part = 2]) /\ (job[t].part = 2 => r = None \/ r.part = 1)
      BY <2>3, <3>1
    <3>3. t \in Threads /\ e \in Ends
      BY <1>0, Zenon
    <3> QED
      BY <1>2, <1>3, <2>1, <3>1, <3>2, <3>3, WriteFrames, Zenon
  <2> QED
    BY <1>1, <2>2, <2>3, Zenon DEF Jobs
<1>7. CASE ServerPutFails(t, c)
  <2>1. PICK r \in Jobs \cup {None} : job' = [job EXCEPT ![t] = r] /\ (r = None \/ r.part = 1)
    BY <1>5, <1>7, Zenon DEF ServerPutFails
  <2>2. job'[t] = r /\ \A u \in Threads \ {t} : job'[u] = job[u]
    BY <1>0, <2>1, Zenon DEF JobInv
  <2>3. UNCHANGED <<stream, sent, got, hand, garbled, reader>>
    BY <1>7, Zenon DEF ServerPutFails, history
  <2>4. ~Live(e)
    BY <1>0, <1>7, Zenon DEF ServerPutFails, Live, e
  <2>5. \A f \in Ends : ~Mid(t, f)' /\ (Live(f)' => ~Mid(t, f))
    BY <1>3, <2>1, <2>2, <2>4 DEF Mid, WritesTo
  <2> QED
    BY <1>0, <2>2, <2>3, <2>5, JobAside, Zenon
<1> QED
  BY <1>6, <1>7, Zenon

\* A client writes half a frame, or finds the server gone.
LEMMA ClientFrames ==
  ASSUME OneSenderEach, JobInv, JobInv', Framed, \A e \in Ends : Live(e)' => Live(e),
         NEW t \in ClientThreads, ClientPut(t) \/ ClientPutFails(t)
  PROVE  Framed'
<1> DEFINE e == <<Owner[t], "server">>
<1>0. /\ t \in Threads /\ t \notin ServerThreads /\ e \in Ends /\ Other(e) = <<Owner[t], "client">>
      /\ e[1] = Owner[t] /\ e[2] = "server"
  BY EndsFacts, PartiesAssumption, Zenon DEF Threads
<1>1. job[t] # None /\ job[t] \in Jobs
  BY <1>0, Zenon DEF ClientPut, ClientPutFails, JobInv
<1>2. WritesTo(t, e)
  BY <1>0, <1>1, Zenon DEF WritesTo
<1>3. \A f \in Ends \ {e} : ~WritesTo(t, f)
  <2> SUFFICES ASSUME NEW f \in Ends, WritesTo(t, f) PROVE f = e
    BY Zenon
  <2>1. f[2] = "server" /\ f[1] = Owner[t]
    BY <1>0, <1>1, Zenon DEF WritesTo
  <2> QED
    BY <2>1 DEF Ends
<1> HIDE DEF e
<1>4. CASE ClientPut(t)
  <2>1. /\ fd[Other(e)] = "open" /\ Put(e, job[t].msg, job[t].part)
        /\ UNCHANGED <<fd, reader, hand, got, garbled>>
    BY <1>0, <1>4, Zenon DEF ClientPut, e
  <2>2. CASE job[t].part = 1
    <3> DEFINE r == [job[t] EXCEPT !.part = 2]
    <3>1. r \in Jobs /\ job' = [job EXCEPT ![t] = r]
      BY <1>1, <1>4, <2>2, Zenon DEF ClientPut, Jobs
    <3>2. (job[t].part = 1 => r = [job[t] EXCEPT !.part = 2]) /\ (job[t].part = 2 => r = None \/ r.part = 1)
      BY <2>2
    <3>3. t \in Threads /\ e \in Ends
      BY <1>0, Zenon
    <3> HIDE DEF r
    <3> QED
      BY <1>2, <1>3, <2>1, <3>1, <3>2, <3>3, WriteFrames, Zenon
  <2>3. CASE job[t].part = 2
    <3>1. job' = [job EXCEPT ![t] = None]
      BY <1>4, <2>3 DEF ClientPut
    <3>2. (job[t].part = 1 => None = [job[t] EXCEPT !.part = 2]) /\ (job[t].part = 2 => None = None \/ None.part = 1)
      BY <2>3
    <3>3. t \in Threads /\ e \in Ends
      BY <1>0
    <3> QED
      BY <1>2, <1>3, <2>1, <3>1, <3>2, <3>3, WriteFrames, Zenon
  <2> QED
    BY <1>1, <2>2, <2>3, Zenon DEF Jobs
<1>5. CASE ClientPutFails(t)
  <2>1. job' = [job EXCEPT ![t] = None] /\ UNCHANGED <<stream, sent, got, hand, garbled, reader>>
    BY <1>5, Zenon DEF ClientPutFails, history
  <2>2. job'[t] = None /\ \A u \in Threads \ {t} : job'[u] = job[u]
    BY <1>0, <2>1, Zenon DEF JobInv
  <2>3. ~Live(e)
    BY <1>0, <1>5, Zenon DEF ClientPutFails, Live, e
  <2>4. \A f \in Ends : ~Mid(t, f)' /\ (Live(f)' => ~Mid(t, f))
    BY <1>3, <2>2, <2>3, Zenon DEF Mid, WritesTo
  <2> QED
    BY <1>0, <2>1, <2>2, <2>4, JobAside, Zenon
<1> QED
  BY <1>4, <1>5, Zenon

\* Where a client has one sending thread, what a side dispatches is what the
\* other side sent to it, in order, and no reader meets bytes that are no message.
THEOREM FramesSurvive == OneSenderEach => (Spec => []FramesIntact)
<1> SUFFICES ASSUME OneSenderEach PROVE Spec => []FramesIntact
  OBVIOUS
<1>1. Init => JobInv /\ Framed
  <2> SUFFICES ASSUME Init PROVE JobInv /\ Framed
    BY Zenon
  <2>1. JobInv
    BY Zenon DEF Init, JobInv, Threads
  <2>2. FrameType
    BY DEF Init, FrameType
  <2>3. ASSUME NEW e \in Ends PROVE EndInv(e)
    <3>1. stream[e] = <<>> /\ sent[e] = <<>> /\ got[e] = <<>> /\ reader[e] = "none" /\ \A t \in Threads : job[t] = None
      BY Zenon DEF Init
    <3>2. Len(stream[e]) = 0 /\ Len(sent[e]) = 0 /\ Len(got[e]) = 0 /\ Base(e) = 0
      BY <3>1 DEF Base
    <3>3. ~MidFrame(e) /\ \A t \in Threads : ~Mid(t, e)
      BY <3>1, Zenon DEF MidFrame, Mid, WritesTo
    <3>4. Missing(e) = 0
      BY <3>3, Zenon DEF Missing
    <3> QED
      BY <3>1, <3>2, <3>3, <3>4 DEF EndInv, Read, Chunks, Length, Last
  <2> QED
    BY <2>1, <2>2, <2>3, Zenon DEF Framed
<1>2. ConnInv /\ JobInv /\ Framed /\ [Next]_vars => JobInv' /\ Framed'
  <2> SUFFICES ASSUME ConnInv, JobInv, Framed, [Next]_vars PROVE JobInv' /\ Framed'
    BY Zenon
  <2>1. JobInv' /\ \A e \in Ends : Live(e)' => Live(e)
    BY JobStep, ConnStep, LiveKept, Zenon
  <2>2. ASSUME NEW c \in Clients, Loop(c) PROVE Framed'
    <3>1. {c} \X {"server", "client"} \subseteq Ends
      BY DEF Ends
    <3> QED
      BY <2>1, <2>2, <3>1, ConnectionsAside, ReadStep, Zenon DEF Loop
  <2>3. ASSUME NEW t \in Threads, Call(t) PROVE Framed'
    BY <2>1, <2>3, CallFrames, Zenon
  <2>4. ASSUME NEW t \in Threads, Sending(t) PROVE Framed'
    BY <2>1, <2>4, ServerFrames, ClientFrames, Zenon DEF Sending
  <2>5. CASE Start \/ AcceptLoop \/ ServerClose \/ UNCHANGED vars \/ \E c \in Clients : Connect(c) \/ ClientClose(c)
    BY <2>1, <2>5, ConnectionsAside, Zenon
  <2> QED
    BY <2>1, <2>2, <2>3, <2>4, <2>5, Zenon DEF Next
<1>3. Framed => FramesIntact
  <2> SUFFICES ASSUME Framed PROVE FramesIntact
    BY Zenon
  <2>1. ~garbled
    BY Zenon DEF Framed, FrameType
  <2>2. ASSUME NEW e \in Ends
        PROVE  Len(got[e]) <= Len(sent[e]) /\ \A i \in DOMAIN got[e] : got[e][i] = sent[e][i]
    <3>1. /\ got[e] \in Seq(Msgs) /\ Len(got[e]) \in Nat /\ DOMAIN got[e] = 1..Len(got[e]) /\ Len(sent[e]) \in Nat
          /\ Read(e)
      BY DEF Framed, FrameType, EndInv
    <3>2. Base(e) = Len(got[e]) + 1 \/ Base(e) = Len(got[e]) + 0
      BY Zenon DEF Base
    <3>3. Len(got[e]) <= Len(sent[e])
      BY <3>1, <3>2 DEF Read
    <3> QED
      BY <3>1, <3>3, Zenon DEF Read
  <2> QED
    BY <2>1, <2>2, Zenon DEF FramesIntact
<1> QED
  BY <1>1, <1>2, <1>3, ConnInvariant, PTL DEF Spec

-----------------------------------------------------------------------------
(* The links of a RemoteQueue *)

\* What a thread may be doing, and with what.
Ops == {"idle", "install", "closing", "closingAll", "push"}
LinkCalls == [op : Ops, node : Nodes \cup {0}, todo : Seq(Nat)]

\* A link in the hands of a thread that is to install, or to close it.
Installs(t, l) == pc[t].op = "install" /\ pc[t].todo = <<l>>
Closes(t, l) == pc[t].op \in {"closing", "closingAll"} /\ l \in Items(pc[t].todo)

\* The types of the table, the sockets and the threads.
LinkType ==
  /\ dialled \in Nat /\ open \subseteq 1..dialled
  /\ table \in [Nodes -> Nat] /\ order \in Seq(Nodes)
  /\ pc \in [Users -> LinkCalls]

\* _peers lists the nodes with a link, each once.
OrderInv ==
  /\ \A n \in Nodes : table[n] # 0 <=> n \in Items(order)
  /\ \A i, j \in DOMAIN order : order[i] = order[j] => i = j

\* A link is in one place: dialled and to be installed by one thread, or in the
\* table, or to be closed.
HandsInv ==
  /\ \A t \in Users : pc[t].op = "install" =>
       pc[t].node \in Nodes /\ \E l \in open \ TableLinks : pc[t].todo = <<l>>
  /\ \A t, u \in Users, l \in Nat : Installs(t, l) /\ Installs(u, l) => t = u
  /\ \A t, u \in Users, l \in Nat : Installs(t, l) => ~Closes(u, l)
  /\ \A t \in Users, l \in Nat : Closes(t, l) => l <= dialled /\ l \notin TableLinks

\* A link that is open is in the table or in the hands of a thread.
Accounted ==
  /\ \A l \in open \ TableLinks : \E t \in Users : Installs(t, l) \/ Closes(t, l)
  /\ TableLinks \subseteq open
  /\ \A m, n \in Nodes : table[m] = table[n] /\ table[m] # 0 => m = n

\* The inductive invariant.
LinksInv == LinkType /\ OrderInv /\ HandsInv /\ Accounted

\* A list of one link.
LEMMA OneItem ==
  ASSUME NEW x \in Nat
  PROVE  <<x>> \in Seq(Nat) /\ Items(<<x>>) = {x} /\ Items(<<>>) = {} /\ <<>> \in Seq(Nat)
BY DEF Items

\* What is in a list after append(), and after taking its head.
LEMMA ItemsFacts ==
  ASSUME NEW S, NEW s \in Seq(S)
  PROVE  /\ Items(<<>>) = {}
         /\ \A x \in S : Items(<<x>>) = {x} /\ <<x>> \in Seq(S) /\ Head(<<x>>) = x
         /\ \A x \in S : Append(s, x) \in Seq(S) /\ Items(Append(s, x)) = Items(s) \cup {x}
         /\ s # <<>> => /\ Tail(s) \in Seq(S) /\ Head(s) \in Items(s)
                        /\ Items(s) = Items(Tail(s)) \cup {Head(s)}
<1>1. Items(<<>>) = {}
  BY DEF Items
<1>2. ASSUME NEW x \in S PROVE Items(<<x>>) = {x} /\ <<x>> \in Seq(S) /\ Head(<<x>>) = x
  BY DEF Items
<1>3. ASSUME NEW x \in S PROVE Append(s, x) \in Seq(S) /\ Items(Append(s, x)) = Items(s) \cup {x}
  <2>1. /\ Append(s, x) \in Seq(S) /\ DOMAIN Append(s, x) = 1..Len(s) + 1 /\ DOMAIN s = 1..Len(s)
        /\ Len(s) \in Nat /\ Append(s, x)[Len(s) + 1] = x /\ \A i \in 1..Len(s) : Append(s, x)[i] = s[i]
    OBVIOUS
  <2>2. ASSUME NEW y \in Items(Append(s, x)) PROVE y \in Items(s) \cup {x}
    <3>1. PICK i \in 1..Len(s) + 1 : y = Append(s, x)[i]
      BY <2>1, <2>2, Zenon DEF Items
    <3>2. i \in 1..Len(s) \/ i = Len(s) + 1
      BY <2>1
    <3> QED
      BY <2>1, <3>1, <3>2, Zenon DEF Items
  <2>3. ASSUME NEW y \in Items(s) PROVE y \in Items(Append(s, x))
    <3>1. PICK i \in 1..Len(s) : y = s[i]
      BY <2>1, <2>3, Zenon DEF Items
    <3>2. i \in 1..Len(s) + 1 /\ Append(s, x)[i] = y
      BY <2>1, <3>1
    <3> QED
      BY <2>1, <3>2, Zenon DEF Items
  <2>4. x \in Items(Append(s, x))
    <3>1. Len(s) + 1 \in 1..Len(s) + 1
      BY <2>1
    <3> QED
      BY <2>1, <3>1, Zenon DEF Items
  <2> QED
    BY <2>1, <2>2, <2>3, <2>4, Zenon
<1>4. ASSUME s # <<>>
      PROVE  Tail(s) \in Seq(S) /\ Head(s) \in Items(s) /\ Items(s) = Items(Tail(s)) \cup {Head(s)}
  <2>1. /\ Tail(s) \in Seq(S) /\ Len(s) \in Nat /\ Len(s) > 0 /\ DOMAIN s = 1..Len(s) /\ Head(s) = s[1]
        /\ DOMAIN Tail(s) = 1..Len(s) - 1 /\ \A i \in 1..Len(s) - 1 : Tail(s)[i] = s[i + 1]
    BY <1>4
  <2>2. Head(s) \in Items(s)
    <3>1. 1 \in 1..Len(s)
      BY <2>1
    <3> QED
      BY <2>1, <3>1, Zenon DEF Items
  <2>3. ASSUME NEW y \in Items(s) PROVE y \in Items(Tail(s)) \cup {Head(s)}
    <3>1. PICK i \in 1..Len(s) : y = s[i]
      BY <2>1, <2>3, Zenon DEF Items
    <3>2. CASE i = 1
      BY <2>1, <3>1, <3>2, Zenon
    <3>3. CASE i # 1
      <4>1. i - 1 \in 1..Len(s) - 1 /\ Tail(s)[i - 1] = s[i]
        BY <2>1, <3>3
      <4> QED
        BY <2>1, <3>1, <4>1, Zenon DEF Items
    <3> QED
      BY <3>2, <3>3, Zenon
  <2>4. ASSUME NEW y \in Items(Tail(s)) PROVE y \in Items(s)
    <3>1. PICK i \in 1..Len(s) - 1 : y = Tail(s)[i]
      BY <2>1, <2>4, Zenon DEF Items
    <3>2. i + 1 \in 1..Len(s) /\ s[i + 1] = y
      BY <2>1, <3>1
    <3> QED
      BY <2>1, <3>2, Zenon DEF Items
  <2> QED
    BY <2>1, <2>2, <2>3, <2>4, Zenon
<1> QED
  BY <1>1, <1>2, <1>3, <1>4, Zenon

\* Nothing is in the list twice.
Distinct(s) == \A i, j \in DOMAIN s : s[i] = s[j] => i = j

\* Popping a key of a dictionary.
LEMMA WithoutFacts ==
  ASSUME NEW S, NEW s \in Seq(S), Distinct(s), NEW n \in Items(s)
  PROVE  Without(s, n) \in Seq(S) /\ Items(Without(s, n)) = Items(s) \ {n} /\ Distinct(Without(s, n))
<1> DEFINE i == CHOOSE i \in DOMAIN s : s[i] = n
           w == Without(s, n)
<1>1. i \in DOMAIN s /\ s[i] = n
  BY Zenon DEF Items
<1>2. Len(s) \in Nat /\ DOMAIN s = 1..Len(s)
  OBVIOUS
<1>3. w = [j \in 1..Len(s) - 1 |-> IF j < i THEN s[j] ELSE s[j + 1]]
  BY Zenon DEF Without
<1> HIDE DEF i, w
<1>4. i \in 1..Len(s) /\ Len(s) > 0
  BY <1>1, <1>2
<1>5. ASSUME NEW j \in 1..Len(s) - 1
      PROVE  \/ j < i /\ j \in 1..Len(s) /\ w[j] = s[j] /\ j # i
             \/ ~(j < i) /\ j + 1 \in 1..Len(s) /\ w[j] = s[j + 1] /\ j + 1 # i
  BY <1>2, <1>3, <1>4
<1>6. w \in Seq(S) /\ DOMAIN w = 1..Len(s) - 1
  <2>1. \A j \in 1..Len(s) - 1 : w[j] \in S
    BY <1>2, <1>5
  <2>2. Len(s) - 1 \in Nat
    BY <1>2, <1>4
  <2> QED
    BY <1>3, <2>1, <2>2
<1>7. Distinct(w)
  <2> SUFFICES ASSUME NEW j \in 1..Len(s) - 1, NEW k \in 1..Len(s) - 1, w[j] = w[k] PROVE j = k
    BY <1>6 DEF Distinct
  <2> QED
    BY <1>2, <1>4, <1>5 DEF Distinct
<1>8. Items(w) \subseteq Items(s) \ {n}
  <2> SUFFICES ASSUME NEW j \in 1..Len(s) - 1 PROVE w[j] \in Items(s) /\ w[j] # n
    BY <1>6, Zenon DEF Items
  <2> QED
    BY <1>1, <1>2, <1>5, Zenon DEF Items, Distinct
<1>9. ASSUME NEW x \in Items(s), x # n PROVE x \in Items(w)
  <2>1. PICK k \in 1..Len(s) : x = s[k]
    BY <1>2, Zenon DEF Items
  <2>2. k # i
    BY <1>1, <1>9, <2>1, Zenon
  <2>3. CASE k < i
    <3>1. k \in 1..Len(s) - 1 /\ w[k] = s[k]
      BY <1>2, <1>3, <1>4, <2>3
    <3> QED
      BY <1>6, <2>1, <3>1, Zenon DEF Items
  <2>4. CASE k > i
    <3>1. k - 1 \in 1..Len(s) - 1 /\ w[k - 1] = s[k]
      BY <1>2, <1>3, <1>4, <2>4
    <3> QED
      BY <1>6, <2>1, <3>1, Zenon DEF Items
  <2> QED
    BY <1>4, <2>2, <2>3, <2>4
<1> QED
  BY <1>6, <1>7, <1>8, <1>9, Zenon DEF w

\* Only thread t moves.
Others(t) == \A u \in Users \ {t} : pc'[u] = pc[u]

\* A step of one thread leaves the others where they are.
LEMMA Moves ==
  ASSUME LinkType, NEW t \in Users, NEW r \in LinkCalls, pc' = [pc EXCEPT ![t] = r]
  PROVE  pc' \in [Users -> LinkCalls] /\ pc'[t] = r /\ Others(t)
BY Zenon DEF LinkType, Others

\* A thread outside of the methods.
LEMMA IdleCall == NoCall \in LinkCalls /\ NoCall.op = "idle"
BY DEF NoCall, LinkCalls, Ops

\* The table as a list: what broadcast() and close() go through.
LEMMA InOrderFacts ==
  ASSUME LinkType, OrderInv
  PROVE  InOrder \in Seq(Nat) /\ Items(InOrder) = TableLinks
<1>1. Len(order) \in Nat /\ DOMAIN order = 1..Len(order) /\ \A i \in 1..Len(order) : order[i] \in Nodes
  BY DEF LinkType
<1>2. \A i \in 1..Len(order) : table[order[i]] \in Nat
  BY <1>1, Zenon DEF LinkType
<1>3. InOrder \in Seq(Nat) /\ DOMAIN InOrder = 1..Len(order) /\ \A i \in 1..Len(order) : InOrder[i] = table[order[i]]
  BY <1>1, <1>2 DEF InOrder
<1>4. \A i \in 1..Len(order) : InOrder[i] \in TableLinks
  BY <1>1, <1>3 DEF TableLinks, OrderInv, Items
<1>5. ASSUME NEW n \in Nodes, table[n] # 0 PROVE table[n] \in Items(InOrder)
  <2>1. PICK i \in 1..Len(order) : order[i] = n
    BY <1>1, <1>5, Zenon DEF OrderInv, Items
  <2> QED
    BY <1>3, <2>1, Zenon DEF Items
<1> QED
  BY <1>3, <1>4, <1>5 DEF Items, TableLinks

\* A step of t that changes neither the table nor the sockets, and after which
\* t is neither to install nor to close a link, as before.
LEMMA QuietStep ==
  ASSUME LinksInv, NEW t \in Users, NEW r \in LinkCalls, pc' = [pc EXCEPT ![t] = r],
         pc[t].op \in {"idle", "push"}, r.op \in {"idle", "push"},
         UNCHANGED <<table, order, open, dialled>>
  PROVE  LinksInv'
<1>0. LinkType /\ OrderInv /\ HandsInv /\ Accounted
  BY DEF LinksInv
<1>1. pc' \in [Users -> LinkCalls] /\ pc'[t] = r /\ Others(t)
  BY <1>0, Moves, Zenon
<1>2. LinkType' /\ OrderInv' /\ TableLinks' = TableLinks
  BY <1>0, <1>1, Zenon DEF LinkType, OrderInv, TableLinks
<1>3. ASSUME NEW u \in Users, NEW l PROVE Installs(u, l)' = Installs(u, l) /\ Closes(u, l)' = Closes(u, l)
  BY <1>1, Zenon DEF Installs, Closes, Others
<1>4. \A u \in Users : pc'[u].op = "install" => pc'[u] = pc[u]
  BY <1>1, Zenon DEF Others
<1>5. HandsInv'
  BY <1>0, <1>2, <1>3, <1>4, Zenon DEF HandsInv
<1>6. Accounted'
  BY <1>0, <1>2, <1>3, Zenon DEF Accounted
<1> QED
  BY <1>2, <1>5, <1>6, Zenon DEF LinksInv

\* connect() has dialled: the new link is in the hands of its thread.
LEMMA DialStep ==
  ASSUME LinksInv, NEW t \in Users, NEW n \in Nodes, Dial(t, n)
  PROVE  LinksInv'
<1>0. LinkType /\ OrderInv /\ HandsInv /\ Accounted
  BY Zenon DEF LinksInv
<1> DEFINE l == dialled + 1
           r == [op |-> "install", node |-> n, todo |-> <<l>>]
<1>1. /\ dialled' = l /\ open' = open \cup {l} /\ pc' = [pc EXCEPT ![t] = r]
      /\ UNCHANGED <<table, order>> /\ pc[t].op = "idle"
  BY Zenon DEF Dial, Now, At
<1>2. l \in Nat /\ dialled \in Nat /\ dialled < l /\ l \notin open
  <2>1. open \subseteq 1..dialled /\ dialled \in Nat
    BY <1>0, Zenon DEF LinkType
  <2> QED
    BY ONLY <2>1
<1>3. r \in LinkCalls
  BY <1>2, ItemsFacts DEF LinkCalls, Ops
<1>4. pc' \in [Users -> LinkCalls] /\ pc'[t] = r /\ Others(t)
  BY <1>0, <1>1, <1>3, Moves, Zenon
<1> HIDE DEF l
<1>5. LinkType' /\ OrderInv' /\ TableLinks' = TableLinks
  <2>1. open' \subseteq 1..dialled' /\ dialled' \in Nat
    BY <1>0, <1>1, <1>2 DEF LinkType
  <2> QED
    BY <1>0, <1>1, <1>4, <2>1, Zenon DEF LinkType, OrderInv, TableLinks
<1>6. l \notin TableLinks
  BY <1>0, <1>2, Zenon DEF Accounted
<1>7. \A k \in Nat : ~Installs(t, k) /\ ~Closes(t, k) /\ ~Closes(t, k)' /\ (Installs(t, k)' <=> k = l)
  <2>1. pc'[t].op = "install" /\ pc'[t].todo = <<l>>
    BY <1>4
  <2>2. \A k \in Nat : <<l>> = <<k>> <=> k = l
    OBVIOUS
  <2>3. "install" \notin {"closing", "closingAll"} /\ "idle" \notin {"install", "closing", "closingAll"}
    OBVIOUS
  <2>4. \A k \in Nat : ~Installs(t, k) /\ ~Closes(t, k)
    BY <1>1, <2>3, Zenon DEF Installs, Closes
  <2>5. \A k \in Nat : ~Closes(t, k)' /\ (Installs(t, k)' <=> k = l)
    BY <2>1, <2>2, <2>3, Zenon DEF Installs, Closes
  <2> QED
    BY <2>4, <2>5, Zenon
<1>8. \A u \in Users \ {t}, k \in Nat : Installs(u, k)' = Installs(u, k) /\ Closes(u, k)' = Closes(u, k)
  BY <1>4, Zenon DEF Installs, Closes, Others
<1>9. \A u \in Users : ~Installs(u, l) /\ ~Closes(u, l)
  <2>1. \A u \in Users : ~Closes(u, l)
    BY <1>0, <1>2 DEF HandsInv
  <2>2. ASSUME NEW u \in Users, Installs(u, l) PROVE FALSE
    <3>1. PICK k \in open \ TableLinks : pc[u].todo = <<k>>
      BY <1>0, <2>2, Zenon DEF HandsInv, Installs
    <3>2. k = l
      BY <2>2, <3>1 DEF Installs
    <3> QED
      BY <1>2, <3>1, <3>2, Zenon
  <2> QED
    BY <2>1, <2>2, Zenon
<1>10. HandsInv'
  <2>1. ASSUME NEW u \in Users, pc'[u].op = "install"
        PROVE  pc'[u].node \in Nodes /\ \E k \in open' \ TableLinks' : pc'[u].todo = <<k>>
    <3>1. CASE u = t
      BY <1>1, <1>4, <1>5, <1>6, <3>1, Zenon
    <3>2. CASE u # t
      BY <1>0, <1>1, <1>4, <1>5, <2>1, <3>2, Zenon DEF HandsInv, Others
    <3> QED
      BY <3>1, <3>2, Zenon
  <2>2. \A u, v \in Users, k \in Nat : Installs(u, k)' /\ Installs(v, k)' => u = v
    BY <1>0, <1>7, <1>8, <1>9, Zenon DEF HandsInv
  <2>3. ASSUME NEW u \in Users, NEW v \in Users, NEW k \in Nat, Installs(u, k)', Closes(v, k)' PROVE FALSE
    <3>1. v # t /\ Closes(v, k)
      BY <1>7, <1>8, <2>3, Zenon
    <3>2. k # l /\ u # t
      BY <1>7, <1>9, <2>3, <3>1, Zenon
    <3>3. Installs(u, k)
      BY <1>8, <2>3, <3>2, Zenon
    <3> QED
      BY <1>0, <3>1, <3>3, Zenon DEF HandsInv
  <2>4. \A u \in Users, k \in Nat : Closes(u, k)' => k <= dialled' /\ k \notin TableLinks'
    BY <1>0, <1>1, <1>2, <1>5, <1>7, <1>8 DEF HandsInv
  <2> QED
    BY <2>1, <2>2, <2>3, <2>4, Zenon DEF HandsInv
<1>11. Accounted'
  <2>1. ASSUME NEW k \in open' \ TableLinks' PROVE \E u \in Users : Installs(u, k)' \/ Closes(u, k)'
    <3>1. CASE k = l
      BY <1>2, <1>7, <3>1, Zenon
    <3>2. CASE k # l
      <4>1. k \in open \ TableLinks /\ k \in Nat
        <5>1. k \in open \ TableLinks
          BY <1>1, <1>5, <2>1, <3>2, Zenon
        <5>2. open \subseteq 1..dialled /\ dialled \in Nat
          BY <1>0, Zenon DEF LinkType
        <5> QED
          BY ONLY <5>1, <5>2
      <4>2. PICK u \in Users : Installs(u, k) \/ Closes(u, k)
        BY <1>0, <4>1, Zenon DEF Accounted
      <4> QED
        BY <1>7, <1>8, <4>1, <4>2, Zenon
    <3> QED
      BY <3>1, <3>2
  <2> QED
    BY <1>0, <1>1, <1>5, <2>1, Zenon DEF Accounted
<1> QED
  BY <1>5, <1>10, <1>11, Zenon DEF LinksInv

\* The steps after which thread t is to close the links of r, which leave the
\* table: disconnect(), the replaced link of connect(), close().
LEMMA ToClose ==
  ASSUME LinksInv, NEW t \in Users, NEW r \in LinkCalls, pc' = [pc EXCEPT ![t] = r],
         r.op \in {"closing", "closingAll"} \/ (r.op = "idle" /\ r.todo = <<>>),
         UNCHANGED <<open, dialled>>, table' \in [Nodes -> Nat], order' \in Seq(Nodes), OrderInv',
         NEW new \in SUBSET Nat, new = {l \in Nat : Installs(t, l)},
         Items(r.todo) \cup TableLinks' = TableLinks \cup new, Items(r.todo) \cap TableLinks' = {},
         pc[t].op \in {"idle", "install"},
         \A m, n \in Nodes : table'[m] = table'[n] /\ table'[m] # 0 => m = n
  PROVE  LinksInv'
<1>0. LinkType /\ OrderInv /\ HandsInv /\ Accounted
  BY Zenon DEF LinksInv
<1>1. pc' \in [Users -> LinkCalls] /\ pc'[t] = r /\ Others(t)
  BY <1>0, Moves, Zenon
<1>2. LinkType'
  BY <1>0, <1>1, Zenon DEF LinkType
<1>3. new \subseteq open \ TableLinks
  <2> SUFFICES ASSUME NEW l \in Nat, Installs(t, l) PROVE l \in open \ TableLinks
    BY Zenon
  <2>1. PICK k \in open \ TableLinks : pc[t].todo = <<k>>
    BY <1>0, Zenon DEF HandsInv, Installs
  <2>2. k = l
    BY <2>1 DEF Installs
  <2> QED
    BY <2>1, <2>2, Zenon
<1>4. open \subseteq Nat /\ TableLinks \subseteq open /\ TableLinks' \subseteq open /\ Items(r.todo) \subseteq open
  <2>1. open \subseteq Nat
    <3>1. open \subseteq 1..dialled /\ dialled \in Nat
      BY <1>0, Zenon DEF LinkType
    <3> QED
      BY ONLY <3>1
  <2>2. TableLinks \subseteq open
    BY <1>0, Zenon DEF Accounted
  <2> QED
    BY <1>3, <2>1, <2>2, Zenon
<1>5. \A l \in Nat : /\ ~Installs(t, l)' /\ ~Closes(t, l)
                     /\ Closes(t, l)' => l \in Items(r.todo)
                     /\ l \in Items(r.todo) => Closes(t, l)'
  <2>1. \A l \in Nat : ~Installs(t, l)' /\ ~Closes(t, l) /\ (Closes(t, l)' => l \in Items(r.todo))
    BY <1>1, Zenon DEF Installs, Closes
  <2>2. r.todo = <<>> => Items(r.todo) = {}
    BY DEF Items
  <2>3. \A l \in Items(r.todo) : Closes(t, l)'
    BY <1>1, <2>2, Zenon DEF Closes
  <2> QED
    BY <2>1, <2>3, Zenon
<1>6. \A u \in Users \ {t}, l \in Nat : Installs(u, l)' = Installs(u, l) /\ Closes(u, l)' = Closes(u, l)
  BY <1>1, Zenon DEF Installs, Closes, Others
<1>7. \A u \in Users \ {t}, l \in Nat : Installs(u, l) => l \in open \ TableLinks /\ l \notin new
  <2> SUFFICES ASSUME NEW u \in Users \ {t}, NEW l \in Nat, Installs(u, l)
               PROVE  l \in open \ TableLinks /\ l \notin new
    BY Zenon
  <2>1. PICK k \in open \ TableLinks : pc[u].todo = <<k>>
    BY <1>0, Zenon DEF HandsInv, Installs
  <2>2. k = l
    BY <2>1 DEF Installs
  <2>3. l \notin new
    BY <1>0, Zenon DEF HandsInv
  <2> QED
    BY <2>1, <2>2, <2>3, Zenon
<1>8. \A u \in Users \ {t}, l \in Nat : Closes(u, l) => l <= dialled /\ l \notin TableLinks /\ l \notin new
  BY <1>0, Zenon DEF HandsInv
<1>9. HandsInv'
  <2>1. ASSUME NEW u \in Users, pc'[u].op = "install"
        PROVE  pc'[u].node \in Nodes /\ \E k \in open' \ TableLinks' : pc'[u].todo = <<k>>
    <3>1. u # t /\ pc'[u] = pc[u]
      BY <1>1, <2>1, Zenon DEF Others
    <3>2. PICK k \in open \ TableLinks : pc[u].todo = <<k>> /\ pc[u].node \in Nodes
      BY <1>0, <2>1, <3>1, Zenon DEF HandsInv
    <3>3. Installs(u, k) /\ k \in Nat
      BY <1>4, <2>1, <3>1, <3>2, Zenon DEF Installs
    <3>4. k \notin TableLinks'
      BY <1>7, <3>1, <3>3, Zenon
    <3> QED
      BY <3>1, <3>2, <3>4, Zenon
  <2>2. ASSUME NEW u \in Users, NEW v \in Users, NEW l \in Nat, Installs(u, l)', Installs(v, l)'
        PROVE  u = v
    <3>1. u # t /\ v # t
      BY <1>5, <2>2, Zenon
    <3>2. Installs(u, l) /\ Installs(v, l)
      BY <1>6, <2>2, <3>1, Zenon
    <3> QED
      BY <1>0, <3>2, Zenon DEF HandsInv
  <2>3. ASSUME NEW u \in Users, NEW v \in Users, NEW l \in Nat, Installs(u, l)', Closes(v, l)'
        PROVE  FALSE
    <3>1. u # t /\ Installs(u, l)
      BY <1>5, <1>6, <2>3, Zenon
    <3>2. CASE v = t
      BY <1>5, <1>7, <2>3, <3>1, <3>2, Zenon
    <3>3. CASE v # t
      BY <1>0, <1>6, <2>3, <3>1, <3>3, Zenon DEF HandsInv
    <3> QED
      BY <3>2, <3>3, Zenon
  <2>4. ASSUME NEW u \in Users, NEW l \in Nat, Closes(u, l)' PROVE l <= dialled' /\ l \notin TableLinks'
    <3>1. CASE u = t
      <4>1. l \in Items(r.todo) /\ l \in open
        BY <1>4, <1>5, <2>4, <3>1, Zenon
      <4>2. l <= dialled'
        <5>1. open \subseteq 1..dialled /\ dialled \in Nat /\ dialled' = dialled
          BY <1>0, Zenon DEF LinkType
        <5> QED
          BY ONLY <4>1, <5>1
      <4> QED
        BY <4>1, <4>2, Zenon
    <3>2. CASE u # t
      BY <1>6, <1>8, <2>4, <3>2, Zenon
    <3> QED
      BY <3>1, <3>2, Zenon
  <2> QED
    BY <2>1, <2>2, <2>3, <2>4, Zenon DEF HandsInv
<1>10. Accounted'
  <2>1. ASSUME NEW l \in open' \ TableLinks' PROVE \E u \in Users : Installs(u, l)' \/ Closes(u, l)'
    <3>1. l \in Nat
      BY <1>4, <2>1, Zenon
    <3>2. CASE l \in Items(r.todo)
      BY <1>5, <3>1, <3>2, Zenon
    <3>3. CASE l \notin Items(r.todo)
      <4>1. l \in open \ TableLinks /\ l \notin new
        BY <2>1, <3>3, Zenon
      <4>2. PICK u \in Users : Installs(u, l) \/ Closes(u, l)
        BY <1>0, <4>1, Zenon DEF Accounted
      <4>3. u # t
        BY <1>5, <3>1, <4>1, <4>2, Zenon
      <4> QED
        BY <1>6, <3>1, <4>2, <4>3, Zenon
    <3> QED
      BY <3>2, <3>3, Zenon
  <2> QED
    BY <1>4, <2>1, Zenon DEF Accounted
<1> QED
  BY <1>2, <1>9, <1>10, Zenon DEF LinksInv

\* One entry of the table changes.
LEMMA EntryChanges ==
  ASSUME LinkType, Accounted, NEW n \in Nodes, NEW l \in Nat \ TableLinks, table' = [table EXCEPT ![n] = l]
  PROVE  /\ table' \in [Nodes -> Nat] /\ table'[n] = l /\ \A m \in Nodes \ {n} : table'[m] = table[m]
         /\ TableLinks' = (TableLinks \ {table[n]}) \cup ({l} \ {0})
         /\ \A i, j \in Nodes : table'[i] = table'[j] /\ table'[i] # 0 => i = j
<1>1. table' \in [Nodes -> Nat] /\ table'[n] = l /\ \A m \in Nodes \ {n} : table'[m] = table[m]
  BY DEF LinkType
<1>2. \A i, j \in Nodes : table[i] = table[j] /\ table[i] # 0 => i = j
  BY Zenon DEF Accounted
<1>3. \A i, j \in Nodes : table'[i] = table'[j] /\ table'[i] # 0 => i = j
  BY <1>1, <1>2 DEF TableLinks
<1>4. ASSUME NEW k PROVE k \in TableLinks' <=> k \in (TableLinks \ {table[n]}) \cup ({l} \ {0})
  <2>1. k \in TableLinks' <=> k # 0 /\ \E m \in Nodes : k = table'[m]
    BY DEF TableLinks
  <2>2. k \in TableLinks <=> k # 0 /\ \E m \in Nodes : k = table[m]
    BY Zenon DEF TableLinks
  <2> QED
    BY <1>1, <1>2, <2>1, <2>2, Zenon
<1> QED
  BY <1>1, <1>3, <1>4, Zenon

\* connect() puts it into the table and takes out the one it replaces.
LEMMA InstallStep ==
  ASSUME LinksInv, NEW t \in Users, Install(t)
  PROVE  LinksInv'
<1>0. LinkType /\ OrderInv /\ HandsInv /\ Accounted
  BY DEF LinksInv
<1> DEFINE n == pc[t].node
           old == table[n]
           r == IF old = 0 THEN NoCall ELSE [op |-> "closing", node |-> n, todo |-> <<old>>]
<1>1. pc[t].op = "install" /\ n \in Nodes
  BY <1>0, Zenon DEF Install, At, HandsInv
<1>2. PICK l \in open \ TableLinks : pc[t].todo = <<l>>
  BY <1>0, <1>1, Zenon DEF HandsInv
<1>3. l \in Nat \ TableLinks /\ l # 0
  <2>1. l \in open /\ l \notin TableLinks /\ open \subseteq 1..dialled /\ dialled \in Nat
    BY <1>0, <1>2, Zenon DEF LinkType
  <2> QED
    BY ONLY <2>1
<1>4. /\ table' = [table EXCEPT ![n] = l] /\ UNCHANGED <<open, dialled>>
      /\ order' = IF old = 0 THEN Append(order, n) ELSE order
  BY <1>2 DEF Install
<1>5. pc' = [pc EXCEPT ![t] = r]
  BY DEF Install, EndCall, Now
<1>6. old \in Nat
  BY <1>0, <1>1, Zenon DEF LinkType
<1>7. r \in LinkCalls /\ (r.op = "closing" \/ (r.op = "idle" /\ r.todo = <<>>)) /\ r.todo = IF old = 0 THEN <<>> ELSE <<old>>
  BY <1>1, <1>6, IdleCall, OneItem, Zenon DEF LinkCalls, Ops, NoCall
<1>8. Items(r.todo) = IF old = 0 THEN {} ELSE {old}
  BY <1>6, <1>7, OneItem, Zenon
<1> HIDE DEF r
<1>9. /\ table' \in [Nodes -> Nat] /\ table'[n] = l /\ \A m \in Nodes \ {n} : table'[m] = table[m]
      /\ TableLinks' = (TableLinks \ {old}) \cup ({l} \ {0})
      /\ \A i, j \in Nodes : table'[i] = table'[j] /\ table'[i] # 0 => i = j
  BY <1>0, <1>1, <1>3, <1>4, EntryChanges, Zenon
<1> HIDE DEF n
<1>10. order' \in Seq(Nodes) /\ Distinct(order') /\ Items(order') = Items(order) \cup {n}
  <2>1. order \in Seq(Nodes) /\ Distinct(order)
    BY <1>0, Zenon DEF LinkType, OrderInv, Distinct
  <2>2. CASE old = 0
    <3>1. n \notin Items(order) /\ order' = Append(order, n)
      BY <1>0, <1>1, <1>4, <2>2, Zenon DEF OrderInv
    <3>2. order' \in Seq(Nodes) /\ Items(order') = Items(order) \cup {n}
      BY <1>1, <2>1, <3>1, ItemsFacts
    <3>3. Distinct(order')
      <4>1. /\ DOMAIN order' = 1..Len(order) + 1 /\ DOMAIN order = 1..Len(order) /\ Len(order) \in Nat
            /\ order'[Len(order) + 1] = n /\ \A i \in 1..Len(order) : order'[i] = order[i]
        BY <1>1, <2>1, <3>1
      <4>2. \A i \in 1..Len(order) + 1 : i \in 1..Len(order) \/ i = Len(order) + 1
        BY <4>1
      <4>3. \A i \in 1..Len(order) : order[i] # n
        BY <3>1, <4>1, Zenon DEF Items
      <4> QED
        BY <2>1, <4>1, <4>2, <4>3, Zenon DEF Distinct
    <3> QED
      BY <3>2, <3>3, Zenon
  <2>3. CASE old # 0
    <3>1. order' = order /\ n \in Items(order)
      BY <1>0, <1>1, <1>4, <2>3, Zenon DEF OrderInv
    <3> QED
      BY <2>1, <3>1, Zenon
  <2> QED
    BY <2>2, <2>3, Zenon
<1>11. OrderInv'
  BY <1>0, <1>1, <1>3, <1>9, <1>10, Zenon DEF OrderInv, Distinct
<1>12. {l} = {k \in Nat : Installs(t, k)}
  <2>1. \A k \in Nat : Installs(t, k) => k = l
    BY <1>2 DEF Installs
  <2>2. Installs(t, l)
    BY <1>1, <1>2, Zenon DEF Installs
  <2> QED
    BY <1>3, <2>1, <2>2, Zenon
<1>13. Items(r.todo) \cup TableLinks' = TableLinks \cup {l} /\ Items(r.todo) \cap TableLinks' = {}
  <2>1. 0 \notin TableLinks /\ (old # 0 => old \in TableLinks)
    BY <1>1, Zenon DEF TableLinks
  <2>2. TableLinks' = (TableLinks \ {old}) \cup {l}
    BY <1>3, <1>9, Zenon
  <2>3. CASE old = 0
    BY <1>8, <2>1, <2>2, <2>3, Zenon
  <2>4. CASE old # 0
    BY <1>3, <1>8, <2>1, <2>2, <2>4, Zenon
  <2> QED
    BY <2>3, <2>4, Zenon
<1> QED
  BY <1>1, <1>3, <1>4, <1>5, <1>7, <1>9, <1>10, <1>11, <1>12, <1>13, ToClose, Zenon

\* disconnect() takes a link out of the table.
LEMMA DisconnectStep ==
  ASSUME LinksInv, NEW t \in Users, NEW n \in Nodes, Disconnect(t, n)
  PROVE  LinksInv'
<1>0. LinkType /\ OrderInv /\ HandsInv /\ Accounted
  BY DEF LinksInv
<1> DEFINE old == table[n]
           r == [op |-> "closing", node |-> n, todo |-> <<old>>]
<1>1. /\ pc[t].op = "idle" /\ old # 0 /\ table' = [table EXCEPT ![n] = 0] /\ order' = Without(order, n)
      /\ pc' = [pc EXCEPT ![t] = r] /\ UNCHANGED <<open, dialled>>
  BY Zenon DEF Disconnect, At, Now
<1>2. old \in Nat /\ old \in TableLinks /\ 0 \notin TableLinks
  BY <1>0, <1>1, Zenon DEF LinkType, TableLinks
<1>3. r \in LinkCalls /\ r.op = "closing" /\ Items(r.todo) = {old}
  BY <1>2, OneItem, Zenon DEF LinkCalls, Ops
<1> HIDE DEF r
<1>4. /\ table' \in [Nodes -> Nat] /\ table'[n] = 0 /\ \A m \in Nodes \ {n} : table'[m] = table[m]
      /\ TableLinks' = (TableLinks \ {old}) \cup ({0} \ {0})
      /\ \A i, j \in Nodes : table'[i] = table'[j] /\ table'[i] # 0 => i = j
  BY <1>0, <1>1, <1>2, EntryChanges, Zenon
<1>5. n \in Items(order) /\ order \in Seq(Nodes) /\ Distinct(order)
  BY <1>0, <1>1, Zenon DEF OrderInv, LinkType, Distinct
<1>6. order' \in Seq(Nodes) /\ Items(order') = Items(order) \ {n} /\ Distinct(order')
  BY <1>1, <1>5, WithoutFacts, Zenon
<1>7. OrderInv'
  BY <1>0, <1>4, <1>6, Zenon DEF OrderInv, Distinct
<1>8. {} = {k \in Nat : Installs(t, k)}
  BY <1>1, Zenon DEF Installs
<1>9. Items(r.todo) \cup TableLinks' = TableLinks \cup {} /\ Items(r.todo) \cap TableLinks' = {}
  BY <1>2, <1>3, <1>4, Zenon
<1> QED
  BY <1>1, <1>3, <1>4, <1>6, <1>7, <1>8, <1>9, ToClose, Zenon

\* close() takes every link out of the table.
LEMMA CloseStep ==
  ASSUME LinksInv, NEW t \in Users, Close(t)
  PROVE  LinksInv'
<1>0. LinkType /\ OrderInv /\ HandsInv /\ Accounted
  BY DEF LinksInv
<1> DEFINE r == [op |-> "closingAll", node |-> 0, todo |-> InOrder]
<1>1. /\ pc[t].op = "idle" /\ table' = [n \in Nodes |-> 0] /\ order' = <<>>
      /\ pc' = [pc EXCEPT ![t] = r] /\ UNCHANGED <<open, dialled>>
  BY Zenon DEF Close, At, Now
<1>2. r \in LinkCalls /\ r.op = "closingAll" /\ Items(r.todo) = TableLinks
  BY <1>0, InOrderFacts, Zenon DEF LinkCalls, Ops
<1> HIDE DEF r
<1>3. /\ table' \in [Nodes -> Nat] /\ order' \in Seq(Nodes) /\ TableLinks' = {}
      /\ \A i, j \in Nodes : table'[i] = table'[j] /\ table'[i] # 0 => i = j
  BY <1>1 DEF TableLinks
<1>4. OrderInv'
  BY <1>1 DEF OrderInv, Items
<1>5. {} = {k \in Nat : Installs(t, k)}
  BY <1>1, Zenon DEF Installs
<1>6. Items(r.todo) \cup TableLinks' = TableLinks \cup {} /\ Items(r.todo) \cap TableLinks' = {}
  BY <1>2, <1>3, Zenon
<1> QED
  BY <1>1, <1>2, <1>3, <1>4, <1>5, <1>6, ToClose, Zenon

\* The link at the head of the list is closed, or the list is at its end.
LEMMA CloseLinkStep ==
  ASSUME LinksInv, NEW t \in Users, CloseLink(t)
  PROVE  LinksInv'
<1>0. LinkType /\ OrderInv /\ HandsInv /\ Accounted
  BY DEF LinksInv
<1>1. pc[t] \in LinkCalls /\ pc[t].op \in {"closing", "closingAll"} /\ pc[t].todo \in Seq(Nat)
  BY <1>0, Zenon DEF LinkType, LinkCalls, CloseLink
<1>2. UNCHANGED <<table, order, dialled>> /\ TableLinks' = TableLinks
  BY Zenon DEF CloseLink, TableLinks
<1>3. PICK r \in LinkCalls, gone \in SUBSET Nat :
        /\ pc' = [pc EXCEPT ![t] = r] /\ open' = open \ gone /\ r.op # "install"
        /\ gone \subseteq Items(pc[t].todo)
        /\ \A l \in Items(pc[t].todo) \ gone : r.op \in {"closing", "closingAll"} /\ l \in Items(r.todo)
        /\ r.op \in {"closing", "closingAll"} => Items(r.todo) \subseteq Items(pc[t].todo)
  <2>1. CASE pc[t].todo = <<>>
    <3>1. pc' = [pc EXCEPT ![t] = NoCall] /\ open' = open \ {}
      BY <2>1, Zenon DEF CloseLink, EndCall
    <3>2. Items(pc[t].todo) = {}
      BY <2>1, OneItem DEF Items
    <3> QED
      BY <3>1, <3>2, IdleCall, Zenon
  <2>2. CASE pc[t].todo # <<>>
    <3> DEFINE r == [pc[t] EXCEPT !.todo = Tail(pc[t].todo)]
    <3>1. pc' = [pc EXCEPT ![t] = r] /\ open' = open \ {Head(pc[t].todo)}
      BY <2>2 DEF CloseLink
    <3>2. /\ Tail(pc[t].todo) \in Seq(Nat) /\ Head(pc[t].todo) \in Items(pc[t].todo)
          /\ Items(pc[t].todo) = Items(Tail(pc[t].todo)) \cup {Head(pc[t].todo)}
      BY <1>1, <2>2, ItemsFacts, Zenon
    <3>3. Head(pc[t].todo) \in Nat
      BY <1>1, <2>2
    <3>4. r \in LinkCalls /\ r.op = pc[t].op /\ r.todo = Tail(pc[t].todo)
      BY <1>1, <3>2, Zenon DEF LinkCalls
    <3> HIDE DEF r
    <3> QED
      BY <1>1, <3>1, <3>2, <3>3, <3>4, Zenon
  <2> QED
    BY <2>1, <2>2, Zenon
<1>4. pc' \in [Users -> LinkCalls] /\ pc'[t] = r /\ Others(t)
  BY <1>0, <1>3, Moves, Zenon
<1>5. \A l \in Items(pc[t].todo) : l \in Nat /\ Closes(t, l)
  BY <1>1 DEF Items, Closes
<1>6. LinkType' /\ OrderInv'
  BY <1>0, <1>2, <1>3, <1>4, Zenon DEF LinkType, OrderInv
<1>7. \A u \in Users, l \in Nat : /\ Installs(u, l)' => u # t
                                  /\ u # t => Installs(u, l)' = Installs(u, l)
  BY <1>3, <1>4, Zenon DEF Installs, Others
<1>8. \A u \in Users, l \in Nat : Closes(u, l)' => Closes(u, l)
  BY <1>1, <1>3, <1>4, Zenon DEF Closes, Others
<1>9. \A u \in Users, l \in Nat : Closes(u, l) /\ l \notin gone => Closes(u, l)'
  BY <1>1, <1>3, <1>4, Zenon DEF Closes, Others
<1>10. \A l \in gone : l \in Nat /\ Closes(t, l) /\ l \notin TableLinks
  BY <1>0, <1>3, <1>5, Zenon DEF HandsInv
<1>11. HandsInv'
  <2>1. ASSUME NEW u \in Users, pc'[u].op = "install"
        PROVE  pc'[u].node \in Nodes /\ \E k \in open' \ TableLinks' : pc'[u].todo = <<k>>
    <3>1. u # t /\ pc'[u] = pc[u]
      BY <1>3, <1>4, <2>1, Zenon DEF Others
    <3>2. PICK k \in open \ TableLinks : pc[u].todo = <<k>> /\ pc[u].node \in Nodes
      BY <1>0, <2>1, <3>1, Zenon DEF HandsInv
    <3>3. Installs(u, k)
      BY <2>1, <3>1, <3>2, Zenon DEF Installs
    <3>4. k \notin gone
      BY <1>0, <1>10, <3>3, Zenon DEF HandsInv
    <3> QED
      BY <1>2, <1>3, <3>1, <3>2, <3>4, Zenon
  <2>2. \A u, v \in Users, l \in Nat : Installs(u, l)' /\ Installs(v, l)' => u = v
    BY <1>0, <1>7, Zenon DEF HandsInv
  <2>3. \A u, v \in Users, l \in Nat : Installs(u, l)' => ~Closes(v, l)'
    BY <1>0, <1>7, <1>8, Zenon DEF HandsInv
  <2>4. \A u \in Users, l \in Nat : Closes(u, l)' => l <= dialled' /\ l \notin TableLinks'
    BY <1>0, <1>2, <1>8, Zenon DEF HandsInv
  <2> QED
    BY <2>1, <2>2, <2>3, <2>4, Zenon DEF HandsInv
<1>12. Accounted'
  <2>1. ASSUME NEW l \in open' \ TableLinks' PROVE \E u \in Users : Installs(u, l)' \/ Closes(u, l)'
    <3>1. l \in open \ TableLinks /\ l \notin gone /\ l \in Nat
      BY <1>0, <1>2, <1>3, <2>1 DEF LinkType
    <3>2. PICK u \in Users : Installs(u, l) \/ Closes(u, l)
      BY <1>0, <3>1, Zenon DEF Accounted
    <3>3. Installs(u, l) => u # t
      BY <1>1, Zenon DEF Installs
    <3> QED
      BY <1>7, <1>9, <3>1, <3>2, <3>3, Zenon
  <2>2. TableLinks' \subseteq open'
    BY <1>0, <1>2, <1>3, <1>10, Zenon DEF Accounted
  <2> QED
    BY <1>0, <1>2, <2>1, <2>2, Zenon DEF Accounted
<1> QED
  BY <1>6, <1>11, <1>12, Zenon DEF LinksInv

\* broadcast() goes on to the next link.
LEMMA PushStep ==
  ASSUME LinksInv, NEW t \in Users, Push(t)
  PROVE  LinksInv'
<1>0. LinkType
  BY Zenon DEF LinksInv
<1>1. pc[t] \in LinkCalls /\ pc[t].op = "push" /\ pc[t].todo \in Seq(Nat) /\ UNCHANGED <<table, order, open, dialled>>
  BY <1>0 DEF LinkType, LinkCalls, Push, At
<1>2. CASE pc' = [pc EXCEPT ![t] = NoCall]
  BY <1>1, <1>2, IdleCall, QuietStep, Zenon
<1>3. CASE pc[t].todo # <<>> /\ pc' = [pc EXCEPT ![t].todo = Tail(@)]
  <2> DEFINE r == [pc[t] EXCEPT !.todo = Tail(pc[t].todo)]
  <2>1. pc' = [pc EXCEPT ![t] = r]
    BY <1>3, Zenon
  <2>2. Tail(pc[t].todo) \in Seq(Nat)
    BY <1>1, <1>3
  <2>3. r \in LinkCalls /\ r.op = "push"
    BY <1>1, <2>2, Zenon DEF LinkCalls
  <2> HIDE DEF r
  <2> QED
    BY <1>1, <2>1, <2>3, QuietStep, Zenon
<1> QED
  BY <1>2, <1>3, Zenon DEF Push, EndCall

\* Every step keeps the invariant.
LEMMA LinksStep == LinksInv /\ [LinksNext]_linkVars => LinksInv'
<1> SUFFICES ASSUME LinksInv, [LinksNext]_linkVars PROVE LinksInv'
  BY Zenon
<1>1. ASSUME NEW t \in Users, NEW n \in Nodes, Dial(t, n) \/ Disconnect(t, n) PROVE LinksInv'
  BY <1>1, DialStep, DisconnectStep, Zenon
<1>2. ASSUME NEW t \in Users, NEW n \in Nodes, Send(t, n) PROVE LinksInv'
  <2> DEFINE r == [op |-> "push", node |-> n, todo |-> <<table[n]>>]
  <2>1. table[n] \in Nat
    BY Zenon DEF LinksInv, LinkType
  <2>2. r \in LinkCalls /\ r.op = "push"
    BY <2>1, OneItem, Zenon DEF LinkCalls, Ops
  <2>3. pc[t].op = "idle" /\ pc' = [pc EXCEPT ![t] = r] /\ UNCHANGED <<table, order, open, dialled>>
    BY <1>2, Zenon DEF Send, At, Now
  <2> HIDE DEF r
  <2> QED
    BY <2>2, <2>3, QuietStep, Zenon
<1>3. ASSUME NEW t \in Users, Broadcast(t) PROVE LinksInv'
  <2> DEFINE r == [op |-> "push", node |-> 0, todo |-> InOrder]
  <2>1. InOrder \in Seq(Nat)
    BY InOrderFacts, Zenon DEF LinksInv
  <2>2. r \in LinkCalls /\ r.op = "push"
    BY <2>1, Zenon DEF LinkCalls, Ops
  <2>3. pc[t].op = "idle" /\ pc' = [pc EXCEPT ![t] = r] /\ UNCHANGED <<table, order, open, dialled>>
    BY <1>3 DEF Broadcast, At, Now
  <2> HIDE DEF r
  <2> QED
    BY <2>2, <2>3, QuietStep, Zenon
<1>4. ASSUME NEW t \in Users, Proceed(t) \/ Close(t) PROVE LinksInv'
  BY <1>4, InstallStep, CloseLinkStep, PushStep, CloseStep, Zenon DEF Proceed
<1>5. CASE Break \/ UNCHANGED linkVars
  <2>1. UNCHANGED <<table, order, open, dialled, pc>>
    BY <1>5, Zenon DEF Break, linkVars
  <2> QED
    <3>1. TableLinks' = TableLinks /\ \A t, l : (Installs(t, l)' <=> Installs(t, l)) /\ (Closes(t, l)' <=> Closes(t, l))
      BY <2>1, Zenon DEF TableLinks, Installs, Closes
    <3>2. LinkType' /\ OrderInv'
      BY <2>1, Zenon DEF LinksInv, LinkType, OrderInv
    <3>3. HandsInv'
      BY <2>1, <3>1, Zenon DEF LinksInv, HandsInv
    <3>4. Accounted'
      BY <2>1, <3>1, Zenon DEF LinksInv, Accounted
    <3> QED
      BY <3>2, <3>3, <3>4, Zenon DEF LinksInv
<1> QED
  BY <1>1, <1>2, <1>3, <1>4, <1>5, Zenon DEF LinksNext

\* A link that is open is in the table, for one peer, or in the hands of a thread
\* that is about to put it there or to close it, and a link in the table is open,
\* for any threads, peers and number of links (RemoteQueue.connect, disconnect,
\* close).
THEOREM NoLinkIsLost == LinksSpec => []LinksAccounted
<1>1. LinksInit => LinksInv
  <2> SUFFICES ASSUME LinksInit PROVE LinksInv
    OBVIOUS
  <2>1. \A t \in Users : pc[t] = NoCall /\ pc[t].op = "idle"
    BY Zenon DEF LinksInit, NoCall
  <2>2. TableLinks = {} /\ Items(order) = {} /\ open = {}
    BY DEF LinksInit, TableLinks, Items
  <2>3. LinkType
    BY IdleCall DEF LinksInit, LinkType
  <2>4. OrderInv
    BY <2>2 DEF LinksInit, OrderInv
  <2>5. HandsInv /\ Accounted
    BY <2>1, <2>2, Zenon DEF LinksInit, HandsInv, Accounted, Installs, Closes
  <2> QED
    BY <2>3, <2>4, <2>5, Zenon DEF LinksInv
<1>2. LinksInv => LinksAccounted
  <2> SUFFICES ASSUME LinksInv PROVE LinksAccounted
    OBVIOUS
  <2>1. ASSUME NEW l \in open \ TableLinks
        PROVE  \E t \in Users : pc[t].op \in {"install", "closing", "closingAll"} /\ l \in Items(pc[t].todo)
    <3>1. PICK t \in Users : Installs(t, l) \/ Closes(t, l)
      BY Zenon DEF LinksInv, Accounted
    <3>2. l \in Nat
      BY DEF LinksInv, LinkType
    <3> QED
      BY <3>1, <3>2, OneItem, Zenon DEF Installs, Closes
  <2> QED
    BY <2>1, Zenon DEF LinksInv, Accounted, LinksAccounted
<1> QED
  BY <1>1, <1>2, LinksStep, PTL DEF LinksSpec
=============================================================================
