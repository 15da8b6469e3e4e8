---------------------------- MODULE RemoteQueue ----------------------------
(***************************************************************************)
(* RemoteQueue of src/eventforge/remote.py: a table of TCP links to peer   *)
(* nodes that threads connect, replace, drop and send over.  The tables    *)
(* are changed under a lock; links are dialled, closed and written outside *)
(* of it.  _peers and _transports always change together and are one table.*)
(***************************************************************************)
EXTENDS Integers, Sequences, FiniteSets

CONSTANTS Users, Nodes,
          MaxLinks,    \* bound on the links dialled
          MaxCasts     \* bound on the messages pushed

VARIABLES table,    \* _peers and _transports: node -> link, 0 without one
          order,    \* the keys of _peers, in insertion order
          open,     \* links with an open socket on this side
          broken,   \* links whose peer has gone
          dialled,  \* links so far
          pc,       \* a thread in a call
          casts, closed

linkVars == <<table, order, open, broken, dialled, pc, casts, closed>>

NoCall == [op |-> "idle", node |-> 0, todo |-> <<>>]
TableLinks == {table[n] : n \in Nodes} \ {0}
InOrder == [i \in DOMAIN order |-> table[order[i]]]
Items(s) == {s[i] : i \in DOMAIN s}

\* dict.pop: the other keys keep their order.
Without(s, n) ==
  LET i == CHOOSE i \in DOMAIN s : s[i] = n
  IN [j \in 1..Len(s) - 1 |-> IF j < i THEN s[j] ELSE s[j + 1]]

LinksInit ==
  /\ table = [n \in Nodes |-> 0] /\ order = <<>>
  /\ open = {} /\ broken = {} /\ dialled = 0
  /\ pc = [t \in Users |-> NoCall]
  /\ casts = 0 /\ closed = "no"

At(t, op) == pc[t].op = op
Now(t, op, n, todo) == pc' = [pc EXCEPT ![t] = [op |-> op, node |-> n, todo |-> todo]]
EndCall(t) == pc' = [pc EXCEPT ![t] = NoCall]

-----------------------------------------------------------------------------
(* connect() and disconnect() *)

\* The dial; when it raises nothing has changed.
Dial(t, n) ==
  /\ At(t, "idle") /\ dialled < MaxLinks
  /\ dialled' = dialled + 1
  /\ open' = open \cup {dialled + 1}
  /\ Now(t, "install", n, <<dialled + 1>>)
  /\ UNCHANGED <<table, order, broken, casts, closed>>

\* The locked part: the new link takes the place of the old one, which is then
\* closed.  A key that was in the table keeps its place in _peers.
\* Mutant: the old link is overwritten.
InstallOver(t) ==
  /\ At(t, "install")
  /\ LET n == pc[t].node
     IN /\ table' = [table EXCEPT ![n] = Head(pc[t].todo)]
        /\ order' = IF table[n] = 0 THEN Append(order, n) ELSE order
        /\ EndCall(t)
  /\ UNCHANGED <<open, broken, dialled, casts, closed>>

Install(t) ==
  /\ At(t, "install")
  /\ LET n == pc[t].node
         old == table[n]
     IN /\ table' = [table EXCEPT ![n] = Head(pc[t].todo)]
        /\ order' = IF old = 0 THEN Append(order, n) ELSE order
        /\ IF old = 0 THEN EndCall(t) ELSE Now(t, "closing", n, <<old>>)
  /\ UNCHANGED <<open, broken, dialled, casts, closed>>

Disconnect(t, n) ==
  /\ At(t, "idle") /\ table[n] # 0
  /\ table' = [table EXCEPT ![n] = 0]
  /\ order' = Without(order, n)
  /\ Now(t, "closing", n, <<table[n]>>)
  /\ UNCHANGED <<open, broken, dialled, casts, closed>>

\* transport.close() for the links in hand, one after the other.
CloseLink(t) ==
  /\ pc[t].op \in {"closing", "closingAll"}
  /\ IF pc[t].todo = <<>>
     THEN /\ EndCall(t)
          /\ closed' = IF At(t, "closingAll") THEN "done" ELSE closed
          /\ UNCHANGED open
     ELSE /\ open' = open \ {Head(pc[t].todo)}
          /\ pc' = [pc EXCEPT ![t].todo = Tail(@)]
          /\ UNCHANGED closed
  /\ UNCHANGED <<table, order, broken, dialled, casts>>

-----------------------------------------------------------------------------
(* send() and broadcast() *)

Send(t, n) ==
  /\ At(t, "idle") /\ casts < MaxCasts /\ table[n] # 0
  /\ casts' = casts + 1
  /\ Now(t, "push", n, <<table[n]>>)
  /\ UNCHANGED <<table, order, open, broken, dialled, closed>>

Broadcast(t) ==
  /\ At(t, "idle") /\ casts < MaxCasts
  /\ casts' = casts + 1
  /\ Now(t, "push", 0, InOrder)
  /\ UNCHANGED <<table, order, open, broken, dialled, closed>>

\* publish() over the next link of the snapshot.  A link closed on this side
\* raises; one whose peer has gone raises, or the message is lost in a buffer.
\* An exception ends the call.
Push(t) ==
  /\ At(t, "push")
  /\ \/ pc[t].todo = <<>> /\ EndCall(t)
     \/ pc[t].todo # <<>> /\ Head(pc[t].todo) \in open /\ pc' = [pc EXCEPT ![t].todo = Tail(@)]
     \/ pc[t].todo # <<>> /\ Head(pc[t].todo) \notin open \ broken /\ EndCall(t)
  /\ UNCHANGED <<table, order, open, broken, dialled, casts, closed>>

-----------------------------------------------------------------------------
(* close(), and peers that go away *)

Close(t) ==
  /\ At(t, "idle") /\ closed = "no"
  /\ Now(t, "closingAll", 0, InOrder)
  /\ table' = [n \in Nodes |-> 0] /\ order' = <<>>
  /\ closed' = "closing"
  /\ UNCHANGED <<open, broken, dialled, casts>>

Break ==
  /\ \E l \in open \ broken : broken' = broken \cup {l}
  /\ UNCHANGED <<table, order, open, dialled, pc, casts, closed>>

Proceed(t) == Install(t) \/ CloseLink(t) \/ Push(t)
LinksNext ==
  \/ Break
  \/ \E t \in Users :
       \/ Proceed(t) \/ Broadcast(t) \/ Close(t)
       \/ \E n \in Nodes : Dial(t, n) \/ Disconnect(t, n) \/ Send(t, n)
LinksSpec == LinksInit /\ [][LinksNext]_linkVars

-----------------------------------------------------------------------------
(* Properties *)

\* An open link is in the table or in the hands of a thread that is about to
\* install or close it: replacing and dropping links leaks no socket.  A link
\* in the table has not been closed, and stands for one node only: who looks a
\* peer up never gets a link that was dropped before.
LinksAccounted ==
  /\ \A l \in open \ TableLinks : \E t \in Users :
       pc[t].op \in {"install", "closing", "closingAll"} /\ l \in Items(pc[t].todo)
  /\ TableLinks \subseteq open
  /\ \A m, n \in Nodes : table[m] = table[n] /\ table[m] # 0 => m = n
=============================================================================
