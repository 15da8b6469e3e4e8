--------------------------- MODULE MCConnections ---------------------------
(***************************************************************************)
(* For TLC: what lies below a queue that talks to other processes.  The    *)
(* TCP transport, the table of links of a RemoteQueue, and the calls that  *)
(* wait for a message of a transport do not share state, so a behaviour is *)
(* one of the three.                                                       *)
(***************************************************************************)
EXTENDS TCP, RemoteQueue, AsyncReceive

CONSTANTS c1, c2, s1, s2, a1

VARIABLE layer  \* "tcp", "remote" or "receive"

Owners == [t \in {a1} |-> c1]
Sends == [t \in {s1, s2, a1} |-> IF t = a1 THEN 2 ELSE 1]

\* One connection that three threads send over; two connections and a sender.
OneOrTwo == {{c1, s1, s2, a1}, {c1, c2, s1}}

LayerInit ==
  /\ layer \in {"tcp", "remote", "receive"}
  /\ Init /\ LinksInit /\ ReceiveInit
  /\ layer # "tcp" => cast = {c1, c2, s1}

LayerNext ==
  \/ layer = "tcp" /\ Next /\ UNCHANGED <<layer, linkVars, receiveVars>>
  \/ layer = "remote" /\ LinksNext /\ UNCHANGED <<layer, vars, receiveVars>>
  \/ layer = "receive" /\ ReceiveNext /\ UNCHANGED <<layer, vars, linkVars>>

\* The fairness of the transport and of the receivers; none of their actions
\* with fairness is enabled in the initial state, which the other layers leave
\* them in.
LayerSpec ==
  /\ LayerInit /\ [][LayerNext]_<<layer, vars, linkVars, receiveVars>>
  /\ Fairness /\ ReceiveFairness
=============================================================================
