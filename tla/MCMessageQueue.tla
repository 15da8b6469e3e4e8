--------------------------- MODULE MCMessageQueue ---------------------------
(* Instances of MessageQueue for TLC. *)
EXTENDS MessageQueue, TLC

Plain == [kind |-> "plain", topic |-> "a", fn |-> "p"]
HandlerTable ==
    [p |-> Plain,
     q |-> Plain,
     x |-> [kind |-> "raises", topic |-> "a", fn |-> "x"],
     f |-> [kind |-> "publishes", topic |-> "b", fn |-> "f"],
     s |-> [kind |-> "subscribes", topic |-> "b", fn |-> "p"],
     r |-> [kind |-> "replies", topic |-> "a", fn |-> "r"]]

\* "**" matches every topic, "a" and "b" themselves.
CoversTable == ("a" :> {"a"}) @@ ("b" :> {"b"}) @@ ("**" :> {"a", "b", "**", "r1", "r2"})

Sub(topic, h) == [op |-> "topic", topic |-> topic, fn |-> h]
Pub(topic) == [op |-> "send", topic |-> topic, fn |-> "p"]
Req(topic) == [op |-> "request", topic |-> topic, fn |-> "p"]
Rcv(topic) == [op |-> "receive", topic |-> topic, fn |-> "p"]
Cls == [op |-> "close", topic |-> "a", fn |-> "p"]

SubscribeCalls == {Sub("a", "p"), Sub("a", "s"), Sub("b", "q"), Pub("a")}
PublishCalls == {Sub("a", "f"), Sub("b", "p"), Sub("**", "q"), Sub("b", "x"), Pub("a"), Rcv("b")}
RequestCalls == {Sub("a", "r"), Sub("a", "x"), Req("a"), Pub("a"), Cls}
CallSets == {SubscribeCalls, PublishCalls, RequestCalls}
=============================================================================
