------------------------------ MODULE MCBroker ------------------------------
(***************************************************************************)
(* Small instances of MqttBroker.  Filter "f" matches topic "t"; "all"     *)
(* matches every topic, so a client subscribed to both receives two copies; *)
(* "bad" is a filter that fails validation.                                *)
(***************************************************************************)
EXTENDS MqttBroker, EndpointChain, TLC

MCMatching == [f \in Filters |-> CASE f = "f" -> {"t"} [] f = "all" -> Topics [] OTHER -> {}]

\* Endpoints that leave every message alone.
Transparent == [m \in Topics \X QoS |-> {m}]

Sub(f, q) == [type |-> "subscribe", list |-> <<<<f, q>>>>]
SubBoth == [type |-> "subscribe", list |-> <<<<"f", 1>>, <<"all", 0>>>>]
Unsub(f) == [type |-> "unsubscribe", list |-> <<<<f, None>>>>]
Pub(q, i) == [type |-> "publish", topic |-> "t", qos |-> q, id |-> i]
Plain(t) == [type |-> t]
Ack(t, i) == [type |-> t, id |-> i]
Conn(i, cl, w) == [id |-> i, clean |-> cl, will |-> w]
WillT == [topic |-> "t", qos |-> 1]

\* Every connection has its own client id: subscribers "s..." and publishers.
OwnAuto == [c \in Conns |-> c]
OwnConnects == [c \in Conns |-> {Conn("", c = "p", IF c = "p" THEN WillT ELSE None)}]
DeliveryRequests ==
  [c \in Conns |-> IF c = "p" THEN {Pub(1, 1), Ack("puback", 1), Plain("disconnect")}
                   ELSE {SubBoth, Unsub("f"), Ack("puback", 1), Plain("pingreq"), Plain("noise")}]

\* Up to two endpoints of any kind; one rewrites the topic and the QoS.
Endpoints == [does : {"pass", "take", "suppress", "fail"}] \cup [does : {"rewrite"}, to : {<<"u", 0>>}]
Chains == UNION {[1..n -> Endpoints] : n \in 0..2}
Meddling ==
  [m \in Topics \X QoS |->
     {LET end == run_server_chain_then_decide_fanout(chain, m)
      IN IF end.fanout THEN end.current ELSE Suppress : chain \in Chains}]
FaultRequests ==
  [c \in Conns |-> IF c = "p" THEN {Pub(2, 1), Ack("pubrel", 1), Plain("malformed"),
                                    Plain("disconnect")}
                   ELSE {Sub("f", 2), Sub("bad", 1), Ack("pubrec", 1), Plain("connect")}]

\* Two connections of client "x", each with a Will, and an observer.
SharedAuto == [c \in Conns |-> IF c = "s" THEN "s" ELSE "x"]
SharedConnects ==
  [c \in Conns |-> {Conn(SharedAuto[c], FALSE, IF c = "s" THEN None ELSE WillT)}]
SharedRequests ==
  [c \in Conns |-> IF c = "s" THEN {Sub("f", 1)} ELSE {Plain("disconnect")}]
=============================================================================
