--------------------------- MODULE MCBrokerFanout ---------------------------
(***************************************************************************)
(* A publisher "p" and two connections of one subscribing client "s", the  *)
(* second of which takes the session over while a message is fanned out.   *)
(***************************************************************************)
EXTENDS MqttBrokerFanout

FanoutMatching == [f \in Filters |-> IF f = "f" THEN {"t"} ELSE {"u"}]
FanoutChain == [m \in Topics \X QoS |-> {m}]
FanoutAuto == [c \in Conns |-> IF c = "p" THEN "p" ELSE "s"]
FanoutConnects ==
  [c \in Conns |-> {[id |-> FanoutAuto[c], clean |-> c = "s1", will |-> None]}]
FanoutRequests ==
  [c \in Conns |->
     IF c = "p" THEN {[type |-> "publish", topic |-> "t", qos |-> 0, id |-> 0]}
     ELSE {[type |-> "subscribe", list |-> <<<<"f", 0>>, <<"g", 0>>>>],
           [type |-> "unsubscribe", list |-> <<<<"f", None>>>>]}]
=============================================================================
