------------------------------ MODULE MCClient ------------------------------
(***************************************************************************)
(* Instances of MqttClient.                                                *)
(***************************************************************************)
EXTENDS MqttClient, TLC

CONSTANTS a, b, k, l, m, n

Restricted(f, dom) == [x \in dom |-> f[x]]

CallsOps == Restricted(a :> {"qos2"} @@ b :> {"qos1"}, Ops)
CallsLive == [o \in Ops |-> {"qos0", "unsubscribe"}]
InboundQos == Restricted(l :> 2 @@ m :> 2 @@ n :> 1 @@ k :> 0, Inbound)
InboundId == Restricted(l :> 1 @@ m :> 1 @@ n :> 2 @@ k :> 0, Inbound)
=============================================================================
