----------------------------- MODULE MCChannel -----------------------------
(***************************************************************************)
(* Instances of MqttChannel: two handles, three packets.                   *)
(***************************************************************************)
EXTENDS MqttChannel
=============================================================================
