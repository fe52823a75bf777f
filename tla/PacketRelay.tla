---------------------------- MODULE PacketRelay ----------------------------
(***************************************************************************)
(* A packet on its way: a writer actor encodes it, the task at the other   *)
(* end parses it, and the broker sends a PUBLISH on to a subscriber, whose *)
(* connection may speak the other version.  The first hop also starts from *)
(* frames that none of this crate's encoders wrote.                        *)
(***************************************************************************)
EXTENDS PacketCodec

CONSTANTS
  Sent,     \* packets that are sent
  Raw,      \* frames that arrive
  SubId     \* the packet id the broker allocates on the second hop

VARIABLES
  stage,    \* "write", "read", "got", "refused", or "dead": the writer actor is gone
  version,  \* of the connection
  packet,   \* the packet being sent, None for a raw frame
  frame,    \* what is on the wire
  got,      \* the packet parsed
  origin    \* on the second hop, how the message had come in

relayVars == <<stage, version, packet, frame, got, origin>>

RelayInit ==
  /\ version \in DOMAIN Levels /\ got = None /\ origin = None
  /\ \/ stage = "write" /\ packet \in Sent /\ frame = None
     \/ stage = "read" /\ packet = None /\ frame \in Raw

\* writer_actor, one command; an error ends the actor.
Writes ==
  /\ stage = "write"
  /\ LET w == IF packet.type = "publish" THEN write_publish_packet(packet, version)
              ELSE encode_packet(packet, version) IN
     /\ stage' = IF w.ok THEN "read" ELSE "dead"
     /\ frame' = IF w.ok THEN w.val ELSE frame
  /\ UNCHANGED <<version, packet, got, origin>>

\* read_packet, the end of it.
Parses ==
  /\ stage = "read"
  /\ LET r == parse_packet(frame, version) IN
     /\ stage' = IF r.ok THEN "got" ELSE "refused"
     /\ got' = IF r.ok THEN r.val ELSE got
  /\ UNCHANGED <<version, packet, frame, origin>>

\* Broker::publish, for a subscription with QoS q on a connection of version v.
Forwards(v, q) ==
  /\ stage = "got" /\ origin = None /\ got.type = "publish"
  /\ LET qos == IF got.qos < q THEN got.qos ELSE q IN
     packet' = [got EXCEPT !.dup = FALSE, !.retain = FALSE, !.qos = qos,
                           !.packet_id = IF qos > 0 THEN SubId ELSE None]
  /\ origin' = [frame |-> frame, version |-> version, packet |-> got]
  /\ stage' = "write" /\ version' = v /\ got' = None /\ frame' = None

RelayNext == Writes \/ Parses \/ \E v \in DOMAIN Levels, q \in 0..2 : Forwards(v, q)

-----------------------------------------------------------------------------
(* Properties.                                                             *)

Publish(p) == p # None /\ p.type = "publish"

\* What a version carries of a packet: 3.1.1 has neither properties nor the
\* reason codes of UNSUBACK.
Carried(p) ==
  IF version = "V5" THEN p
  ELSE CASE p.type \in {"publish", "connack"} -> [p EXCEPT !.properties = default]
         [] p.type = "unsuback" -> [p EXCEPT !.reason_codes = <<>>]
         [] OTHER -> p

\* parse_packet inverts the encoders: what was written is read, on both hops,
\* in both versions, strings of the largest length included.
WireRoundTrip ==
  packet # None /\ stage \in {"got", "refused"} => stage = "got" /\ got = Carried(packet)

\* What the broker could read it can write: no PUBLISH that parse_publish let in
\* makes write_publish_packet fail, which would end a subscriber's connection.
RelaySurvives == origin # None => stage \notin {"dead", "refused"}

\* Between two connections of version 5 nothing of a message is dropped or
\* spelled in another way: Properties::parse lets in no block that
\* Properties::encode would write with another length.
RelaySameSize ==
  (/\ origin # None /\ frame # None /\ version = "V5" /\ origin.version = "V5"
   /\ packet.qos = origin.packet.qos) =>
    Len(frame.body) = Len(origin.frame.body)

\* "Without this slice, a malformed value could consume bytes from the payload":
\* the payload is all that follows the declared length of the property block.
PayloadFollowsBlock ==
  stage = "got" /\ version = "V5" /\ Publish(got) =>
    LET b == frame.body
        length == read_vbi(b, 3 + Len(got.topic) + (IF got.qos = 0 THEN 0 ELSE 2))
    IN got.payload = SubSeq(b, length.at + length.val, Len(b))

\* The optimised path of the writer actor and encode_packet write the same
\* bytes; where encode_publish would leave out a packet id, the actor refuses.
WritersAgree ==
  stage = "write" /\ Publish(packet) =>
    LET w == write_publish_packet(packet, version) IN
    IF packet.qos > 0 /\ packet.packet_id = None THEN ~w.ok
    ELSE w = encode_publish(packet, version)
=============================================================================
