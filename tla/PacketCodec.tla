---------------------------- MODULE PacketCodec ----------------------------
(***************************************************************************)
(* The bodies of packets: the parsers and the encoders of codec.rs.  A     *)
(* frame is the first byte and the body; the remaining length between them *)
(* is the subject of Framing.  Conventions are those of PropertyBlock.     *)
(***************************************************************************)
EXTENDS PropertyBlock

CONSTANT None

Frame(first, body) == [first |-> first, body |-> body]
Bit(x, k) == (x \div 2^k) % 2 = 1
Flag(on, k) == IF on THEN 2^k ELSE 0

\* ProtocolVersion.
Levels == [V311 |-> 4, V5 |-> 5]

\* PacketType.
PacketType == [
  connect |-> 1, connack |-> 2, publish |-> 3, puback |-> 4, pubrec |-> 5, pubrel |-> 6,
  pubcomp |-> 7, subscribe |-> 8, suback |-> 9, unsubscribe |-> 10, unsuback |-> 11,
  pingreq |-> 12, pingresp |-> 13, disconnect |-> 14]

\* ConnackReturnCode::to_v5_reason, and back.
to_v5_reason == <<132, 133, 136, 134, 135>>
from_v5_reason(x) ==
  IF x = 0 THEN {0} ELSE {i \in DOMAIN to_v5_reason : to_v5_reason[i] = x}

-----------------------------------------------------------------------------
(* Helpers.                                                                *)

\* Strings of packets, unlike those of properties, may hold a NUL.
read_arc_str(b, c) ==
  Then(read_prefixed_bytes(b, c), LAMBDA s, d : IF Utf8(s) THEN Ok(s, d) ELSE Fail)

\* write_arc_str and write_bytes: the length is cut to 16 bits, unchecked.
write_bytes(s) == to_be_bytes(Len(s) % 65536) \o s

\* A property block that only version 5 has.
read_properties(version, b, c) == IF version = "V5" THEN parse(b, c) ELSE Ok(default, c)
write_properties(version, p) == IF version = "V5" THEN encode(p) ELSE Ok(<<>>, 0)

ReadIf(present, r, c) == IF present THEN r ELSE Ok(None, c)
Written(bytes) == Ok(bytes, 0)
WriteIf(value) == IF value = None THEN <<>> ELSE write_bytes(value)

\* Ok only if the body has been used up.
Exactly(b, r) == Then(r, LAMBDA p, c : IF c = Len(b) + 1 THEN Ok(p, c) ELSE Fail)

-----------------------------------------------------------------------------
(* Parsers.                                                                *)

ProtocolName == <<0, 4, 77, 81, 84, 84>>

parse_will(version, flags, b, c) ==
  Then(read_properties(version, b, c), LAMBDA ps, d :
  Then(read_arc_str(b, d), LAMBDA topic, e :
  Then(read_prefixed_bytes(b, e), LAMBDA payload, f :
    IF (flags \div 8) % 4 = 3 THEN Fail
    ELSE Ok([properties |-> ps, topic |-> topic, payload |-> payload,
             qos |-> (flags \div 8) % 4, retain |-> Bit(flags, 5)], f))))

\* Bytes after the last field are ignored.
parse_connect(b) ==
  IF Len(b) < 10 \/ SubSeq(b, 1, 6) # ProtocolName \/ b[7] \notin {4, 5} THEN Fail
  ELSE LET version == IF b[7] = 5 THEN "V5" ELSE "V311"
           flags == b[8] IN
    Then(read_properties(version, b, 11), LAMBDA ps, c :
    Then(read_arc_str(b, c), LAMBDA client, d :
    Then(ReadIf(Bit(flags, 2), parse_will(version, flags, b, d), d), LAMBDA will, e :
    Then(ReadIf(Bit(flags, 7), read_arc_str(b, e), e), LAMBDA username, f :
    Then(ReadIf(Bit(flags, 6), read_prefixed_bytes(b, f), f), LAMBDA password, g :
      Ok([type |-> "connect", version |-> version, properties |-> ps, client_id |-> client,
          clean_session |-> Bit(flags, 1), keep_alive |-> 256 * b[9] + b[10],
          username |-> username, password |-> password, will |-> will], g))))))

parse_connack(b, version) ==
  IF Len(b) < 2 THEN Fail
  ELSE LET codes == IF version = "V311" THEN {b[2]} \cap 0..5 ELSE from_v5_reason(b[2]) IN
       IF codes = {} THEN Fail
       ELSE Exactly(b, Then(read_properties(version, b, 3), LAMBDA ps, c :
              Ok([type |-> "connack", properties |-> ps, session_present |-> Bit(b[1], 0),
                  return_code |-> CHOOSE x \in codes : TRUE], c)))

\* The payload is what is left of the body.
parse_publish(first, b, version) ==
  LET qos == (first \div 2) % 4 IN
  IF qos = 3 THEN Fail
  ELSE Then(read_arc_str(b, 1), LAMBDA topic, c :
       Then(ReadIf(qos # 0, read_u16(b, c), c), LAMBDA pid, d :
       Then(read_properties(version, b, d), LAMBDA ps, e :
         Ok([type |-> "publish", properties |-> ps, topic |-> topic,
             payload |-> SubSeq(b, e, Len(b)), dup |-> Bit(first, 3), qos |-> qos,
             retain |-> Bit(first, 0), packet_id |-> pid], e))))

\* Reason code and properties of version 5 are read and forgotten.
parse_ack_packet(type, first, b, version) ==
  IF \/ Len(b) < 2 \/ (version = "V311" /\ Len(b) # 2)
     \/ first % 16 # (IF type = "pubrel" THEN 2 ELSE 0)
  THEN Fail
  ELSE Exactly(b, Then(IF Len(b) > 3 THEN parse(b, 4) ELSE Ok(default, Len(b) + 1), LAMBDA ps, c :
         Ok([type |-> type, packet_id |-> 256 * b[1] + b[2]], c)))

read_subscription(version, b, c) ==
  Then(read_arc_str(b, c), LAMBDA topic, d :
  Then(read_u8(b, d), LAMBDA options, e :
    IF \/ version = "V311" /\ options > 2
       \/ version = "V5" /\ (options >= 64 \/ (options \div 16) % 4 = 3)
       \/ options % 4 = 3
    THEN Fail ELSE Ok([topic |-> topic, qos |-> options % 4], e)))

\* Packet id and, in version 5, properties that are forgotten.
read_id(version, b) ==
  Then(read_u16(b, 1), LAMBDA pid, c :
  Then(read_properties(version, b, c), LAMBDA ps, d : Ok(pid, d)))

parse_subscribe(b, version) ==
  IF Len(b) < 5 THEN Fail
  ELSE Then(read_id(version, b), LAMBDA pid, c :
       Then(ReadAll(b, c, LAMBDA t, d : read_subscription(version, t, d)), LAMBDA subs, e :
         Ok([type |-> "subscribe", packet_id |-> pid, subscriptions |-> subs], e)))

\* SubackCode::from_u8; version 5 has more codes for a failure.
suback_code(version, x) ==
  IF x \in {0, 1, 2, 128} THEN {x} ELSE IF version = "V5" /\ x >= 128 THEN {128} ELSE {}

parse_suback(b, version) ==
  IF Len(b) < 3 THEN Fail
  ELSE Then(read_id(version, b), LAMBDA pid, c :
         LET codes == [i \in 1..Len(b) - c + 1 |-> suback_code(version, b[c + i - 1])] IN
         IF {} \in Range(codes) THEN Fail
         ELSE Ok([type |-> "suback", packet_id |-> pid,
                  return_codes |-> [i \in DOMAIN codes |-> CHOOSE x \in codes[i] : TRUE]], Len(b) + 1))

parse_unsubscribe(b, version) ==
  IF Len(b) < 4 THEN Fail
  ELSE Then(read_id(version, b), LAMBDA pid, c :
       Then(ReadAll(b, c, read_arc_str), LAMBDA topics, e :
         Ok([type |-> "unsubscribe", packet_id |-> pid, topics |-> topics], e)))

parse_unsuback(b, version) ==
  IF Len(b) < 2 \/ (version = "V311" /\ Len(b) # 2) THEN Fail
  ELSE Then(read_properties(version, b, 3), LAMBDA ps, c :
         Ok([type |-> "unsuback", packet_id |-> 256 * b[1] + b[2],
             reason_codes |-> IF version = "V5" THEN SubSeq(b, c, Len(b)) ELSE <<>>], Len(b) + 1))

\* A DISCONNECT of version 5 may have a reason code and properties.
parse_disconnect(b, version) ==
  IF version = "V311" /\ b # <<>> THEN Fail
  ELSE Exactly(b, Then(IF Len(b) > 1 THEN parse(b, 2) ELSE Ok(default, Len(b) + 1), LAMBDA ps, c :
         Ok([type |-> "disconnect"], c)))

require_empty_body(type, b) == IF b = <<>> THEN Ok([type |-> type], 1) ELSE Fail

parse_packet(f, version) ==
  LET types == {t \in DOMAIN PacketType : PacketType[t] = f.first \div 16}
      type == CHOOSE t \in types : TRUE IN
  CASE types = {} -> Fail
    [] types = {"connect"} -> parse_connect(f.body)
    [] types = {"connack"} -> parse_connack(f.body, version)
    [] types = {"publish"} -> parse_publish(f.first, f.body, version)
    [] types \in SUBSET {"puback", "pubrec", "pubrel", "pubcomp"} ->
         parse_ack_packet(type, f.first, f.body, version)
    [] types = {"subscribe"} -> parse_subscribe(f.body, version)
    [] types = {"suback"} -> parse_suback(f.body, version)
    [] types = {"unsubscribe"} -> parse_unsubscribe(f.body, version)
    [] types = {"unsuback"} -> parse_unsuback(f.body, version)
    [] types = {"disconnect"} -> parse_disconnect(f.body, version)
    [] OTHER -> require_empty_body(type, f.body)

-----------------------------------------------------------------------------
(* Encoders.                                                               *)

\* Mutant: the QoS of the will is not shifted into its place.
connect_flags_unshifted(p) ==
  Flag(p.clean_session, 1) + Flag(p.username # None, 7) + Flag(p.password # None, 6)
  + (IF p.will = None THEN 0 ELSE Flag(TRUE, 2) + p.will.qos + Flag(p.will.retain, 5))

connect_flags(p) ==
  Flag(p.clean_session, 1) + Flag(p.username # None, 7) + Flag(p.password # None, 6)
  + (IF p.will = None THEN 0 ELSE Flag(TRUE, 2) + 8 * p.will.qos + Flag(p.will.retain, 5))

encode_connect(p) ==
  Then(write_properties(p.version, p.properties), LAMBDA ps, c :
  Then(IF p.will = None THEN Written(<<>>)
       ELSE Then(write_properties(p.version, p.will.properties), LAMBDA ws, d :
              Written(ws \o write_bytes(p.will.topic) \o write_bytes(p.will.payload))), LAMBDA will, e :
    Written(Frame(16, ProtocolName \o <<Levels[p.version], connect_flags(p)>>
                      \o to_be_bytes(p.keep_alive) \o ps \o write_bytes(p.client_id) \o will
                      \o WriteIf(p.username) \o WriteIf(p.password)))))

encode_connack(p, version) ==
  LET present == IF p.session_present THEN 1 ELSE 0 IN
  IF version = "V311" THEN Written(Frame(32, <<present, p.return_code>>))
  ELSE Then(encode(p.properties), LAMBDA ps, c :
         Written(Frame(32, <<present, IF p.return_code = 0 THEN 0 ELSE to_v5_reason[p.return_code]>> \o ps)))

pack_publish_flags(p) == Flag(p.dup, 3) + 2 * p.qos + Flag(p.retain, 0)

\* A QoS 1 or 2 packet without an id is written without one.
encode_publish(p, version) ==
  Then(write_properties(version, p.properties), LAMBDA ps, c :
    Written(Frame(48 + pack_publish_flags(p),
      write_bytes(p.topic)
      \o (IF p.qos # 0 /\ p.packet_id # None THEN to_be_bytes(p.packet_id) ELSE <<>>)
      \o ps \o p.payload)))

\* Mutant: the properties come before the packet id.
write_publish_packet_swapped(p, version) ==
  Then(write_properties(version, p.properties), LAMBDA ps, c :
    IF p.qos # 0 /\ p.packet_id = None THEN Fail
    ELSE Written(Frame(48 + pack_publish_flags(p),
           write_bytes(p.topic) \o ps \o (IF p.qos # 0 THEN to_be_bytes(p.packet_id) ELSE <<>>)
           \o p.payload)))

\* A QoS 1 or 2 packet without an id is refused.
write_publish_packet(p, version) ==
  Then(write_properties(version, p.properties), LAMBDA ps, c :
    IF p.qos # 0 /\ p.packet_id = None THEN Fail
    ELSE Written(Frame(48 + pack_publish_flags(p),
           write_bytes(p.topic) \o (IF p.qos # 0 THEN to_be_bytes(p.packet_id) ELSE <<>>)
           \o ps \o p.payload)))

encode_ack(type, p) ==
  Written(Frame(16 * PacketType[type] + (IF type = "pubrel" THEN 2 ELSE 0), to_be_bytes(p.packet_id)))

\* Packet id, an empty block of properties in version 5, and what follows.
WithId(first, p, version, rest) ==
  Then(write_properties(version, default), LAMBDA ps, c :
    Written(Frame(first, to_be_bytes(p.packet_id) \o ps \o rest)))

encode_subscribe(p, version) ==
  WithId(130, p, version,
         FlattenSeq([i \in DOMAIN p.subscriptions |->
                   write_bytes(p.subscriptions[i].topic) \o <<p.subscriptions[i].qos>>]))

encode_suback(p, version) == WithId(144, p, version, p.return_codes)

encode_unsubscribe(p, version) ==
  WithId(162, p, version, FlattenSeq([i \in DOMAIN p.topics |-> write_bytes(p.topics[i])]))

encode_unsuback(p, version) ==
  Written(Frame(176, to_be_bytes(p.packet_id)
                     \o (IF version = "V5" THEN <<0>> \o p.reason_codes ELSE <<>>)))

encode_packet(p, version) ==
  CASE p.type = "connect" -> encode_connect(p)
    [] p.type = "connack" -> encode_connack(p, version)
    [] p.type = "publish" -> encode_publish(p, version)
    [] p.type \in {"puback", "pubrec", "pubrel", "pubcomp"} -> encode_ack(p.type, p)
    [] p.type = "subscribe" -> encode_subscribe(p, version)
    [] p.type = "suback" -> encode_suback(p, version)
    [] p.type = "unsubscribe" -> encode_unsubscribe(p, version)
    [] p.type = "unsuback" -> encode_unsuback(p, version)
    [] OTHER -> Written(Frame(16 * PacketType[p.type], <<>>))
=============================================================================
