------------------------------ MODULE MCCodec ------------------------------
(***************************************************************************)
(* The sequential code of the crate, one input for each behaviour: either  *)
(* filter_matches and the topic grammars on strings of up to MaxSegs       *)
(* segments, or a packet on its way.  "a+" stands for the segments that    *)
(* mix a wildcard with other characters, "$b" for those that begin with a  *)
(* dollar sign.                                                            *)
(***************************************************************************)
EXTENDS FilterMatch, TopicGrammar, PacketRelay

CONSTANTS MaxSegs, MaxBlock, MaxBody

MCWidth == [s \in Segments |-> CASE s = "" -> 0 [] s \in {"$b", "a+"} -> 2 [] OTHER -> 1]
Strings == UNION {[1..n -> Segments] : n \in 1..MaxSegs}
AcceptedFilters == {s \in Strings : validate_subscribe_filter(s) = "none"}

SeqsUpTo(n, S) == UNION {[1..m -> S] : m \in 0..n}

\* 97 is 'a', 47 is '/'; one text has the largest length.
Texts == {<<>>, <<97>>, <<97, 47, 97>>}
Longest == [i \in 1..65535 |-> 97]

\* Two blocks that have every property between them.
SampleValue(kind) ==
  CASE kind = "u8" -> 1 [] kind = "u16" -> 258 [] kind = "u32" -> <<0, 1, 2, 255>>
    [] kind = "vbi" -> <<1, 127, 128, 16384, MAX_VARIABLE_BYTE_INTEGER>>
    [] kind = "pair" -> << <<<<97>>, <<>>>>, <<<<97>>, <<98>>>> >>
    [] OTHER -> <<97, 98>>
SampleBlock(js) ==
  [i \in {encode_order[j][1] : j \in js} |->
     SampleValue((CHOOSE e \in Range(encode_order) : e[1] = i)[2])]
Samples == {SampleBlock(1..13), SampleBlock(14..Len(encode_order))}
Blocks == Samples \cup {default, (id.CORRELATION_DATA :> [i \in 1..130 |-> 0])}

BlocksOf(v) == IF v = "V5" THEN Samples ELSE {default}
WillsOf(v) == [properties : BlocksOf(v), topic : {<<97>>}, payload : {<<>>, <<0, 255>>},
               qos : 0..2, retain : BOOLEAN]
ConnectsOf(v) == [type : {"connect"}, version : {v}, properties : BlocksOf(v), client_id : {<<>>, <<97>>},
                  clean_session : BOOLEAN, keep_alive : {0, 300}, username : {None, <<97>>},
                  password : {None, <<0>>}, will : {None} \cup WillsOf(v)]
Publishes == {p \in [type : {"publish"}, properties : Blocks, topic : Texts, payload : {<<>>, <<0, 255>>},
                     dup : BOOLEAN, qos : 0..2, retain : BOOLEAN, packet_id : {None, 1, 65535}] :
                (p.qos = 0) = (p.packet_id = None)}
Subscriptions == [topic : Texts, qos : 0..2]
Others ==
       [type : {"connack"}, properties : Blocks, session_present : BOOLEAN, return_code : 0..5]
  \cup [type : {"puback", "pubrec", "pubrel", "pubcomp"}, packet_id : {1, 256}]
  \cup [type : {"subscribe"}, packet_id : {1}, subscriptions : SeqsUpTo(2, Subscriptions) \ {<<>>}]
  \cup [type : {"suback"}, packet_id : {1}, return_codes : SeqsUpTo(2, {0, 1, 2, 128}) \ {<<>>}]
  \cup [type : {"unsubscribe"}, packet_id : {1}, topics : SeqsUpTo(2, Texts) \ {<<>>}]
  \cup [type : {"unsuback"}, packet_id : {1}, reason_codes : SeqsUpTo(2, {0, 17})]
  \cup [type : {"pingreq", "pingresp", "disconnect"}]
LongTopic == [type |-> "publish", properties |-> default, topic |-> Longest, payload |-> <<0>>,
              dup |-> FALSE, qos |-> 1, retain |-> FALSE, packet_id |-> 1]
\* What a user of send_publish may pass and the writer refuses: no packet id, or
\* a property that has no such value.
Unwritable == {[LongTopic EXCEPT !.topic = <<97>>, !.packet_id = None],
               [LongTopic EXCEPT !.topic = <<97>>, !.properties = (id.TOPIC_ALIAS :> 0)]}
MCSent == Publishes \cup {LongTopic} \cup Unwritable \cup ConnectsOf("V311") \cup ConnectsOf("V5") \cup Others

\* PUBLISH frames with any block of up to MaxBlock bytes behind a length that is
\* right, too small, too large or spelled with a byte too many.
BlockBytes == {0, 1, 8, 11, 22, 35, 128}
Lengths(n) == {<<n>>, <<n + 1>>, <<128 + n, 0>>} \cup (IF n = 0 THEN {} ELSE {<<n - 1>>})
RawPublishes ==
  UNION {{Frame(48, <<0, 1, 97>> \o l \o s \o <<0, 35>>) : l \in Lengths(Len(s))} :
           s \in SeqsUpTo(MaxBlock, BlockBytes)}

\* Frames of every type and flags with any short body.
Bodies == SeqsUpTo(MaxBody, {0, 1, 2, 128})
MCRaw == RawPublishes \cup {Frame(first, body) : first \in 0..255, body \in Bodies}

-----------------------------------------------------------------------------
(* The input is either a filter and a topic or a packet.                   *)

NoMatching == filter_segs = <<"a">> /\ topic_segs = <<"a">> /\ f = 1 /\ t = 1 /\ result = "true"
NoPacket ==
  /\ stage = "refused" /\ version = "V311" /\ packet = None /\ frame = Frame(0, <<>>)
  /\ got = None /\ origin = None

CodecInit == (Init /\ NoPacket) \/ (NoMatching /\ RelayInit)
CodecNext == (Next /\ UNCHANGED relayVars) \/ (RelayNext /\ UNCHANGED vars)
CodecSpec == CodecInit /\ [][CodecNext]_<<vars, relayVars>>

\* parse_subscribe_filter and validate_subscribe_filter accept the same strings
\* and report the same violation of a string that has several; so do
\* parse_publish_topic and validate_publish_topic.
GrammarsAgree == SubscribeGrammarsAgree(topic_segs) /\ PublishGrammarsAgree(topic_segs)

\* A filter that parse_subscribe_filter accepts and path_to_wire_filter writes
\* back is the same filter.
FilterRoundTrip == RoundTrip(topic_segs)
=============================================================================
