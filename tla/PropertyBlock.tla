---------------------------- MODULE PropertyBlock ----------------------------
(***************************************************************************)
(* properties.rs: the property blocks of MQTT 5.  Bytes are 0..255 and a   *)
(* body is a sequence of them.  A reader takes a body and the position of  *)
(* the next byte, and returns a value with the position after it, or       *)
(* fails; which error it fails with is left out.                           *)
(*                                                                         *)
(* A block is a function from the identifiers that are present to their    *)
(* values.  A u32 is kept as its four bytes, and an identifier that may    *)
(* repeat has the sequence of its values.                                  *)
(***************************************************************************)
EXTENDS Naturals, Sequences, SequencesExt, FiniteSetsExt

Ok(v, c) == [ok |-> TRUE, val |-> v, at |-> c]
Fail == [ok |-> FALSE]

\* The `?` operator: go on with the value and the position, or fail.
Then(r, Rest(_, _)) == IF r.ok THEN Rest(r.val, r.at) ELSE Fail

\* Items read one after the other until the body ends.
ReadAll(b, c, Item(_, _)) ==
  LET all[e \in c..Len(b) + 1] ==
        IF e > Len(b) THEN Ok(<<>>, e)
        ELSE Then(Item(b, e), LAMBDA x, f :
               Then(all[f], LAMBDA xs, g : Ok(<<x>> \o xs, g)))
  IN all[c]

-----------------------------------------------------------------------------
(* Scalars.                                                                *)

MAX_VARIABLE_BYTE_INTEGER == 268435455

read_array(b, c, n) == IF c + n <= Len(b) + 1 THEN Ok(SubSeq(b, c, c + n - 1), c + n) ELSE Fail

read_u8(b, c) == IF c <= Len(b) THEN Ok(b[c], c + 1) ELSE Fail

to_be_bytes(n) == <<n \div 256, n % 256>>

read_u16(b, c) == Then(read_array(b, c, 2), LAMBDA s, d : Ok(256 * s[1] + s[2], d))

read_prefixed_bytes(b, c) == Then(read_u16(b, c), LAMBDA n, d : read_array(b, d, n))

\* from_utf8 over the bodies of this model, in which no byte above 127 starts
\* or continues a character.
Utf8(s) == \A i \in DOMAIN s : s[i] < 128

validate_string(s) == \A i \in DOMAIN s : s[i] # 0

read_string(b, c) ==
  Then(read_prefixed_bytes(b, c), LAMBDA s, d :
    IF Utf8(s) /\ validate_string(s) THEN Ok(s, d) ELSE Fail)

\* Up to four bytes, the last one without the continuation bit; a spelling
\* longer than the value needs is refused.
read_vbi(b, c) ==
  LET ends == {i \in 0..3 : /\ c + i <= Len(b) /\ b[c + i] < 128
                            /\ \A j \in 0..i - 1 : b[c + j] >= 128} IN
  IF ends = {} THEN Fail
  ELSE LET last == CHOOSE i \in ends : TRUE
           value == MapThenSumSet(LAMBDA j : (b[c + j] % 128) * 128^j, 0..last)
       IN IF last > 0 /\ value < 128^last THEN Fail ELSE Ok(value, c + last + 1)

write_vbi(n) ==
  LET digits[v \in Nat] == IF v < 128 THEN <<v>> ELSE <<128 + (v % 128)>> \o digits[v \div 128]
  IN IF n > MAX_VARIABLE_BYTE_INTEGER THEN Fail ELSE Ok(digits[n], 0)

write_prefixed_bytes(s) == IF Len(s) > 65535 THEN Fail ELSE Ok(to_be_bytes(Len(s)) \o s, 0)

write_string(s) == IF validate_string(s) THEN write_prefixed_bytes(s) ELSE Fail

-----------------------------------------------------------------------------
(* The identifiers and what follows each of them.                          *)

id == [
  PAYLOAD_FORMAT_INDICATOR |-> 1,      MESSAGE_EXPIRY_INTERVAL |-> 2,
  CONTENT_TYPE |-> 3,                  RESPONSE_TOPIC |-> 8,
  CORRELATION_DATA |-> 9,              SUBSCRIPTION_IDENTIFIER |-> 11,
  SESSION_EXPIRY_INTERVAL |-> 17,      ASSIGNED_CLIENT_IDENTIFIER |-> 18,
  SERVER_KEEP_ALIVE |-> 19,            AUTHENTICATION_METHOD |-> 21,
  AUTHENTICATION_DATA |-> 22,          REQUEST_PROBLEM_INFORMATION |-> 23,
  WILL_DELAY_INTERVAL |-> 24,          REQUEST_RESPONSE_INFORMATION |-> 25,
  RESPONSE_INFORMATION |-> 26,         SERVER_REFERENCE |-> 28,
  REASON_STRING |-> 31,                RECEIVE_MAXIMUM |-> 33,
  TOPIC_ALIAS_MAXIMUM |-> 34,          TOPIC_ALIAS |-> 35,
  MAXIMUM_QOS |-> 36,                  RETAIN_AVAILABLE |-> 37,
  USER_PROPERTY |-> 38,                MAXIMUM_PACKET_SIZE |-> 39,
  WILDCARD_SUBSCRIPTION_AVAILABLE |-> 40, SUBSCRIPTION_IDENTIFIER_AVAILABLE |-> 41,
  SHARED_SUBSCRIPTION_AVAILABLE |-> 42]

repeatable == {id.USER_PROPERTY, id.SUBSCRIPTION_IDENTIFIER}

\* The arms of the match in Properties::parse.
read_value(i, b, c) ==
  CASE i \in {id.PAYLOAD_FORMAT_INDICATOR, id.REQUEST_PROBLEM_INFORMATION,
              id.REQUEST_RESPONSE_INFORMATION, id.MAXIMUM_QOS, id.RETAIN_AVAILABLE,
              id.WILDCARD_SUBSCRIPTION_AVAILABLE, id.SUBSCRIPTION_IDENTIFIER_AVAILABLE,
              id.SHARED_SUBSCRIPTION_AVAILABLE} -> read_u8(b, c)
    [] i \in {id.MESSAGE_EXPIRY_INTERVAL, id.SESSION_EXPIRY_INTERVAL,
              id.WILL_DELAY_INTERVAL, id.MAXIMUM_PACKET_SIZE} -> read_array(b, c, 4)
    [] i \in {id.SERVER_KEEP_ALIVE, id.RECEIVE_MAXIMUM,
              id.TOPIC_ALIAS_MAXIMUM, id.TOPIC_ALIAS} -> read_u16(b, c)
    [] i \in {id.CONTENT_TYPE, id.RESPONSE_TOPIC, id.ASSIGNED_CLIENT_IDENTIFIER,
              id.AUTHENTICATION_METHOD, id.RESPONSE_INFORMATION,
              id.SERVER_REFERENCE, id.REASON_STRING} -> read_string(b, c)
    [] i \in {id.CORRELATION_DATA, id.AUTHENTICATION_DATA} -> read_prefixed_bytes(b, c)
    [] i = id.SUBSCRIPTION_IDENTIFIER -> read_vbi(b, c)
    [] i = id.USER_PROPERTY ->
         Then(read_string(b, c), LAMBDA k, d :
           Then(read_string(b, d), LAMBDA v, e : Ok(<<k, v>>, e)))
    [] OTHER -> Fail

\* The order and the types of Properties::encode_values.
encode_order == <<
  <<id.PAYLOAD_FORMAT_INDICATOR, "u8">>,      <<id.MESSAGE_EXPIRY_INTERVAL, "u32">>,
  <<id.CONTENT_TYPE, "string">>,              <<id.RESPONSE_TOPIC, "string">>,
  <<id.CORRELATION_DATA, "binary">>,          <<id.SUBSCRIPTION_IDENTIFIER, "vbi">>,
  <<id.SESSION_EXPIRY_INTERVAL, "u32">>,      <<id.ASSIGNED_CLIENT_IDENTIFIER, "string">>,
  <<id.SERVER_KEEP_ALIVE, "u16">>,            <<id.AUTHENTICATION_METHOD, "string">>,
  <<id.AUTHENTICATION_DATA, "binary">>,       <<id.REQUEST_PROBLEM_INFORMATION, "u8">>,
  <<id.WILL_DELAY_INTERVAL, "u32">>,          <<id.REQUEST_RESPONSE_INFORMATION, "u8">>,
  <<id.RESPONSE_INFORMATION, "string">>,      <<id.SERVER_REFERENCE, "string">>,
  <<id.REASON_STRING, "string">>,             <<id.RECEIVE_MAXIMUM, "u16">>,
  <<id.TOPIC_ALIAS_MAXIMUM, "u16">>,          <<id.TOPIC_ALIAS, "u16">>,
  <<id.MAXIMUM_QOS, "u8">>,                   <<id.RETAIN_AVAILABLE, "u8">>,
  <<id.USER_PROPERTY, "pair">>,               <<id.MAXIMUM_PACKET_SIZE, "u32">>,
  <<id.WILDCARD_SUBSCRIPTION_AVAILABLE, "u8">>, <<id.SUBSCRIPTION_IDENTIFIER_AVAILABLE, "u8">>,
  <<id.SHARED_SUBSCRIPTION_AVAILABLE, "u8">> >>

-----------------------------------------------------------------------------
(* Properties.                                                             *)

default == <<>>

\* validate_publish_topic on bytes: 43 is '+' and 35 is '#'.
valid_response_topic(s) == s # <<>> /\ Len(s) <= 65535 /\ {43, 35} \cap Range(s) = {}

validate_values(p) ==
  LET flags == {id.PAYLOAD_FORMAT_INDICATOR, id.REQUEST_PROBLEM_INFORMATION,
                id.REQUEST_RESPONSE_INFORMATION, id.MAXIMUM_QOS, id.RETAIN_AVAILABLE,
                id.WILDCARD_SUBSCRIPTION_AVAILABLE, id.SUBSCRIPTION_IDENTIFIER_AVAILABLE,
                id.SHARED_SUBSCRIPTION_AVAILABLE} IN
  /\ \A i \in flags \cap DOMAIN p : p[i] <= 1
  /\ \A i \in {id.RECEIVE_MAXIMUM, id.TOPIC_ALIAS} \cap DOMAIN p : p[i] # 0
  /\ \A i \in {id.MAXIMUM_PACKET_SIZE} \cap DOMAIN p : p[i] # <<0, 0, 0, 0>>
  /\ \A i \in {id.SUBSCRIPTION_IDENTIFIER} \cap DOMAIN p :
       \A n \in Range(p[i]) : n # 0 /\ n <= MAX_VARIABLE_BYTE_INTEGER
  /\ id.AUTHENTICATION_DATA \in DOMAIN p => id.AUTHENTICATION_METHOD \in DOMAIN p
  /\ \A i \in {id.RESPONSE_TOPIC} \cap DOMAIN p : valid_response_topic(p[i])

\* One turn of the loop of parse: an identifier and its value.
read_property(b, c) ==
  Then(read_u8(b, c), LAMBDA i, d : Then(read_value(i, b, d), LAMBDA v, e : Ok(<<i, v>>, e)))

\* Mutant: a property that comes again is not refused.
unrepeated_never(list) == TRUE

\* `seen`: an identifier that may not repeat occurs once.
unrepeated(list) ==
  \A j, k \in DOMAIN list : j < k /\ list[j][1] = list[k][1] => list[j][1] \in repeatable

\* The structure the values read are stored in.
collect(list) ==
  [i \in {list[j][1] : j \in DOMAIN list} |->
     LET values == SelectSeq(list, LAMBDA pv : pv[1] = i) IN
     IF i \in repeatable THEN [j \in DOMAIN values |-> values[j][2]] ELSE values[1][2]]

\* Mutant: values are read from the whole body.
parse_unconfined(b, c) ==
  Then(read_vbi(b, c), LAMBDA n, d :
    IF d + n > Len(b) + 1 THEN Fail
    ELSE LET list[e \in d..Len(b) + 1] ==
               IF e >= d + n THEN Ok(<<>>, e)
               ELSE Then(read_property(b, e), LAMBDA x, f :
                      Then(list[f], LAMBDA xs, g : Ok(<<x>> \o xs, g)))
         IN Then(list[d], LAMBDA xs, e :
              IF unrepeated(xs) /\ validate_values(collect(xs)) THEN Ok(collect(xs), e) ELSE Fail))

\* Mutant: values are only looked at when a block is written.
parse_unvalidated(b, c) ==
  Then(read_vbi(b, c), LAMBDA n, d :
    Then(read_array(b, d, n), LAMBDA property_body, end :
      Then(ReadAll(property_body, 1, read_property), LAMBDA list, e :
        IF unrepeated(list) THEN Ok(collect(list), end) ELSE Fail)))

\* A length, and that many bytes of properties: nothing outside them is read.
parse(b, c) ==
  Then(read_vbi(b, c), LAMBDA n, d :
    Then(read_array(b, d, n), LAMBDA property_body, end :
      Then(ReadAll(property_body, 1, read_property), LAMBDA list, e :
        IF unrepeated(list) /\ validate_values(collect(list))
        THEN Ok(collect(list), end) ELSE Fail)))

write_value(kind, v) ==
  CASE kind = "u8" -> Ok(<<v>>, 0)
    [] kind = "u16" -> Ok(to_be_bytes(v), 0)
    [] kind = "u32" -> Ok(v, 0)
    [] kind = "vbi" -> write_vbi(v)
    [] kind = "string" -> write_string(v)
    [] kind = "binary" -> write_prefixed_bytes(v)
    [] kind = "pair" -> Then(write_string(v[1]), LAMBDA k, d :
                          Then(write_string(v[2]), LAMBDA w, e : Ok(k \o w, 0)))

\* Every value that is present, behind its identifier.
encode_values(p) ==
  LET field(entry) ==
        LET i == entry[1]
            values == IF i \notin DOMAIN p THEN <<>> ELSE IF i \in repeatable THEN p[i] ELSE <<p[i]>>
        IN [j \in DOMAIN values |-> [id |-> i, written |-> write_value(entry[2], values[j])]]
      fields == FlattenSeq([j \in DOMAIN encode_order |-> field(encode_order[j])])
  IN IF \E j \in DOMAIN fields : ~fields[j].written.ok THEN Fail
     ELSE Ok(FlattenSeq([j \in DOMAIN fields |-> <<fields[j].id>> \o fields[j].written.val]), 0)

encode(p) ==
  IF ~validate_values(p) THEN Fail
  ELSE Then(encode_values(p), LAMBDA s, d :
         Then(write_vbi(Len(s)), LAMBDA n, e : Ok(n \o s, 0)))
=============================================================================
