------------------------------- MODULE Framing -------------------------------
(***************************************************************************)
(* How a byte stream is cut into packets: read_packet, which the handlers  *)
(* await, beside decode_packet_from_bytes, which works on a buffer, both   *)
(* fed the same bytes.  The client's loop drops the future of read_packet  *)
(* when its keep-alive tick wins the select!, and with it the bytes that   *)
(* future had taken from the reader.                                       *)
(*                                                                         *)
(* A byte is a digit and a continuation bit: 7 and 1 bits in the code,     *)
(* Base values here.  What a body says is left to the packet parsers.      *)
(***************************************************************************)
EXTENDS Naturals, Sequences, SequencesExt

CONSTANTS
  Base,        \* values of a length digit (128)
  Digits,      \* length bytes a packet may have (4)
  Types,       \* bytes that PacketType::try_from accepts as a first byte
  FrameSeqs,   \* sequences of packets to encode and send
  RawStreams,  \* byte streams that no encoder need have produced
  Cancels,     \* bound on the ticks that interrupt a read
  None

ASSUME FramingAssumption == Base \in Nat \ {0, 1} /\ Digits \in Nat \ {0} /\ Cancels \in Nat

VARIABLES
  sent,      \* the packets behind the stream, None for a raw one
  stream,    \* bytes the reader has not taken yet
  at,        \* where read_packet is: "first", "length", "body" or "failed"
  first, value, multiplier, digit, body,  \* its locals
  got,       \* packets it has returned
  buf,       \* the buffer of decode_packet_from_bytes
  decoded,   \* packets that one has returned
  refused,   \* it has returned an error
  ticks,
  torn       \* history: a tick dropped a read that had taken bytes

locals == <<first, value, multiplier, digit, body>>
vars == <<sent, stream, at, locals, got, buf, decoded, refused, ticks, torn>>

Byte == [digit : 0..Base - 1, more : BOOLEAN]

-----------------------------------------------------------------------------
(* Encoding.                                                               *)

\* Mutant: a length of exactly Base fits one digit.
encode_remaining_length_short(n) ==
  LET enc[v \in 0..n] ==
        IF v <= Base THEN <<[digit |-> v % Base, more |-> FALSE]>>
        ELSE <<[digit |-> v % Base, more |-> TRUE]>> \o enc[v \div Base]
  IN enc[n]

\* Least significant digit first, all but the last with the continuation bit.
encode_remaining_length(n) ==
  LET enc[v \in 0..n] ==
        IF v < Base THEN <<[digit |-> v, more |-> FALSE]>>
        ELSE <<[digit |-> v % Base, more |-> TRUE]>> \o enc[v \div Base]
  IN enc[n]

Encode(f) == <<f.first>> \o encode_remaining_length(Len(f.body)) \o f.body

-----------------------------------------------------------------------------
(* decode_packet_from_bytes.                                               *)

Missing == [status |-> "missing"]
Malformed == [status |-> "error"]

\* The length at the front of `data` and the bytes it takes.
decode_remaining_length_from_slice(data) ==
  LET last == {i \in 1..Len(data) : ~data[i].more /\ \A j \in 1..i - 1 : data[j].more} IN
  IF \E i \in last : i <= Digits
  THEN LET n == CHOOSE i \in last : TRUE IN
       [status |-> "ok", bytes |-> n,
        value |-> FoldLeft(LAMBDA v, i : v + data[i].digit * Base^(i - 1), 0,
                           [i \in 1..n |-> i])]
  ELSE IF Len(data) >= Digits THEN Malformed ELSE Missing

\* Mutant: the length of the body is compared with the whole buffer.
decode_packet_from_bytes_short(b) ==
  IF Len(b) < 2 THEN Missing
  ELSE IF b[1] \notin Types THEN Malformed
  ELSE LET rl == decode_remaining_length_from_slice(Tail(b)) IN
       IF rl.status # "ok" THEN rl
       ELSE IF Len(b) < rl.value + 1 THEN Missing
       ELSE [status |-> "ok", total |-> Len(b), first |-> b[1],
             body |-> SubSeq(b, 2 + rl.bytes, Len(b))]

\* One packet from the front of the buffer, with the bytes it took.
decode_packet_from_bytes(b) ==
  IF Len(b) < 2 THEN Missing
  ELSE IF b[1] \notin Types THEN Malformed
  ELSE LET rl == decode_remaining_length_from_slice(Tail(b)) IN
       IF rl.status # "ok" THEN rl
       ELSE LET total == 1 + rl.bytes + rl.value IN
            IF Len(b) < total THEN Missing
            ELSE [status |-> "ok", total |-> total, first |-> b[1],
                  body |-> SubSeq(b, 2 + rl.bytes, total)]

\* The buffer receives a byte and is asked for a packet.
Feed(b) ==
  LET whole == Append(buf, b)
      d == decode_packet_from_bytes(whole) IN
  IF refused THEN UNCHANGED <<buf, decoded, refused>>
  ELSE /\ refused' = (d.status = "error")
       /\ decoded' = IF d.status = "ok"
                     THEN Append(decoded, [first |-> d.first, body |-> d.body]) ELSE decoded
       /\ buf' = IF d.status = "ok" THEN SubSeq(whole, d.total + 1, Len(whole)) ELSE whole

-----------------------------------------------------------------------------
(* read_packet.                                                            *)

Init ==
  /\ \/ \E fs \in FrameSeqs :
          sent = fs /\ stream = FlattenSeq([i \in 1..Len(fs) |-> Encode(fs[i])])
     \/ \E s \in RawStreams : sent = None /\ stream = s
  /\ at = "first" /\ first = None /\ value = 0 /\ multiplier = 1 /\ digit = 0 /\ body = <<>>
  /\ got = <<>> /\ buf = <<>> /\ decoded = <<>> /\ refused = FALSE /\ ticks = 0 /\ torn = FALSE

Takes ==
  /\ stream # <<>>
  /\ stream' = Tail(stream)
  /\ Feed(Head(stream))
  /\ UNCHANGED <<sent, ticks, torn>>

\* A call of read_packet starts with fresh locals.
Afresh ==
  at' = "first" /\ first' = None /\ value' = 0 /\ multiplier' = 1 /\ digit' = 0 /\ body' = <<>>

Returns(b) == got' = Append(got, [first |-> first, body |-> b]) /\ Afresh

ReadFirst ==
  /\ at = "first" /\ Takes
  /\ IF Head(stream) \in Types
     THEN at' = "length" /\ first' = Head(stream)
     ELSE at' = "failed" /\ UNCHANGED first
  /\ UNCHANGED <<value, multiplier, digit, body, got>>

\* read_remaining_length, a byte; a packet without a body is complete.
ReadLength ==
  /\ at = "length" /\ Takes
  /\ LET b == Head(stream)
         n == value + b.digit * multiplier IN
     IF ~b.more /\ n = 0 THEN Returns(<<>>)
     ELSE /\ value' = n /\ multiplier' = multiplier * Base /\ digit' = digit + 1
          /\ at' = IF ~b.more THEN "body" ELSE IF digit + 1 = Digits THEN "failed" ELSE "length"
          /\ UNCHANGED <<first, body, got>>

ReadBody ==
  /\ at = "body" /\ Takes
  /\ LET b == Append(body, Head(stream)) IN
     IF Len(b) = value THEN Returns(b)
     ELSE body' = b /\ UNCHANGED <<at, first, value, multiplier, digit, got>>

\* The client's keep-alive tick wins the select!: the next turn of the loop
\* calls read_packet again.
Tick ==
  /\ ticks < Cancels /\ at # "failed"
  /\ ticks' = ticks + 1
  /\ torn' = (torn \/ at # "first")
  /\ Afresh
  /\ UNCHANGED <<sent, stream, got, buf, decoded, refused>>

Next == ReadFirst \/ ReadLength \/ ReadBody \/ Tick

Spec == Init /\ [][Next]_vars

-----------------------------------------------------------------------------
(* Properties.                                                             *)

Oversize(f) == Len(f.body) >= Base^Digits

\* "Read one complete MQTT packet from the async reader": what read_packet
\* returns, call by call, is what was encoded.  The encoder checks no length, so
\* a body too long for Digits length bytes gets one byte more; that packet, and
\* no other, makes the reader fail, and nothing it says is taken for a packet.
\* Ticks between packets do no harm; a tick in the middle of one loses what was
\* read of it.
FramesIntact ==
  sent # None /\ ~torn =>
    /\ IsPrefix(got, sent)
    /\ at = "failed" => Oversize(sent[Len(got) + 1])
    /\ stream = <<>> /\ at # "failed" => got = sent

\* The two decoders cut any stream into the same packets, and what the buffered
\* one refuses read_packet has refused.
DecodersAgree == ~torn => decoded = got /\ (refused => at = "failed")
=============================================================================
