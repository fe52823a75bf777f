-------------------------- MODULE MqttBrokerProofs --------------------------
(***************************************************************************)
(* Proofs about MqttBroker: the types, and the two invariants on session   *)
(* takeover that hold however many connections share a client identifier.  *)
(*                                                                         *)
(* TypeOK is not inductive by itself: a task that fans out a message reads *)
(* the message it holds, and one that works through a list of filters      *)
(* reads the head of the list and updates its session entry.  IInv adds    *)
(* that the message, the list and the entry are there.                     *)
(***************************************************************************)
EXTENDS MqttBroker, TLAPS

\* Zenon proves the steps that need no arithmetic; the others cite SMT, with Z3 as
\* a second attempt.
USE ZenonT(30)

\* A task that runs the endpoints or fans out has a message.
MessageInHand ==
  \A c \in Conns : pc[c] \in {"chain", "scan", "deliver"} => msg[c] # None

\* A task in the loop of subscribe or unsubscribe has an entry left to process.
ListInHand ==
  \A c \in Conns : pc[c] = "list" => list[c] # <<>>

\* The inductive invariant.
IInv == TypeOK /\ MessageInHand /\ ListInHand /\ GuardedEntry /\ NoOrphanSubscription

\* An empty broker with idle connections has the right types.
LEMMA InitType == Init => TypeOK
<1> SUFFICES ASSUME Init PROVE TypeOK
  OBVIOUS
<1> USE DEF Init
<1>1. sessions \in [ClientIds -> Session \cup {None}]
      /\ subs \in [Filters -> [ClientIds -> QoS \cup {None}]]
  OBVIOUS
<1>2. pc \in [Conns -> Labels] /\ after \in [Conns -> {"top", "reply", "closing"}]
  BY DEF Labels
<1>3. req \in [Conns -> [id : ClientIds, clean : BOOLEAN, will : Will \cup {None}]]
  BY IdsAssumption
<1>4. reply \in [Conns -> Replies]
  BY DEF NoReply, Replies
<1>5. reads \in [Conns -> 0..MaxReads] /\ counter \in [Conns -> PacketIds]
  BY BoundsAssumption, SMTT(30), Z3T(30) DEF PacketIds
<1> QED
  BY <1>1, <1>2, <1>3, <1>4, <1>5, SMTT(30), Z3T(30) DEF TypeOK

-----------------------------------------------------------------------------
(* Facts about the operators the actions are built from.                   *)

\* The first filter of a list that subscribe or unsubscribe has not finished.
LEMMA HeadType == ASSUME NEW S, NEW s \in Seq(S), s # <<>> PROVE Head(s) \in S
  BY SMTT(30), Z3T(30)

\* What the wire format guarantees of a packet of each type.
LEMMA RequestFields ==
  ASSUME NEW c \in Conns, NEW r \in Requests[c]
  PROVE  /\ r.type = "publish" => r.topic \in Topics /\ r.qos \in QoS /\ r.id \in PacketIds
         /\ r.type \in {"subscribe", "unsubscribe"} =>
              r.list \in Seq(Filters \X (QoS \cup {None}))
         /\ r.type \in {"puback", "pubrec", "pubcomp", "pubrel"} => r.id \in PacketIds
<1>1. r \in Request
  BY PacketsAssumption
<1>2. CASE r \in [type : {"publish"}, topic : Topics, qos : QoS, id : PacketIds]
  BY <1>2
<1>3. CASE r \in [type : {"subscribe"}, list : Seq(Filters \X QoS)]
  <2>1. r.type = "subscribe" /\ r.list \in Seq(Filters \X QoS)
    BY <1>3
  <2> QED BY <2>1, SMTT(30), Z3T(30)
<1>4. CASE r \in [type : {"unsubscribe"}, list : Seq(Filters \X {None})]
  <2>1. r.type = "unsubscribe" /\ r.list \in Seq(Filters \X {None})
    BY <1>4
  <2> QED BY <2>1, SMTT(30), Z3T(30)
<1>5. CASE r \in [type : {"puback", "pubrec", "pubcomp", "pubrel"}, id : PacketIds]
  BY <1>5
<1>6. CASE r \in [type : {"pingreq", "noise", "connect", "malformed", "disconnect"}]
  BY <1>6
<1> QED
  BY <1>1, <1>2, <1>3, <1>4, <1>5, <1>6 DEF Request

\* Queueing a packet keeps every queue a sequence of packets.
LEMMA SendType ==
  ASSUME out \in [Conns -> Seq(Outgoing)], NEW c \in Conns, NEW p \in Outgoing, Send(c, p)
  PROVE  out' \in [Conns -> Seq(Outgoing)]
  BY SMTT(30), Z3T(30) DEF Send

\* Every reply is a packet.
LEMMA ReplyIsOutgoing == Replies \subseteq Outgoing
  BY DEF Outgoing

\* Packet identifiers stay in range across the wrap of the counter.
LEMMA AllocateType ==
  ASSUME NEW n \in PacketIds
  PROVE  NextCounter(n) \in PacketIds /\ allocate_packet_id(n) \in PacketIds
  BY BoundsAssumption, SMTT(30), Z3T(30) DEF PacketIds, NextCounter, allocate_packet_id

-----------------------------------------------------------------------------
(* Each action preserves the types.                                        *)

\* A failed CONNECT keeps the types.
LEMMA ConnectFailsType == ASSUME TypeOK, NEW c \in Conns, ConnectFails(c) PROVE TypeOK'
  BY DEF TypeOK, ConnectFails, Goto, mapVars, taskVars, chanVars, Labels

\* A refused CONNECT keeps the types.
LEMMA RefuseType == ASSUME TypeOK, NEW c \in Conns, Refuse(c) PROVE TypeOK'
  BY SMTT(30), Z3T(30) DEF TypeOK, Refuse, Goto, Send, mapVars, taskVars, chanVars, Labels, Outgoing, Replies

\* Assigning a client id keeps the types.
LEMMA AcceptType == ASSUME TypeOK, NEW c \in Conns, Accept(c) PROVE TypeOK'
<1>1. PICK r \in Connects[c] :
        req' = [req EXCEPT ![c] = [r EXCEPT !.id = IF @ = EmptyId THEN AutoId[c] ELSE @]]
  BY DEF Accept
<1>2. r \in Connect
  BY PacketsAssumption
<1>3. [r EXCEPT !.id = IF @ = EmptyId THEN AutoId[c] ELSE @]
        \in [id : ClientIds, clean : BOOLEAN, will : Will \cup {None}]
  BY <1>2, IdsAssumption DEF Connect
<1>4. req' \in [Conns -> [id : ClientIds, clean : BOOLEAN, will : Will \cup {None}]]
  BY <1>1, <1>3 DEF TypeOK
<1> QED
  BY <1>4 DEF TypeOK, Accept, Goto, mapVars, chanVars, Labels

\* Removing the old entry keeps the types.
LEMMA RegisterRemoveType == ASSUME TypeOK, NEW c \in Conns, RegisterRemove(c) PROVE TypeOK'
<1>1. sessions' \in [ClientIds -> Session \cup {None}]
  BY DEF TypeOK, RegisterRemove, Id
<1>2. reply' \in [Conns -> Replies]
  BY DEF TypeOK, RegisterRemove, Replies
<1>3. todo' \in [Conns -> SUBSET Filters] /\ pc' \in [Conns -> Labels]
  BY DEF TypeOK, RegisterRemove, Goto, Labels
<1> QED
  BY <1>1, <1>2, <1>3 DEF TypeOK, RegisterRemove, chanVars

\* remove_client on behalf of register_session keeps the types.
LEMMA RegisterWipeType == ASSUME TypeOK, NEW c \in Conns, RegisterWipe(c) PROVE TypeOK'
  BY SMTT(30), Z3T(30) DEF TypeOK, RegisterWipe, WipeFilter, Id, Goto, chanVars, Labels

\* Inserting the new entry keeps the types.
LEMMA RegisterInsertType == ASSUME TypeOK, NEW c \in Conns, RegisterInsert(c) PROVE TypeOK'
<1>1. [conn |-> c, filters |-> NoFilters, will |-> req[c].will, clean |-> req[c].clean] \in Session
  BY DEF TypeOK, Session, NoFilters
<1> QED
  BY <1>1 DEF TypeOK, RegisterInsert, Id, Goto, taskVars, chanVars, Labels

\* Sending CONNACK keeps the types.
LEMMA SendConnackType == ASSUME TypeOK, NEW c \in Conns, SendConnack(c) PROVE TypeOK'
  BY SendType, ReplyIsOutgoing
  DEF TypeOK, SendConnack, SendOrFail, Goto, mapVars, taskVars, Labels

\* Steps of the loop that touch no map and send at most one reply.
LEMMA LoopTopType == ASSUME TypeOK, NEW c \in Conns, LoopTop(c) PROVE TypeOK'
  BY DEF TypeOK, LoopTop, Goto, mapVars, taskVars, chanVars, Labels

\* Leaving the loop keeps the types.
LEMMA ReadFailsType == ASSUME TypeOK, NEW c \in Conns, ReadFails(c) PROVE TypeOK'
  BY DEF TypeOK, ReadFails, Goto, mapVars, taskVars, chanVars, Labels

\* Reading a packet keeps the count of packets within its bound.
LEMMA ReadsType ==
  ASSUME TypeOK, NEW c \in Conns, NEW r, Reads(c, r)
  PROVE  reads' \in [Conns -> 0..MaxReads] /\ reads[c] + 1 \in 1..MaxReads
  BY BoundsAssumption, SMTT(30), Z3T(30) DEF TypeOK, Reads

\* An error return from the loop keeps the types.
LEMMA ReadFatalType ==
  ASSUME TypeOK, NEW c \in Conns, NEW r \in Requests[c], ReadFatal(c, r) PROVE TypeOK'
  BY ReadsType DEF TypeOK, ReadFatal, Goto, mapVars, chanVars, Labels

\* DISCONNECT keeps the types.
LEMMA ReadDisconnectType ==
  ASSUME TypeOK, NEW c \in Conns, NEW r \in Requests[c], ReadDisconnect(c, r) PROVE TypeOK'
  BY ReadsType DEF TypeOK, ReadDisconnect, Goto, mapVars, chanVars, Labels

\* An ignored packet keeps the types.
LEMMA ReadNoiseType ==
  ASSUME TypeOK, NEW c \in Conns, NEW r \in Requests[c], ReadNoise(c, r) PROVE TypeOK'
  BY ReadsType DEF TypeOK, ReadNoise, Goto, mapVars, chanVars, Labels

\* PINGREQ keeps the types.
LEMMA ReadPingreqType ==
  ASSUME TypeOK, NEW c \in Conns, NEW r \in Requests[c], ReadPingreq(c, r) PROVE TypeOK'
<1>1. [type |-> "pingresp"] \in Outgoing
  BY DEF Outgoing, Replies
<1> QED
  BY <1>1, ReadsType, SendType DEF TypeOK, ReadPingreq, SendOrFail, Goto, mapVars, Labels

\* ack_outbound keeps the types.
LEMMA ReadAckType ==
  ASSUME TypeOK, NEW c \in Conns, NEW r \in Requests[c], ReadAck(c, r) PROVE TypeOK'
<1>1. sessions[Id(c)] # None => sessions[Id(c)].conn \in Conns
  BY DEF TypeOK, Id, Session
<1>2. inflight' \in [Conns -> SUBSET PacketIds]
  BY <1>1 DEF TypeOK, ReadAck
<1> QED
  BY <1>2, ReadsType DEF TypeOK, ReadAck, Goto, mapVars, Labels

\* PUBREC keeps the types.
LEMMA ReadPubrecType ==
  ASSUME TypeOK, NEW c \in Conns, NEW r \in Requests[c], ReadPubrec(c, r) PROVE TypeOK'
<1>1. [type |-> "pubrel", id |-> r.id] \in Outgoing
  BY RequestFields DEF ReadPubrec, Outgoing, Replies
<1> QED
  BY <1>1, ReadsType, SendType DEF TypeOK, ReadPubrec, SendOrFail, Goto, mapVars, Labels

\* The message made of a PUBLISH.
LEMMA PublishMessage ==
  ASSUME TypeOK, NEW c \in Conns, NEW r \in Requests[c], Reads(c, r), r.type = "publish"
  PROVE  [payload |-> <<c, reads[c] + 1, r.qos>>, topic |-> r.topic, qos |-> r.qos] \in Message
<1>1. reads[c] + 1 \in 1..WillNo
  BY ReadsType, BoundsAssumption, SMTT(30), Z3T(30) DEF WillNo
<1> QED
  BY <1>1, RequestFields DEF Message, Payload

\* PUBLISH, stashed or in hand, keeps the types.
LEMMA ReadPublishType ==
  ASSUME TypeOK, NEW c \in Conns, NEW r \in Requests[c], ReadPublish(c, r) PROVE TypeOK'
<1> DEFINE m == [payload |-> <<c, reads[c] + 1, r.qos>>, topic |-> r.topic, qos |-> r.qos]
<1>1. Reads(c, r) /\ r.topic \in Topics /\ r.qos \in QoS /\ r.id \in PacketIds
  BY RequestFields DEF ReadPublish
<1>2. m \in Message
  BY <1>1, PublishMessage DEF ReadPublish
<1>3. /\ [type |-> "puback", id |-> r.id] \in Outgoing
      /\ [type |-> "pubrec", id |-> r.id] \in Outgoing
  BY <1>1 DEF Outgoing, Replies
<1>4. reads' \in [Conns -> 0..MaxReads]
  BY <1>1, ReadsType
<1>5. UNCHANGED <<mapVars, req, graceful, todo, hits, list, reply, open, writer, counter, inflight>>
  BY DEF ReadPublish
<1>6. CASE r.qos = 0
  <2>1. /\ msg' = [msg EXCEPT ![c] = m] /\ after' = [after EXCEPT ![c] = "top"]
        /\ Goto(c, "chain") /\ UNCHANGED <<qos2, out>>
    BY <1>6, SMTT(30), Z3T(30) DEF ReadPublish
  <2> QED
    BY <1>2, <1>4, <1>5, <2>1 DEF TypeOK, Goto, mapVars, Labels
<1>7. CASE r.qos = 1
  <2>1. /\ msg' = [msg EXCEPT ![c] = m] /\ after' = [after EXCEPT ![c] = "top"]
        /\ SendOrFail(c, [type |-> "puback", id |-> r.id], "chain") /\ UNCHANGED qos2
    BY <1>7, SMTT(30), Z3T(30) DEF ReadPublish
  <2> QED
    BY <1>2, <1>3, <1>4, <1>5, <2>1, SendType DEF TypeOK, SendOrFail, Goto, mapVars, Labels
<1>8. CASE r.qos = 2
  <2>1. /\ qos2' = [qos2 EXCEPT ![c][r.id] = m]
        /\ SendOrFail(c, [type |-> "pubrec", id |-> r.id], "top") /\ UNCHANGED <<msg, after>>
    BY <1>8, SMTT(30), Z3T(30) DEF ReadPublish
  <2>2. qos2' \in [Conns -> [PacketIds -> Message \cup {None}]]
    BY <1>1, <1>2, <2>1 DEF TypeOK
  <2> QED
    BY <1>3, <1>4, <1>5, <2>1, <2>2, SendType DEF TypeOK, SendOrFail, Goto, mapVars, Labels
<1> QED
  BY <1>1, <1>6, <1>7, <1>8, SMTT(30), Z3T(30) DEF QoS

\* PUBREL keeps the types.
LEMMA ReadPubrelType ==
  ASSUME TypeOK, NEW c \in Conns, NEW r \in Requests[c], ReadPubrel(c, r) PROVE TypeOK'
<1>1. r.id \in PacketIds
  BY RequestFields DEF ReadPubrel
<1>2. reply' \in [Conns -> Replies]
  BY <1>1 DEF TypeOK, ReadPubrel, Replies
<1>3. qos2' \in [Conns -> [PacketIds -> Message \cup {None}]] /\ msg' \in [Conns -> Message \cup {None}]
  <2>1. CASE qos2[c][r.id] = None
    BY <2>1 DEF TypeOK, ReadPubrel
  <2>2. CASE qos2[c][r.id] # None
    <3>1. /\ msg' = [msg EXCEPT ![c] = qos2[c][r.id]]
          /\ qos2' = [qos2 EXCEPT ![c][r.id] = None]
      BY <2>2 DEF ReadPubrel
    <3>2. /\ msg \in [Conns -> Message \cup {None}]
          /\ qos2 \in [Conns -> [PacketIds -> Message \cup {None}]]
      BY DEF TypeOK
    <3>3. msg' \in [Conns -> Message \cup {None}]
      BY <1>1, <3>1, <3>2
    <3>4. qos2' \in [Conns -> [PacketIds -> Message \cup {None}]]
      BY <1>1, <3>1, <3>2
    <3> QED
      BY <3>3, <3>4
  <2> QED BY <2>1, <2>2
<1>4. pc' \in [Conns -> Labels] /\ after' \in [Conns -> {"top", "reply", "closing"}]
  BY DEF TypeOK, ReadPubrel, Goto, Labels
<1>5. reads' \in [Conns -> 0..MaxReads]
  BY ReadsType DEF ReadPubrel
<1> QED
  BY <1>2, <1>3, <1>4, <1>5 DEF TypeOK, ReadPubrel, mapVars

\* Running the endpoints keeps the types.
LEMMA RunChainType ==
  ASSUME TypeOK, MessageInHand, NEW c \in Conns, RunChain(c) PROVE TypeOK' /\ msg'[c] \in Message
<1>1. msg[c] \in Message /\ <<msg[c].topic, msg[c].qos>> \in Topics \X QoS
  BY DEF TypeOK, MessageInHand, RunChain, Message
<1>2. PICK o \in Chain[<<msg[c].topic, msg[c].qos>>] :
        IF o = Suppress
         THEN Goto(c, after[c]) /\ UNCHANGED <<msg, todo, hits>>
         ELSE /\ msg' = [msg EXCEPT ![c] = [@ EXCEPT !.topic = o[1], !.qos = o[2]]]
              /\ todo' = [todo EXCEPT ![c] = Filters]
              /\ hits' = [hits EXCEPT ![c] = {}]
              /\ Goto(c, "scan")
  BY DEF RunChain
<1>3. o \in (Topics \X QoS) \cup {Suppress}
  BY <1>1, ChainAssumption
<1>4. msg' \in [Conns -> Message \cup {None}] /\ msg'[c] \in Message
  <2>1. CASE o = Suppress
    BY <1>1, <1>2, <2>1 DEF TypeOK
  <2>2. CASE o # Suppress
    <3>1. [msg[c] EXCEPT !.topic = o[1], !.qos = o[2]] \in Message
      BY <1>1, <1>3, <2>2 DEF Message
    <3>2. msg' = [msg EXCEPT ![c] = [msg[c] EXCEPT !.topic = o[1], !.qos = o[2]]]
      BY <1>2, <2>2
    <3> DEFINE m == [msg[c] EXCEPT !.topic = o[1], !.qos = o[2]]
    <3>3. m \in Message /\ msg' = [msg EXCEPT ![c] = m]
      BY <3>1, <3>2
    <3> HIDE DEF m
    <3> QED BY <3>3 DEF TypeOK
  <2> QED BY <2>1, <2>2
<1>5. pc' = [pc EXCEPT ![c] = IF o = Suppress THEN after[c] ELSE "scan"]
  BY <1>2 DEF Goto
<1>6. pc' \in [Conns -> Labels]
  BY <1>5 DEF TypeOK, Labels
<1>7. /\ todo' = [todo EXCEPT ![c] = IF o = Suppress THEN @ ELSE Filters]
      /\ hits' = [hits EXCEPT ![c] = IF o = Suppress THEN @ ELSE {}]
  BY <1>2 DEF TypeOK
<1>8. /\ todo' \in [Conns -> SUBSET Filters]
      /\ hits' \in [Conns -> SUBSET (Filters \X ClientIds \X QoS)]
  BY <1>7 DEF TypeOK
<1> QED
  BY <1>4, <1>6, <1>8 DEF TypeOK, RunChain, mapVars, chanVars

\* A step of matching() keeps the types.
LEMMA PublishScanType ==
  ASSUME TypeOK, NEW c \in Conns, PublishScan(c) PROVE TypeOK'
<1>1. PICK f \in todo[c] :
       /\ hits' = [hits EXCEPT ![c] = @ \cup MatchingAt(f, msg[c].topic)]
       /\ todo' = [todo EXCEPT ![c] = @ \ {f}]
       /\ Goto(c, IF todo[c] # {f} THEN "scan"
                  ELSE IF hits'[c] = {} THEN after[c] ELSE "deliver")
  BY DEF PublishScan
<1>2. MatchingAt(f, msg[c].topic) \in SUBSET (Filters \X ClientIds \X QoS)
  BY SMTT(30), Z3T(30) DEF TypeOK, MatchingAt
<1>3. hits' \in [Conns -> SUBSET (Filters \X ClientIds \X QoS)]
  BY <1>1, <1>2 DEF TypeOK
<1>4. pc' \in [Conns -> Labels] /\ todo' \in [Conns -> SUBSET Filters]
  BY <1>1 DEF TypeOK, Goto, Labels
<1> QED
  BY <1>3, <1>4 DEF TypeOK, PublishScan, mapVars, chanVars

\* A delivery of Broker::publish keeps the types.
LEMMA PublishDeliverType ==
  ASSUME TypeOK, MessageInHand, NEW c \in Conns, PublishDeliver(c) PROVE TypeOK'
<1>1. PICK h \in hits[c] :
       /\ hits' = [hits EXCEPT ![c] = @ \ {h}]
       /\ Goto(c, IF hits[c] = {h} THEN after[c] ELSE "deliver")
       /\ IF h[2] = Source(c) \/ sessions[h[2]] = None
            THEN UNCHANGED <<counter, inflight, out>>
            ELSE LET d == sessions[h[2]].conn
                     q == MinQoS(msg[c].qos, h[3])
                     id == IF q > 0 THEN allocate_packet_id(counter[d]) ELSE 0
                 IN /\ counter' = IF q > 0 THEN [counter EXCEPT ![d] = NextCounter(@)]
                                  ELSE counter
                    /\ inflight' = IF q > 0 THEN [inflight EXCEPT ![d] = @ \cup {id}]
                                   ELSE inflight
                    /\ Send(d, [type |-> "publish", payload |-> msg[c].payload,
                                topic |-> msg[c].topic, qos |-> q, id |-> id])
  BY DEF PublishDeliver
<1>2. h \in Filters \X ClientIds \X QoS
  BY DEF TypeOK
<1>3. /\ counter' \in [Conns -> PacketIds]
      /\ inflight' \in [Conns -> SUBSET PacketIds]
      /\ out' \in [Conns -> Seq(Outgoing)]
  <2>1. CASE h[2] = Source(c) \/ sessions[h[2]] = None
    BY <1>1, <2>1 DEF TypeOK
  <2>2. CASE ~(h[2] = Source(c) \/ sessions[h[2]] = None)
    <3> DEFINE d == sessions[h[2]].conn
               q == MinQoS(msg[c].qos, h[3])
               id == IF q > 0 THEN allocate_packet_id(counter[d]) ELSE 0
               p == [type |-> "publish", payload |-> msg[c].payload,
                     topic |-> msg[c].topic, qos |-> q, id |-> id]
    <3>1. d \in Conns
      <4>1. sessions \in [ClientIds -> Session \cup {None}] /\ h[2] \in ClientIds
        BY <1>2 DEF TypeOK
      <4>2. sessions[h[2]] \in Session
        BY <2>2, <4>1
      <4> QED
        BY <4>2 DEF Session
    <3>2. msg[c] \in Message
      BY DEF TypeOK, MessageInHand, PublishDeliver
    <3>3. q \in QoS
      BY <1>2, <3>2 DEF MinQoS, Message, QoS
    <3>4. counter[d] \in PacketIds
      BY <3>1 DEF TypeOK
    <3>5. id \in PacketIds /\ NextCounter(counter[d]) \in PacketIds
      BY <3>4, AllocateType, BoundsAssumption, SMTT(30), Z3T(30) DEF PacketIds
    <3>6. p \in Outgoing
      BY <3>2, <3>3, <3>5 DEF Outgoing, Message
    <3>7. /\ counter' = IF q > 0 THEN [counter EXCEPT ![d] = NextCounter(@)] ELSE counter
          /\ inflight' = IF q > 0 THEN [inflight EXCEPT ![d] = @ \cup {id}] ELSE inflight
          /\ Send(d, p)
      BY <1>1, <2>2
    <3> HIDE DEF d, q, id, p
    <3>8. out' \in [Conns -> Seq(Outgoing)]
      BY <3>1, <3>6, <3>7, SendType DEF TypeOK
    <3> QED
      BY <3>1, <3>5, <3>7, <3>8 DEF TypeOK
  <2> QED BY <2>1, <2>2
<1>4. /\ pc' \in [Conns -> Labels]
      /\ hits' \in [Conns -> SUBSET (Filters \X ClientIds \X QoS)]
  BY <1>1 DEF TypeOK, Goto, Labels
<1> QED
  BY <1>3, <1>4 DEF TypeOK, PublishDeliver, mapVars

\* The lookup of subscribe and unsubscribe keeps the types.
LEMMA ReadSubscribeType ==
  ASSUME TypeOK, NEW c \in Conns, NEW r \in Requests[c], ReadSubscribe(c, r) PROVE TypeOK'
<1> DEFINE found == sessions[Id(c)] # None /\ r.list # <<>>
           failed == IF sessions[Id(c)] # None THEN <<>> ELSE [i \in 1..Len(r.list) |-> None]
<1>1. r.list \in Seq(Filters \X (QoS \cup {None})) /\ Reads(c, r)
  BY RequestFields DEF ReadSubscribe
<1>2. failed \in Seq(QoS \cup {None})
  <2>1. Len(r.list) \in Nat
    BY <1>1, SMTT(30), Z3T(30)
  <2>2. [i \in 1..Len(r.list) |-> None] \in Seq(QoS \cup {None})
    BY <2>1, SMTT(30), Z3T(30)
  <2> QED
    BY <2>2, SMTT(30), Z3T(30)
<1>3. list' = [list EXCEPT ![c] = IF found THEN r.list ELSE <<>>]
  BY DEF ReadSubscribe
<1>4. list' \in [Conns -> Seq(Filters \X (QoS \cup {None}))]
  <2>1. list \in [Conns -> Seq(Filters \X (QoS \cup {None}))]
    BY DEF TypeOK
  <2>2. (IF found THEN r.list ELSE <<>>) \in Seq(Filters \X (QoS \cup {None}))
    BY <1>1, SMTT(30), Z3T(30)
  <2> HIDE DEF found
  <2> QED
    BY <1>3, <2>1, <2>2
<1>5. reply' = [reply EXCEPT ![c] = IF r.type = "subscribe"
                                      THEN [type |-> "suback", codes |-> failed]
                                      ELSE [type |-> "unsuback"]]
  BY DEF ReadSubscribe
<1>6. reply' \in [Conns -> Replies]
  BY <1>2, <1>5 DEF TypeOK, Replies
<1>7. Goto(c, IF found THEN "list" ELSE "reply")
  BY DEF ReadSubscribe
<1>8. pc' \in [Conns -> Labels]
  BY <1>7 DEF TypeOK, Goto, Labels
<1>9. reads' \in [Conns -> 0..MaxReads]
  BY <1>1, ReadsType
<1> QED
  BY <1>4, <1>6, <1>8, <1>9 DEF TypeOK, ReadSubscribe, mapVars, chanVars

\* One entry of a SUBSCRIBE or UNSUBSCRIBE keeps the types.
LEMMA ListStepType ==
  ASSUME TypeOK, ListInHand, GuardedEntry, NEW c \in Conns, ListStep(c) PROVE TypeOK'
<1> DEFINE f == Head(list[c])[1]
           q == Head(list[c])[2]
           subscribing == reply[c].type = "suback"
           ok == subscribing => f \in ValidFilters
<1>1. list[c] \in Seq(Filters \X (QoS \cup {None})) /\ list[c] # <<>>
  BY DEF TypeOK, ListInHand, ListStep
<1>2. Head(list[c]) \in Filters \X (QoS \cup {None})
  BY <1>1, SMTT(30), Z3T(30)
<1>3. f \in Filters /\ q \in QoS \cup {None}
  BY <1>2
<1>4. Tail(list[c]) \in Seq(Filters \X (QoS \cup {None}))
  BY <1>1, SMTT(30), Z3T(30)
<1>5. Id(c) \in ClientIds /\ sessions[Id(c)] \in Session
  BY DEF TypeOK, GuardedEntry, Id, ListStep
<1>6. /\ sessions' = IF ok THEN [sessions EXCEPT ![Id(c)].filters[f] = q] ELSE sessions
      /\ subs' = IF ok THEN [subs EXCEPT ![f][Id(c)] = q] ELSE subs
      /\ reply' = IF subscribing
                    THEN [reply EXCEPT ![c].codes = Append(@, IF ok THEN q ELSE None)]
                    ELSE reply
      /\ list' = [list EXCEPT ![c] = Tail(@)]
      /\ Goto(c, IF Tail(list[c]) = <<>> THEN "reply" ELSE "list")
      /\ UNCHANGED <<req, graceful, todo, hits, msg, after, reads, chanVars>>
  BY DEF ListStep
<1> HIDE DEF f, q
<1>7. sessions' \in [ClientIds -> Session \cup {None}]
  <2>1. [sessions[Id(c)] EXCEPT !.filters[f] = q] \in Session
    BY <1>3, <1>5 DEF Session
  <2>2. [sessions EXCEPT ![Id(c)].filters[f] = q]
           = [sessions EXCEPT ![Id(c)] = [sessions[Id(c)] EXCEPT !.filters[f] = q]]
    OBVIOUS
  <2> QED
    BY <1>5, <1>6, <2>1, <2>2 DEF TypeOK
<1>8. subs' \in [Filters -> [ClientIds -> QoS \cup {None}]]
  BY <1>3, <1>5, <1>6 DEF TypeOK
<1>9. reply' \in [Conns -> Replies]
  <2>1. CASE ~subscribing
    BY <1>6, <2>1 DEF TypeOK
  <2>2. CASE subscribing
    <3>1. reply[c] \in [type : {"suback"}, codes : Seq(QoS \cup {None})]
      BY <2>2 DEF TypeOK, Replies
    <3> DEFINE code == IF ok THEN q ELSE None
    <3>2. code \in QoS \cup {None} /\ reply' = [reply EXCEPT ![c].codes = Append(@, code)]
      BY <1>3, <1>6, <2>2
    <3> HIDE DEF code
    <3>3. Append(reply[c].codes, code) \in Seq(QoS \cup {None})
      BY <3>1, <3>2, SMTT(30), Z3T(30)
    <3>4. [reply[c] EXCEPT !.codes = Append(@, code)] \in Replies
      BY <3>1, <3>3 DEF Replies
    <3> QED
      BY <3>2, <3>4 DEF TypeOK
  <2> QED BY <2>1, <2>2
<1>10. list' \in [Conns -> Seq(Filters \X (QoS \cup {None}))]
  BY <1>4, <1>6 DEF TypeOK
<1>11. pc' \in [Conns -> Labels]
  BY <1>6 DEF TypeOK, Goto, Labels
<1> QED
  BY <1>6, <1>7, <1>8, <1>9, <1>10, <1>11 DEF TypeOK, chanVars

\* Sending the reply keeps the types.
LEMMA SendReplyType == ASSUME TypeOK, NEW c \in Conns, SendReply(c) PROVE TypeOK'
  BY SendType, ReplyIsOutgoing
  DEF TypeOK, SendReply, SendOrFail, Goto, mapVars, taskVars, Labels

\* Taking the session out keeps the types.
LEMMA UnregisterRemoveType == ASSUME TypeOK, NEW c \in Conns, UnregisterRemove(c) PROVE TypeOK'
<1> DEFINE entry == sessions[Id(c)]
           fires == entry # None /\ ~graceful[c] /\ entry.will # None
           m == IF fires THEN [payload |-> <<entry.conn, WillNo, entry.will.qos>>,
                               topic |-> entry.will.topic, qos |-> entry.will.qos]
                ELSE None
<1>1. Id(c) \in ClientIds /\ entry \in Session \cup {None}
  BY DEF TypeOK, Id
<1>2. WillNo \in 1..WillNo
  BY BoundsAssumption, SMTT(30), Z3T(30) DEF WillNo
<1>3. m \in Message \cup {None}
  BY <1>1, <1>2 DEF Message, Payload, Session, Will
<1>4. /\ sessions' = [sessions EXCEPT ![Id(c)] = None]
      /\ msg' = [msg EXCEPT ![c] = m]
      /\ Goto(c, IF entry = None THEN "closing" ELSE "unreg_wipe")
      /\ todo' = [todo EXCEPT ![c] = Filters]
      /\ after' = [after EXCEPT ![c] = "closing"]
      /\ UNCHANGED <<subs, req, graceful, hits, list, reply, reads, chanVars>>
  BY DEF UnregisterRemove, WillFires
<1> HIDE DEF m, entry
<1> QED
  BY <1>1, <1>3, <1>4 DEF TypeOK, Goto, chanVars, Labels

\* remove_client on behalf of unregister_session keeps the types.
LEMMA UnregisterWipeType == ASSUME TypeOK, NEW c \in Conns, UnregisterWipe(c) PROVE TypeOK'
<1>1. PICK f \in todo[c] :
       /\ WipeFilter(f, Id(c))
       /\ IF todo[c] # {f}
            THEN /\ todo' = [todo EXCEPT ![c] = @ \ {f}]
                 /\ UNCHANGED <<pc, hits>>
            ELSE /\ todo' = [todo EXCEPT ![c] = IF msg[c] = None THEN {} ELSE Filters]
                 /\ hits' = [hits EXCEPT ![c] = {}]
                 /\ Goto(c, IF msg[c] = None THEN "closing" ELSE "scan")
  BY DEF UnregisterWipe
<1>2. subs' \in [Filters -> [ClientIds -> QoS \cup {None}]]
  BY <1>1 DEF TypeOK, WipeFilter, Id
<1>3. /\ todo' \in [Conns -> SUBSET Filters] /\ pc' \in [Conns -> Labels]
      /\ hits' \in [Conns -> SUBSET (Filters \X ClientIds \X QoS)]
  <2>1. CASE todo[c] # {f}
    <3>1. todo' = [todo EXCEPT ![c] = @ \ {f}] /\ pc' = pc /\ hits' = hits
      BY <1>1, <2>1
    <3> QED BY <3>1 DEF TypeOK
  <2>2. CASE todo[c] = {f}
    <3>1. /\ todo' = [todo EXCEPT ![c] = IF msg[c] = None THEN {} ELSE Filters]
          /\ hits' = [hits EXCEPT ![c] = {}]
          /\ pc' = [pc EXCEPT ![c] = IF msg[c] = None THEN "closing" ELSE "scan"]
      BY <1>1, <2>2 DEF Goto
    <3> QED BY <3>1 DEF TypeOK, Labels
  <2> QED BY <2>1, <2>2
<1> QED
  BY <1>2, <1>3 DEF TypeOK, UnregisterWipe, chanVars

\* MqttChannel::close keeps the types.
LEMMA CloseType == ASSUME TypeOK, NEW c \in Conns, Close(c) PROVE TypeOK'
<1>1. qos2' \in [Conns -> [PacketIds -> Message \cup {None}]] /\ inflight' \in [Conns -> SUBSET PacketIds]
  BY DEF TypeOK, Close
<1> QED
  BY <1>1 DEF TypeOK, Close, Goto, mapVars, taskVars, Labels

\* A step of the writer actor keeps the types.
LEMMA WriterType ==
  ASSUME TypeOK, NEW c \in Conns, WriterExits(c) \/ WriterGone(c) PROVE TypeOK'
  BY DEF TypeOK, WriterExits, WriterGone, mapVars, taskVars

-----------------------------------------------------------------------------
(* A task writes only its own locals.                                      *)

\* What other tasks use of their own state does not change.
OthersUnchanged(c) ==
  \A d \in Conns \ {c} :
    /\ pc'[d] = pc[d] /\ req'[d] = req[d] /\ todo'[d] = todo[d] /\ hits'[d] = hits[d]
    /\ msg'[d] = msg[d] /\ after'[d] = after[d] /\ list'[d] = list[d]
    /\ reply'[d] = reply[d] /\ reads'[d] = reads[d] /\ qos2'[d] = qos2[d]

\* A packet that is read and answered at once leaves both maps alone.
Answers(c, r) ==
  ReadFatal(c, r) \/ ReadDisconnect(c, r) \/ ReadNoise(c, r) \/ ReadPingreq(c, r)
    \/ ReadAck(c, r) \/ ReadPubrec(c, r) \/ ReadPublish(c, r) \/ ReadPubrel(c, r)

\* A step of one handle_server task leaves the other tasks' locals alone.
LEMMA TaskIsLocal == ASSUME TypeOK, NEW c \in Conns, Task(c) PROVE OthersUnchanged(c)
<1>0. /\ pc = [d \in Conns |-> pc[d]] /\ req = [d \in Conns |-> req[d]]
      /\ todo = [d \in Conns |-> todo[d]] /\ msg = [d \in Conns |-> msg[d]]
      /\ list = [d \in Conns |-> list[d]] /\ hits = [d \in Conns |-> hits[d]]
      /\ after = [d \in Conns |-> after[d]] /\ reply = [d \in Conns |-> reply[d]]
      /\ reads = [d \in Conns |-> reads[d]] /\ qos2 = [d \in Conns |-> qos2[d]]
  BY DEF TypeOK
<1> USE DEF OthersUnchanged, Goto, SendOrFail, Reads, mapVars, taskVars, chanVars
<1>1. CASE Handshake(c)
  <2>1. CASE ConnectFails(c) BY <1>0, <2>1 DEF ConnectFails
  <2>2. CASE Refuse(c) BY <1>0, <2>2 DEF Refuse
  <2>3. CASE Accept(c) BY <1>0, <2>3 DEF Accept
  <2>4. CASE RegisterRemove(c) BY <1>0, <2>4 DEF RegisterRemove
  <2>5. CASE RegisterWipe(c) BY <1>0, <2>5 DEF RegisterWipe
  <2>6. CASE RegisterInsert(c) BY <1>0, <2>6 DEF RegisterInsert
  <2>7. CASE SendConnack(c) BY <1>0, <2>7 DEF SendConnack
  <2> QED BY <1>1, <2>1, <2>2, <2>3, <2>4, <2>5, <2>6, <2>7 DEF Handshake
<1>2. CASE ReadFails(c) BY <1>0, <1>2 DEF ReadFails
<1>3. ASSUME NEW r \in Requests[c], Answers(c, r) PROVE OthersUnchanged(c)
  <2>1. CASE ReadFatal(c, r) BY <1>0, <2>1 DEF ReadFatal
  <2>2. CASE ReadDisconnect(c, r) BY <1>0, <2>2 DEF ReadDisconnect
  <2>3. CASE ReadNoise(c, r) BY <1>0, <2>3 DEF ReadNoise
  <2>4. CASE ReadPingreq(c, r) BY <1>0, <2>4 DEF ReadPingreq
  <2>5. CASE ReadAck(c, r) BY <1>0, <2>5 DEF ReadAck
  <2>6. CASE ReadPubrec(c, r) BY <1>0, <2>6 DEF ReadPubrec
  <2>7. CASE ReadPublish(c, r) BY <1>0, <2>7 DEF ReadPublish
  <2>8. CASE ReadPubrel(c, r) BY <1>0, <2>8 DEF ReadPubrel
  <2> QED BY <1>3, <2>1, <2>2, <2>3, <2>4, <2>5, <2>6, <2>7, <2>8 DEF Answers
<1>4. ASSUME NEW r \in Requests[c], ReadSubscribe(c, r) PROVE OthersUnchanged(c)
  BY <1>0, <1>4 DEF ReadSubscribe
<1>5. CASE Handle(c)
  <2>1. CASE LoopTop(c) BY <1>0, <2>1 DEF LoopTop
  <2>2. CASE RunChain(c) BY <1>0, <2>2 DEF RunChain
  <2>3. CASE PublishScan(c) BY <1>0, <2>3 DEF PublishScan
  <2>4. CASE PublishDeliver(c) BY <1>0, <2>4 DEF PublishDeliver
  <2>5. CASE ListStep(c) BY <1>0, <2>5 DEF ListStep
  <2>6. CASE SendReply(c) BY <1>0, <2>6 DEF SendReply
  <2> QED BY <1>5, <2>1, <2>2, <2>3, <2>4, <2>5, <2>6 DEF Handle
<1>6. CASE Teardown(c)
  <2>1. CASE UnregisterRemove(c) BY <1>0, <2>1 DEF UnregisterRemove
  <2>2. CASE UnregisterWipe(c) BY <1>0, <2>2 DEF UnregisterWipe
  <2>3. CASE Close(c) BY <1>0, <2>3 DEF Close
  <2> QED BY <1>6, <2>1, <2>2, <2>3 DEF Teardown
<1> QED
  BY <1>1, <1>2, <1>3, <1>4, <1>5, <1>6 DEF Task, ReadPacket, Answers

-----------------------------------------------------------------------------
(* A task that works on a message or on a list of filters has one.         *)

\* Every step of a task keeps MessageInHand and ListInHand.
LEMMA HandStep ==
  ASSUME TypeOK, MessageInHand, ListInHand, NEW c \in Conns, Task(c)
  PROVE  MessageInHand' /\ ListInHand'
<1>1. OthersUnchanged(c)
  BY TaskIsLocal
<1>2. /\ pc'[c] \in {"chain", "scan", "deliver"} => msg'[c] # None
      /\ pc'[c] = "list" => list'[c] # <<>>
  <2>0. /\ pc = [d \in Conns |-> pc[d]] /\ msg = [d \in Conns |-> msg[d]]
        /\ list = [d \in Conns |-> list[d]] /\ after[c] \in {"top", "reply", "closing"}
    BY DEF TypeOK
  <2> USE <2>0 DEF Goto, SendOrFail, mapVars, taskVars, chanVars
  <2>1. CASE Handshake(c)
    BY <2>1 DEF Handshake, ConnectFails, Refuse, Accept, RegisterRemove, RegisterWipe,
                RegisterInsert, SendConnack
  <2>2. CASE ReadFails(c)
    BY <2>2 DEF ReadFails
  <2>3. ASSUME NEW r \in Requests[c], Answers(c, r) PROVE <1>2
    <3>1. CASE ReadPublish(c, r)
      <4> DEFINE m == [payload |-> <<c, reads[c] + 1, r.qos>>, topic |-> r.topic, qos |-> r.qos]
      <4>0. Reads(c, r) /\ r.type = "publish"
        BY <3>1 DEF ReadPublish
      <4>1. m \in Message
        BY <4>0, PublishMessage
      <4>2. \/ msg' = [msg EXCEPT ![c] = m] /\ pc'[c] # "list"
            \/ pc'[c] \notin {"chain", "scan", "deliver", "list"}
        BY <3>1 DEF ReadPublish
      <4> HIDE DEF m
      <4>3. m # None
        BY <4>1, NoneAssumption
      <4> QED
        BY <4>2, <4>3
    <3>2. CASE ReadPubrel(c, r)
      BY <3>2, RequestFields DEF ReadPubrel
    <3> QED
      BY <2>3, <3>1, <3>2 DEF Answers, ReadFatal, ReadDisconnect, ReadNoise, ReadPingreq,
                              ReadAck, ReadPubrec
  <2>4. ASSUME NEW r \in Requests[c], ReadSubscribe(c, r) PROVE <1>2
    BY <2>4 DEF ReadSubscribe
  <2>5. CASE Handle(c)
    <3>1. CASE RunChain(c)
      <4>1. msg'[c] \in Message
        BY <3>1, RunChainType
      <4>2. pc'[c] # "list"
        BY <3>1 DEF RunChain
      <4> QED
        BY <4>1, <4>2, NoneAssumption
    <3>2. CASE PublishScan(c)
      BY <3>2 DEF PublishScan, MessageInHand
    <3>3. CASE PublishDeliver(c)
      BY <3>3 DEF PublishDeliver, MessageInHand
    <3>4. CASE ListStep(c)
      BY <3>4 DEF ListStep
    <3>5. CASE LoopTop(c) \/ SendReply(c)
      BY <3>5 DEF LoopTop, SendReply
    <3> QED
      BY <2>5, <3>1, <3>2, <3>3, <3>4, <3>5 DEF Handle
  <2>6. CASE Teardown(c)
    BY <2>6 DEF Teardown, UnregisterRemove, UnregisterWipe, Close
  <2> QED
    BY <2>1, <2>2, <2>3, <2>4, <2>5, <2>6 DEF Task, ReadPacket, Answers
<1> QED
  BY <1>1, <1>2, SMTT(30), Z3T(30) DEF OthersUnchanged, MessageInHand, ListInHand

-----------------------------------------------------------------------------
(* Which steps touch the maps, and where the task stands when it does not. *)

\* Where a task has removed a session and not finished settling its client.
Settling == {"reg_wipe", "reg_insert", "unreg_wipe"}

\* Task c leaves both maps alone and is not in the middle of settling a client.
Quiet(c) == UNCHANGED mapVars /\ pc[c] \notin Settling

\* The updates of sessions and of the subscription tree.
MapStep(c) ==
  RegisterRemove(c) \/ RegisterWipe(c) \/ RegisterInsert(c) \/ ListStep(c)
    \/ UnregisterRemove(c) \/ UnregisterWipe(c)

\* A step of a task is one of the six map updates, or leaves the maps alone.
LEMMA QuietOrMap ==
  ASSUME TypeOK, NEW c \in Conns, Task(c)
  PROVE  MapStep(c) \/ Quiet(c)
<1> USE DEF Quiet, Settling, Reads
<1>1. CASE Handshake(c)
  BY <1>1 DEF Handshake, MapStep, ConnectFails, Refuse, Accept, SendConnack
<1>2. CASE ReadPacket(c)
  <2>1. CASE ReadFails(c)
    BY <2>1 DEF ReadFails
  <2>2. ASSUME NEW r \in Requests[c], Answers(c, r) PROVE Quiet(c)
    BY <2>2 DEF Answers, ReadFatal, ReadDisconnect, ReadNoise, ReadPingreq, ReadAck,
                ReadPubrec, ReadPublish, ReadPubrel
  <2>3. ASSUME NEW r \in Requests[c], ReadSubscribe(c, r) PROVE Quiet(c)
    BY <2>3 DEF ReadSubscribe
  <2> HIDE DEF Quiet, Reads
  <2> QED
    BY <1>2, <2>1, <2>2, <2>3 DEF ReadPacket, Answers
<1>3. CASE Handle(c)
  BY <1>3 DEF Handle, MapStep, LoopTop, RunChain, PublishScan, PublishDeliver, SendReply
<1>4. CASE Teardown(c)
  BY <1>4 DEF Teardown, MapStep, Close
<1> QED
  BY <1>1, <1>2, <1>3, <1>4 DEF Task

\* A task enters the loop over a list of filters only past a successful lookup.
LEMMA EntersList ==
  ASSUME TypeOK, GuardedEntry, NEW c \in Conns, Task(c), Quiet(c), pc'[c] = "list"
  PROVE  sessions'[Id(c)'] # None
<1>0. pc = [d \in Conns |-> pc[d]] /\ after[c] \in {"top", "reply", "closing"}
  BY DEF TypeOK
<1> USE <1>0 DEF Quiet, Goto, SendOrFail, mapVars, taskVars
<1>1. CASE Handshake(c)
  BY <1>1 DEF Handshake, ConnectFails, Refuse, Accept, RegisterRemove, RegisterWipe,
              RegisterInsert, SendConnack
<1>2. CASE ReadFails(c) \/ \E r \in Requests[c] : Answers(c, r)
  BY <1>2 DEF ReadFails, Answers, ReadFatal, ReadDisconnect, ReadNoise, ReadPingreq,
              ReadAck, ReadPubrec, ReadPublish, ReadPubrel
<1>3. CASE \E r \in Requests[c] : ReadSubscribe(c, r)
  BY <1>3 DEF TypeOK, ReadSubscribe, Id
<1>4. CASE Handle(c)
  <2>1. CASE ListStep(c)
    BY <2>1 DEF TypeOK, ListStep, GuardedEntry, Id
  <2>2. CASE LoopTop(c) \/ RunChain(c) \/ PublishScan(c) \/ PublishDeliver(c) \/ SendReply(c)
    BY <2>2 DEF LoopTop, RunChain, PublishScan, PublishDeliver, SendReply
  <2> QED
    BY <1>4, <2>1, <2>2 DEF Handle
<1>5. CASE Teardown(c)
  BY <1>5 DEF Teardown, UnregisterRemove, UnregisterWipe, Close
<1> QED
  BY <1>1, <1>2, <1>3, <1>4, <1>5 DEF Task, ReadPacket, Answers

-----------------------------------------------------------------------------
(* The two safety invariants are preserved.                                *)

\* ListStep leaves a session entry a session entry.
LEMMA ListStepEntry ==
  ASSUME TypeOK, ListInHand, GuardedEntry, NEW c \in Conns, ListStep(c)
  PROVE  \A id \in ClientIds : sessions[id] # None => sessions'[id] # None
<1> DEFINE f == Head(list[c])[1]
           q == Head(list[c])[2]
           e == [sessions[Id(c)] EXCEPT !.filters[f] = q]
<1>1. Head(list[c]) \in Filters \X (QoS \cup {None})
  BY SMTT(30), Z3T(30) DEF TypeOK, ListInHand, ListStep
<1>2. f \in Filters /\ q \in QoS \cup {None}
  BY <1>1
<1>3. Id(c) \in ClientIds /\ sessions[Id(c)] \in Session
  BY DEF TypeOK, GuardedEntry, ListStep, Id
<1>4. sessions' = sessions \/ sessions' = [sessions EXCEPT ![Id(c)] = e]
  BY DEF ListStep
<1>5. e \in Session
  <2> HIDE DEF f, q
  <2> QED BY <1>2, <1>3 DEF Session
<1> HIDE DEF e
<1> QED
  BY <1>3, <1>4, <1>5, NoneAssumption DEF TypeOK

\* Every step of a task keeps GuardedEntry: removals wait for the read guard.
LEMMA GuardedStep ==
  ASSUME TypeOK, ListInHand, GuardedEntry, NEW c \in Conns, Task(c)
  PROVE  GuardedEntry'
<1>1. OthersUnchanged(c)
  BY TaskIsLocal
<1> SUFFICES ASSUME NEW d \in Conns, pc'[d] = "list" PROVE sessions'[Id(d)'] # None
  BY DEF GuardedEntry
<1>2. CASE Quiet(c)
  <2>1. CASE d = c
    BY <1>2, <2>1, EntersList
  <2>2. CASE d # c
    BY <1>1, <1>2, <2>2 DEF OthersUnchanged, Quiet, mapVars, GuardedEntry, Id
  <2> QED BY <2>1, <2>2
<1>3. CASE RegisterRemove(c) \/ UnregisterRemove(c)
  <2>1. ~Held(Id(c)) /\ sessions' = [sessions EXCEPT ![Id(c)] = None] /\ pc'[c] # "list"
    BY <1>3 DEF RegisterRemove, UnregisterRemove, Goto, TypeOK
  <2>2. pc[d] = "list" /\ req'[d] = req[d]
    BY <1>1, <2>1 DEF OthersUnchanged
  <2>3. Id(d) # Id(c)
    BY <2>1, <2>2 DEF Held
  <2> QED
    BY <2>1, <2>2, <2>3 DEF GuardedEntry, Id, TypeOK
<1>4. CASE RegisterInsert(c)
  <2>1. /\ sessions' = [sessions EXCEPT ![Id(c)] =
                    [conn |-> c, filters |-> NoFilters,
                     will |-> req[c].will, clean |-> req[c].clean]]
        /\ pc'[c] # "list"
    BY <1>4 DEF RegisterInsert, Goto, TypeOK
  <2>2. pc[d] = "list" /\ req'[d] = req[d]
    BY <1>1, <2>1 DEF OthersUnchanged
  <2>3. [conn |-> c, filters |-> NoFilters, will |-> req[c].will, clean |-> req[c].clean] # None
    <3>1. [conn |-> c, filters |-> NoFilters, will |-> req[c].will, clean |-> req[c].clean] \in Session
      BY DEF TypeOK, Session, NoFilters
    <3> QED BY <3>1, NoneAssumption
  <2> QED
    BY <2>1, <2>2, <2>3 DEF GuardedEntry, Id, TypeOK
<1>5. CASE RegisterWipe(c) \/ UnregisterWipe(c)
  <2>1. sessions' = sessions /\ pc'[c] # "list"
    BY <1>5 DEF RegisterWipe, UnregisterWipe, Goto, TypeOK
  <2> QED
    BY <1>1, <2>1 DEF OthersUnchanged, GuardedEntry, Id
<1>6. CASE ListStep(c)
  <2>1. pc[d] = "list" /\ req'[d] = req[d]
    BY <1>1, <1>6 DEF OthersUnchanged, ListStep
  <2> QED
    BY <1>6, <2>1, ListStepEntry DEF GuardedEntry, Id, TypeOK
<1> QED
  BY <1>2, <1>3, <1>4, <1>5, <1>6, QuietOrMap DEF MapStep

\* Every step of a task keeps NoOrphanSubscription: a removed session is
\* followed by a wipe of the tree or by a new session of the same id.
LEMMA OrphanStep ==
  ASSUME TypeOK, ListInHand, GuardedEntry, NoOrphanSubscription, NEW c \in Conns, Task(c)
  PROVE  NoOrphanSubscription'
<1>1. OthersUnchanged(c)
  BY TaskIsLocal
<1> SUFFICES ASSUME NEW f \in Filters, NEW id \in ClientIds, subs'[f][id] # None,
                    sessions'[id] = None
             PROVE  \E d \in Conns : WillSettle(d, f, id)'
  BY DEF NoOrphanSubscription
<1>2. \A d \in Conns \ {c} : WillSettle(d, f, id) => WillSettle(d, f, id)'
  BY <1>1 DEF OthersUnchanged, WillSettle, Id
<1>3. subs[f][id] # None => sessions[id] # None \/ \E d \in Conns : WillSettle(d, f, id)
  BY DEF NoOrphanSubscription
<1>4. CASE Quiet(c)
  <2>1. ~WillSettle(c, f, id)
    BY <1>4 DEF Quiet, Settling, WillSettle
  <2> QED
    BY <1>2, <1>3, <1>4, <2>1 DEF Quiet, mapVars
<1>5. CASE RegisterRemove(c)
  <2>1. subs' = subs /\ (\A i \in ClientIds \ {Id(c)} : sessions'[i] = sessions[i])
    BY <1>5 DEF RegisterRemove, TypeOK
  <2>2. ~WillSettle(c, f, id) /\ Id(c)' = Id(c) /\ pc'[c] \in {"reg_wipe", "reg_insert"}
    BY <1>5 DEF RegisterRemove, WillSettle, Id, Goto, TypeOK
  <2>3. CASE id = Id(c)
    BY <2>2, <2>3 DEF WillSettle
  <2>4. CASE id # Id(c)
    BY <1>2, <1>3, <2>1, <2>2, <2>4
  <2> QED BY <2>3, <2>4
<1>6. CASE UnregisterRemove(c)
  <2>1. subs' = subs /\ (\A i \in ClientIds \ {Id(c)} : sessions'[i] = sessions[i])
    BY <1>6 DEF UnregisterRemove, TypeOK
  <2>2. /\ ~WillSettle(c, f, id) /\ Id(c)' = Id(c) /\ todo'[c] = Filters
        /\ sessions[Id(c)] # None => pc'[c] = "unreg_wipe"
    BY <1>6 DEF UnregisterRemove, WillSettle, Id, Goto, TypeOK
  <2>3. CASE id = Id(c) /\ sessions[id] # None
    BY <2>2, <2>3 DEF WillSettle
  <2>4. CASE id # Id(c) \/ sessions[id] = None
    BY <1>2, <1>3, <2>1, <2>2, <2>4
  <2> QED BY <2>3, <2>4
<1>7. CASE RegisterWipe(c)
  <2>0. subs \in [Filters -> [ClientIds -> QoS \cup {None}]]
    BY DEF TypeOK
  <2>1. sessions' = sessions /\ subs[f][id] # None
    BY <1>7, <2>0, SMTT(30), Z3T(30) DEF RegisterWipe, WipeFilter
  <2>2. Id(c)' = Id(c) /\ pc'[c] \in {"reg_wipe", "reg_insert"}
    BY <1>7 DEF RegisterWipe, Id, Goto, TypeOK
  <2> QED
    BY <1>2, <1>3, <2>1, <2>2 DEF WillSettle
<1>8. CASE UnregisterWipe(c)
  <2>1. PICK g \in todo[c] :
           /\ subs' = [subs EXCEPT ![g][Id(c)] = None]
           /\ todo[c] # {g} => todo' = [todo EXCEPT ![c] = @ \ {g}] /\ pc' = pc
    BY <1>8 DEF UnregisterWipe, WipeFilter
  <2>2. sessions' = sessions /\ Id(c)' = Id(c) /\ pc[c] = "unreg_wipe"
    BY <1>8 DEF UnregisterWipe, Id
  <2>3. subs[f][id] # None /\ (id = Id(c) => f # g)
    BY <2>1 DEF TypeOK, Id
  <2>4. WillSettle(c, f, id) => WillSettle(c, f, id)'
    <3>1. todo \in [Conns -> SUBSET Filters]
      BY DEF TypeOK
    <3> QED
      BY <2>1, <2>2, <2>3, <3>1 DEF WillSettle
  <2> QED
    BY <1>2, <1>3, <2>2, <2>3, <2>4
<1>9. CASE RegisterInsert(c)
  <2> DEFINE e == [conn |-> c, filters |-> NoFilters, will |-> req[c].will, clean |-> req[c].clean]
  <2>1. e # None
    <3>1. e \in Session
      BY DEF TypeOK, Session, NoFilters
    <3> QED BY <3>1, NoneAssumption
  <2>2. subs' = subs /\ sessions' = [sessions EXCEPT ![Id(c)] = e]
    BY <1>9 DEF RegisterInsert
  <2> HIDE DEF e
  <2>3. id # Id(c) /\ sessions[id] = None
    BY <2>1, <2>2 DEF TypeOK
  <2> QED
    BY <1>2, <1>3, <2>2, <2>3 DEF WillSettle
<1>10. CASE ListStep(c)
  <2>1. sessions[id] = None
    BY <1>10, ListStepEntry
  <2>2. id # Id(c)
    BY <1>10, <2>1 DEF ListStep, GuardedEntry
  <2>3. ~WillSettle(c, f, id)
    BY <1>10 DEF ListStep, WillSettle
  <2>4. CASE subs' = subs
    BY <1>2, <1>3, <2>1, <2>3, <2>4
  <2>5. CASE \E g \in Filters, q \in QoS \cup {None} : subs' = [subs EXCEPT ![g][Id(c)] = q]
    <3>1. PICK g \in Filters, q \in QoS \cup {None} : subs' = [subs EXCEPT ![g][Id(c)] = q]
      BY <2>5
    <3>2. subs[f] \in [ClientIds -> QoS \cup {None}] /\ Id(c) \in ClientIds
      BY DEF TypeOK, Id
    <3>3. subs'[f][id] = subs[f][id]
      BY <2>2, <3>1, <3>2 DEF TypeOK
    <3> QED
      BY <1>2, <1>3, <2>1, <2>3, <3>3
  <2>6. Head(list[c]) \in Filters \X (QoS \cup {None})
    <3>1. list[c] \in Seq(Filters \X (QoS \cup {None}))
      BY DEF TypeOK
    <3>2. list[c] # <<>>
      BY <1>10 DEF ListInHand, ListStep
    <3> QED
      BY <3>1, <3>2, HeadType
  <2> QED
    BY <1>10, <2>4, <2>5, <2>6 DEF ListStep
<1> QED
  BY <1>4, <1>5, <1>6, <1>7, <1>8, <1>9, <1>10, QuietOrMap DEF MapStep

-----------------------------------------------------------------------------
(* The inductive invariant.                                                *)

\* Every step of a handle_server task keeps the types.
LEMMA TaskType ==
  ASSUME TypeOK, MessageInHand, ListInHand, GuardedEntry, NEW c \in Conns, Task(c)
  PROVE  TypeOK'
<1>1. CASE Handshake(c)
  BY <1>1, ConnectFailsType, RefuseType, AcceptType, RegisterRemoveType, RegisterWipeType,
     RegisterInsertType, SendConnackType DEF Handshake
<1>2. CASE ReadPacket(c)
  BY <1>2, ReadFailsType, ReadFatalType, ReadDisconnectType, ReadNoiseType, ReadPingreqType,
     ReadAckType, ReadPubrecType, ReadPublishType, ReadPubrelType, ReadSubscribeType
     DEF ReadPacket
<1>3. CASE Handle(c)
  BY <1>3, LoopTopType, RunChainType, PublishScanType, PublishDeliverType, ListStepType,
     SendReplyType DEF Handle
<1>4. CASE Teardown(c)
  BY <1>4, UnregisterRemoveType, UnregisterWipeType, CloseType DEF Teardown
<1> QED
  BY <1>1, <1>2, <1>3, <1>4 DEF Task

\* A broker that has just started satisfies the inductive invariant.
LEMMA InitIInv == Init => IInv
<1> SUFFICES ASSUME Init PROVE IInv
  OBVIOUS
<1>1. MessageInHand /\ ListInHand /\ GuardedEntry /\ NoOrphanSubscription
  BY DEF Init, MessageInHand, ListInHand, GuardedEntry, NoOrphanSubscription
<1> QED
  BY <1>1, InitType DEF IInv

\* Every step of a task or of a writer actor keeps the inductive invariant.
LEMMA StepIInv == IInv /\ [Next]_vars => IInv'
<1> SUFFICES ASSUME IInv, [Next]_vars PROVE IInv'
  OBVIOUS
<1> USE DEF IInv
<1>1. ASSUME NEW c \in Conns, Task(c) PROVE IInv'
  BY <1>1, TaskType, HandStep, GuardedStep, OrphanStep
<1>2. ASSUME NEW c \in Conns, WriterExits(c) \/ WriterGone(c) PROVE IInv'
  <2>1. UNCHANGED <<mapVars, pc, taskVars>>
    BY <1>2 DEF WriterExits, WriterGone
  <2>2. MessageInHand' /\ ListInHand' /\ GuardedEntry' /\ NoOrphanSubscription'
    BY <2>1 DEF MessageInHand, ListInHand, GuardedEntry, NoOrphanSubscription, WillSettle, Id,
                mapVars, taskVars
  <2> QED
    BY <1>2, <2>2, WriterType
<1>3. CASE UNCHANGED vars
  BY <1>3 DEF vars, mapVars, taskVars, chanVars, TypeOK, MessageInHand, ListInHand,
              GuardedEntry, NoOrphanSubscription, WillSettle, Id
<1> QED
  BY <1>1, <1>2, <1>3 DEF Next, Terminated

\* The broker's maps and the tasks' locals keep their types, for any number of
\* connections, client ids, filters and topics and any endpoint behaviour.
THEOREM TypeCorrect == Spec => []TypeOK
<1>1. IInv => TypeOK
  BY DEF IInv
<1> QED
  BY <1>1, InitIInv, StepIInv, PTL DEF Spec

\* No register_session or unregister_session removes a session entry while
\* Broker::subscribe or Broker::unsubscribe is working on it.
THEOREM GuardHolds == Spec => []GuardedEntry
<1>1. IInv => GuardedEntry
  BY DEF IInv
<1> QED
  BY <1>1, InitIInv, StepIInv, PTL DEF Spec

\* A subscription in the tree belongs to a client that has a session, or that a
\* task inside register_session or unregister_session is about to settle, even
\* when several connections use the same client id at once.
THEOREM NoOrphans == Spec => []NoOrphanSubscription
<1>1. IInv => NoOrphanSubscription
  BY DEF IInv
<1> QED
  BY <1>1, InitIInv, StepIInv, PTL DEF Spec
-----------------------------------------------------------------------------
(* What a step does to the command queues of the channels.                 *)

\* p is put at the end of d's queue.
Queues(d, p) ==
  /\ Len(out'[d]) = Len(out[d]) + 1
  /\ out'[d][Len(out[d]) + 1] = p
  /\ \A i \in 1..Len(out[d]) : out'[d][i] = out[d][i]

\* send_packet puts the packet at the end of one queue, unless the writer actor
\* has dropped its end.
LEMMA SendEffect ==
  ASSUME out \in [Conns -> Seq(Outgoing)], NEW x \in Conns, NEW p \in Outgoing, Send(x, p)
  PROVE  /\ \A d \in Conns : d # x \/ ~CanSend(x) => out'[d] = out[d]
         /\ CanSend(x) => Queues(x, p)
  BY SMTT(30), Z3T(30) DEF Send, Queues

\* handle_server tasks leave the writer actors alone.
LEMMA WriterStands == ASSUME NEW c \in Conns, Task(c) PROVE UNCHANGED writer
<1> USE DEF chanVars
<1>1. CASE Handshake(c)
  BY <1>1 DEF Handshake, ConnectFails, Refuse, Accept, RegisterRemove, RegisterWipe,
              RegisterInsert, SendConnack
<1>2. CASE ReadPacket(c)
  BY <1>2 DEF ReadPacket, ReadFails, ReadFatal, ReadDisconnect, ReadNoise, ReadPingreq,
              ReadAck, ReadPubrec, ReadPublish, ReadPubrel, ReadSubscribe
<1>3. CASE Handle(c)
  BY <1>3 DEF Handle, LoopTop, RunChain, PublishScan, PublishDeliver, ListStep, SendReply
<1>4. CASE Teardown(c)
  BY <1>4 DEF Teardown, UnregisterRemove, UnregisterWipe, Close
<1> QED
  BY <1>1, <1>2, <1>3, <1>4 DEF Task

\* The reply a handler sends of its own accord, and not by a fan-out.
Replied(c) == UNCHANGED out \/ \E p \in Replies : Send(c, p)

\* A step of task c other than a delivery queues at most one reply, for c.
LEMMA RepliesOrDelivers ==
  ASSUME TypeOK, NEW c \in Conns, Task(c)
  PROVE  Replied(c) \/ PublishDeliver(c)
<1>0. reply[c] \in Replies
  BY DEF TypeOK
<1> USE DEF Replied, SendOrFail, chanVars
<1>1. CASE Handshake(c)
  <2>1. [type |-> "connack", accepted |-> FALSE, present |-> FALSE] \in Replies
    BY DEF Replies
  <2> QED
    BY <1>0, <1>1, <2>1 DEF Handshake, ConnectFails, Refuse, Accept, RegisterRemove, RegisterWipe,
                            RegisterInsert, SendConnack
<1>2. CASE ReadFails(c)
  BY <1>2 DEF ReadFails
<1>3. ASSUME NEW r \in Requests[c], Answers(c, r) PROVE Replied(c)
  <2>1. r.id \in PacketIds =>
          \A t \in {"puback", "pubrec", "pubrel", "pubcomp"} : [type |-> t, id |-> r.id] \in Replies
    BY DEF Replies
  <2>2. [type |-> "pingresp"] \in Replies
    BY DEF Replies
  <2>3. CASE ReadPublish(c, r)
    BY <2>1, <2>3, RequestFields DEF ReadPublish
  <2>4. CASE ReadPubrec(c, r)
    BY <2>1, <2>4, RequestFields DEF ReadPubrec
  <2>5. CASE ReadPingreq(c, r)
    BY <2>2, <2>5 DEF ReadPingreq
  <2> QED
    BY <1>3, <2>3, <2>4, <2>5 DEF Answers, ReadFatal, ReadDisconnect, ReadNoise, ReadAck, ReadPubrel
<1>4. ASSUME NEW r \in Requests[c], ReadSubscribe(c, r) PROVE Replied(c)
  BY <1>4 DEF ReadSubscribe
<1>5. CASE Handle(c)
  BY <1>0, <1>5 DEF Handle, LoopTop, RunChain, PublishScan, ListStep, SendReply
<1>6. CASE Teardown(c)
  BY <1>6 DEF Teardown, UnregisterRemove, UnregisterWipe, Close
<1> HIDE DEF Replied
<1> QED
  BY <1>1, <1>2, <1>3, <1>4, <1>5, <1>6 DEF Task, ReadPacket, Answers

\* The publication that c's message becomes on channel d at QoS q.
Delivery(c, d, q, id) ==
  [type |-> "publish", payload |-> msg[c].payload, topic |-> msg[c].topic, qos |-> q, id |-> id]

\* Delivery of one hit, as far as the queues go.
Delivers(c, h) ==
  /\ hits' = [hits EXCEPT ![c] = @ \ {h}]
  /\ Goto(c, IF hits[c] = {h} THEN after[c] ELSE "deliver")
  /\ IF h[2] = Source(c) \/ sessions[h[2]] = None THEN UNCHANGED out
     ELSE /\ sessions[h[2]].conn \in Conns
          /\ \E q \in QoS, id \in PacketIds :
               /\ Delivery(c, sessions[h[2]].conn, q, id) \in Outgoing
               /\ Send(sessions[h[2]].conn, Delivery(c, sessions[h[2]].conn, q, id))

\* A delivery is of one collected subscription, to the channel its client has
\* now, and of the message in hand.
LEMMA DeliverEffect ==
  ASSUME TypeOK, MessageInHand, NEW c \in Conns, PublishDeliver(c)
  PROVE  \E h \in hits[c] : h \in Filters \X ClientIds \X QoS /\ Delivers(c, h)
<1>1. PICK h \in hits[c] :
       /\ hits' = [hits EXCEPT ![c] = @ \ {h}]
       /\ Goto(c, IF hits[c] = {h} THEN after[c] ELSE "deliver")
       /\ IF h[2] = Source(c) \/ sessions[h[2]] = None
            THEN UNCHANGED <<counter, inflight, out>>
            ELSE LET d == sessions[h[2]].conn
                     q == MinQoS(msg[c].qos, h[3])
                     id == IF q > 0 THEN allocate_packet_id(counter[d]) ELSE 0
                 IN /\ counter' = IF q > 0 THEN [counter EXCEPT ![d] = NextCounter(@)]
                                  ELSE counter
                    /\ inflight' = IF q > 0 THEN [inflight EXCEPT ![d] = @ \cup {id}]
                                   ELSE inflight
                    /\ Send(d, [type |-> "publish", payload |-> msg[c].payload,
                                topic |-> msg[c].topic, qos |-> q, id |-> id])
  BY DEF PublishDeliver
<1>2. h \in Filters \X ClientIds \X QoS
  BY DEF TypeOK
<1>3. ASSUME h[2] # Source(c), sessions[h[2]] # None
      PROVE  /\ sessions[h[2]].conn \in Conns
             /\ \E q \in QoS, id \in PacketIds :
                  /\ Delivery(c, sessions[h[2]].conn, q, id) \in Outgoing
                  /\ Send(sessions[h[2]].conn, Delivery(c, sessions[h[2]].conn, q, id))
  <2> DEFINE d == sessions[h[2]].conn
             q == MinQoS(msg[c].qos, h[3])
             id == IF q > 0 THEN allocate_packet_id(counter[d]) ELSE 0
  <2>1. d \in Conns
    <3>1. sessions \in [ClientIds -> Session \cup {None}] /\ h[2] \in ClientIds
      BY <1>2 DEF TypeOK
    <3>2. sessions[h[2]] \in Session
      BY <1>3, <3>1
    <3> QED
      BY <3>2 DEF Session
  <2>2. msg[c] \in Message
    BY DEF TypeOK, MessageInHand, PublishDeliver
  <2>3. q \in QoS
    BY <1>2, <2>2 DEF MinQoS, Message, QoS
  <2>4. counter[d] \in PacketIds
    BY <2>1 DEF TypeOK
  <2>5. id \in PacketIds
    <3>1. allocate_packet_id(counter[d]) \in PacketIds /\ 0 \in PacketIds
      BY <2>4, AllocateType, BoundsAssumption, SMTT(30), Z3T(30) DEF PacketIds
    <3> HIDE DEF d, q
    <3> QED
      BY <3>1
  <2>6. Send(d, Delivery(c, d, q, id))
    BY <1>1, <1>3 DEF Delivery
  <2> HIDE DEF d, q, id
  <2>7. Delivery(c, d, q, id) \in Outgoing
    BY <2>2, <2>3, <2>5 DEF Outgoing, Message, Delivery
  <2>8. \E q1 \in QoS, id1 \in PacketIds : Delivery(c, d, q1, id1) \in Outgoing
                                             /\ Send(d, Delivery(c, d, q1, id1))
    BY <2>3, <2>5, <2>6, <2>7
  <2> QED
    BY <2>1, <2>8 DEF d
<1>4. Delivers(c, h)
  BY <1>1, <1>3 DEF Delivers
<1> QED
  BY <1>2, <1>4

\* What is in a queue stays there, at its place.
LEMMA QueuesGrow ==
  ASSUME TypeOK, MessageInHand, NEW c \in Conns, Task(c), NEW d \in Conns
  PROVE  Len(out[d]) <= Len(out'[d]) /\ \A i \in 1..Len(out[d]) : out'[d][i] = out[d][i]
<1>0. out \in [Conns -> Seq(Outgoing)] /\ Len(out[d]) \in Nat
  BY SMTT(30), Z3T(30) DEF TypeOK
<1>1. ASSUME NEW x \in Conns, NEW p \in Outgoing, Send(x, p)
      PROVE  Len(out[d]) <= Len(out'[d]) /\ \A i \in 1..Len(out[d]) : out'[d][i] = out[d][i]
  <2>1. d # x \/ ~CanSend(x) => out'[d] = out[d]
    BY <1>0, <1>1, SendEffect
  <2>2. CanSend(x) => Queues(x, p)
    BY <1>0, <1>1, SendEffect
  <2>3. CASE d # x \/ ~CanSend(x)
    BY <1>0, <2>1, <2>3, SMTT(30), Z3T(30)
  <2>4. CASE d = x /\ CanSend(x)
    BY <1>0, <2>2, <2>4, SMTT(30), Z3T(30) DEF Queues
  <2> QED
    BY <2>3, <2>4
<1>2. CASE UNCHANGED out
  BY <1>0, <1>2, SMTT(30), Z3T(30)
<1>3. CASE \E p \in Replies : Send(c, p)
  BY <1>1, <1>3, ReplyIsOutgoing
<1>4. CASE PublishDeliver(c)
  <2>1. PICK h \in hits[c] : Delivers(c, h)
    BY <1>4, DeliverEffect
  <2>2. UNCHANGED out \/ \E x \in Conns : \E p \in Outgoing : Send(x, p)
    BY <2>1 DEF Delivers
  <2> QED
    BY <1>1, <1>2, <2>2
<1> QED
  BY <1>2, <1>3, <1>4, RepliesOrDelivers DEF Replied

-----------------------------------------------------------------------------
(* What a step does to a task's own message, and to the queues.            *)

\* Where a task is from the removal of its session entry on.
Leaving == {"unreg_wipe", "scan", "deliver", "closing", "done"}

\* The messages stashed for task c are QoS 2 messages it has read.
Stash(c) ==
  \A i \in PacketIds : qos2[c][i] # None =>
    LET p == qos2[c][i].payload
    IN p[1] = c /\ p[2] <= reads[c] /\ p[3] = 2

\* The count of packets read only grows, by one at a time, and only in "read".
LEMMA ReadsGrow ==
  ASSUME TypeOK, NEW c \in Conns, Task(c), NEW d \in Conns
  PROVE  /\ reads[d] \in 0..MaxReads /\ reads'[d] \in {reads[d], reads[d] + 1}
         /\ pc[c] # "read" => reads' = reads
<1>0. reads = [x \in Conns |-> reads[x]] /\ reads[d] \in 0..MaxReads
  BY DEF TypeOK
<1> USE <1>0 DEF taskVars
<1>1. CASE Handshake(c)
  BY <1>1 DEF Handshake, ConnectFails, Refuse, Accept, RegisterRemove, RegisterWipe,
              RegisterInsert, SendConnack
<1>2. CASE ReadPacket(c)
  <2>1. CASE ReadFails(c)
    BY <2>1 DEF ReadFails
  <2>2. ASSUME NEW r \in Requests[c], Reads(c, r)
        PROVE  reads'[d] \in {reads[d], reads[d] + 1} /\ pc[c] = "read"
    BY <2>2 DEF Reads
  <2> QED
    BY <1>2, <2>1, <2>2 DEF ReadPacket, ReadFatal, ReadDisconnect, ReadNoise, ReadPingreq,
       ReadAck, ReadPubrec, ReadPublish, ReadPubrel, ReadSubscribe
<1>3. CASE Handle(c)
  BY <1>3 DEF Handle, LoopTop, RunChain, PublishScan, PublishDeliver, ListStep, SendReply
<1>4. CASE Teardown(c)
  BY <1>4 DEF Teardown, UnregisterRemove, UnregisterWipe, Close
<1> QED
  BY <1>1, <1>2, <1>3, <1>4 DEF Task

\* A payload is a triple.
LEMMA PayloadFields ==
  ASSUME NEW m \in Message
  PROVE  m.payload[1] \in Conns /\ m.payload[2] \in 1..WillNo /\ m.payload[3] \in QoS
  BY DEF Message, Payload

\* Task c keeps its message and is not about to fan it out.
Still(c) ==
  /\ msg'[c] = msg[c] /\ after'[c] = after[c] /\ pc[c] \notin Leaving
  /\ pc'[c] \notin {"chain", "scan", "deliver", "unreg_wipe"}

\* The steps in which a task's message moves.
Moves(c) ==
  \/ \E r \in Requests[c] : ReadPublish(c, r) \/ ReadPubrel(c, r)
  \/ RunChain(c) \/ PublishScan(c) \/ PublishDeliver(c) \/ Teardown(c)

\* Every other step leaves it.
LEMMA StillOrMoves ==
  ASSUME TypeOK, NEW c \in Conns, Task(c)
  PROVE  Still(c) \/ Moves(c)
<1>0. pc = [d \in Conns |-> pc[d]]
  BY DEF TypeOK
<1> USE <1>0 DEF Still, Leaving, Goto, SendOrFail, Reads, mapVars, taskVars
<1>1. CASE Handshake(c)
  BY <1>1 DEF Handshake, ConnectFails, Refuse, Accept, RegisterRemove, RegisterWipe,
              RegisterInsert, SendConnack
<1>2. CASE ReadFails(c)
  BY <1>2 DEF ReadFails
<1>3. ASSUME NEW r \in Requests[c], Answers(c, r), ~ReadPublish(c, r), ~ReadPubrel(c, r)
      PROVE  Still(c)
  BY <1>3 DEF Answers, ReadFatal, ReadDisconnect, ReadNoise, ReadPingreq, ReadAck, ReadPubrec
<1>4. ASSUME NEW r \in Requests[c], ReadSubscribe(c, r) PROVE Still(c)
  BY <1>4 DEF ReadSubscribe
<1>5. CASE LoopTop(c) \/ ListStep(c) \/ SendReply(c)
  BY <1>5 DEF LoopTop, ListStep, SendReply
<1> HIDE DEF Still, Reads, Goto, SendOrFail
<1> QED
  BY <1>1, <1>2, <1>3, <1>4, <1>5 DEF Task, ReadPacket, Answers, Handle, Moves

\* The steps that may change the stash of connection c.
StashChange(c) ==
  \/ UNCHANGED qos2 \/ Close(c)
  \/ \E j \in PacketIds : qos2' = [qos2 EXCEPT ![c][j] = None]
  \/ \E r \in Requests[c] : ReadPublish(c, r) /\ r.qos = 2

\* PUBLISH at QoS 2 adds to it, PUBREL takes one message out, and close() all.
LEMMA StashEffect == ASSUME TypeOK, NEW c \in Conns, Task(c) PROVE StashChange(c)
<1> USE DEF chanVars, StashChange
<1>1. CASE Handshake(c)
  BY <1>1 DEF Handshake, ConnectFails, Refuse, Accept, RegisterRemove, RegisterWipe,
              RegisterInsert, SendConnack
<1>2. CASE ReadFails(c)
  BY <1>2 DEF ReadFails
<1>3. ASSUME NEW r \in Requests[c], Answers(c, r) \/ ReadSubscribe(c, r) PROVE StashChange(c)
  <2>1. CASE ReadPubrel(c, r)
    BY <2>1, RequestFields DEF ReadPubrel
  <2>2. CASE ReadPublish(c, r)
    BY <2>2 DEF ReadPublish
  <2> QED
    BY <1>3, <2>1, <2>2 DEF Answers, ReadFatal, ReadDisconnect, ReadNoise, ReadPingreq, ReadAck,
                            ReadPubrec, ReadSubscribe
<1>4. CASE Handle(c)
  BY <1>4 DEF Handle, LoopTop, RunChain, PublishScan, PublishDeliver, ListStep, SendReply
<1>5. CASE Teardown(c)
  BY <1>5 DEF Teardown, UnregisterRemove, UnregisterWipe
<1> QED
  BY <1>1, <1>2, <1>3, <1>4, <1>5 DEF Task, ReadPacket, Answers

\* A step changes the stash of its own connection: PUBLISH adds the packet just
\* read, PUBREL and close() take messages out.
LEMMA StashStep ==
  ASSUME TypeOK, NEW c \in Conns, Task(c), Stash(c)
  PROVE  Stash(c)'
<1>0. reads[c] \in 0..MaxReads /\ reads'[c] \in {reads[c], reads[c] + 1}
  BY ReadsGrow
<1>1. ASSUME NEW i \in PacketIds, qos2'[c][i] = qos2[c][i], qos2[c][i] # None
      PROVE  LET p == qos2'[c][i].payload IN p[1] = c /\ p[2] <= reads'[c] /\ p[3] = 2
  <2>1. qos2[c][i].payload[2] \in 1..WillNo
    BY <1>1, PayloadFields, SMTT(30), Z3T(30) DEF TypeOK
  <2>2. qos2[c][i].payload[2] <= reads[c]
    BY <1>1 DEF Stash
  <2>3. qos2[c][i].payload[2] <= reads'[c]
    BY <1>0, <2>1, <2>2, BoundsAssumption, SMTT(30), Z3T(30) DEF WillNo
  <2> QED
    BY <1>1, <2>3 DEF Stash
<1>2. CASE UNCHANGED qos2
  BY <1>1, <1>2 DEF Stash
<1>3. CASE \E j \in PacketIds : qos2' = [qos2 EXCEPT ![c][j] = None]
  <2>1. PICK j \in PacketIds : qos2' = [qos2 EXCEPT ![c][j] = None]
    BY <1>3
  <2>2. \A i \in PacketIds : qos2'[c][i] = None \/ qos2'[c][i] = qos2[c][i]
    BY <2>1 DEF TypeOK
  <2> QED
    BY <1>1, <2>2 DEF Stash
<1>4. CASE \E r \in Requests[c] : ReadPublish(c, r) /\ r.qos = 2
  <2>1. PICK r \in Requests[c] : ReadPublish(c, r) /\ r.qos = 2
    BY <1>4
  <2> DEFINE m == [payload |-> <<c, reads[c] + 1, r.qos>>, topic |-> r.topic, qos |-> r.qos]
  <2>2. reads'[c] = reads[c] + 1 /\ r.id \in PacketIds
    BY <2>1, RequestFields DEF ReadPublish, Reads, TypeOK
  <2>0. reads[c] + 1 \in Int
    BY SMTT(30), Z3T(30) DEF TypeOK
  <2>3. qos2' = [qos2 EXCEPT ![c][r.id] = m]
    BY <2>1, SMTT(30), Z3T(30) DEF ReadPublish
  <2>4. m.payload[1] = c /\ m.payload[2] = reads[c] + 1 /\ m.payload[3] = 2
    BY <2>1
  <2> HIDE DEF m
  <2>5. m.payload[2] <= reads'[c]
    BY <2>0, <2>2, <2>4, SMTT(30), Z3T(30)
  <2>6. \A i \in PacketIds : qos2'[c][i] = IF i = r.id THEN m ELSE qos2[c][i]
    BY <2>2, <2>3 DEF TypeOK
  <2> QED
    BY <1>1, <2>4, <2>5, <2>6 DEF Stash
<1>5. CASE Close(c)
  BY <1>1, <1>5 DEF Stash, Close, TypeOK
<1> QED
  BY <1>2, <1>3, <1>4, <1>5, StashEffect DEF StashChange

\* A publication in a queue was there before, or is the message in the hands of
\* the task that takes the step, at the end of the queue.
LEMMA NewPublication ==
  ASSUME TypeOK, MessageInHand, NEW c \in Conns, Task(c), NEW d \in Conns, NEW i \in Published(d)'
  PROVE  \/ i \in Published(d) /\ out'[d][i] = out[d][i]
         \/ /\ PublishDeliver(c) /\ i = Len(out[d]) + 1
            /\ out'[d][i].payload = msg[c].payload /\ out'[d][i].topic = msg[c].topic
<1>0. out \in [Conns -> Seq(Outgoing)] /\ Len(out[d]) \in Nat
  BY SMTT(30), Z3T(30) DEF TypeOK
<1>1. i \in 1..Len(out'[d]) /\ out'[d][i].type = "publish"
  BY DEF Published
<1>2. CASE out'[d] = out[d]
  BY <1>1, <1>2 DEF Published
<1>3. ASSUME NEW x \in Conns, NEW p \in Outgoing, Send(x, p), out'[d] # out[d]
      PROVE  \/ i \in Published(d) /\ out'[d][i] = out[d][i]
             \/ i = Len(out[d]) + 1 /\ out'[d][i] = p
  <2>1. d = x /\ CanSend(x)
    BY <1>0, <1>3, SendEffect
  <2>2. Queues(d, p)
    BY <1>0, <1>3, <2>1, SendEffect
  <2>3. i \in 1..Len(out[d]) \/ i = Len(out[d]) + 1
    BY <1>0, <1>1, <2>2, SMTT(30), Z3T(30) DEF Queues
  <2> QED
    BY <1>1, <2>2, <2>3 DEF Queues, Published
<1>4. ASSUME NEW p \in Replies, Send(c, p)
      PROVE  i \in Published(d) /\ out'[d][i] = out[d][i]
  <2>1. p \in Outgoing /\ p.type # "publish"
    BY ReplyIsOutgoing DEF Replies
  <2> QED
    BY <1>1, <1>2, <1>3, <1>4, <2>1, SMTT(30), Z3T(30)
<1>5. CASE PublishDeliver(c)
  <2>1. PICK h \in hits[c] : Delivers(c, h)
    BY <1>5, DeliverEffect
  <2>2. CASE UNCHANGED out
    BY <1>2, <2>2
  <2>3. CASE ~UNCHANGED out
    <3>1. PICK x \in Conns, q \in QoS, id \in PacketIds :
            Delivery(c, x, q, id) \in Outgoing /\ Send(x, Delivery(c, x, q, id))
      BY <2>1, <2>3 DEF Delivers
    <3> QED
      BY <1>2, <1>3, <1>5, <3>1, SMTT(30), Z3T(30) DEF Delivery
  <2> QED
    BY <2>2, <2>3
<1> QED
  BY <1>2, <1>4, <1>5, RepliesOrDelivers DEF Replied

-----------------------------------------------------------------------------
(* What a step does to the task's own place and to the maps.               *)

\* Before its entry is in the map.
Early == {"accept", "reg_remove", "reg_wipe", "reg_insert"}

\* An entry is under the client id of the connection that registered it.
Owned ==
  \A id \in ClientIds : sessions[id] # None =>
    Id(sessions[id].conn) = id /\ pc[sessions[id].conn] \notin Early

\* A task never goes back to its handshake, keeps its client id once it has one,
\* and wipes the tree only after unregister_session has removed an entry.
LEMMA Onward ==
  ASSUME TypeOK, NEW c \in Conns, Task(c)
  PROVE  /\ pc[c] \notin Early => pc'[c] \notin Early
         /\ pc[c] # "accept" => req'[c] = req[c]
         /\ pc'[c] = "unreg_wipe" => pc[c] = "unreg_wipe" \/ UnregisterRemove(c)
<1>0. pc = [d \in Conns |-> pc[d]] /\ after[c] \in {"top", "reply", "closing"}
  BY DEF TypeOK
<1> USE <1>0 DEF Goto, SendOrFail, Early, mapVars, taskVars
<1>1. CASE Handshake(c)
  BY <1>1 DEF Handshake, ConnectFails, Refuse, Accept, RegisterRemove, RegisterWipe,
              RegisterInsert, SendConnack
<1>2. CASE ReadFails(c) \/ \E r \in Requests[c] : Answers(c, r)
  BY <1>2 DEF ReadFails, Answers, ReadFatal, ReadDisconnect, ReadNoise, ReadPingreq,
              ReadAck, ReadPubrec, ReadPublish, ReadPubrel
<1>3. CASE \E r \in Requests[c] : ReadSubscribe(c, r)
  BY <1>3 DEF ReadSubscribe
<1>4. CASE Handle(c)
  BY <1>4 DEF Handle, LoopTop, RunChain, PublishScan, PublishDeliver, ListStep, SendReply
<1>5. CASE UnregisterRemove(c)
  BY <1>5 DEF UnregisterRemove
<1>6. CASE UnregisterWipe(c) \/ Close(c)
  BY <1>6 DEF UnregisterWipe, Close
<1> QED
  BY <1>1, <1>2, <1>3, <1>4, <1>5, <1>6 DEF Task, ReadPacket, Answers, Teardown

\* A session entry that register_session makes.
Fresh(c) == [conn |-> c, filters |-> NoFilters, will |-> req[c].will, clean |-> req[c].clean]

\* It is one, and not None.
LEMMA FreshEntry == ASSUME TypeOK, NEW c \in Conns PROVE Fresh(c) \in Session /\ Fresh(c) # None
<1>1. Fresh(c) \in Session
  BY DEF TypeOK, Session, NoFilters, Fresh
<1> QED
  BY <1>1, NoneAssumption

\* Filter f of task c's client has QoS q, in its session entry and in the tree.
Relists(c, f, q, e) ==
  /\ sessions[Id(c)] \in Session
  /\ e.conn = sessions[Id(c)].conn /\ e.will = sessions[Id(c)].will
  /\ e.filters = [sessions[Id(c)].filters EXCEPT ![f] = q]
  /\ sessions' = [sessions EXCEPT ![Id(c)] = e]
  /\ subs' = [subs EXCEPT ![f][Id(c)] = q]

\* One entry of SUBSCRIBE or UNSUBSCRIBE changes the session's filter and the
\* same filter of the tree, or neither.
LEMMA ListEffect ==
  ASSUME TypeOK, ListInHand, GuardedEntry, NEW c \in Conns, ListStep(c)
  PROVE  \/ UNCHANGED mapVars
         \/ \E f \in Filters, q \in QoS \cup {None}, e \in Session : Relists(c, f, q, e)
<1> DEFINE f == Head(list[c])[1]
           q == Head(list[c])[2]
           e == [sessions[Id(c)] EXCEPT !.filters[f] = q]
<1>1. Head(list[c]) \in Filters \X (QoS \cup {None})
  BY SMTT(30), Z3T(30) DEF TypeOK, ListInHand, ListStep
<1>2. f \in Filters /\ q \in QoS \cup {None}
  BY <1>1
<1>3. Id(c) \in ClientIds /\ sessions[Id(c)] \in Session
  BY DEF TypeOK, GuardedEntry, ListStep, Id
<1>4. \/ UNCHANGED mapVars
      \/ sessions' = [sessions EXCEPT ![Id(c)] = e] /\ subs' = [subs EXCEPT ![f][Id(c)] = q]
  BY DEF ListStep, mapVars
<1>5. /\ e \in Session
      /\ e.conn = sessions[Id(c)].conn /\ e.will = sessions[Id(c)].will
      /\ e.filters = [sessions[Id(c)].filters EXCEPT ![f] = q]
  <2> HIDE DEF f, q
  <2> QED BY <1>2, <1>3 DEF Session
<1> HIDE DEF e, f, q
<1>6. UNCHANGED mapVars \/ Relists(c, f, q, e)
  BY <1>3, <1>4, <1>5 DEF Relists
<1> QED
  BY <1>2, <1>5, <1>6

\* An entry that was there keeps its owner, whose place and id stay right.
LEMMA KeptOwner ==
  ASSUME TypeOK, Owned, NEW c \in Conns, Task(c), NEW id \in ClientIds, sessions[id] # None
  PROVE  LET d == sessions[id].conn IN
         d \in Conns /\ req'[d].id = id /\ pc'[d] \notin Early
<1> DEFINE d == sessions[id].conn
<1>1. d \in Conns
  BY SMTT(30), Z3T(30) DEF TypeOK, Session
<1>2. Id(d) = id /\ pc[d] \notin Early
  BY DEF Owned
<1>3. CASE d = c
  BY <1>2, <1>3, Onward DEF Id, Early
<1>4. CASE d # c
  BY <1>1, <1>2, <1>4, TaskIsLocal DEF OthersUnchanged, Id
<1> QED
  BY <1>1, <1>3, <1>4

\* Every step of a task keeps Owned.
LEMMA OwnedStep ==
  ASSUME TypeOK, ListInHand, GuardedEntry, Owned, NEW c \in Conns, Task(c)
  PROVE  Owned'
<1> SUFFICES ASSUME NEW id \in ClientIds, sessions'[id] # None
             PROVE  req'[sessions'[id].conn].id = id /\ pc'[sessions'[id].conn] \notin Early
  BY DEF Owned, Id
<1>0. Id(c) \in ClientIds /\ sessions \in [ClientIds -> Session \cup {None}]
  BY DEF TypeOK, Id
<1>1. CASE sessions'[id] = sessions[id]
  BY <1>1, KeptOwner DEF Id
<1>2. CASE RegisterInsert(c)
  <2>1. sessions' = [sessions EXCEPT ![Id(c)] = Fresh(c)] /\ pc'[c] = "connack" /\ req' = req
    BY <1>2 DEF RegisterInsert, Fresh, Goto, taskVars, TypeOK
  <2>2. CASE id = Id(c)
    BY <1>0, <2>1, <2>2 DEF Fresh, Id, Early
  <2>3. CASE id # Id(c)
    BY <1>0, <1>1, <2>1, <2>3
  <2> QED
    BY <2>2, <2>3
<1>3. CASE ListStep(c)
  <2>1. CASE UNCHANGED mapVars
    BY <1>1, <2>1 DEF mapVars
  <2>2. CASE \E e \in Session : /\ e.conn = sessions[Id(c)].conn
                                /\ sessions' = [sessions EXCEPT ![Id(c)] = e]
    <3>1. PICK e \in Session : /\ e.conn = sessions[Id(c)].conn
                               /\ sessions' = [sessions EXCEPT ![Id(c)] = e]
      BY <2>2
    <3>2. sessions[id] # None /\ sessions'[id].conn = sessions[id].conn
      BY <1>0, <1>3, <3>1 DEF GuardedEntry, ListStep
    <3> QED
      BY <3>2, KeptOwner DEF Id
  <2> QED
    BY <1>3, <2>1, <2>2, ListEffect DEF Relists
<1>4. CASE Quiet(c) \/ RegisterWipe(c) \/ UnregisterWipe(c)
  BY <1>1, <1>4 DEF Quiet, mapVars, RegisterWipe, UnregisterWipe
<1>5. CASE RegisterRemove(c) \/ UnregisterRemove(c)
  <2>1. sessions' = [sessions EXCEPT ![Id(c)] = None]
    BY <1>5 DEF RegisterRemove, UnregisterRemove
  <2> QED
    BY <1>0, <1>1, <2>1
<1> QED
  BY <1>2, <1>3, <1>4, <1>5, QuietOrMap DEF MapStep

\* Only register_session of task c puts an entry into the map that was not there.
LEMMA NewEntry ==
  ASSUME TypeOK, ListInHand, GuardedEntry, NEW c \in Conns, Task(c),
         NEW id \in ClientIds, sessions'[id] # None
  PROVE  \/ /\ sessions[id] # None
            /\ sessions'[id].conn = sessions[id].conn /\ sessions'[id].will = sessions[id].will
         \/ RegisterInsert(c) /\ id = Id(c)
<1>0. Id(c) \in ClientIds /\ sessions \in [ClientIds -> Session \cup {None}]
  BY DEF TypeOK, Id
<1>1. CASE RegisterInsert(c)
  <2>1. sessions' = [sessions EXCEPT ![Id(c)] = Fresh(c)]
    BY <1>1 DEF RegisterInsert, Fresh
  <2> QED
    BY <1>0, <1>1, <2>1
<1>2. CASE ListStep(c)
  <2>1. CASE UNCHANGED mapVars
    BY <2>1 DEF mapVars
  <2>2. CASE \E e \in Session : /\ e.conn = sessions[Id(c)].conn
                                /\ e.will = sessions[Id(c)].will
                                /\ sessions' = [sessions EXCEPT ![Id(c)] = e]
    <3>1. PICK e \in Session : /\ e.conn = sessions[Id(c)].conn /\ e.will = sessions[Id(c)].will
                               /\ sessions' = [sessions EXCEPT ![Id(c)] = e]
      BY <2>2
    <3> QED
      BY <1>0, <1>2, <3>1 DEF GuardedEntry, ListStep
  <2> QED
    BY <1>2, <2>1, <2>2, ListEffect DEF Relists
<1>3. CASE Quiet(c) \/ RegisterWipe(c) \/ UnregisterWipe(c)
  BY <1>3 DEF Quiet, mapVars, RegisterWipe, UnregisterWipe
<1>4. CASE RegisterRemove(c) \/ UnregisterRemove(c)
  <2>1. sessions' = [sessions EXCEPT ![Id(c)] = None]
    BY <1>4 DEF RegisterRemove, UnregisterRemove
  <2> QED
    BY <1>0, <2>1
<1> QED
  BY <1>1, <1>2, <1>3, <1>4, QuietOrMap DEF MapStep

\* The writer actors and stuttering leave maps and tasks alone.
LEMMA WriterIsApart ==
  ASSUME [Next]_vars, ~ \E c \in Conns : Task(c)
  PROVE  UNCHANGED <<mapVars, pc, taskVars, inflight>>
  BY DEF Next, Terminated, WriterExits, WriterGone, vars, chanVars
=============================================================================
