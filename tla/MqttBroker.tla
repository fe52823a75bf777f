----------------------------- MODULE MqttBroker -----------------------------
(***************************************************************************)
(* The MQTT broker: the two concurrent maps of BrokerInner (sessions and   *)
(* the subscription tree) and one handle_server task per connection.       *)
(*                                                                         *)
(* Tasks run on a multi-threaded runtime and share the maps without a      *)
(* global lock, so a step is one operation on one map: registering,        *)
(* unregistering and fanning out a message take several steps and          *)
(* interleave.  Broker::subscribe and Broker::unsubscribe keep a read      *)
(* guard on the client's session entry for the whole loop over the         *)
(* packet's filters; Held says when such a guard blocks a writer.          *)
(***************************************************************************)
EXTENDS Integers, Sequences, FiniteSets

CONSTANTS
  Conns,         \* accepted connections: one handle_server task, one channel
  ClientIds,     \* client identifiers
  EmptyId,       \* the empty client identifier, "" in the code
  AutoId,        \* AutoId[c]: the identifier "hotaru-auto-<connection id>"
  Filters,       \* topic filters
  ValidFilters,  \* those validate_subscribe_filter accepts
  Topics,        \* topic names
  Matching,      \* Matching[f]: the topics filter_matches accepts for f
  Chain,         \* Chain[<<t, q>>]: what the endpoints may make of a message
  Suppress,      \* the endpoints' decision not to fan out
  Connects,      \* Connects[c]: the CONNECT packets c's peer may send
  Requests,      \* Requests[c]: the packets it may send after CONNECT
  Resets,        \* connections whose wire may fail under the writer actor
  MaxReads,      \* bound on the packets read per connection after CONNECT
  MaxId,         \* largest packet identifier (u16::MAX)
  None           \* absence: no session, no subscription, no will, no message

QoS == 0..2
PacketIds == 0..MaxId
Will == [topic : Topics, qos : QoS]
Connect == [id : ClientIds \cup {EmptyId}, clean : BOOLEAN, will : Will \cup {None}]
\* A payload names the connection it comes from, which of that connection's
\* packets carried it, and the QoS it was published with.  The Will of the
\* CONNECT has the number WillNo: it is the last thing a connection publishes.
WillNo == MaxReads + 1
Payload == Conns \X (1..WillNo) \X QoS
Message == [payload : Payload, topic : Topics, qos : QoS]
Session == [conn : Conns, filters : [Filters -> QoS \cup {None}],
            will : Will \cup {None}, clean : BOOLEAN]

Request ==
  [type : {"publish"}, topic : Topics, qos : QoS, id : PacketIds]
    \cup [type : {"subscribe"}, list : Seq(Filters \X QoS)]
    \cup [type : {"unsubscribe"}, list : Seq(Filters \X {None})]
    \cup [type : {"puback", "pubrec", "pubcomp", "pubrel"}, id : PacketIds]
    \cup [type : {"pingreq", "noise", "connect", "malformed", "disconnect"}]

ASSUME ConnsAssumption == Resets \subseteq Conns /\ None \notin Conns
ASSUME IdsAssumption == AutoId \in [Conns -> ClientIds] /\ EmptyId \notin ClientIds
ASSUME FiltersAssumption ==
  /\ Filters # {} /\ ValidFilters \subseteq Filters
  /\ Matching \in [Filters -> SUBSET Topics]
ASSUME ChainAssumption ==
  /\ Chain \in [Topics \X QoS -> SUBSET ((Topics \X QoS) \cup {Suppress})]
  /\ Suppress \notin Topics \X QoS
ASSUME PacketsAssumption ==
  \A c \in Conns : Connects[c] \subseteq Connect /\ Requests[c] \subseteq Request
ASSUME BoundsAssumption == MaxReads \in Nat /\ MaxId \in Nat \ {0}
ASSUME NoneAssumption ==
  /\ None \notin QoS /\ None \notin Will /\ None \notin Message /\ None \notin Session

VARIABLES
  sessions,   \* BrokerInner.sessions
  subs,       \* BrokerInner.subscriptions: subs[f][id] is a QoS or None
  pc,         \* where each handle_server task is
  req,        \* the CONNECT being served, its id already made unique
  graceful,   \* handle_server's local of that name
  todo,       \* filters a pass over the subscription tree has yet to visit
  hits,       \* what matching() has collected and publish() not yet delivered
  msg,        \* the message in hand (a PUBLISH, or the Will being published)
  after,      \* where the task goes when the message has been fanned out
  list,       \* entries of a SUBSCRIBE or UNSUBSCRIBE not yet processed
  reply,      \* the reply to send when the packet has been processed
  reads,      \* packets read since CONNECT
  open,       \* MqttChannel.open
  writer,     \* the writer actor: "running", "exiting" or "gone"
  counter,    \* MqttSession.pkt_counter
  inflight,   \* keys of MqttSession.outbound_inflight
  qos2,       \* MqttSession.qos2_recv
  out         \* packets accepted by the channel's command queue, in order

mapVars == <<sessions, subs>>
taskVars == <<req, graceful, todo, hits, msg, after, list, reply, reads>>
chanVars == <<open, writer, counter, inflight, qos2, out>>
vars == <<mapVars, pc, taskVars, chanVars>>

Labels == {"accept", "reg_remove", "reg_wipe", "reg_insert", "connack",
           "top", "read", "chain", "scan", "deliver", "list", "reply",
           "unreg_remove", "unreg_wipe", "closing", "done"}

Replies ==
  [type : {"connack"}, accepted : BOOLEAN, present : BOOLEAN]
    \cup [type : {"suback"}, codes : Seq(QoS \cup {None})]
    \cup [type : {"unsuback", "pingresp"}]
    \cup [type : {"puback", "pubrec", "pubrel", "pubcomp"}, id : PacketIds]
Outgoing ==
  Replies \cup [type : {"publish"}, payload : Payload,
                topic : Topics, qos : QoS, id : PacketIds]

NoReply == [type |-> "pingresp"]
NoFilters == [f \in Filters |-> None]

-----------------------------------------------------------------------------
(* Helpers.                                                                *)

Goto(c, label) == pc' = [pc EXCEPT ![c] = label]
Id(c) == req[c].id

\* send_packet and send_publish fail only when the receiver has been dropped.
CanSend(c) == writer[c] # "gone"
Send(c, p) == out' = IF CanSend(c) THEN [out EXCEPT ![c] = Append(@, p)] ELSE out

\* `send_packet(p)?; ...`: on failure handle_server returns the error at once.
SendOrFail(c, p, label) == Send(c, p) /\ Goto(c, IF CanSend(c) THEN label ELSE "closing")

\* Mutant: the entry is cloned out of the map before the loop.
HeldNever(id) == FALSE

\* A task in the loop of Broker::subscribe / unsubscribe holds a read guard on
\* its client's session entry: nobody can insert or remove that entry.
Held(id) == \E d \in Conns : pc[d] = "list" /\ Id(d) = id

\* Mutant: the counter is wider than a packet identifier.
NextCounterUnbounded(n) == n + 1

\* MqttSession::allocate_packet_id: fetch_add(1) on a wrapping u16; 0 becomes 1.
NextCounter(n) == (n + 1) % (MaxId + 1)
allocate_packet_id(n) == IF NextCounter(n) = 0 THEN 1 ELSE NextCounter(n)

MinQoS(p, q) == IF p < q THEN p ELSE q

\* Mutant: the client is removed from a copy of the set.
WipeFilterNothing(f, id) == subs' = subs

\* Mutant: the whole set is cleared.
WipeFilterEveryone(f, id) == subs' = [subs EXCEPT ![f] = [i \in ClientIds |-> None]]

\* One step of SubscriptionTree::remove_client: the set of one filter.
WipeFilter(f, id) == subs' = [subs EXCEPT ![f][id] = None]

-----------------------------------------------------------------------------
(* CONNECT: handle_server up to the main loop, and register_session.       *)

\* No CONNECT within CONNECT_RECEIVE_TIMEOUT, a read error, another packet.
ConnectFails(c) ==
  /\ pc[c] = "accept"
  /\ Goto(c, "closing")
  /\ UNCHANGED <<mapVars, taskVars, chanVars>>

\* The authenticator refuses: CONNACK with its code, then an error return.
Refuse(c) ==
  /\ pc[c] = "accept" /\ Connects[c] # {}
  /\ Send(c, [type |-> "connack", accepted |-> FALSE, present |-> FALSE])
  /\ Goto(c, "closing")
  /\ UNCHANGED <<mapVars, taskVars, open, writer, counter, inflight, qos2>>

\* The CONNECT is accepted; an empty client id is replaced by an assigned one.
Accept(c) ==
  /\ pc[c] = "accept"
  /\ \E r \in Connects[c] :
       req' = [req EXCEPT ![c] = [r EXCEPT !.id = IF @ = EmptyId THEN AutoId[c] ELSE @]]
  /\ Goto(c, "reg_remove")
  /\ UNCHANGED <<mapVars, graceful, todo, hits, msg, after, list, reply, reads, chanVars>>

\* `sessions.remove(&client_id)`: whatever entry is there goes; its channel
\* is not told.  The CONNACK to send later carries session_present.
RegisterRemove(c) ==
  /\ pc[c] = "reg_remove" /\ ~Held(Id(c))
  /\ sessions' = [sessions EXCEPT ![Id(c)] = None]
  /\ reply' = [reply EXCEPT ![c] = [type |-> "connack", accepted |-> TRUE,
                 present |-> ~req[c].clean /\ sessions[Id(c)] # None]]
  /\ todo' = [todo EXCEPT ![c] = IF req[c].clean THEN Filters ELSE {}]
  /\ Goto(c, IF req[c].clean THEN "reg_wipe" ELSE "reg_insert")
  /\ UNCHANGED <<subs, req, graceful, hits, msg, after, list, reads, chanVars>>

\* clean_session: `subscriptions.remove_client(&client_id)`, filter by filter.
RegisterWipe(c) ==
  /\ pc[c] = "reg_wipe"
  /\ \E f \in todo[c] :
       /\ WipeFilter(f, Id(c))
       /\ todo' = [todo EXCEPT ![c] = @ \ {f}]
       /\ Goto(c, IF todo[c] = {f} THEN "reg_insert" ELSE "reg_wipe")
  /\ UNCHANGED <<sessions, req, graceful, hits, msg, after, list, reply, reads, chanVars>>

\* Mutant: the Will is dropped together with the old session.
RegisterInsertDropsWill(c) ==
  /\ pc[c] = "reg_insert" /\ ~Held(Id(c))
  /\ sessions' = [sessions EXCEPT ![Id(c)] =
                    [conn |-> c, filters |-> NoFilters,
                     will |-> IF req[c].clean THEN None ELSE req[c].will,
                     clean |-> req[c].clean]]
  /\ Goto(c, "connack")
  /\ UNCHANGED <<subs, taskVars, chanVars>>

\* Mutant: the loop starts and CONNACK is never sent.
RegisterInsertSilent(c) ==
  /\ pc[c] = "reg_insert" /\ ~Held(Id(c))
  /\ sessions' = [sessions EXCEPT ![Id(c)] =
                    [conn |-> c, filters |-> NoFilters,
                     will |-> req[c].will, clean |-> req[c].clean]]
  /\ Goto(c, "top")
  /\ UNCHANGED <<subs, taskVars, chanVars>>

\* `sessions.insert(...)`: a fresh entry with no filters and this CONNECT's will.
RegisterInsert(c) ==
  /\ pc[c] = "reg_insert" /\ ~Held(Id(c))
  /\ sessions' = [sessions EXCEPT ![Id(c)] =
                    [conn |-> c, filters |-> NoFilters,
                     will |-> req[c].will, clean |-> req[c].clean]]
  /\ Goto(c, "connack")
  /\ UNCHANGED <<subs, taskVars, chanVars>>

\* CONNACK is sent after the entry is visible to other tasks.
SendConnack(c) ==
  /\ pc[c] = "connack"
  /\ SendOrFail(c, reply[c], "top")
  /\ UNCHANGED <<mapVars, taskVars, open, writer, counter, inflight, qos2>>

-----------------------------------------------------------------------------
(* The main loop of handle_server.                                         *)

\* `if !channel.is_open() { break }`, with graceful still false.
LoopTop(c) ==
  /\ pc[c] = "top"
  /\ Goto(c, IF open[c] THEN "read" ELSE "unreg_remove")
  /\ UNCHANGED <<mapVars, taskVars, chanVars>>

\* Mutant: the timeout is returned as an error.
ReadFailsReturns(c) ==
  /\ pc[c] = "read"
  /\ Goto(c, "closing")
  /\ UNCHANGED <<mapVars, taskVars, chanVars>>

\* Keep-alive timeout, wire error, or a shutdown notification: break.
ReadFails(c) ==
  /\ pc[c] = "read"
  /\ Goto(c, "unreg_remove")
  /\ UNCHANGED <<mapVars, taskVars, chanVars>>

\* The next packet of the peer; every Read* action below starts with it.
Reads(c, r) ==
  /\ pc[c] = "read" /\ reads[c] < MaxReads
  /\ reads' = [reads EXCEPT ![c] = @ + 1]

\* Any error but an I/O error, and a second CONNECT: handle_server returns
\* the error from inside the loop and does not reach unregister_session.
ReadFatal(c, r) ==
  /\ Reads(c, r) /\ r.type \in {"malformed", "connect"}
  /\ Goto(c, "closing")
  /\ UNCHANGED <<mapVars, req, graceful, todo, hits, msg, after, list, reply, chanVars>>

\* Mutant: DISCONNECT returns without unregistering.
ReadDisconnectReturns(c, r) ==
  /\ Reads(c, r) /\ r.type = "disconnect"
  /\ graceful' = [graceful EXCEPT ![c] = TRUE]
  /\ Goto(c, "closing")
  /\ UNCHANGED <<mapVars, req, todo, hits, msg, after, list, reply, chanVars>>

ReadDisconnect(c, r) ==
  /\ Reads(c, r) /\ r.type = "disconnect"
  /\ graceful' = [graceful EXCEPT ![c] = TRUE]
  /\ Goto(c, "unreg_remove")
  /\ UNCHANGED <<mapVars, req, todo, hits, msg, after, list, reply, chanVars>>

\* Packets the server ignores (CONNACK, SUBACK, UNSUBACK, PINGRESP).
ReadNoise(c, r) ==
  /\ Reads(c, r) /\ r.type = "noise"
  /\ Goto(c, "top")
  /\ UNCHANGED <<mapVars, req, graceful, todo, hits, msg, after, list, reply, chanVars>>

ReadPingreq(c, r) ==
  /\ Reads(c, r) /\ r.type = "pingreq"
  /\ SendOrFail(c, [type |-> "pingresp"], "top")
  /\ UNCHANGED <<mapVars, req, graceful, todo, hits, msg, after, list, reply,
                 open, writer, counter, inflight, qos2>>

\* Mutant: the acknowledged identifier is removed for every client.
ReadAckEverywhere(c, r) ==
  /\ Reads(c, r) /\ r.type \in {"puback", "pubcomp"}
  /\ inflight' = [d \in Conns |-> inflight[d] \ {r.id}]
  /\ Goto(c, "top")
  /\ UNCHANGED <<mapVars, req, graceful, todo, hits, msg, after, list, reply,
                 open, writer, counter, qos2, out>>

\* PUBACK and PUBCOMP: ack_outbound looks the channel up by client id.
ReadAck(c, r) ==
  /\ Reads(c, r) /\ r.type \in {"puback", "pubcomp"}
  /\ inflight' = IF sessions[Id(c)] = None THEN inflight
                 ELSE [inflight EXCEPT ![sessions[Id(c)].conn] = @ \ {r.id}]
  /\ Goto(c, "top")
  /\ UNCHANGED <<mapVars, req, graceful, todo, hits, msg, after, list, reply,
                 open, writer, counter, qos2, out>>

ReadPubrec(c, r) ==
  /\ Reads(c, r) /\ r.type = "pubrec"
  /\ SendOrFail(c, [type |-> "pubrel", id |-> r.id], "top")
  /\ UNCHANGED <<mapVars, req, graceful, todo, hits, msg, after, list, reply,
                 open, writer, counter, inflight, qos2>>

\* Mutant: a QoS 2 message is stashed and fanned out at once.
ReadPublishAtOnce(c, r) ==
  /\ Reads(c, r) /\ r.type = "publish"
  /\ LET m == [payload |-> <<c, reads[c] + 1, r.qos>>, topic |-> r.topic, qos |-> r.qos]
     IN /\ msg' = [msg EXCEPT ![c] = m]
        /\ after' = [after EXCEPT ![c] = "top"]
        /\ qos2' = [qos2 EXCEPT ![c][r.id] = m]
        /\ SendOrFail(c, [type |-> "pubrec", id |-> r.id], "chain")
  /\ UNCHANGED <<mapVars, req, graceful, todo, hits, list, reply,
                 open, writer, counter, inflight>>

\* PUBLISH is acknowledged before the endpoints run.  QoS 2 is stashed first
\* and goes no further until PUBREL.
ReadPublish(c, r) ==
  /\ Reads(c, r) /\ r.type = "publish"
  /\ LET m == [payload |-> <<c, reads[c] + 1, r.qos>>, topic |-> r.topic, qos |-> r.qos]
     IN \/ /\ r.qos = 0
           /\ msg' = [msg EXCEPT ![c] = m] /\ after' = [after EXCEPT ![c] = "top"]
           /\ Goto(c, "chain") /\ UNCHANGED <<qos2, out>>
        \/ /\ r.qos = 1
           /\ msg' = [msg EXCEPT ![c] = m] /\ after' = [after EXCEPT ![c] = "top"]
           /\ SendOrFail(c, [type |-> "puback", id |-> r.id], "chain")
           /\ UNCHANGED qos2
        \/ /\ r.qos = 2
           /\ qos2' = [qos2 EXCEPT ![c][r.id] = m]
           /\ SendOrFail(c, [type |-> "pubrec", id |-> r.id], "top")
           /\ UNCHANGED <<msg, after>>
  /\ UNCHANGED <<mapVars, req, graceful, todo, hits, list, reply,
                 open, writer, counter, inflight>>

\* Mutant: the stashed message is read and not removed.
ReadPubrelKeeps(c, r) ==
  /\ Reads(c, r) /\ r.type = "pubrel"
  /\ reply' = [reply EXCEPT ![c] = [type |-> "pubcomp", id |-> r.id]]
  /\ IF qos2[c][r.id] = None
       THEN Goto(c, "reply") /\ UNCHANGED <<msg, after>>
       ELSE /\ msg' = [msg EXCEPT ![c] = qos2[c][r.id]]
            /\ after' = [after EXCEPT ![c] = "reply"]
            /\ Goto(c, "chain")
  /\ UNCHANGED <<mapVars, req, graceful, todo, hits, list,
                 open, writer, counter, inflight, qos2, out>>

\* PUBREL takes the stashed message, if any, through endpoints and fan-out;
\* PUBCOMP follows in either case.
ReadPubrel(c, r) ==
  /\ Reads(c, r) /\ r.type = "pubrel"
  /\ reply' = [reply EXCEPT ![c] = [type |-> "pubcomp", id |-> r.id]]
  /\ IF qos2[c][r.id] = None
       THEN Goto(c, "reply") /\ UNCHANGED <<msg, after, qos2>>
       ELSE /\ msg' = [msg EXCEPT ![c] = qos2[c][r.id]]
            /\ after' = [after EXCEPT ![c] = "reply"]
            /\ qos2' = [qos2 EXCEPT ![c][r.id] = None]
            /\ Goto(c, "chain")
  /\ UNCHANGED <<mapVars, req, graceful, todo, hits, list,
                 open, writer, counter, inflight, out>>

\* run_server_chain_then_decide_fanout: the endpoints may rewrite topic and
\* QoS, or suppress the fan-out.
RunChain(c) ==
  /\ pc[c] = "chain"
  /\ \E o \in Chain[<<msg[c].topic, msg[c].qos>>] :
       IF o = Suppress
         THEN Goto(c, after[c]) /\ UNCHANGED <<msg, todo, hits>>
         ELSE /\ msg' = [msg EXCEPT ![c] = [@ EXCEPT !.topic = o[1], !.qos = o[2]]]
              /\ todo' = [todo EXCEPT ![c] = Filters]
              /\ hits' = [hits EXCEPT ![c] = {}]
              /\ Goto(c, "scan")
  /\ UNCHANGED <<mapVars, req, graceful, after, list, reply, reads, chanVars>>

-----------------------------------------------------------------------------
(* Broker::publish.                                                        *)

\* Mutant: a subscription at QoS 0 counts as none.
MatchingAtPositive(f, t) ==
  IF t \in Matching[f]
    THEN {<<f, id, subs[f][id]>> : id \in {i \in ClientIds : subs[f][i] \notin {None, 0}}}
    ELSE {}

\* Mutant: the filter is not compared with the topic.
MatchingAtAny(f, t) ==
  {<<f, id, subs[f][id]>> : id \in {i \in ClientIds : subs[f][i] # None}}

\* What matching() collects under one filter of the tree.
MatchingAt(f, t) ==
  IF t \in Matching[f]
    THEN {<<f, id, subs[f][id]>> : id \in {i \in ClientIds : subs[f][i] # None}}
    ELSE {}

\* SubscriptionTree::matching visits the filters one after the other.
PublishScan(c) ==
  /\ pc[c] = "scan"
  /\ \E f \in todo[c] :
       /\ hits' = [hits EXCEPT ![c] = @ \cup MatchingAt(f, msg[c].topic)]
       /\ todo' = [todo EXCEPT ![c] = @ \ {f}]
       /\ Goto(c, IF todo[c] # {f} THEN "scan"
                  ELSE IF hits'[c] = {} THEN after[c] ELSE "deliver")
  /\ UNCHANGED <<mapVars, req, graceful, msg, after, list, reply, reads, chanVars>>

\* The source of a Will is the empty id, which no client has.
Source(c) == IF after[c] = "closing" THEN EmptyId ELSE Id(c)

\* One collected subscription: the session looked up now may be gone, or be
\* another connection's.  A send failure is ignored; the in-flight entry is not
\* taken back.
PublishDeliver(c) ==
  /\ pc[c] = "deliver"
  /\ \E h \in hits[c] :
       /\ hits' = [hits EXCEPT ![c] = @ \ {h}]
       /\ Goto(c, IF hits[c] = {h} THEN after[c] ELSE "deliver")
       /\ IF h[2] = Source(c) \/ sessions[h[2]] = None
            THEN UNCHANGED <<counter, inflight, out>>
            ELSE LET d == sessions[h[2]].conn
                     q == MinQoS(msg[c].qos, h[3])
                     id == IF q > 0 THEN allocate_packet_id(counter[d]) ELSE 0
                 IN /\ counter' = IF q > 0 THEN [counter EXCEPT ![d] = NextCounter(@)]
                                  ELSE counter
                    /\ inflight' = IF q > 0 THEN [inflight EXCEPT ![d] = @ \cup {id}]
                                   ELSE inflight
                    /\ Send(d, [type |-> "publish", payload |-> msg[c].payload,
                                topic |-> msg[c].topic, qos |-> q, id |-> id])
  /\ UNCHANGED <<mapVars, req, graceful, todo, msg, after, list, reply, reads,
                 open, writer, qos2>>

-----------------------------------------------------------------------------
(* Broker::subscribe and Broker::unsubscribe.                              *)

\* The packet is read and the session entry looked up.  Without an entry a
\* SUBSCRIBE fails for every filter and an UNSUBSCRIBE does nothing; both are
\* answered.
ReadSubscribe(c, r) ==
  /\ Reads(c, r) /\ r.type \in {"subscribe", "unsubscribe"}
  /\ LET found == sessions[Id(c)] # None /\ r.list # <<>>
         failed == IF sessions[Id(c)] # None THEN <<>>
                   ELSE [i \in 1..Len(r.list) |-> None]
     IN /\ list' = [list EXCEPT ![c] = IF found THEN r.list ELSE <<>>]
        /\ reply' = [reply EXCEPT ![c] =
                       IF r.type = "subscribe"
                         THEN [type |-> "suback", codes |-> failed]
                         ELSE [type |-> "unsuback"]]
        /\ Goto(c, IF found THEN "list" ELSE "reply")
  /\ UNCHANGED <<mapVars, req, graceful, todo, hits, msg, after, chanVars>>

\* One entry of the packet, under the guard: the entry's own filters and the
\* tree change together.  A filter that fails validation changes neither.
ListStep(c) ==
  /\ pc[c] = "list"
  /\ LET f == Head(list[c])[1]
         q == Head(list[c])[2]
         subscribing == reply[c].type = "suback"
         ok == subscribing => f \in ValidFilters
     IN /\ sessions' = IF ok THEN [sessions EXCEPT ![Id(c)].filters[f] = q] ELSE sessions
        /\ subs' = IF ok THEN [subs EXCEPT ![f][Id(c)] = q] ELSE subs
        /\ reply' = IF subscribing
                      THEN [reply EXCEPT ![c].codes = Append(@, IF ok THEN q ELSE None)]
                      ELSE reply
  /\ list' = [list EXCEPT ![c] = Tail(@)]
  /\ Goto(c, IF Tail(list[c]) = <<>> THEN "reply" ELSE "list")
  /\ UNCHANGED <<req, graceful, todo, hits, msg, after, reads, chanVars>>

\* SUBACK, UNSUBACK or PUBCOMP ends the handler.
SendReply(c) ==
  /\ pc[c] = "reply"
  /\ SendOrFail(c, reply[c], "top")
  /\ UNCHANGED <<mapVars, taskVars, open, writer, counter, inflight, qos2>>

-----------------------------------------------------------------------------
(* unregister_session, and MqttChannel::close at the end of handle().      *)

\* Mutant: the Will fires on every disconnect.
WillFiresAlways(c, entry) == entry # None /\ entry.will # None

\* The Will of the entry that was removed is published unless the end is graceful.
WillFires(c, entry) == entry # None /\ ~graceful[c] /\ entry.will # None

\* Mutant: the task goes back to its loop after publishing the Will.
UnregisterRemoveContinues(c) ==
  /\ pc[c] = "unreg_remove" /\ ~Held(Id(c))
  /\ LET entry == sessions[Id(c)]
         fires == WillFires(c, entry)
     IN /\ sessions' = [sessions EXCEPT ![Id(c)] = None]
        /\ msg' = [msg EXCEPT ![c] =
                     IF fires THEN [payload |-> <<entry.conn, WillNo, entry.will.qos>>,
                                    topic |-> entry.will.topic, qos |-> entry.will.qos]
                     ELSE None]
        /\ Goto(c, IF entry = None THEN "closing" ELSE "unreg_wipe")
  /\ todo' = [todo EXCEPT ![c] = Filters]
  /\ after' = [after EXCEPT ![c] = "top"]
  /\ UNCHANGED <<subs, req, graceful, hits, list, reply, reads, chanVars>>

\* `sessions.remove(client_id)`: the entry of that id, whichever connection
\* registered it.  Its Will, if it fires, becomes the message in hand.
UnregisterRemove(c) ==
  /\ pc[c] = "unreg_remove" /\ ~Held(Id(c))
  /\ LET entry == sessions[Id(c)]
         fires == WillFires(c, entry)
     IN /\ sessions' = [sessions EXCEPT ![Id(c)] = None]
        /\ msg' = [msg EXCEPT ![c] =
                     IF fires THEN [payload |-> <<entry.conn, WillNo, entry.will.qos>>,
                                    topic |-> entry.will.topic, qos |-> entry.will.qos]
                     ELSE None]
        /\ Goto(c, IF entry = None THEN "closing" ELSE "unreg_wipe")
  /\ todo' = [todo EXCEPT ![c] = Filters]
  /\ after' = [after EXCEPT ![c] = "closing"]
  /\ UNCHANGED <<subs, req, graceful, hits, list, reply, reads, chanVars>>

\* `subscriptions.remove_client(client_id)`, then the will, if it fires.
UnregisterWipe(c) ==
  /\ pc[c] = "unreg_wipe"
  /\ \E f \in todo[c] :
       /\ WipeFilter(f, Id(c))
       /\ IF todo[c] # {f}
            THEN /\ todo' = [todo EXCEPT ![c] = @ \ {f}]
                 /\ UNCHANGED <<pc, hits>>
            ELSE /\ todo' = [todo EXCEPT ![c] = IF msg[c] = None THEN {} ELSE Filters]
                 /\ hits' = [hits EXCEPT ![c] = {}]
                 /\ Goto(c, IF msg[c] = None THEN "closing" ELSE "scan")
  /\ UNCHANGED <<sessions, req, graceful, msg, after, list, reply, reads, chanVars>>

\* The first close() clears the session; if the writer actor has already
\* cleared the flag, close() returns without doing so.
Close(c) ==
  /\ pc[c] = "closing"
  /\ Goto(c, "done")
  /\ open' = [open EXCEPT ![c] = FALSE]
  /\ inflight' = IF open[c] THEN [inflight EXCEPT ![c] = {}] ELSE inflight
  /\ qos2' = IF open[c] THEN [qos2 EXCEPT ![c] = [i \in PacketIds |-> None]] ELSE qos2
  /\ UNCHANGED <<mapVars, taskVars, writer, counter, out>>

-----------------------------------------------------------------------------
(* The writer actor, seen from the broker.                                 *)

\* A write fails, or close() has notified the actor: it leaves its loop,
\* clears `open`, and later drops its end of the queue.
WriterExits(c) ==
  /\ writer[c] = "running" /\ (c \in Resets \/ pc[c] = "done")
  /\ writer' = [writer EXCEPT ![c] = "exiting"]
  /\ open' = [open EXCEPT ![c] = FALSE]
  /\ UNCHANGED <<mapVars, pc, taskVars, counter, inflight, qos2, out>>

WriterGone(c) ==
  /\ writer[c] = "exiting"
  /\ writer' = [writer EXCEPT ![c] = "gone"]
  /\ UNCHANGED <<mapVars, pc, taskVars, open, counter, inflight, qos2, out>>

-----------------------------------------------------------------------------

Init ==
  /\ sessions = [id \in ClientIds |-> None]
  /\ subs = [f \in Filters |-> [id \in ClientIds |-> None]]
  /\ pc = [c \in Conns |-> "accept"]
  /\ req = [c \in Conns |-> [id |-> AutoId[c], clean |-> TRUE, will |-> None]]
  /\ graceful = [c \in Conns |-> FALSE]
  /\ todo = [c \in Conns |-> {}]
  /\ hits = [c \in Conns |-> {}]
  /\ msg = [c \in Conns |-> None]
  /\ after = [c \in Conns |-> "top"]
  /\ list = [c \in Conns |-> <<>>]
  /\ reply = [c \in Conns |-> NoReply]
  /\ reads = [c \in Conns |-> 0]
  /\ open = [c \in Conns |-> TRUE]
  /\ writer = [c \in Conns |-> "running"]
  /\ counter = [c \in Conns |-> 0]
  /\ inflight = [c \in Conns |-> {}]
  /\ qos2 = [c \in Conns |-> [i \in PacketIds |-> None]]
  /\ out = [c \in Conns |-> <<>>]

Handshake(c) ==
  ConnectFails(c) \/ Refuse(c) \/ Accept(c) \/ RegisterRemove(c)
    \/ RegisterWipe(c) \/ RegisterInsert(c) \/ SendConnack(c)

ReadPacket(c) ==
  \/ ReadFails(c)
  \/ \E r \in Requests[c] :
       \/ ReadFatal(c, r) \/ ReadDisconnect(c, r) \/ ReadNoise(c, r)
       \/ ReadPingreq(c, r) \/ ReadAck(c, r) \/ ReadPubrec(c, r)
       \/ ReadPublish(c, r) \/ ReadPubrel(c, r) \/ ReadSubscribe(c, r)

Handle(c) ==
  LoopTop(c) \/ RunChain(c) \/ PublishScan(c) \/ PublishDeliver(c)
    \/ ListStep(c) \/ SendReply(c)

Teardown(c) == UnregisterRemove(c) \/ UnregisterWipe(c) \/ Close(c)

\* One step of the handle_server task of connection c.
Task(c) == Handshake(c) \/ ReadPacket(c) \/ Handle(c) \/ Teardown(c)

\* Every connection has ended.
Terminated == (\A c \in Conns : pc[c] = "done") /\ UNCHANGED vars

Next ==
  \/ \E c \in Conns : Task(c) \/ WriterExits(c) \/ WriterGone(c)
  \/ Terminated

\* The runtime keeps running a task that can run.  A task waiting for a packet
\* can run too: CONNECT_RECEIVE_TIMEOUT and the keep-alive timeout end the wait.
Fairness == \A c \in Conns : WF_vars(Task(c))

Spec == Init /\ [][Next]_vars
FairSpec == Spec /\ Fairness

-----------------------------------------------------------------------------
(* Properties.                                                             *)

\* Types of the broker's maps and of every task's and channel's state.
TypeOK ==
  /\ sessions \in [ClientIds -> Session \cup {None}]
  /\ subs \in [Filters -> [ClientIds -> QoS \cup {None}]]
  /\ pc \in [Conns -> Labels]
  /\ req \in [Conns -> [id : ClientIds, clean : BOOLEAN, will : Will \cup {None}]]
  /\ graceful \in [Conns -> BOOLEAN]
  /\ todo \in [Conns -> SUBSET Filters]
  /\ hits \in [Conns -> SUBSET (Filters \X ClientIds \X QoS)]
  /\ msg \in [Conns -> Message \cup {None}]
  /\ after \in [Conns -> {"top", "reply", "closing"}]
  /\ list \in [Conns -> Seq(Filters \X (QoS \cup {None}))]
  /\ reply \in [Conns -> Replies]
  /\ reads \in [Conns -> 0..MaxReads]
  /\ open \in [Conns -> BOOLEAN]
  /\ writer \in [Conns -> {"running", "exiting", "gone"}]
  /\ counter \in [Conns -> PacketIds]
  /\ inflight \in [Conns -> SUBSET PacketIds]
  /\ qos2 \in [Conns -> [PacketIds -> Message \cup {None}]]
  /\ out \in [Conns -> Seq(Outgoing)]

\* While Broker::subscribe or unsubscribe is in its loop, the session entry it
\* looked up is still in the map: no other task's register_session or
\* unregister_session removed it under the guard.
GuardedEntry ==
  \A c \in Conns : pc[c] = "list" => sessions[Id(c)] # None

\* Task c is about to take every subscription of filter f away from client id,
\* or to install a session for it.
WillSettle(c, f, id) ==
  /\ Id(c) = id
  /\ \/ pc[c] \in {"reg_wipe", "reg_insert"}
     \/ pc[c] = "unreg_wipe" /\ f \in todo[c]

\* However registrations, takeovers, disconnects and subscriptions of the same
\* client id interleave, the subscription tree never keeps a subscription of a
\* client that has no session, except while some task is still in
\* register_session or unregister_session and will settle it.
NoOrphanSubscription ==
  \A f \in Filters, id \in ClientIds :
    subs[f][id] # None =>
      sessions[id] # None \/ \E c \in Conns : WillSettle(c, f, id)

\* The publications queued on connection d, as positions in its queue.
Published(d) == {i \in 1..Len(out[d]) : out[d][i].type = "publish"}

\* CopiesBounded, OneReleasePerHandshake and GracefulIsUnregistered hold of any
\* connections, DoneIsUnregistered of connections that end in order; the others hold
\* as long as no two connections share a client id.

\* The per-session filter map and the subscription tree agree: subscribing,
\* unsubscribing and the wipes of other clients' teardowns keep them in step.
TreeAgrees ==
  \A id \in ClientIds : sessions[id] # None =>
    \A f \in Filters : subs[f][id] = sessions[id].filters[f]

\* CONNACK is the first packet a client is sent, although register_session
\* makes its entry visible to every publisher before CONNACK is queued.  It
\* takes a client id that no other connection subscribes under.
ConnackFirst ==
  \A d \in Conns : out[d] # <<>> => out[d][1].type = "connack"

\* One publication reaches a client at most once per matching filter, however
\* PUBLISH and PUBREL are repeated and subscriptions change during the fan-out.
CopiesBounded ==
  \A d \in Conns : \A i \in Published(d) :
    Cardinality({j \in Published(d) : out[d][j].payload = out[d][i].payload})
      <= Cardinality({f \in Filters : out[d][i].topic \in Matching[f]})

\* Messages that a connection publishes at QoS 0 or 1, and its Will, reach each
\* subscriber in the order they were sent, the Will last.
FanoutOrder ==
  \A d \in Conns : \A i, j \in Published(d) :
    LET p == out[d][i].payload
        q == out[d][j].payload
    IN i < j /\ p[1] = q[1] /\ (\A x \in {p, q} : x[3] < 2 \/ x[2] = WillNo)
         => p[2] <= q[2]

\* Connection c has queued this many PUBCOMPs.
Completed(c) == Cardinality({i \in 1..Len(out[c]) : out[c][i].type = "pubcomp"})

\* QoS 2 messages of connection c that some subscriber has been sent.
Released(c) ==
  {p \in Payload : /\ p[1] = c /\ p[2] # WillNo /\ p[3] = 2
                   /\ \E d \in Conns : \E i \in Published(d) : out[d][i].payload = p}

\* At most one QoS 2 message is fanned out per PUBCOMP: a PUBLISH repeated
\* before its PUBREL releases nothing twice, and PUBCOMP follows the fan-out.
OneReleasePerHandshake ==
  \A c \in Conns :
    Cardinality(Released(c)) <=
      Completed(c) + (IF reply[c].type = "pubcomp" /\ pc[c] \in {"deliver", "reply", "closing", "done"} THEN 1 ELSE 0)

\* A Will is published only for a connection that ended without DISCONNECT.
WillOnlyAfterCrash ==
  \A d \in Conns : \A i \in Published(d) :
    LET p == out[d][i].payload
    IN p[2] = WillNo => ~graceful[p[1]] /\ pc[p[1]] \in {"deliver", "closing", "done"}

\* A connection with a Will that was accepted and has ended has published its
\* Will exactly if it ended without DISCONNECT.
WillFollowsCrash ==
  \A c \in Conns :
    pc[c] = "done" /\ req[c].will # None /\ out[c] # <<>> /\ out[c][1].accepted =>
      (graceful[c] <=> (msg[c] = None \/ msg[c].payload[2] # WillNo))

\* A connection that sent DISCONNECT has no session left, whatever failed in
\* its writer actor or in the other connections.
GracefulIsUnregistered ==
  \A c \in Conns : pc[c] = "done" /\ graceful[c] =>
    \A id \in ClientIds : sessions[id] # None => sessions[id].conn # c

\* An in-flight entry disappears only by an acknowledgement that its own
\* connection read, or when that connection closes.
AckedByOwner ==
  [][\A d \in Conns : inflight[d] \ inflight'[d] # {} =>
       pc[d] = "closing" \/ reads'[d] = reads[d] + 1]_vars

\* A task that has ended has taken its session out of the map.
DoneIsUnregistered ==
  \A c \in Conns : pc[c] = "done" =>
    \A id \in ClientIds : sessions[id] # None => sessions[id].conn # c

\* Every connection ends, and when all have, nothing of any client is left.
Reclaimed ==
  <>[](/\ \A id \in ClientIds : sessions[id] = None
       /\ \A f \in Filters, id \in ClientIds : subs[f][id] = None)
=============================================================================
