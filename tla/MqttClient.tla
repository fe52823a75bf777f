----------------------------- MODULE MqttClient -----------------------------
(***************************************************************************)
(* A client session: the handle_client task, the P::send operations that   *)
(* run concurrently with it on the same channel, and the broker at the     *)
(* other end of the wire.                                                  *)
(*                                                                         *)
(* The channel is used through what MqttChannel is shown to promise: the   *)
(* packets queued and those on the wire are one FIFO, `toPeer`, of which a *)
(* prefix survives when the writer actor stops.  Packets carry the         *)
(* operation they are `for`, which no code reads: it tells an answer to    *)
(* this operation from an answer to another one with the same packet id.   *)
(***************************************************************************)
EXTENDS Naturals, Sequences

CONSTANTS
  Ops,         \* calls of P::send
  Calls,       \* [Ops -> SUBSET Kinds]: what each call may do
  InitSub,     \* names the SUBSCRIBE of the initial subscriptions
  InitialSubs, \* whether config.initial_subscriptions is not empty: a set of BOOLEANs
  Inbound,     \* messages the broker publishes to this client
  InQos,       \* [Inbound -> {0, 1, 2}]
  InId,        \* [Inbound -> Nat]: the packet id the broker gives to each
  MaxId,       \* the largest packet id (u16::MAX)
  MaxPings,    \* bound on the keep-alive ticks that send a PINGREQ
  UserCloses,  \* BOOLEAN: a user may close() the channel
  Timers,      \* which timers may elapse: a subset of {"connack", "ack"}
  None

Kinds == {"qos0", "qos1", "qos2", "subscribe", "unsubscribe"}
Waiters == Ops \cup {InitSub}
Acks == {"puback", "pubrec", "pubcomp", "suback", "unsuback"}
Slots == [kind : Acks, op : Waiters]

ASSUME ClientAssumption ==
  /\ Calls \in [Ops -> SUBSET Kinds] /\ InitSub \notin Ops /\ MaxId \in Nat \ {0}
  /\ InitialSubs \subseteq BOOLEAN /\ UserCloses \in BOOLEAN
  /\ InQos \in [Inbound -> 0..2] /\ InId \in [Inbound -> Nat]
  /\ None \notin Slots \cup Inbound \cup {"ok", "timeout", "closed"}

VARIABLES
  hc,         \* where handle_client and handle are
  pubrec,     \* the PUBREC whose PUBREL handle_client is about to send, or None
  kind,       \* what each operation does, which its caller decides
  pc, id,     \* where it is, and the packet id it allocated
  res,        \* how each operation ended: None, "ok", "timeout" or "closed"
  sig,        \* its oneshot: "none" (empty), "fired" or "dropped" (no sender left)
  counter,    \* pkt_counter
  pending,    \* pending_acks: packet id -> None or [kind, op]
  stash,      \* qos2_recv: packet id -> None or a message
  delivered,  \* how often each message was dispatched to the endpoints
  open, notified, closing,  \* the channel's flag, the select!'s Notified, who runs close()
  writer,     \* "running", "stopped" (reads no more commands) or "gone"
  toPeer, toClient,  \* the two directions of the wire
  peer,       \* "waiting" (for CONNECT), "up" or "down"
  answered,   \* operations whose last acknowledgement the broker has sent
  heard,      \* operations whose last acknowledgement was read before they ended
  live,       \* messages the broker has sent and whose exchange is not over
  offered, settled,  \* messages it has sent; those whose exchange is over
  pings

taskVars == <<hc, pubrec, stash, delivered>>
opVars == <<kind, pc, id, res, counter>>
slotVars == <<sig, pending>>
chanVars == <<open, notified, closing, writer>>
peerVars == <<peer, answered, live, offered, settled>>

vars == <<taskVars, opVars, slotVars, chanVars, peerVars, toPeer, toClient, heard, pings>>

Ids == 1..MaxId
Packet(t, i, w) == [type |-> t, id |-> i, for |-> w]

Init ==
  /\ hc = "connect" /\ pubrec = None
  /\ kind \in {f \in [Ops -> Kinds] : \A o \in Ops : f[o] \in Calls[o]}
  /\ pc = [o \in Ops |-> "idle"] /\ id = [o \in Ops |-> 0] /\ res = [o \in Ops |-> None]
  /\ sig = [w \in Waiters |-> "none"] /\ counter = 0
  /\ pending = [i \in Ids |-> None]
  /\ stash = [i \in {InId[m] : m \in Inbound} |-> None]
  /\ delivered = [m \in Inbound |-> 0]
  /\ open = TRUE /\ notified = FALSE /\ closing = None /\ writer = "running"
  /\ toPeer = <<>> /\ toClient = <<>>
  /\ peer = "waiting" /\ answered = {} /\ heard = {}
  /\ live = {} /\ offered = {} /\ settled = {} /\ pings = 0

-----------------------------------------------------------------------------
(* The session and the channel.                                            *)

\* Mutant: the counter is not advanced.
AllocatedIdSame == 1

\* fetch_add(1) + 1 wraps to 0, for which 1 is used: at the wrap two calls in a
\* row get the id 1.
AllocatedId == LET next == (counter + 1) % (MaxId + 1) IN IF next = 0 THEN 1 ELSE next

\* Mutant: the counter skips a value and does not wrap.
allocate_packet_id_skips == counter' = counter + 2

allocate_packet_id == counter' = (counter + 1) % (MaxId + 1)

\* A slot's sender is dropped without having been used.
Dropped(slots) ==
  [w \in Waiters |-> IF sig[w] = "none" /\ \E s \in slots : s # None /\ s.op = w
                     THEN "dropped" ELSE sig[w]]

\* pending_acks.insert: a slot that was there is dropped.
InsertSlot(i, slot) ==
  /\ pending' = [pending EXCEPT ![i] = slot]
  /\ sig' = [Dropped({pending[i]}) EXCEPT ![slot.op] = "none"]

\* Mutant: the slot stays.
RemoveSlotKeeps(i) == UNCHANGED slotVars

\* pending_acks.remove, the result discarded.
RemoveSlot(i) ==
  /\ pending' = [pending EXCEPT ![i] = None]
  /\ sig' = Dropped({pending[i]})

\* Mutant: the answer is read and ignored.
fire_ack_ignored(i, type) == UNCHANGED slotVars

\* fire_ack, fire_suback and fire_unsuback: the slot goes whatever its kind,
\* and its sender is used only when the kind is the one of the answer.
fire_ack(i, type) ==
  IF i \in Ids /\ pending[i] # None /\ pending[i].kind = type
  THEN /\ pending' = [pending EXCEPT ![i] = None]
       /\ sig' = [sig EXCEPT ![pending[i].op] = IF @ = "none" THEN "fired" ELSE @]
  ELSE IF i \in Ids THEN RemoveSlot(i) ELSE UNCHANGED slotVars

Accepts == writer # "gone"

\* send_packet and send_publish, of several packets: an actor that has stopped
\* loses what it is given.
Send(packets) ==
  toPeer' = IF writer = "running" THEN toPeer \o packets ELSE toPeer

\* close() from its start to notify_waiters(), which reaches handle_client when
\* it is in its select!; abandon() follows in Abandon.
CloseSwap(who) ==
  IF open
  THEN open' = FALSE /\ closing' = who /\ notified' = (hc = "select")
  ELSE UNCHANGED <<open, closing, notified>>

\* abandon(): the pending slots are dropped with their senders.
Abandon ==
  /\ closing # None
  /\ closing' = None
  /\ pending' = [i \in Ids |-> None]
  /\ sig' = Dropped({pending[i] : i \in Ids})
  /\ stash' = [i \in DOMAIN stash |-> None]
  /\ hc' = IF closing = "handle" THEN "done" ELSE hc
  /\ UNCHANGED <<pubrec, delivered, opVars, open, notified, writer, peerVars,
                 toPeer, toClient, heard, pings>>

UserClose ==
  /\ UserCloses /\ open
  /\ CloseSwap("user")
  /\ UNCHANGED <<taskVars, opVars, slotVars, writer, peerVars, toPeer, toClient, heard, pings>>

\* The actor stops: it was notified, or a write failed.  What it had not written
\* is lost.
WriterStops ==
  /\ writer = "running" /\ (~open \/ peer = "down")
  /\ writer' = "stopped" /\ open' = FALSE
  /\ \E n \in 0..Len(toPeer) : toPeer' = SubSeq(toPeer, 1, n)
  /\ UNCHANGED <<taskVars, opVars, slotVars, notified, closing, peerVars, toClient, heard, pings>>

WriterReturns ==
  /\ writer = "stopped"
  /\ writer' = "gone"
  /\ UNCHANGED <<taskVars, opVars, slotVars, open, notified, closing, peerVars,
                 toPeer, toClient, heard, pings>>

-----------------------------------------------------------------------------
(* P::send.                                                                *)

AckOf == [qos1 |-> "puback", qos2 |-> "pubrec", subscribe |-> "suback",
          unsubscribe |-> "unsuback"]

Ends(o, how) == pc' = [pc EXCEPT ![o] = "ended"] /\ res' = [res EXCEPT ![o] = how]

\* A PUBLISH with QoS 0 is queued and forgotten; the others get an id first.
Start(o) ==
  /\ pc[o] = "idle"
  /\ IF kind[o] = "qos0"
     THEN /\ Ends(o, IF Accepts THEN "ok" ELSE "closed")
          /\ Send(<<Packet("qos0", 0, o)>>)
          /\ UNCHANGED <<id, counter>>
     ELSE /\ pc' = [pc EXCEPT ![o] = "register"]
          /\ id' = [id EXCEPT ![o] = AllocatedId]
          /\ allocate_packet_id
          /\ UNCHANGED <<res, toPeer>>
  /\ UNCHANGED <<taskVars, kind, slotVars, chanVars, peerVars, toClient, heard, pings>>

\* The slot is inserted before the packet is queued; when that fails the call
\* returns and leaves its slot.
Register(o) ==
  /\ pc[o] = "register"
  /\ InsertSlot(id[o], [kind |-> AckOf[kind[o]], op |-> o])
  /\ Send(<<Packet(kind[o], id[o], o)>>)
  /\ IF Accepts THEN pc' = [pc EXCEPT ![o] = "wait"] /\ UNCHANGED res ELSE Ends(o, "closed")
  /\ UNCHANGED <<taskVars, kind, id, counter, chanVars, peerVars, toClient, heard, pings>>

\* Mutant: PUBREC ends a publish with QoS 2.
ResumeEarly(o) ==
  /\ pc[o] \in {"wait", "wait2"} /\ sig[o] # "none"
  /\ Ends(o, IF sig[o] = "fired" THEN "ok" ELSE "closed")
  /\ UNCHANGED <<taskVars, kind, id, counter, slotVars, chanVars, peerVars, toPeer, toClient, heard, pings>>

\* The oneshot is ready.  After PUBREC a QoS 2 publish inserts its second slot.
Resume(o) ==
  /\ pc[o] \in {"wait", "wait2"} /\ sig[o] # "none"
  /\ IF pc[o] = "wait" /\ kind[o] = "qos2" /\ sig[o] = "fired"
     THEN /\ pc' = [pc EXCEPT ![o] = "wait2"]
          /\ InsertSlot(id[o], [kind |-> "pubcomp", op |-> o])
          /\ UNCHANGED res
     ELSE /\ Ends(o, IF sig[o] = "fired" THEN "ok" ELSE "closed")
          /\ UNCHANGED slotVars
  /\ UNCHANGED <<taskVars, kind, id, counter, chanVars, peerVars, toPeer, toClient, heard, pings>>

\* Mutant: the wait has no timeout.
ExpireNever(o) == FALSE /\ UNCHANGED vars

\* DEFAULT_ACK_TIMEOUT elapses before the oneshot is ready ...
Expire(o) ==
  /\ "ack" \in Timers
  /\ pc[o] \in {"wait", "wait2"} /\ sig[o] = "none"
  /\ pc' = [pc EXCEPT ![o] = "expired"]
  /\ UNCHANGED <<taskVars, kind, id, res, counter, slotVars, chanVars, peerVars,
                 toPeer, toClient, heard, pings>>

\* ... and the slot under the operation's id, whoever's it is now, is removed.
GiveUp(o) ==
  /\ pc[o] = "expired"
  /\ Ends(o, "timeout")
  /\ RemoveSlot(id[o])
  /\ UNCHANGED <<taskVars, kind, id, counter, chanVars, peerVars, toPeer, toClient, heard, pings>>

-----------------------------------------------------------------------------
(* handle_client.                                                          *)

Goto(p) == hc' = p /\ UNCHANGED <<pubrec, stash, delivered>>
TakesFirst == toClient # <<>> /\ toClient' = Tail(toClient)

SendConnect ==
  /\ hc = "connect"
  /\ Send(<<Packet("connect", 0, None)>>)
  /\ Goto(IF Accepts THEN "connack" ELSE "close")
  /\ UNCHANGED <<opVars, slotVars, chanVars, peerVars, toClient, heard, pings>>

\* Anything but an accepting CONNACK ends the session.
ReadConnack ==
  /\ hc = "connack" /\ TakesFirst
  /\ \E subs \in InitialSubs :
       Goto(CASE Head(toClient).type # "accepted" -> "close"
              [] subs -> "initsub"
              [] OTHER -> "top")
  /\ UNCHANGED <<opVars, slotVars, chanVars, peerVars, toPeer, heard, pings>>

ConnackFails ==
  /\ hc = "connack" /\ (peer = "down" \/ "connack" \in Timers)
  /\ Goto("close")
  /\ UNCHANGED <<opVars, slotVars, chanVars, peerVars, toPeer, toClient, heard, pings>>

\* The SUBSCRIBE of the initial subscriptions takes the path of P::send.
SendInitialSubscribe ==
  /\ hc = "initsub"
  /\ allocate_packet_id
  /\ InsertSlot(AllocatedId, [kind |-> "suback", op |-> InitSub])
  /\ Send(<<Packet("subscribe", AllocatedId, InitSub)>>)
  /\ Goto(IF Accepts THEN "initwait" ELSE "close")
  /\ UNCHANGED <<kind, pc, id, res, chanVars, peerVars, toClient, heard, pings>>

\* Nothing reads the wire meanwhile.
AwaitInitialSubscribe ==
  /\ hc = "initwait" /\ (sig[InitSub] # "none" \/ "ack" \in Timers)
  /\ Goto(IF sig[InitSub] = "fired" THEN "top" ELSE "close")
  /\ UNCHANGED <<opVars, slotVars, chanVars, peerVars, toPeer, toClient, heard, pings>>

\* The head of the loop; a new Notified is created on the way into the select!.
LoopHead ==
  /\ hc = "top"
  /\ Goto(IF open THEN "select" ELSE "leave")
  /\ notified' = FALSE
  /\ UNCHANGED <<opVars, slotVars, open, closing, writer, peerVars, toPeer, toClient, heard, pings>>

\* Mutant: an error on the wire goes round the loop.
LoopBreaksNot ==
  /\ hc = "select" /\ notified
  /\ Goto("leave")
  /\ UNCHANGED <<opVars, slotVars, chanVars, peerVars, toPeer, toClient, heard, pings>>

\* The wire has failed, or close() has been called.
LoopBreaks ==
  /\ hc = "select" /\ (notified \/ peer = "down")
  /\ Goto("leave")
  /\ UNCHANGED <<opVars, slotVars, chanVars, peerVars, toPeer, toClient, heard, pings>>

\* The keep-alive tick.  Ticks beyond the bound still find out that the actor
\* is gone or that the channel was closed.
Ping ==
  /\ hc = "select"
  /\ \/ Accepts /\ pings < MaxPings /\ pings' = pings + 1 /\ Send(<<Packet("pingreq", 0, None)>>)
        /\ Goto("top")
     \/ ~Accepts /\ UNCHANGED <<pings, toPeer>> /\ Goto("leave")
     \/ Accepts /\ ~open /\ pings = MaxPings /\ UNCHANGED <<pings, toPeer>> /\ Goto("top")
  /\ UNCHANGED <<opVars, slotVars, chanVars, peerVars, toClient, heard>>

LastAck == [qos0 |-> "none", qos1 |-> "puback", qos2 |-> "pubcomp",
            subscribe |-> "suback", unsubscribe |-> "unsuback"]

\* The answer is the last one an operation that has not given up waits for.
Concludes(p) ==
  p.for \in Ops /\ LastAck[kind[p.for]] = p.type /\ pc[p.for] \notin {"expired", "ended"}

\* PUBACK, PUBREC, PUBCOMP, SUBACK and UNSUBACK.
DispatchAck ==
  /\ hc = "select" /\ TakesFirst
  /\ LET p == Head(toClient) IN
       /\ p.type \in Acks
       /\ fire_ack(p.id, p.type)
       /\ heard' = IF Concludes(p) THEN heard \cup {p.for} ELSE heard
       /\ hc' = IF p.type = "pubrec" THEN "pubrel" ELSE "top"
       /\ pubrec' = IF p.type = "pubrec" THEN p ELSE None
  /\ UNCHANGED <<stash, delivered, opVars, chanVars, peerVars, toPeer, pings>>

\* PUBREC goes on: PUBREL is queued after the slot was fired.
SendPubrel ==
  /\ hc = "pubrel"
  /\ Send(<<Packet("pubrel", pubrec.id, pubrec.for)>>)
  /\ pubrec' = None
  /\ hc' = IF Accepts THEN "top" ELSE "close"
  /\ UNCHANGED <<stash, delivered, opVars, slotVars, chanVars, peerVars, toClient, heard, pings>>

\* The message is handed to each endpoint it leads to, or else to the default
\* handler, in a task of its own: what they do is no step of the session.
Dispatched(m) == [delivered EXCEPT ![m] = @ + 1]

\* Mutant: a message with QoS 2 goes to the endpoints at once as well.
DispatchPublishAtOnce ==
  /\ hc = "select" /\ TakesFirst
  /\ LET p == Head(toClient) IN
       /\ p.type = "publish"
       /\ stash' = IF InQos[p.for] = 2 THEN [stash EXCEPT ![p.id] = p.for] ELSE stash
       /\ Send(CASE InQos[p.for] = 0 -> <<>>
                 [] InQos[p.for] = 1 -> <<Packet("puback", p.id, p.for)>>
                 [] InQos[p.for] = 2 -> <<Packet("pubrec", p.id, p.for)>>)
       /\ hc' = "top" /\ delivered' = Dispatched(p.for)
  /\ UNCHANGED <<pubrec, opVars, slotVars, chanVars, peerVars, heard, pings>>

\* PUBLISH: ack_inbound_publish_pre_chain, then the endpoints, which for QoS 2
\* wait for PUBREL.  An error of the acknowledgement ends the session first.
DispatchPublish ==
  /\ hc = "select" /\ TakesFirst
  /\ LET p == Head(toClient) IN
       /\ p.type = "publish"
       /\ stash' = IF InQos[p.for] = 2 THEN [stash EXCEPT ![p.id] = p.for] ELSE stash
       /\ Send(CASE InQos[p.for] = 0 -> <<>>
                 [] InQos[p.for] = 1 -> <<Packet("puback", p.id, p.for)>>
                 [] InQos[p.for] = 2 -> <<Packet("pubrec", p.id, p.for)>>)
       /\ LET acked == InQos[p.for] = 0 \/ Accepts IN
            /\ hc' = IF acked THEN "top" ELSE "close"
            /\ delivered' = IF acked /\ InQos[p.for] # 2
                            THEN Dispatched(p.for) ELSE delivered
  /\ UNCHANGED <<pubrec, opVars, slotVars, chanVars, peerVars, heard, pings>>

\* PUBREL: the stored message, if there is one, goes to the endpoints.
DispatchPubrel ==
  /\ hc = "select" /\ TakesFirst
  /\ LET p == Head(toClient) IN
       /\ p.type = "pubrel"
       /\ stash' = [stash EXCEPT ![p.id] = None]
       /\ delivered' = IF stash[p.id] # None
                       THEN Dispatched(stash[p.id]) ELSE delivered
       /\ Send(<<Packet("pubcomp", p.id, p.for)>>)
       /\ hc' = IF Accepts THEN "top" ELSE "close"
  /\ UNCHANGED <<pubrec, opVars, slotVars, chanVars, peerVars, heard, pings>>

\* PINGRESP is ignored, DISCONNECT ends the loop, and a packet that cannot be
\* decoded returns from handle_client at once.
DispatchOther ==
  /\ hc = "select" /\ TakesFirst
  /\ LET t == Head(toClient).type IN
       /\ t \in {"pingresp", "disconnect", "malformed"}
       /\ Goto(CASE t = "pingresp" -> "top" [] t = "disconnect" -> "leave"
                 [] t = "malformed" -> "close")
  /\ UNCHANGED <<opVars, slotVars, chanVars, peerVars, toPeer, heard, pings>>

\* A graceful end sends DISCONNECT, if it still can.
SendDisconnect ==
  /\ hc = "leave"
  /\ Send(<<Packet("disconnect", 0, None)>>)
  /\ Goto("close")
  /\ UNCHANGED <<opVars, slotVars, chanVars, peerVars, toClient, heard, pings>>

\* handle: whatever happened, the channel is closed.
HandleCloses ==
  /\ hc = "close"
  /\ CloseSwap("handle")
  /\ Goto(IF open THEN "abandon" ELSE "done")
  /\ UNCHANGED <<opVars, slotVars, writer, peerVars, toPeer, toClient, heard, pings>>

-----------------------------------------------------------------------------
(* The broker.                                                             *)

AnswerTo == [qos1 |-> "puback", qos2 |-> "pubrec", pubrel |-> "pubcomp",
             subscribe |-> "suback", unsubscribe |-> "unsuback", pingreq |-> "pingresp",
             pubrec |-> "pubrel"]

\* It reads a packet and answers it.  It wants CONNECT first and only once, and
\* hangs up on anything else; its own exchanges end with PUBACK and PUBCOMP.
PeerReads ==
  /\ peer # "down" /\ toPeer # <<>> /\ toPeer' = Tail(toPeer)
  /\ LET p == Head(toPeer) IN
       /\ IF peer = "waiting"
          THEN IF p.type = "connect"
               THEN \/ /\ peer' = "up" /\ toClient' = Append(toClient, Packet("accepted", 0, None))
                    \/ /\ peer' = "down" /\ toClient' = Append(toClient, Packet("refused", 0, None))
               ELSE peer' = "down" /\ UNCHANGED toClient
          ELSE IF p.type \in DOMAIN AnswerTo
               THEN toClient' = Append(toClient, Packet(AnswerTo[p.type], p.id, p.for)) /\ UNCHANGED peer
               ELSE peer' = (IF p.type = "disconnect" THEN "down" ELSE peer) /\ UNCHANGED toClient
       /\ answered' = IF peer = "up" /\ p.type \in {"qos1", "pubrel", "subscribe", "unsubscribe"}
                      THEN answered \cup {p.for} ELSE answered
       /\ LET over == IF p.type \in {"puback", "pubcomp"} THEN {p.for} ELSE {} IN
            live' = live \ over /\ settled' = settled \cup over
  /\ UNCHANGED <<taskVars, opVars, slotVars, chanVars, offered, heard, pings>>

\* It publishes a message, under an id that none of its exchanges is using.
PeerPublishes(m) ==
  /\ peer = "up" /\ m \notin offered
  /\ \A n \in live : InId[n] # InId[m]
  /\ toClient' = Append(toClient, Packet("publish", InId[m], m))
  /\ offered' = offered \cup {m}
  /\ live' = IF InQos[m] = 0 THEN live ELSE live \cup {m}
  /\ UNCHANGED <<taskVars, opVars, slotVars, chanVars, peer, answered, settled, toPeer, heard, pings>>

\* It hangs up, with or (an error on the wire) without a DISCONNECT, or after
\* bytes that are no packet.
PeerCloses ==
  /\ peer = "up"
  /\ peer' = "down"
  /\ \/ UNCHANGED toClient
     \/ \E t \in {"disconnect", "malformed"} : toClient' = Append(toClient, Packet(t, 0, None))
  /\ UNCHANGED <<taskVars, opVars, slotVars, chanVars, answered, live, offered, settled,
                 toPeer, heard, pings>>

-----------------------------------------------------------------------------

OpStep(o) == Start(o) \/ Register(o) \/ Resume(o) \/ Expire(o) \/ GiveUp(o)

Read == DispatchAck \/ DispatchPublish \/ DispatchPubrel \/ DispatchOther

Task ==
  \/ SendConnect \/ ReadConnack \/ ConnackFails
  \/ SendInitialSubscribe \/ AwaitInitialSubscribe
  \/ LoopHead \/ LoopBreaks \/ Ping \/ Read \/ SendPubrel
  \/ SendDisconnect \/ HandleCloses

Next ==
  \/ \E o \in Ops : OpStep(o)
  \/ Task \/ Abandon \/ UserClose \/ WriterStops \/ WriterReturns
  \/ PeerReads \/ (\E m \in Inbound : PeerPublishes(m)) \/ PeerCloses

\* The runtime runs every task that can run, and a timer that elapses wakes its
\* task.  Nobody need start an operation, and the broker need not hang up.
Fairness ==
  /\ \A o \in Ops : WF_vars(Register(o) \/ Resume(o) \/ Expire(o) \/ GiveUp(o))
  /\ WF_vars(Task) /\ WF_vars(Abandon) /\ WF_vars(PeerReads)

Spec == Init /\ [][Next]_vars
FairSpec == Spec /\ Fairness

-----------------------------------------------------------------------------
(* Properties.                                                             *)

TypeOK ==
  /\ hc \in {"connect", "connack", "initsub", "initwait", "top", "select", "pubrel",
             "leave", "close", "abandon", "done"}
  /\ kind \in [Ops -> Kinds]
  /\ pc \in [Ops -> {"idle", "register", "wait", "wait2", "expired", "ended"}]
  /\ id \in [Ops -> 0..MaxId] /\ res \in [Ops -> {None, "ok", "timeout", "closed"}]
  /\ sig \in [Waiters -> {"none", "fired", "dropped"}] /\ counter \in 0..MaxId
  /\ pending \in [Ids -> Slots \cup {None}]
  /\ open \in BOOLEAN /\ notified \in BOOLEAN /\ closing \in {None, "user", "handle"}
  /\ writer \in {"running", "stopped", "gone"} /\ peer \in {"waiting", "up", "down"}

\* An operation that returns Ok after waiting was answered: the broker has sent
\* the last acknowledgement of its exchange (for QoS 2 PUBCOMP, not PUBREC),
\* whatever else was in flight and however the session ended.
AckedMeansAnswered ==
  \A o \in Ops : res[o] = "ok" /\ kind[o] # "qos0" => o \in answered

\* P::send reports ChannelClosed only once the channel is closed: no operation
\* takes away the slot another one waits on.
ClosedMeansClosed == \A o \in Ops : res[o] = "closed" => ~open

\* pending_acks does not fill up: a slot belongs to an operation that waits for
\* it, to the initial SUBSCRIBE, or to a call that found the actor gone.
SlotsAreAwaited ==
  \A i \in Ids : pending[i] # None =>
    LET o == pending[i].op IN
      \/ o = InitSub
      \/ id[o] = i /\ (pc[o] \in {"wait", "wait2", "expired"} \/ writer = "gone")

\* What the doc comment of AckSlot says: "The matching inbound ack handler
\* removes the slot and fires the sender."  An operation whose last answer is
\* read before it gave up does not time out.
HeardIsNotTimeout == \A o \in Ops : res[o] = "timeout" => o \notin heard

\* The same for the operations that one packet answers.
HeardOneAck == \A o \in Ops : res[o] = "timeout" /\ o \in heard => kind[o] = "qos2"

\* The endpoints see no message twice, and a message whose exchange the broker
\* saw end with PUBACK or PUBCOMP has been dispatched, unless a close() has
\* cleared the messages that wait for PUBREL.
DeliveredOnce ==
  \A m \in Inbound : delivered[m] <= 1 /\ (m \in settled /\ open => delivered[m] = 1)

\* Every call of P::send returns, whatever becomes of the wire and the session.
OpsEnd == \A o \in Ops : pc[o] = "register" ~> pc[o] = "ended"

\* A session whose broker is gone, or whose channel was closed, ends.
SessionEnds == (peer = "down" \/ ~open) ~> hc = "done"

\* Initial subscriptions are made: the session enters its loop once the broker
\* has answered the SUBSCRIBE, unless the wire fails.
SubscribedSessionStarts ==
  (hc = "initwait" /\ InitSub \in answered) ~> (hc = "select" \/ peer = "down" \/ ~open)

=============================================================================
