-------------------------- MODULE MqttClientProofs --------------------------
(***************************************************************************)
(* MqttClient for any number of operations, packet ids and messages.       *)
(* Whatever wraps: types, no slot of pending_acks left behind, and every   *)
(* QoS 2 message of the broker handed out once.  While packet ids do not   *)
(* wrap: what P::send reports is what happened.                            *)
(***************************************************************************)
EXTENDS MqttClient, TLAPS

\* Zenon proves the steps that need no arithmetic; the others cite SMT, with Z3 as
\* a second attempt.
USE ZenonT(30)

\* Facts about numbers, for the steps that are otherwise Zenon's.
LEMMA Numbers ==
  /\ 2 # 0 /\ 0 + 1 = 1 /\ \A n \in Nat : n <= n /\ n + 1 \notin 1..n
  /\ \A m, n \in Nat : m > n => m \notin 1..n
  /\ \A k, m, n \in Nat : k <= m /\ m <= n => k <= n
  /\ \A k, m, n \in Nat : k <= m /\ m + 1 <= n => k + 1 <= n
  /\ \A k, m, n \in Nat : k + 1 <= m /\ m <= n => k + 1 <= n
  BY SMTT(30), Z3T(30)

\* An operation that has allocated an id keeps it, and is not a QoS 0 publish.
IdsInHand ==
  \A o \in Ops : pc[o] \in {"register", "wait", "wait2", "expired"} =>
    id[o] \in Ids /\ kind[o] # "qos0"

\* A slot of an operation is under the operation's own id, its oneshot is still
\* empty, and somebody waits for it unless the actor was gone at the start.
OwnSlots ==
  \A i \in Ids : pending[i] # None /\ pending[i].op \in Ops =>
    /\ id[pending[i].op] = i /\ sig[pending[i].op] = "none"
    /\ \/ pc[pending[i].op] \in {"wait", "wait2", "expired"}
       \/ pc[pending[i].op] = "ended" /\ writer = "gone"

Inv == TypeOK /\ IdsInHand /\ OwnSlots

\* pkt_counter is a number.
LEMMA CounterNat == ASSUME Inv PROVE counter \in Nat
  BY SMTT(30), Z3T(30) DEF Inv, TypeOK

\* No operation has started and pending_acks is empty.
LEMMA InitInv == Init => Inv
<1> SUFFICES ASSUME Init PROVE Inv
  OBVIOUS
<1>1. kind \in [Ops -> Kinds] /\ 0 \in 0..MaxId
  BY ClientAssumption, SMTT(30), Z3T(30) DEF Init
<1>2. TypeOK
  BY <1>1 DEF Init, TypeOK
<1>3. IdsInHand /\ OwnSlots
  BY DEF Init, IdsInHand, OwnSlots
<1> QED
  BY <1>2, <1>3 DEF Inv

\* fetch_add wraps to 0, for which 1 is used: an allocated id is never 0.
LEMMA AllocateType ==
  ASSUME TypeOK, allocate_packet_id
  PROVE  AllocatedId \in Ids /\ counter' \in 0..MaxId
  BY ClientAssumption, SMTT(30), Z3T(30) DEF TypeOK, allocate_packet_id, AllocatedId, Ids

\* Dropping senders keeps the type of the oneshots.
LEMMA DroppedType ==
  ASSUME TypeOK, NEW S
  PROVE  Dropped(S) \in [Waiters -> {"none", "fired", "dropped"}]
  BY DEF TypeOK, Dropped

\* Only the slot that is replaced loses its sender: an operation has no second
\* slot under another id.
LEMMA OthersKeepSender ==
  ASSUME Inv, NEW i \in Ids, NEW j \in Ids, j # i, pending[j] # None, pending[j].op \in Ops
  PROVE  Dropped({pending[i]})[pending[j].op] = "none"
<1>1. pending[j].op \in Waiters /\ sig[pending[j].op] = "none" /\ id[pending[j].op] = j
  BY DEF Inv, OwnSlots, Waiters
<1>2. ~ \E s \in {pending[i]} : s # None /\ s.op = pending[j].op
  BY <1>1, SMTT(30), Z3T(30) DEF Inv, OwnSlots
<1> QED
  BY <1>1, <1>2 DEF Dropped

\* pending_acks.insert keeps the types.
LEMMA InsertType ==
  ASSUME TypeOK, NEW i \in Ids, NEW k \in Acks, NEW w \in Waiters,
         InsertSlot(i, [kind |-> k, op |-> w])
  PROVE  /\ pending' \in [Ids -> Slots \cup {None}]
         /\ sig' \in [Waiters -> {"none", "fired", "dropped"}]
<1>1. [kind |-> k, op |-> w] \in Slots
  BY DEF Slots
<1>2. Dropped({pending[i]}) \in [Waiters -> {"none", "fired", "dropped"}]
  BY DroppedType
<1> QED
  BY <1>1, <1>2 DEF InsertSlot, TypeOK

\* pending_acks.remove keeps the types.
LEMMA RemoveType ==
  ASSUME TypeOK, NEW i \in Ids, RemoveSlot(i)
  PROVE  /\ pending' \in [Ids -> Slots \cup {None}]
         /\ sig' \in [Waiters -> {"none", "fired", "dropped"}]
  BY DroppedType DEF RemoveSlot, TypeOK

-----------------------------------------------------------------------------
(* P::send.                                                                *)

\* Allocating an id, or queuing a QoS 0 publish: the operation has no slot yet.
LEMMA StartStep == ASSUME Inv, NEW o \in Ops, Start(o) PROVE Inv'
<1> USE DEF Inv
<1>1. UNCHANGED <<hc, kind, sig, pending, open, notified, closing, writer, peer>>
  BY DEF Start, taskVars, slotVars, chanVars, peerVars
<1>2. CASE kind[o] = "qos0"
  <2>1. /\ pc' = [pc EXCEPT ![o] = "ended"] /\ UNCHANGED <<id, counter>>
        /\ res' = [res EXCEPT ![o] = IF Accepts THEN "ok" ELSE "closed"]
    BY <1>2 DEF Start, Ends
  <2>2. TypeOK'
    BY <1>1, <2>1, SMTT(30), Z3T(30) DEF TypeOK
  <2>3. IdsInHand' /\ OwnSlots'
    BY <1>1, <2>1, SMTT(30), Z3T(30) DEF TypeOK, IdsInHand, OwnSlots, Start
  <2> QED
    BY <2>2, <2>3
<1>3. CASE kind[o] # "qos0"
  <2>1. /\ pc' = [pc EXCEPT ![o] = "register"] /\ id' = [id EXCEPT ![o] = AllocatedId]
        /\ allocate_packet_id /\ UNCHANGED res
    BY <1>3 DEF Start
  <2>2. AllocatedId \in Ids /\ AllocatedId \in 0..MaxId /\ counter' \in 0..MaxId
    BY <2>1, AllocateType, ClientAssumption, SMTT(30), Z3T(30) DEF Ids
  <2>3. TypeOK'
    BY <1>1, <2>1, <2>2, SMTT(30), Z3T(30) DEF TypeOK
  <2>4. IdsInHand' /\ OwnSlots'
    BY <1>1, <1>3, <2>1, <2>2, SMTT(30), Z3T(30) DEF TypeOK, IdsInHand, OwnSlots, Start
  <2> QED
    BY <2>3, <2>4
<1> QED
  BY <1>2, <1>3

\* A new slot of operation o, which has none under another id, takes the place
\* of whatever was there.
LEMMA InsertOwn ==
  ASSUME Inv, NEW o \in Ops, NEW k \in Acks, id[o] \in Ids,
         \A i \in Ids : pending[i] # None => pending[i].op # o,
         InsertSlot(id[o], [kind |-> k, op |-> o]), UNCHANGED <<id, writer>>,
         NEW l, pc' = [pc EXCEPT ![o] = l],
         l \in {"wait", "wait2"} \/ (l = "ended" /\ writer = "gone")
  PROVE  OwnSlots'
<1> SUFFICES ASSUME NEW j \in Ids, pending'[j] # None, pending'[j].op \in Ops
             PROVE  /\ id'[pending'[j].op] = j /\ sig'[pending'[j].op] = "none"
                    /\ \/ pc'[pending'[j].op] \in {"wait", "wait2", "expired"}
                       \/ pc'[pending'[j].op] = "ended" /\ writer' = "gone"
  BY DEF OwnSlots
<1>1. /\ pending' = [pending EXCEPT ![id[o]] = [kind |-> k, op |-> o]]
      /\ sig' = [Dropped({pending[id[o]]}) EXCEPT ![o] = "none"]
  BY DEF InsertSlot
<1>2. pending \in [Ids -> Slots \cup {None}] /\ pc \in [Ops -> {"idle", "register", "wait", "wait2", "expired", "ended"}]
  BY DEF Inv, TypeOK
<1>3. Dropped({pending[id[o]]}) \in [Waiters -> {"none", "fired", "dropped"}] /\ o \in Waiters
  BY DroppedType DEF Inv, Waiters
<1>4. CASE j = id[o]
  BY <1>1, <1>2, <1>3, <1>4
<1>5. CASE j # id[o]
  <2>1. pending'[j] = pending[j] /\ pending[j].op # o
    BY <1>1, <1>2, <1>5
  <2>2. Dropped({pending[id[o]]})[pending[j].op] = "none"
    BY <2>1, <1>5, OthersKeepSender
  <2>3. sig'[pending[j].op] = "none" /\ pc'[pending[j].op] = pc[pending[j].op]
    BY <1>1, <1>2, <1>3, <2>1, <2>2 DEF Waiters
  <2> QED
    BY <2>1, <2>3 DEF Inv, OwnSlots
<1> QED
  BY <1>4, <1>5

\* The slot goes in before the packet is queued; a gone actor leaves it there.
LEMMA RegisterStep == ASSUME Inv, NEW o \in Ops, Register(o) PROVE Inv'
<1> USE DEF Inv
<1> DEFINE l == IF Accepts THEN "wait" ELSE "ended"
<1>1. /\ UNCHANGED <<hc, kind, id, counter, open, notified, closing, writer, peer>>
      /\ pc[o] = "register" /\ pc' = [pc EXCEPT ![o] = l]
      /\ res' \in {res, [res EXCEPT ![o] = "closed"]}
      /\ InsertSlot(id[o], [kind |-> AckOf[kind[o]], op |-> o])
  BY DEF Register, Ends, taskVars, chanVars, peerVars
<1>2. id[o] \in Ids /\ kind[o] \in Kinds \ {"qos0"}
  BY <1>1 DEF IdsInHand, TypeOK
<1>3. AckOf[kind[o]] \in Acks /\ o \in Waiters
  BY <1>2, SMTT(30), Z3T(30) DEF AckOf, Acks, Kinds, Waiters
<1>4. \A i \in Ids : pending[i] # None => pending[i].op # o
  BY <1>1 DEF OwnSlots
<1>5. l \in {"wait", "wait2"} \/ (l = "ended" /\ writer = "gone")
  BY DEF Accepts
<1>6. OwnSlots'
  <2> HIDE DEF l
  <2> QED
    BY <1>1, <1>2, <1>3, <1>4, <1>5, InsertOwn
<1>7. TypeOK'
  BY <1>1, <1>2, <1>3, InsertType, SMTT(30), Z3T(30) DEF TypeOK
<1>8. IdsInHand'
  BY <1>1, <1>2 DEF IdsInHand, TypeOK
<1> QED
  BY <1>6, <1>7, <1>8

\* The oneshot is ready, so the slot is gone; QoS 2 inserts its second one.
LEMMA ResumeStep == ASSUME Inv, NEW o \in Ops, Resume(o) PROVE Inv'
<1> USE DEF Inv
<1>1. /\ UNCHANGED <<hc, kind, id, counter, open, notified, closing, writer, peer>>
      /\ pc[o] \in {"wait", "wait2"} /\ sig[o] # "none"
  BY DEF Resume, taskVars, chanVars, peerVars
<1>2. id[o] \in Ids /\ kind[o] # "qos0"
  BY <1>1 DEF IdsInHand
<1>3. \A i \in Ids : pending[i] # None => pending[i].op # o
  BY <1>1, SMTT(30), Z3T(30) DEF OwnSlots
<1>4. CASE pc[o] = "wait" /\ kind[o] = "qos2" /\ sig[o] = "fired"
  <2>1. /\ pc' = [pc EXCEPT ![o] = "wait2"] /\ UNCHANGED res
        /\ InsertSlot(id[o], [kind |-> "pubcomp", op |-> o])
    BY <1>4 DEF Resume
  <2>2. "pubcomp" \in Acks /\ o \in Waiters
    BY DEF Acks, Waiters
  <2>3. OwnSlots'
    BY <1>1, <1>2, <1>3, <2>1, <2>2, InsertOwn
  <2>4. TypeOK'
    BY <1>1, <1>2, <2>1, <2>2, InsertType, SMTT(30), Z3T(30) DEF TypeOK
  <2>5. IdsInHand'
    BY <1>1, <1>2, <2>1 DEF IdsInHand, TypeOK
  <2> QED
    BY <2>3, <2>4, <2>5
<1>5. CASE ~(pc[o] = "wait" /\ kind[o] = "qos2" /\ sig[o] = "fired")
  <2>1. /\ pc' = [pc EXCEPT ![o] = "ended"] /\ UNCHANGED <<sig, pending>>
        /\ res' = [res EXCEPT ![o] = IF sig[o] = "fired" THEN "ok" ELSE "closed"]
    BY <1>5 DEF Resume, Ends, slotVars
  <2>2. TypeOK'
    BY <1>1, <2>1, SMTT(30), Z3T(30) DEF TypeOK
  <2>3. IdsInHand' /\ OwnSlots'
    BY <1>1, <1>3, <2>1, SMTT(30), Z3T(30) DEF TypeOK, IdsInHand, OwnSlots
  <2> QED
    BY <2>2, <2>3
<1> QED
  BY <1>4, <1>5

\* The timer elapses: the slot stays for one more step.
LEMMA ExpireStep == ASSUME Inv, NEW o \in Ops, Expire(o) PROVE Inv'
<1> USE DEF Inv
<1>1. /\ UNCHANGED <<hc, kind, id, res, counter, sig, pending, open, notified, closing, writer, peer>>
      /\ pc[o] \in {"wait", "wait2"} /\ pc' = [pc EXCEPT ![o] = "expired"]
  BY DEF Expire, taskVars, slotVars, chanVars, peerVars
<1>2. TypeOK'
  BY <1>1, SMTT(30), Z3T(30) DEF TypeOK
<1>3. IdsInHand' /\ OwnSlots'
  BY <1>1, SMTT(30), Z3T(30) DEF TypeOK, IdsInHand, OwnSlots
<1> QED
  BY <1>2, <1>3

\* A removal takes the sender of no other slot.
LEMMA RemoveOwn ==
  ASSUME Inv, NEW i \in Ids, RemoveSlot(i), UNCHANGED <<id, writer>>,
         \A o \in Ops : pc'[o] = pc[o] \/ id[o] = i
  PROVE  OwnSlots'
<1> SUFFICES ASSUME NEW j \in Ids, pending'[j] # None, pending'[j].op \in Ops
             PROVE  /\ id'[pending'[j].op] = j /\ sig'[pending'[j].op] = "none"
                    /\ \/ pc'[pending'[j].op] \in {"wait", "wait2", "expired"}
                       \/ pc'[pending'[j].op] = "ended" /\ writer' = "gone"
  BY DEF OwnSlots
<1>1. pending' = [pending EXCEPT ![i] = None] /\ sig' = Dropped({pending[i]})
  BY DEF RemoveSlot
<1>2. j # i /\ pending'[j] = pending[j]
  BY <1>1 DEF Inv, TypeOK
<1>3. sig'[pending[j].op] = "none" /\ id[pending[j].op] = j
  BY <1>1, <1>2, OthersKeepSender DEF Inv, OwnSlots
<1> QED
  BY <1>2, <1>3, SMTT(30), Z3T(30) DEF Inv, OwnSlots

\* Giving up removes the slot under the operation's id, whoever's it is now.
LEMMA GiveUpStep == ASSUME Inv, NEW o \in Ops, GiveUp(o) PROVE Inv'
<1> USE DEF Inv
<1>1. /\ UNCHANGED <<hc, kind, id, counter, open, notified, closing, writer, peer>>
      /\ pc[o] = "expired" /\ pc' = [pc EXCEPT ![o] = "ended"]
      /\ res' = [res EXCEPT ![o] = "timeout"] /\ RemoveSlot(id[o])
  BY DEF GiveUp, Ends, taskVars, chanVars, peerVars
<1>2. id[o] \in Ids
  BY <1>1 DEF IdsInHand
<1>3. OwnSlots'
  BY <1>1, <1>2, RemoveOwn DEF TypeOK
<1>4. TypeOK'
  BY <1>1, <1>2, RemoveType, SMTT(30), Z3T(30) DEF TypeOK
<1>5. IdsInHand'
  BY <1>1 DEF IdsInHand, TypeOK
<1> QED
  BY <1>3, <1>4, <1>5

-----------------------------------------------------------------------------
(* handle_client, close() and the rest.                                    *)

\* fire_ack removes one slot; the operation it wakes has no other.
LEMMA AckStep == ASSUME Inv, DispatchAck PROVE Inv'
<1> USE DEF Inv
<1> DEFINE p == Head(toClient)
<1>1. /\ UNCHANGED <<kind, pc, id, res, counter, open, notified, closing, writer, peer>>
      /\ hc' \in {"pubrel", "top"} /\ fire_ack(p.id, p.type)
  BY DEF DispatchAck, opVars, chanVars, peerVars
<1> HIDE DEF p
<1>2. CASE p.id \in Ids /\ pending[p.id] # None /\ pending[p.id].kind = p.type
  <2> DEFINE w == pending[p.id].op
  <2>1. /\ pending' = [pending EXCEPT ![p.id] = None]
        /\ sig' = [sig EXCEPT ![w] = IF @ = "none" THEN "fired" ELSE @]
    BY <1>1, <1>2 DEF fire_ack
  <2>2. pending[p.id] \in Slots /\ w \in Waiters
    BY <1>2 DEF TypeOK, Slots
  <2>3. TypeOK'
    BY <1>1, <1>2, <2>1, <2>2 DEF TypeOK
  <2>4. ASSUME NEW j \in Ids, pending'[j] # None, pending'[j].op \in Ops
        PROVE  pending'[j] = pending[j] /\ sig'[pending[j].op] = "none"
    <3>1. j # p.id /\ pending'[j] = pending[j]
      BY <1>2, <2>1, <2>4 DEF TypeOK
    <3>2. id[pending[j].op] = j /\ sig[pending[j].op] = "none"
      BY <3>1, <2>4 DEF OwnSlots
    <3>3. w # pending[j].op
      BY <3>1, <3>2, <1>2, <2>4 DEF OwnSlots
    <3> QED
      BY <3>1, <3>2, <3>3, <2>1, <2>2, SMTT(30), Z3T(30) DEF TypeOK
  <2>5. OwnSlots'
    BY <1>1, <2>4, SMTT(30), Z3T(30) DEF OwnSlots
  <2>6. IdsInHand'
    BY <1>1 DEF IdsInHand
  <2> QED
    BY <2>3, <2>5, <2>6
<1>3. CASE p.id \in Ids /\ ~(pending[p.id] # None /\ pending[p.id].kind = p.type)
  <2>1. RemoveSlot(p.id)
    BY <1>1, <1>3 DEF fire_ack
  <2>2. OwnSlots'
    BY <1>1, <1>3, <2>1, RemoveOwn
  <2>3. TypeOK'
    BY <1>1, <1>3, <2>1, RemoveType DEF TypeOK
  <2>4. IdsInHand'
    BY <1>1 DEF IdsInHand
  <2> QED
    BY <2>2, <2>3, <2>4
<1>4. CASE p.id \notin Ids
  <2>1. UNCHANGED <<sig, pending>>
    BY <1>1, <1>4 DEF fire_ack, slotVars
  <2>2. TypeOK'
    BY <1>1, <2>1 DEF TypeOK
  <2>3. IdsInHand' /\ OwnSlots'
    BY <1>1, <2>1 DEF IdsInHand, OwnSlots
  <2> QED
    BY <2>2, <2>3
<1> QED
  BY <1>2, <1>3, <1>4

\* The initial SUBSCRIBE may take the place of an operation's slot.
LEMMA InitialSubscribeStep == ASSUME Inv, SendInitialSubscribe PROVE Inv'
<1> USE DEF Inv
<1> DEFINE i == AllocatedId
<1>1. /\ UNCHANGED <<kind, pc, id, res, open, notified, closing, writer, peer>>
      /\ hc' \in {"initwait", "close"} /\ allocate_packet_id
      /\ InsertSlot(i, [kind |-> "suback", op |-> InitSub])
  BY DEF SendInitialSubscribe, Goto, chanVars, peerVars
<1>2. i \in Ids /\ counter' \in 0..MaxId
  BY <1>1, AllocateType
<1> HIDE DEF i
<1>3. "suback" \in Acks /\ InitSub \in Waiters /\ InitSub \notin Ops
  BY ClientAssumption DEF Acks, Waiters
<1>4. TypeOK'
  BY <1>1, <1>2, <1>3, InsertType, SMTT(30), Z3T(30) DEF TypeOK
<1>5. IdsInHand'
  BY <1>1 DEF IdsInHand
<1>6. ASSUME NEW j \in Ids, pending'[j] # None, pending'[j].op \in Ops
      PROVE  pending'[j] = pending[j] /\ sig'[pending[j].op] = "none"
  <2>1. /\ pending' = [pending EXCEPT ![i] = [kind |-> "suback", op |-> InitSub]]
        /\ sig' = [Dropped({pending[i]}) EXCEPT ![InitSub] = "none"]
    BY <1>1 DEF InsertSlot
  <2>2. j # i /\ pending'[j] = pending[j]
    BY <1>2, <1>3, <1>6, <2>1 DEF TypeOK
  <2>3. Dropped({pending[i]})[pending[j].op] = "none"
    BY <1>2, <1>6, <2>2, OthersKeepSender
  <2>4. Dropped({pending[i]}) \in [Waiters -> {"none", "fired", "dropped"}]
    BY DroppedType
  <2> QED
    BY <1>3, <1>6, <2>1, <2>2, <2>3, <2>4, SMTT(30), Z3T(30)
<1>7. OwnSlots'
  <2> SUFFICES ASSUME NEW j \in Ids, pending'[j] # None, pending'[j].op \in Ops
               PROVE  /\ id[pending[j].op] = j
                      /\ \/ pc[pending[j].op] \in {"wait", "wait2", "expired"}
                         \/ pc[pending[j].op] = "ended" /\ writer = "gone"
    BY <1>1, <1>6, SMTT(30), Z3T(30) DEF OwnSlots
  <2> QED
    BY <1>6 DEF OwnSlots
<1> QED
  BY <1>4, <1>5, <1>7

\* abandon() empties pending_acks.
LEMMA AbandonStep == ASSUME Inv, Abandon PROVE Inv'
<1> USE DEF Inv
<1>1. /\ UNCHANGED <<kind, pc, id, res, counter, open, notified, writer, peer>>
      /\ hc' \in {hc, "done"} /\ closing' = None /\ pending' = [i \in Ids |-> None]
      /\ sig' = Dropped({pending[i] : i \in Ids})
  BY DEF Abandon, opVars, peerVars
<1>2. sig' \in [Waiters -> {"none", "fired", "dropped"}]
  BY <1>1, DroppedType
<1>3. TypeOK'
  BY <1>1, <1>2 DEF TypeOK
<1>4. IdsInHand' /\ OwnSlots'
  BY <1>1 DEF IdsInHand, OwnSlots
<1> QED
  BY <1>3, <1>4

\* What every other step leaves alone; the actor never comes back.
Apart ==
  /\ UNCHANGED <<kind, pc, id, res, counter, sig, pending>>
  /\ writer = "gone" => writer' = "gone"

\* The types of the variables such a step may change.
RestType ==
  /\ hc \in {"connect", "connack", "initsub", "initwait", "top", "select", "pubrel",
             "leave", "close", "abandon", "done"}
  /\ open \in BOOLEAN /\ notified \in BOOLEAN /\ closing \in {None, "user", "handle"}
  /\ writer \in {"running", "stopped", "gone"} /\ peer \in {"waiting", "up", "down"}

\* A step that leaves the operations and pending_acks alone keeps the invariant.
LEMMA ApartStep == ASSUME Inv, Apart, RestType' PROVE Inv'
<1>1. TypeOK'
  BY DEF Inv, Apart, RestType, TypeOK
<1>2. IdsInHand' /\ OwnSlots'
  BY DEF Inv, Apart, IdsInHand, OwnSlots
<1> QED
  BY <1>1, <1>2 DEF Inv

\* The other steps of handle_client do not touch pending_acks.
LEMMA TaskStep == ASSUME Inv, Task PROVE Inv'
<1> USE DEF opVars, slotVars, chanVars, peerVars, Goto
<1>0. RestType
  BY DEF Inv, TypeOK, RestType
<1>1. CASE DispatchAck
  BY <1>1, AckStep
<1>2. CASE SendInitialSubscribe
  BY <1>2, InitialSubscribeStep
<1>3. CASE SendConnect \/ ReadConnack \/ ConnackFails \/ AwaitInitialSubscribe
  <2>1. Apart
    BY <1>3 DEF SendConnect, ReadConnack, ConnackFails, AwaitInitialSubscribe, Apart
  <2>2. RestType'
    BY <1>0, <1>3, SMTT(30), Z3T(30) DEF RestType, SendConnect, ReadConnack, ConnackFails, AwaitInitialSubscribe
  <2> QED
    BY <2>1, <2>2, ApartStep
<1>4. CASE LoopHead \/ LoopBreaks \/ Ping
  <2>1. Apart
    BY <1>4 DEF LoopHead, LoopBreaks, Ping, Apart
  <2>2. RestType'
    BY <1>0, <1>4 DEF RestType, LoopHead, LoopBreaks, Ping
  <2> QED
    BY <2>1, <2>2, ApartStep
<1>5. CASE DispatchPublish \/ DispatchPubrel \/ DispatchOther
  <2>1. Apart
    BY <1>5 DEF DispatchPublish, DispatchPubrel, DispatchOther, Apart
  <2>2. RestType'
    BY <1>0, <1>5 DEF RestType, DispatchPublish, DispatchPubrel, DispatchOther
  <2> QED
    BY <2>1, <2>2, ApartStep
<1>6. CASE SendPubrel \/ SendDisconnect \/ HandleCloses
  <2>1. Apart
    BY <1>6 DEF SendPubrel, SendDisconnect, HandleCloses, Apart
  <2>2. RestType'
    BY <1>0, <1>6 DEF RestType, SendPubrel, SendDisconnect, HandleCloses, CloseSwap
  <2> QED
    BY <2>1, <2>2, ApartStep
<1> QED
  BY <1>1, <1>2, <1>3, <1>4, <1>5, <1>6 DEF Task, Read

\* A user's close(), the writer actor and the broker.
Outside ==
  \/ UserClose \/ WriterStops \/ WriterReturns \/ PeerReads
  \/ (\E m \in Inbound : PeerPublishes(m)) \/ PeerCloses

\* They do not touch pending_acks either.
LEMMA OutsideStep == ASSUME Inv, Outside PROVE Inv'
<1> USE DEF taskVars, opVars, slotVars, chanVars, peerVars
<1>0. RestType
  BY DEF Inv, TypeOK, RestType
<1>1. CASE UserClose
  BY <1>0, <1>1, ApartStep DEF UserClose, CloseSwap, Apart, RestType
<1>2. CASE WriterStops
  BY <1>0, <1>2, ApartStep DEF WriterStops, Apart, RestType
<1>3. CASE WriterReturns
  BY <1>0, <1>3, ApartStep DEF WriterReturns, Apart, RestType
<1>4. CASE PeerReads
  <2>1. Apart
    BY <1>4 DEF PeerReads, Apart
  <2>2. RestType'
    BY <1>0, <1>4 DEF PeerReads, RestType
  <2> QED
    BY <2>1, <2>2, ApartStep
<1>5. CASE (\E m \in Inbound : PeerPublishes(m)) \/ PeerCloses
  <2>1. Apart
    BY <1>5 DEF PeerPublishes, PeerCloses, Apart
  <2>2. RestType'
    BY <1>0, <1>5, SMTT(30), Z3T(30) DEF PeerPublishes, PeerCloses, RestType
  <2> QED
    BY <2>1, <2>2, ApartStep
<1> QED
  BY <1>1, <1>2, <1>3, <1>4, <1>5 DEF Outside

\* Every step keeps the invariant.
LEMMA StepInv == Inv /\ [Next]_vars => Inv'
<1> SUFFICES ASSUME Inv, [Next]_vars PROVE Inv'
  OBVIOUS
<1>1. ASSUME NEW o \in Ops, OpStep(o) PROVE Inv'
  BY <1>1, StartStep, RegisterStep, ResumeStep, ExpireStep, GiveUpStep DEF OpStep
<1>2. CASE Task \/ Abandon
  BY <1>2, TaskStep, AbandonStep
<1>3. CASE Outside
  BY <1>3, OutsideStep
<1>4. CASE UNCHANGED vars
  <2>1. Apart /\ UNCHANGED <<hc, open, notified, closing, writer, peer>>
    BY <1>4 DEF vars, taskVars, opVars, slotVars, chanVars, peerVars, Apart
  <2>2. RestType'
    BY <2>1 DEF RestType, Inv, TypeOK
  <2> QED
    BY <2>1, <2>2, ApartStep
<1> QED
  BY <1>1, <1>2, <1>3, <1>4 DEF Next, Outside

\* The types hold of handle_client, P::send and the channel for any operations,
\* packet ids and messages.
THEOREM ClientTypes == Spec => []TypeOK
<1>1. Inv => TypeOK
  BY DEF Inv
<1> QED
  BY <1>1, InitInv, StepInv, PTL DEF Spec

\* pending_acks never fills up, for any number of operations and packet ids, also
\* after ids have wrapped and operations share one: a slot that is there has an
\* operation of P::send that will remove it, belongs to the initial SUBSCRIBE, or
\* was left by a call that found the writer actor gone.
THEOREM NoSlotLeft == Spec => []SlotsAreAwaited
<1>1. Inv => SlotsAreAwaited
  <2> SUFFICES ASSUME Inv, NEW i \in Ids, pending[i] # None, pending[i].op # InitSub
               PROVE  /\ id[pending[i].op] = i
                      /\ pc[pending[i].op] \in {"wait", "wait2", "expired"} \/ writer = "gone"
    BY DEF SlotsAreAwaited
  <2>1. pending[i].op \in Ops
    BY DEF Inv, TypeOK, Slots, Waiters
  <2> QED
    BY <2>1 DEF Inv, OwnSlots
<1> QED
  BY <1>1, InitInv, StepInv, PTL DEF Spec

-----------------------------------------------------------------------------
(* What is on the wire.                                                    *)

PacketTypes ==
  Kinds \cup Acks \cup {"publish", "pubrel", "connect", "pingreq", "pingresp", "disconnect",
                        "accepted", "refused", "malformed"}
Packets == [type : PacketTypes, id : Nat, for : Waiters \cup Inbound \cup {None}]

\* What the client sends, and what the broker sends, of an exchange that the
\* broker began with a PUBLISH.
InOut == {"puback", "pubrec", "pubcomp"}
InBack == {"publish", "pubrel"}

\* The packet belongs to the exchange of a message and bears its id.
Offer(p) == p.for \in Inbound /\ p.id = InId[p.for]

\* Every packet of t is one of s, or is in new.
Elems(s) == {s[k] : k \in DOMAIN s}
From(s, t, new) == Elems(t) \subseteq Elems(s) \cup new

\* What each end of the wire may still read.
WireTypes ==
  /\ toPeer \in Seq(Packets) /\ (\A p \in Elems(toPeer) : p.type \in InOut => Offer(p))
  /\ toClient \in Seq(Packets) /\ (\A p \in Elems(toClient) : p.type \in InBack => Offer(p))
  /\ hc = "pubrel" => pubrec \in Packets

\* Reading the first packet leaves the others.
LEMMA TailOf ==
  ASSUME NEW S, NEW s \in Seq(S), s # <<>>
  PROVE  /\ Head(s) \in S /\ 1 \in DOMAIN s /\ Head(s) = s[1] /\ Head(s) \in Elems(s)
         /\ Tail(s) \in Seq(S) /\ From(s, Tail(s), {})
         /\ \A k \in DOMAIN Tail(s) : k + 1 \in DOMAIN s /\ Tail(s)[k] = s[k + 1]
  BY SMTT(30), Z3T(30) DEF From, Elems

\* What the actor had not written is lost.
LEMMA PrefixOf ==
  ASSUME NEW S, NEW s \in Seq(S), NEW n \in 0..Len(s)
  PROVE  /\ SubSeq(s, 1, n) \in Seq(S) /\ From(s, SubSeq(s, 1, n), {})
         /\ \A k \in DOMAIN SubSeq(s, 1, n) : k \in DOMAIN s /\ SubSeq(s, 1, n)[k] = s[k]
<1>1. /\ Len(SubSeq(s, 1, n)) = n /\ SubSeq(s, 1, n) \in Seq(S)
      /\ \A k \in 1..n : SubSeq(s, 1, n)[k] = s[k]
  BY SMTT(30), Z3T(30)
<1>2. DOMAIN SubSeq(s, 1, n) = 1..n /\ DOMAIN s = 1..Len(s)
  BY <1>1, SMTT(30), Z3T(30)
<1> QED
  BY <1>1, <1>2, SMTT(30), Z3T(30) DEF From, Elems

\* A packet that is sent goes last.
LEMMA AppendOf ==
  ASSUME NEW S, NEW s \in Seq(S), NEW p \in S
  PROVE  /\ Append(s, p) \in Seq(S) /\ From(s, Append(s, p), {p})
         /\ DOMAIN Append(s, p) = DOMAIN s \cup {Len(s) + 1}
         /\ Len(s) + 1 \notin DOMAIN s /\ Append(s, p)[Len(s) + 1] = p
         /\ \A k \in DOMAIN s : Append(s, p)[k] = s[k]
  BY SMTT(30), Z3T(30) DEF From, Elems

\* Nothing sent or read.
LEMMA SameOf == ASSUME NEW s PROVE From(s, s, {})
  BY DEF From, Elems

\* A packet queued for a writer actor that has stopped is lost.
LEMMA SendOne ==
  ASSUME toPeer \in Seq(Packets), NEW p \in Packets, Send(<<p>>)
  PROVE  toPeer' \in {toPeer, Append(toPeer, p)}
  BY SMTT(30), Z3T(30) DEF Send

\* One end reads, or packets are lost; the other end sends at most one packet.
Loses(s, t) == t = s \/ (s # <<>> /\ t = Tail(s)) \/ \E n \in 0..Len(s) : t = SubSeq(s, 1, n)
Gains(s, t, new) == t = s \/ \E p \in new : t = Append(s, p)

Outward(new) == Gains(toPeer, toPeer', new) /\ Loses(toClient, toClient')
Inward(new) == Loses(toPeer, toPeer') /\ Gains(toClient, toClient', new)

\* Packets that belong to no exchange.
Plain == {Packet(t, 0, None) : t \in {"connect", "pingreq", "disconnect", "accepted", "refused", "malformed"}}

\* What is lost adds nothing.
LEMMA LosesFrom ==
  ASSUME NEW S, NEW s \in Seq(S), NEW t, Loses(s, t)
  PROVE  t \in Seq(S) /\ From(s, t, {})
<1>1. CASE t = s
  BY <1>1, SameOf
<1>2. CASE s # <<>> /\ t = Tail(s)
  BY <1>2, TailOf
<1>3. CASE \E n \in 0..Len(s) : t = SubSeq(s, 1, n)
  BY <1>3, PrefixOf
<1> QED
  BY <1>1, <1>2, <1>3 DEF Loses

\* What is sent is all that is added.
LEMMA GainsFrom ==
  ASSUME NEW S, NEW s \in Seq(S), NEW new, new \subseteq S, NEW t, Gains(s, t, new)
  PROVE  t \in Seq(S) /\ From(s, t, new)
<1>1. CASE t = s
  BY <1>1 DEF From
<1>2. ASSUME NEW p \in new, t = Append(s, p) PROVE t \in Seq(S) /\ From(s, t, new)
  <2>1. p \in S
    BY <1>2
  <2>2. t \in Seq(S) /\ From(s, t, {p})
    BY <1>2, <2>1, AppendOf
  <2> QED
    BY <2>2, <1>2 DEF From
<1> QED
  BY <1>1, <1>2 DEF Gains

\* A step that sends packets of the right kind keeps what the wire holds.
LEMMA OutwardTypes ==
  ASSUME WireTypes, NEW new \in SUBSET Packets, Outward(new),
         \A p \in new : p.type \in InOut => Offer(p),
         hc' = "pubrel" => pubrec' \in Packets
  PROVE  WireTypes'
<1>1. toPeer' \in Seq(Packets) /\ From(toPeer, toPeer', new)
  BY GainsFrom DEF WireTypes, Outward
<1>2. toClient' \in Seq(Packets) /\ From(toClient, toClient', {})
  BY LosesFrom DEF WireTypes, Outward
<1>3. \A p \in Elems(toPeer') : p.type \in InOut => Offer(p)
  BY <1>1 DEF From, WireTypes
<1>4. \A p \in Elems(toClient') : p.type \in InBack => Offer(p)
  BY <1>2 DEF From, WireTypes
<1> QED
  BY <1>1, <1>2, <1>3, <1>4 DEF WireTypes, Offer, Elems

\* The same for what the broker sends.
LEMMA InwardTypes ==
  ASSUME WireTypes, NEW new \in SUBSET Packets, Inward(new),
         \A p \in new : p.type \in InBack => Offer(p),
         hc' = "pubrel" => pubrec' \in Packets
  PROVE  WireTypes'
<1>1. toClient' \in Seq(Packets) /\ From(toClient, toClient', new)
  BY GainsFrom DEF WireTypes, Inward
<1>2. toPeer' \in Seq(Packets) /\ From(toPeer, toPeer', {})
  BY LosesFrom DEF WireTypes, Inward
<1>3. \A p \in Elems(toPeer') : p.type \in InOut => Offer(p)
  BY <1>2 DEF From, WireTypes
<1>4. \A p \in Elems(toClient') : p.type \in InBack => Offer(p)
  BY <1>1 DEF From, WireTypes
<1> QED
  BY <1>1, <1>2, <1>3, <1>4 DEF WireTypes, Offer, Elems

\* Packets are packets.
LEMMA PlainType ==
  /\ Plain \subseteq Packets
  /\ \A p \in Plain : p.id = 0 /\ p.for = None /\ p.type \notin InOut \cup InBack /\ p.type \notin Acks
  BY SMTT(30), Z3T(30) DEF Plain, Packets, PacketTypes, Packet, InOut, InBack, Acks

\* P::send of a QoS 0 publish.
LEMMA StartWire ==
  ASSUME Inv, WireTypes, NEW o \in Ops, Start(o)
  PROVE  Outward({Packet("qos0", 0, o)}) /\ Packet("qos0", 0, o) \in Packets
<1>1. Packet("qos0", 0, o) \in Packets
  BY DEF Packet, Packets, PacketTypes, Kinds, Waiters
<1>2. UNCHANGED toClient
  BY DEF Start
<1>3. toPeer' \in {toPeer, Append(toPeer, Packet("qos0", 0, o))}
  BY <1>1, SendOne DEF Start, WireTypes
<1> QED
  BY <1>1, <1>2, <1>3 DEF Outward, Gains, Loses

\* P::send of a packet that is acknowledged.
LEMMA RegisterWire ==
  ASSUME Inv, WireTypes, NEW o \in Ops, Register(o)
  PROVE  /\ Outward({Packet(kind[o], id[o], o)}) /\ Packet(kind[o], id[o], o) \in Packets
         /\ kind[o] \in Kinds \ {"qos0"} /\ id[o] \in Ids
<1>1. kind[o] \in Kinds \ {"qos0"} /\ id[o] \in Ids
  BY DEF Register, Inv, TypeOK, IdsInHand
<1>2. Packet(kind[o], id[o], o) \in Packets
  BY <1>1, SMTT(30), Z3T(30) DEF Packet, Packets, PacketTypes, Waiters, Ids, Kinds
<1>3. UNCHANGED toClient
  BY DEF Register
<1>4. toPeer' \in {toPeer, Append(toPeer, Packet(kind[o], id[o], o))}
  BY <1>2, SendOne DEF Register, WireTypes
<1> QED
  BY <1>1, <1>2, <1>3, <1>4 DEF Outward, Gains, Loses

\* The steps that neither send nor read.
LEMMA SilentWire ==
  ASSUME UNCHANGED <<toPeer, toClient>>
  PROVE  \A new : Outward(new)
  BY DEF Outward, Gains, Loses

\* Steps of handle_client that send nothing of an exchange.
Housekeeping ==
  \/ SendConnect \/ ReadConnack \/ ConnackFails \/ AwaitInitialSubscribe
  \/ LoopHead \/ LoopBreaks \/ Ping \/ DispatchOther \/ SendDisconnect \/ HandleCloses

\* They send CONNECT, PINGREQ, DISCONNECT or nothing.
LEMMA HousekeepingWire ==
  ASSUME WireTypes, Housekeeping
  PROVE  Outward(Plain) /\ hc' # "pubrel"
<1> USE DEF Goto
<1>1. \A t \in {"connect", "pingreq", "disconnect"} : Packet(t, 0, None) \in Plain
  BY DEF Plain
<1>2. \A t \in {"connect", "pingreq", "disconnect"} :
        Send(<<Packet(t, 0, None)>>) => Gains(toPeer, toPeer', Plain)
  BY <1>1, SendOne, PlainType DEF Gains, WireTypes
<1>3. CASE SendConnect \/ SendDisconnect
  BY <1>2, <1>3 DEF SendConnect, SendDisconnect, Outward, Loses
<1>4. CASE Ping
  BY <1>2, <1>4 DEF Ping, Outward, Loses, Gains
<1>5. CASE ReadConnack
  BY <1>5 DEF ReadConnack, TakesFirst, Outward, Loses, Gains
<1>6. CASE DispatchOther
  BY <1>6 DEF DispatchOther, TakesFirst, Outward, Loses, Gains
<1>7. CASE ConnackFails \/ AwaitInitialSubscribe \/ LoopHead \/ LoopBreaks \/ HandleCloses
  BY <1>7 DEF ConnackFails, AwaitInitialSubscribe, LoopHead, LoopBreaks, HandleCloses, Outward, Loses, Gains
<1> QED
  BY <1>3, <1>4, <1>5, <1>6, <1>7 DEF Housekeeping

\* The initial SUBSCRIBE.
LEMMA InitialSubscribeWire ==
  ASSUME Inv, WireTypes, SendInitialSubscribe
  PROVE  /\ Outward({Packet("subscribe", AllocatedId, InitSub)})
         /\ Packet("subscribe", AllocatedId, InitSub) \in Packets
<1>1. AllocatedId \in Ids
  BY AllocateType DEF SendInitialSubscribe, Inv
<1>2. Packet("subscribe", AllocatedId, InitSub) \in Packets
  BY <1>1, SMTT(30), Z3T(30) DEF Packet, Packets, PacketTypes, Kinds, Waiters, Ids
<1>3. UNCHANGED toClient
  BY DEF SendInitialSubscribe
<1>4. toPeer' \in {toPeer, Append(toPeer, Packet("subscribe", AllocatedId, InitSub))}
  BY <1>2, SendOne DEF SendInitialSubscribe, WireTypes
<1> QED
  BY <1>2, <1>3, <1>4 DEF Outward, Gains, Loses

\* PUBREL follows a PUBREC.
LEMMA SendPubrelWire ==
  ASSUME WireTypes, SendPubrel
  PROVE  /\ Outward({Packet("pubrel", pubrec.id, pubrec.for)})
         /\ pubrec \in Packets /\ Packet("pubrel", pubrec.id, pubrec.for) \in Packets
<1>1. pubrec \in Packets
  BY DEF SendPubrel, WireTypes
<1>2. Packet("pubrel", pubrec.id, pubrec.for) \in Packets
  BY <1>1 DEF Packet, Packets, PacketTypes
<1>3. UNCHANGED toClient
  BY DEF SendPubrel
<1>4. toPeer' \in {toPeer, Append(toPeer, Packet("pubrel", pubrec.id, pubrec.for))}
  BY <1>2, SendOne DEF SendPubrel, WireTypes
<1> QED
  BY <1>1, <1>2, <1>3, <1>4 DEF Outward, Gains, Loses

\* A PUBLISH is answered as its QoS demands.
LEMMA DispatchPublishWire ==
  ASSUME WireTypes, DispatchPublish
  PROVE  LET p == Head(toClient)
             new == CASE InQos[p.for] = 0 -> {}
                      [] InQos[p.for] = 1 -> {Packet("puback", p.id, p.for)}
                      [] InQos[p.for] = 2 -> {Packet("pubrec", p.id, p.for)}
         IN  /\ toClient # <<>> /\ p \in Packets /\ p.type = "publish" /\ Offer(p)
             /\ Gains(toPeer, toPeer', new) /\ toClient' = Tail(toClient)
             /\ new \subseteq Packets /\ \A q \in new : Offer(q)
<1> DEFINE p == Head(toClient)
<1>1. toClient # <<>> /\ toClient' = Tail(toClient) /\ p.type = "publish"
  BY DEF DispatchPublish, TakesFirst
<1>2. p \in Packets /\ Offer(p)
  BY <1>1, TailOf DEF WireTypes, InBack
<1>3. InQos[p.for] \in 0..2
  BY <1>2, ClientAssumption DEF Offer
<1>4. Packet("puback", p.id, p.for) \in Packets /\ Packet("pubrec", p.id, p.for) \in Packets
  BY <1>2 DEF Packet, Packets, PacketTypes, Acks
<1>5. Offer(Packet("puback", p.id, p.for)) /\ Offer(Packet("pubrec", p.id, p.for))
  BY <1>2 DEF Packet, Offer
<1>6. CASE InQos[p.for] = 0
  <2>1. Send(<<>>)
    BY <1>6, SMTT(30), Z3T(30) DEF DispatchPublish
  <2>2. toPeer' = toPeer
    BY <2>1, SMTT(30), Z3T(30) DEF Send, WireTypes
  <2> QED
    BY <1>1, <1>2, <1>6, <2>2, SMTT(30), Z3T(30) DEF Gains
<1>7. CASE InQos[p.for] = 1
  <2>1. Send(<<Packet("puback", p.id, p.for)>>)
    BY <1>7, SMTT(30), Z3T(30) DEF DispatchPublish
  <2>2. toPeer' \in {toPeer, Append(toPeer, Packet("puback", p.id, p.for))}
    BY <2>1, <1>4, SendOne DEF WireTypes
  <2> QED
    BY <1>1, <1>2, <1>4, <1>5, <1>7, <2>2, SMTT(30), Z3T(30) DEF Gains
<1>8. CASE InQos[p.for] = 2
  <2>1. Send(<<Packet("pubrec", p.id, p.for)>>)
    BY <1>8, SMTT(30), Z3T(30) DEF DispatchPublish
  <2>2. toPeer' \in {toPeer, Append(toPeer, Packet("pubrec", p.id, p.for))}
    BY <2>1, <1>4, SendOne DEF WireTypes
  <2> QED
    BY <1>1, <1>2, <1>4, <1>5, <1>8, <2>2, SMTT(30), Z3T(30) DEF Gains
<1> QED
  BY <1>3, <1>6, <1>7, <1>8, SMTT(30), Z3T(30)

\* A PUBREL is answered with a PUBCOMP.
LEMMA DispatchPubrelWire ==
  ASSUME WireTypes, DispatchPubrel
  PROVE  LET p == Head(toClient)
         IN  /\ toClient # <<>> /\ p \in Packets /\ p.type = "pubrel" /\ Offer(p)
             /\ Gains(toPeer, toPeer', {Packet("pubcomp", p.id, p.for)})
             /\ toClient' = Tail(toClient)
             /\ Packet("pubcomp", p.id, p.for) \in Packets /\ Offer(Packet("pubcomp", p.id, p.for))
<1> DEFINE p == Head(toClient)
<1>1. toClient # <<>> /\ toClient' = Tail(toClient) /\ p.type = "pubrel"
  BY DEF DispatchPubrel, TakesFirst
<1>2. p \in Packets /\ Offer(p)
  BY <1>1, TailOf DEF WireTypes, InBack
<1>3. Packet("pubcomp", p.id, p.for) \in Packets
  BY <1>2 DEF Packet, Packets, PacketTypes, Acks
<1>4. Offer(Packet("pubcomp", p.id, p.for))
  BY <1>2 DEF Packet, Offer
<1>5. Send(<<Packet("pubcomp", p.id, p.for)>>)
  BY DEF DispatchPubrel
<1>6. toPeer' \in {toPeer, Append(toPeer, Packet("pubcomp", p.id, p.for))}
  BY <1>3, <1>5, SendOne DEF WireTypes
<1> QED
  BY <1>1, <1>2, <1>3, <1>4, <1>6 DEF Gains

\* An acknowledgement is read and nothing sent.
LEMMA DispatchAckWire ==
  ASSUME WireTypes, DispatchAck
  PROVE  LET p == Head(toClient)
         IN  /\ toClient # <<>> /\ p \in Packets /\ p.type \in Acks
             /\ toPeer' = toPeer /\ toClient' = Tail(toClient)
             /\ hc' = "pubrel" => pubrec' = p /\ p.type = "pubrec"
  BY TailOf DEF WireTypes, DispatchAck, TakesFirst

\* What the broker may send for the packet p.
Answers(p) ==
  Plain \cup (IF p.type \in DOMAIN AnswerTo THEN {Packet(AnswerTo[p.type], p.id, p.for)} ELSE {})

\* Which packet answers which.
LEMMA AnswerTypes ==
  /\ \A t \in DOMAIN AnswerTo :
       /\ AnswerTo[t] \in PacketTypes /\ AnswerTo[t] # "publish"
       /\ AnswerTo[t] = "pubrel" => t = "pubrec"
       /\ AnswerTo[t] = "pubrec" => t = "qos2"
       /\ AnswerTo[t] = "pubcomp" => t = "pubrel"
       /\ AnswerTo[t] \in Acks =>
            t \in {"qos1", "qos2", "pubrel", "subscribe", "unsubscribe"}
       /\ t \in {"qos1", "qos2", "subscribe", "unsubscribe"} => AnswerTo[t] = AckOf[t]
  /\ \A t \in {"puback", "pubcomp"} : t \notin DOMAIN AnswerTo
  /\ "pubrec" \in DOMAIN AnswerTo
  BY SMTT(30), Z3T(30) DEF AnswerTo, AckOf, PacketTypes, Acks, Kinds

\* A PUBREC answers nothing but a QoS 2 PUBLISH, a PUBCOMP nothing but a PUBREL.
LEMMA AnswersOnly ==
  ASSUME NEW t \in DOMAIN AnswerTo
  PROVE  /\ AnswerTo[t] = "pubrec" => t = "qos2"
         /\ AnswerTo[t] = "pubcomp" => t = "pubrel"
  BY AnswerTypes

\* The broker answers the packet that it reads.
LEMMA PeerReadsWire ==
  ASSUME WireTypes, PeerReads
  PROVE  LET p == Head(toPeer)
         IN  /\ toPeer # <<>> /\ p \in Packets /\ toPeer' = Tail(toPeer)
             /\ Gains(toClient, toClient', Answers(p))
             /\ peer = "waiting" => Gains(toClient, toClient', Plain)
             /\ Answers(p) \subseteq Packets
             /\ \A q \in Answers(p) : q.type \in InBack => Offer(q)
<1> DEFINE p == Head(toPeer)
<1>1. toPeer # <<>> /\ toPeer' = Tail(toPeer)
  BY DEF PeerReads
<1>2. p \in Packets /\ (p.type \in InOut => Offer(p))
  BY <1>1, TailOf DEF WireTypes
<1>3. Packet("accepted", 0, None) \in Plain /\ Packet("refused", 0, None) \in Plain
  BY DEF Plain
<1>4. peer = "waiting" => Gains(toClient, toClient', Plain)
  BY <1>3 DEF PeerReads, Gains
<1>5. peer # "waiting" => Gains(toClient, toClient', Answers(p))
  BY DEF PeerReads, Gains, Answers
<1>6. Gains(toClient, toClient', Answers(p))
  BY <1>4, <1>5 DEF Gains, Answers
<1>7. p.type \in DOMAIN AnswerTo => Packet(AnswerTo[p.type], p.id, p.for) \in Packets
  BY <1>2, AnswerTypes DEF Packet, Packets
<1>8. Answers(p) \subseteq Packets
  BY <1>7, PlainType DEF Answers
<1>9. \A q \in Answers(p) : q.type \in InBack => Offer(q)
  BY <1>2, PlainType, AnswerTypes, SMTT(30), Z3T(30) DEF Answers, Packet, Offer, InBack, InOut
<1> QED
  BY <1>1, <1>2, <1>4, <1>6, <1>8, <1>9

\* A PUBLISH of the broker's.
LEMMA PeerPublishesWire ==
  ASSUME NEW m \in Inbound, PeerPublishes(m)
  PROVE  /\ toPeer' = toPeer /\ toClient' = Append(toClient, Packet("publish", InId[m], m))
         /\ Packet("publish", InId[m], m) \in Packets /\ Offer(Packet("publish", InId[m], m))
<1>1. InId[m] \in Nat
  BY ClientAssumption
<1> QED
  BY <1>1 DEF PeerPublishes, Packet, Packets, PacketTypes, Offer

\* The broker hangs up.
LEMMA PeerClosesWire ==
  ASSUME PeerCloses
  PROVE  Inward(Plain) /\ toPeer' = toPeer
<1>1. \A t \in {"disconnect", "malformed"} : Packet(t, 0, None) \in Plain
  BY DEF Plain
<1> QED
  BY <1>1 DEF PeerCloses, Inward, Gains, Loses

\* What is on the wire is what the two ends send.
LEMMA WireStep == ASSUME Inv, WireTypes, Next PROVE WireTypes'
<1>1. ASSUME NEW o \in Ops, Start(o) PROVE WireTypes'
  <2>1. hc' = "pubrel" => pubrec' \in Packets
    BY <1>1 DEF Start, taskVars, WireTypes
  <2>2. Packet("qos0", 0, o).type \notin InOut
    BY DEF Packet, InOut
  <2> QED
    BY <1>1, <2>1, <2>2, StartWire, OutwardTypes
<1>2. ASSUME NEW o \in Ops, Register(o) PROVE WireTypes'
  <2>1. hc' = "pubrel" => pubrec' \in Packets
    BY <1>2 DEF Register, taskVars, WireTypes
  <2>2. Packet(kind[o], id[o], o).type \notin InOut
    BY <1>2, RegisterWire DEF Packet, InOut, Kinds
  <2> QED
    BY <1>2, <2>1, <2>2, RegisterWire, OutwardTypes
<1>3. ASSUME NEW o \in Ops, Resume(o) \/ Expire(o) \/ GiveUp(o) PROVE WireTypes'
  BY <1>3 DEF Resume, Expire, GiveUp, taskVars, WireTypes
<1>4. CASE Housekeeping
  BY <1>4, HousekeepingWire, PlainType, OutwardTypes
<1>5. CASE SendInitialSubscribe
  <2>1. hc' # "pubrel"
    BY <1>5 DEF SendInitialSubscribe, Goto
  <2> QED
    BY <1>5, <2>1, InitialSubscribeWire, OutwardTypes, SMTT(30), Z3T(30) DEF Packet, InOut
<1>6. CASE SendPubrel
  <2>1. hc' # "pubrel"
    BY <1>6 DEF SendPubrel
  <2> QED
    BY <1>6, <2>1, SendPubrelWire, OutwardTypes, SMTT(30), Z3T(30) DEF Packet, InOut
<1>7. CASE DispatchAck
  <2>1. Outward({}) /\ (hc' = "pubrel" => pubrec' \in Packets)
    BY <1>7, DispatchAckWire DEF Outward, Gains, Loses
  <2> QED
    BY <2>1, OutwardTypes
<1>8. CASE DispatchPublish
  <2> DEFINE p == Head(toClient)
             new == CASE InQos[p.for] = 0 -> {}
                      [] InQos[p.for] = 1 -> {Packet("puback", p.id, p.for)}
                      [] InQos[p.for] = 2 -> {Packet("pubrec", p.id, p.for)}
  <2>1. new \in SUBSET Packets /\ Outward(new) /\ \A q \in new : Offer(q)
    BY <1>8, DispatchPublishWire DEF Outward, Loses
  <2>2. hc' # "pubrel"
    BY <1>8 DEF DispatchPublish
  <2> HIDE DEF new
  <2> QED
    BY <2>1, <2>2, OutwardTypes
<1>9. CASE DispatchPubrel
  <2>1. hc' # "pubrel"
    BY <1>9 DEF DispatchPubrel
  <2> QED
    BY <1>9, <2>1, DispatchPubrelWire, OutwardTypes, SMTT(30), Z3T(30) DEF Outward, Loses
<1>10. CASE Abandon \/ UserClose \/ WriterReturns
  <2>1. UNCHANGED <<toPeer, toClient>> /\ hc' \in {hc, "done"} /\ pubrec' = pubrec
    BY <1>10 DEF Abandon, UserClose, WriterReturns, taskVars
  <2> QED
    BY <2>1 DEF WireTypes
<1>11. CASE WriterStops
  <2>1. Inward({}) /\ hc' = hc /\ pubrec' = pubrec
    BY <1>11 DEF WriterStops, Inward, Gains, Loses, taskVars
  <2> QED
    BY <2>1, InwardTypes DEF WireTypes
<1>12. CASE PeerReads
  <2>1. hc' = hc /\ pubrec' = pubrec
    BY <1>12 DEF PeerReads, taskVars
  <2>2. Inward(Answers(Head(toPeer))) /\ Answers(Head(toPeer)) \in SUBSET Packets
    BY <1>12, PeerReadsWire DEF Inward, Loses
  <2> QED
    BY <1>12, <2>1, <2>2, PeerReadsWire, InwardTypes DEF WireTypes
<1>13. ASSUME NEW m \in Inbound, PeerPublishes(m) PROVE WireTypes'
  <2>1. hc' = hc /\ pubrec' = pubrec
    BY <1>13 DEF PeerPublishes, taskVars
  <2>2. Inward({Packet("publish", InId[m], m)})
    BY <1>13, PeerPublishesWire DEF Inward, Gains, Loses
  <2> QED
    BY <1>13, <2>1, <2>2, PeerPublishesWire, InwardTypes DEF WireTypes
<1>14. CASE PeerCloses
  <2>1. hc' = hc /\ pubrec' = pubrec
    BY <1>14 DEF PeerCloses, taskVars
  <2> QED
    BY <1>14, <2>1, PeerClosesWire, PlainType, InwardTypes DEF WireTypes
<1> QED
  BY <1>1, <1>2, <1>3, <1>4, <1>5, <1>6, <1>7, <1>8, <1>9, <1>10, <1>11, <1>12, <1>13, <1>14
     DEF Next, OpStep, Task, Read, Housekeeping

-----------------------------------------------------------------------------
(* One packet of an exchange at a time.                                    *)

\* Of the packets of s with a type in S, and of those of t with a type in T, no
\* two are for the same operation or message.
Uniq(s, t, S, T) ==
  /\ \A j, k \in DOMAIN s : s[j].type \in S /\ s[k].type \in S /\ s[j].for = s[k].for => j = k
  /\ \A j, k \in DOMAIN t : t[j].type \in T /\ t[k].type \in T /\ t[j].for = t[k].for => j = k
  /\ \A j \in DOMAIN s, k \in DOMAIN t : s[j].type \in S /\ t[k].type \in T => s[j].for # t[k].for

\* No packet of s with a type in S is for w.
Absent(s, S, w) == \A p \in Elems(s) : p.type \in S => p.for # w

\* The two directions play the same part.
LEMMA UniqSwap ==
  ASSUME NEW s, NEW t, NEW S, NEW T, Uniq(s, t, S, T)
  PROVE  Uniq(t, s, T, S)
  BY DEF Uniq

\* Packets that are read or lost leave the rest alone.
LEMMA UniqLoses ==
  ASSUME NEW s \in Seq(Packets), NEW t, NEW S, NEW T, Uniq(s, t, S, T), NEW u, Loses(s, u)
  PROVE  Uniq(u, t, S, T)
<1>1. CASE u = s
  BY <1>1
<1>2. CASE s # <<>> /\ u = Tail(s)
  <2>1. \A k \in DOMAIN u : k \in Nat /\ k + 1 \in DOMAIN s /\ u[k] = s[k + 1]
    BY <1>2, TailOf, SMTT(30), Z3T(30)
  <2>2. \A j, k \in DOMAIN u : u[j].type \in S /\ u[k].type \in S /\ u[j].for = u[k].for => j = k
    <3> SUFFICES ASSUME NEW j \in DOMAIN u, NEW k \in DOMAIN u,
                        u[j].type \in S /\ u[k].type \in S /\ u[j].for = u[k].for
                 PROVE  j = k
      OBVIOUS
    <3>1. j \in Nat /\ k \in Nat /\ j + 1 = k + 1
      BY <2>1, SMTT(30), Z3T(30) DEF Uniq
    <3> QED
      BY <3>1, SMTT(30), Z3T(30)
  <2>3. \A j \in DOMAIN u, k \in DOMAIN t : u[j].type \in S /\ t[k].type \in T => u[j].for # t[k].for
    BY <2>1, SMTT(30), Z3T(30) DEF Uniq
  <2> QED
    BY <2>2, <2>3 DEF Uniq
<1>3. ASSUME NEW n \in 0..Len(s), u = SubSeq(s, 1, n) PROVE Uniq(u, t, S, T)
  <2>1. \A k \in DOMAIN u : k \in DOMAIN s /\ u[k] = s[k]
    BY <1>3, PrefixOf
  <2> QED
    BY <2>1, SMTT(30), Z3T(30) DEF Uniq
<1> QED
  BY <1>1, <1>2, <1>3 DEF Loses

\* A packet that is read was the only one for its operation or message.
LEMMA UniqHead ==
  ASSUME NEW s \in Seq(Packets), NEW t, NEW S, NEW T, Uniq(s, t, S, T), s # <<>>, Head(s).type \in S
  PROVE  Absent(Tail(s), S, Head(s).for) /\ Absent(t, T, Head(s).for)
<1>1. 1 \in DOMAIN s /\ Head(s) = s[1]
  BY TailOf
<1>2. \A k \in DOMAIN Tail(s) : k \in Nat \ {0} /\ k + 1 \in DOMAIN s /\ Tail(s)[k] = s[k + 1]
  BY TailOf, SMTT(30), Z3T(30)
<1>3. \A k \in DOMAIN Tail(s) : Tail(s)[k].type \in S => Tail(s)[k].for # Head(s).for
  <2> SUFFICES ASSUME NEW k \in DOMAIN Tail(s), Tail(s)[k].type \in S, Tail(s)[k].for = Head(s).for
               PROVE  FALSE
    OBVIOUS
  <2>1. k \in Nat \ {0} /\ k + 1 = 1
    BY <1>1, <1>2 DEF Uniq
  <2> QED
    BY <2>1, SMTT(30), Z3T(30)
<1> QED
  BY <1>1, <1>3 DEF Uniq, Absent, Elems

\* A packet may be sent when there is none for its operation or message.
LEMMA UniqAppend ==
  ASSUME NEW s \in Seq(Packets), NEW t, NEW S, NEW T, Uniq(s, t, S, T), NEW p \in Packets,
         p.type \in S => Absent(s, S, p.for) /\ Absent(t, T, p.for)
  PROVE  Uniq(Append(s, p), t, S, T)
<1> DEFINE u == Append(s, p)
           e == Len(s) + 1
<1>1. /\ DOMAIN u = DOMAIN s \cup {e} /\ e \notin DOMAIN s /\ u[e] = p
      /\ \A k \in DOMAIN s : u[k] = s[k]
  BY AppendOf, SMTT(30), Z3T(30)
<1> HIDE DEF u, e
<1>2. \A j, k \in DOMAIN u : u[j].type \in S /\ u[k].type \in S /\ u[j].for = u[k].for => j = k
  BY <1>1, SMTT(30), Z3T(30) DEF Uniq, Absent, Elems
<1>3. \A j \in DOMAIN u, k \in DOMAIN t : u[j].type \in S /\ t[k].type \in T => u[j].for # t[k].for
  BY <1>1 DEF Uniq, Absent, Elems
<1>4. Uniq(u, t, S, T)
  BY <1>2, <1>3 DEF Uniq
<1> QED
  BY <1>4 DEF u

\* A step that sends nothing of the kind.
LEMMA UniqGains ==
  ASSUME NEW s \in Seq(Packets), NEW t, NEW S, NEW T, Uniq(s, t, S, T),
         NEW new \in SUBSET Packets, \A p \in new : p.type \notin S, NEW u, Gains(s, u, new)
  PROVE  Uniq(u, t, S, T)
<1>1. ASSUME NEW p \in new, u = Append(s, p) PROVE Uniq(u, t, S, T)
  BY <1>1, UniqAppend
<1> QED
  BY <1>1 DEF Gains

\* Nobody can appear by a loss.
LEMMA AbsentLoses ==
  ASSUME NEW s \in Seq(Packets), NEW S, NEW w, Absent(s, S, w), NEW u, Loses(s, u)
  PROVE  Absent(u, S, w)
<1>1. From(s, u, {})
  BY LosesFrom
<1> QED
  BY <1>1 DEF From, Absent

-----------------------------------------------------------------------------
(* Messages the broker publishes.                                          *)

\* The channel is closed when somebody runs close(), and when the actor stops.
Shut == (closing # None => ~open) /\ (writer # "running" => ~open)

InIds == {InId[m] : m \in Inbound}

ReceiptTypes ==
  /\ stash \in [InIds -> Inbound \cup {None}] /\ delivered \in [Inbound -> Nat]
  /\ live \subseteq Inbound /\ offered \subseteq Inbound /\ settled \subseteq Inbound

\* An exchange has at most one packet on the wire, and no two share an id.
Exchanges ==
  /\ Uniq(toPeer, toClient, InOut, InBack)
  /\ \A x, y \in live : InId[x] = InId[y] => x = y
  /\ live \subseteq offered /\ settled \subseteq offered /\ settled \cap live = {}
  /\ \A x \in live : InQos[x] # 0

\* A stored message is one of an exchange that goes on, and waits for PUBREL.
Stored ==
  \A i \in InIds : stash[i] # None =>
    /\ stash[i] \in live /\ InQos[stash[i]] = 2 /\ InId[stash[i]] = i /\ delivered[stash[i]] = 0

\* A packet on its way to the client ...
Coming(p) ==
  /\ p.type = "publish" =>
       /\ p.for \in offered /\ p.for \notin settled /\ (InQos[p.for] # 0 => p.for \in live)
       /\ delivered[p.for] = 0 /\ stash[InId[p.for]] # p.for
  /\ p.type = "pubrel" =>
       InQos[p.for] = 2 /\ p.for \in live /\ (open => stash[InId[p.for]] = p.for)

\* ... and one on its way to the broker.
Going(p) ==
  /\ p.type = "pubrec" =>
       InQos[p.for] = 2 /\ p.for \in live /\ (open => stash[InId[p.for]] = p.for)
  /\ p.type \in {"puback", "pubcomp"} =>
       p.for \in live /\ stash[InId[p.for]] # p.for /\ (open => delivered[p.for] = 1)

Receipts ==
  \A m \in Inbound :
    /\ delivered[m] \in {0, 1} /\ (m \notin offered => delivered[m] = 0)
    /\ m \in settled /\ open => delivered[m] = 1

ReceiptInv ==
  /\ Shut /\ ReceiptTypes /\ Exchanges /\ Stored /\ Receipts
  /\ \A p \in Elems(toClient) : Coming(p)
  /\ \A p \in Elems(toPeer) : Going(p)

\* Nothing has been published.
LEMMA InitReceipt == Init => WireTypes /\ ReceiptInv
<1> SUFFICES ASSUME Init PROVE WireTypes /\ ReceiptInv
  OBVIOUS
<1>1. toPeer = <<>> /\ toClient = <<>> /\ hc # "pubrel"
  BY DEF Init
<1>2. WireTypes
  BY <1>1, SMTT(30), Z3T(30) DEF WireTypes, Elems
<1>3. Shut /\ ReceiptTypes /\ Stored /\ Receipts
  BY DEF Init, Shut, ReceiptTypes, Stored, Receipts, InIds
<1>4. Exchanges
  BY <1>1, SMTT(30), Z3T(30) DEF Init, Exchanges, Uniq
<1> QED
  BY <1>1, <1>2, <1>3, <1>4, SMTT(30), Z3T(30) DEF ReceiptInv, Elems

\* A closed channel stays closed.
LEMMA ShutStep == ASSUME Inv, Shut, Next PROVE Shut' /\ (open' => open)
<1> USE DEF chanVars
<1>1. ASSUME NEW o \in Ops, OpStep(o) PROVE UNCHANGED <<open, closing, writer>>
  BY <1>1 DEF OpStep, Start, Register, Resume, Expire, GiveUp
<1>2. CASE SendConnect \/ ReadConnack \/ ConnackFails \/ SendInitialSubscribe \/ AwaitInitialSubscribe
  BY <1>2, SMTT(30), Z3T(30) DEF SendConnect, ReadConnack, ConnackFails, SendInitialSubscribe, AwaitInitialSubscribe, Shut
<1>3. CASE LoopHead \/ LoopBreaks \/ Ping \/ SendPubrel \/ SendDisconnect
  BY <1>3, SMTT(30), Z3T(30) DEF LoopHead, LoopBreaks, Ping, SendPubrel, SendDisconnect, Shut
<1>4. CASE Read
  BY <1>4, SMTT(30), Z3T(30) DEF Read, DispatchAck, DispatchPublish, DispatchPubrel, DispatchOther, Shut
<1>5. CASE HandleCloses
  BY <1>5 DEF HandleCloses, CloseSwap, Shut
<1>6. CASE Abandon
  BY <1>6 DEF Abandon, Shut
<1>7. CASE UserClose
  BY <1>7 DEF UserClose, CloseSwap, Shut
<1>8. CASE WriterStops \/ WriterReturns
  BY <1>8, SMTT(30), Z3T(30) DEF WriterStops, WriterReturns, Shut
<1>9. CASE PeerReads \/ (\E m \in Inbound : PeerPublishes(m)) \/ PeerCloses
  BY <1>9, SMTT(30), Z3T(30) DEF PeerReads, PeerPublishes, PeerCloses, Shut
<1> QED
  BY <1>1, <1>2, <1>3, <1>4, <1>5, <1>6, <1>7, <1>8, <1>9 DEF Next, Task, Shut

\* A step that sends nothing of an exchange of the broker's.
Aside ==
  /\ UNCHANGED <<stash, delivered, live, offered, settled>>
  /\ \E new \in SUBSET Packets :
       \/ Outward(new) /\ \A p \in new : p.type \notin InOut
       \/ Inward(new) /\ \A p \in new : p.type \notin InBack

\* Such a step keeps the invariant.
LEMMA AsideStep ==
  ASSUME WireTypes, ReceiptInv, Aside, Shut', open' => open
  PROVE  ReceiptInv'
<1> PICK new \in SUBSET Packets :
      \/ Outward(new) /\ \A p \in new : p.type \notin InOut
      \/ Inward(new) /\ \A p \in new : p.type \notin InBack
  BY DEF Aside
<1>1. UNCHANGED <<stash, delivered, live, offered, settled>>
  BY DEF Aside
<1>2. toPeer \in Seq(Packets) /\ toClient \in Seq(Packets)
  BY DEF WireTypes
<1>3. /\ \A p \in Elems(toPeer') : p.type \in InOut => p \in Elems(toPeer)
      /\ \A p \in Elems(toClient') : p.type \in InBack => p \in Elems(toClient)
  BY <1>2, LosesFrom, GainsFrom DEF Outward, Inward, From
<1>4. Uniq(toPeer', toClient', InOut, InBack)
  <2>0. Uniq(toPeer, toClient, InOut, InBack)
    BY DEF ReceiptInv, Exchanges
  <2>1. CASE Outward(new) /\ \A p \in new : p.type \notin InOut
    <3>1. Uniq(toPeer', toClient, InOut, InBack)
      BY <1>2, <2>0, <2>1, UniqGains DEF Outward
    <3>2. Uniq(toClient, toPeer', InBack, InOut)
      BY <3>1, UniqSwap
    <3>3. Uniq(toClient', toPeer', InBack, InOut)
      BY <1>2, <2>1, <3>2, UniqLoses DEF Outward
    <3> QED
      BY <3>3, UniqSwap
  <2>2. CASE Inward(new) /\ \A p \in new : p.type \notin InBack
    <3>1. Uniq(toPeer', toClient, InOut, InBack)
      BY <1>2, <2>0, <2>2, UniqLoses DEF Inward
    <3>2. Uniq(toClient, toPeer', InBack, InOut)
      BY <3>1, UniqSwap
    <3>3. Uniq(toClient', toPeer', InBack, InOut)
      BY <1>2, <2>2, <3>2, UniqGains DEF Inward
    <3> QED
      BY <3>3, UniqSwap
  <2> QED
    BY <2>1, <2>2
<1>5. (\A p \in Elems(toClient) : Coming(p))'
  BY <1>1, <1>3 DEF ReceiptInv, Coming, InBack
<1>6. (\A p \in Elems(toPeer) : Going(p))'
  BY <1>1, <1>3 DEF ReceiptInv, Going, InOut
<1>7. ReceiptTypes' /\ Exchanges' /\ Stored' /\ Receipts'
  BY <1>1, <1>4 DEF ReceiptInv, ReceiptTypes, Exchanges, Stored, Receipts
<1> QED
  BY <1>5, <1>6, <1>7 DEF ReceiptInv

\* abandon() forgets the messages that wait for PUBREL; the channel is closed.
LEMMA AbandonReceipt ==
  ASSUME WireTypes, ReceiptInv, Abandon, Shut'
  PROVE  ReceiptInv'
<1>1. UNCHANGED <<delivered, live, offered, settled, toPeer, toClient, open>> /\ ~open
  BY DEF Abandon, peerVars, ReceiptInv, Shut
<1>2. stash' = [i \in InIds |-> None]
  BY DEF Abandon, ReceiptInv, ReceiptTypes
<1>3. \A m \in Inbound : InId[m] \in InIds /\ stash'[InId[m]] # m
  BY <1>2, ClientAssumption DEF InIds
<1>4. (\A p \in Elems(toClient) : Coming(p))'
  BY <1>1, <1>3 DEF ReceiptInv, ReceiptTypes, WireTypes, Offer, Coming, InBack
<1>5. (\A p \in Elems(toPeer) : Going(p))'
  BY <1>1, <1>3 DEF ReceiptInv, ReceiptTypes, WireTypes, Offer, Going, InOut
<1>6. ReceiptTypes' /\ Exchanges' /\ Stored' /\ Receipts'
  BY <1>1, <1>2 DEF ReceiptInv, ReceiptTypes, Exchanges, Stored, Receipts
<1> QED
  BY <1>4, <1>5, <1>6 DEF ReceiptInv

\* The facts about the message of the packet in hand.
LEMMA HeldMessage ==
  ASSUME WireTypes, ReceiptInv, NEW p \in Packets, Offer(p)
  PROVE  /\ p.for \in Inbound /\ InId[p.for] \in InIds /\ p.id = InId[p.for]
         /\ InQos[p.for] \in 0..2 /\ delivered[p.for] \in {0, 1}
         /\ stash[InId[p.for]] \in Inbound \cup {None} /\ p.for # None
  BY ClientAssumption DEF Offer, InIds, ReceiptInv, ReceiptTypes, Receipts

\* Handing a message to its endpoints counts for that message alone.
LEMMA DispatchedOnce ==
  ASSUME delivered \in [Inbound -> Nat], NEW m \in Inbound
  PROVE  /\ Dispatched(m) \in [Inbound -> Nat]
         /\ Dispatched(m)[m] = delivered[m] + 1
         /\ \A x \in Inbound : x # m => Dispatched(m)[x] = delivered[x]
  BY SMTT(30), Z3T(30) DEF Dispatched

\* A PUBLISH: QoS 2 is stored, the others go to the endpoints.
LEMMA PublishReceipt ==
  ASSUME Inv, WireTypes, ReceiptInv, DispatchPublish, Shut'
  PROVE  ReceiptInv'
<1> DEFINE p == Head(toClient)
           m == p.for
           new == CASE InQos[p.for] = 0 -> {}
                    [] InQos[p.for] = 1 -> {Packet("puback", p.id, p.for)}
                    [] InQos[p.for] = 2 -> {Packet("pubrec", p.id, p.for)}
<1>1. /\ toClient # <<>> /\ p \in Packets /\ p.type = "publish" /\ Offer(p)
      /\ Gains(toPeer, toPeer', new) /\ toClient' = Tail(toClient)
      /\ new \subseteq Packets /\ \A q \in new : Offer(q)
  BY DispatchPublishWire
<1>2. /\ m \in Inbound /\ InId[m] \in InIds /\ p.id = InId[m] /\ InQos[m] \in 0..2
      /\ stash[InId[m]] \in Inbound \cup {None} /\ m # None
  BY <1>1, HeldMessage
<1>3. Coming(p)
  BY <1>1, TailOf DEF ReceiptInv, WireTypes
<1>4. /\ m \in offered /\ m \notin settled /\ (InQos[m] # 0 => m \in live)
      /\ delivered[m] = 0 /\ stash[InId[m]] # m
  BY <1>1, <1>3 DEF Coming
<1>5. \A q \in new : /\ q.for = m
                     /\ (InQos[m] = 1 /\ q.type = "puback") \/ (InQos[m] = 2 /\ q.type = "pubrec")
  BY <1>2, SMTT(30), Z3T(30) DEF Packet
<1>6. UNCHANGED <<live, offered, settled, open>>
  BY DEF DispatchPublish, chanVars, peerVars
<1>7. stash' = IF InQos[m] = 2 THEN [stash EXCEPT ![InId[m]] = m] ELSE stash
  BY <1>2 DEF DispatchPublish
<1>8. delivered' \in [Inbound -> Nat] /\ \A x \in Inbound : x # m => delivered'[x] = delivered[x]
  <2>1. delivered' = Dispatched(m) \/ delivered' = delivered
    BY DEF DispatchPublish
  <2>2. delivered \in [Inbound -> Nat]
    BY DEF ReceiptInv, ReceiptTypes
  <2> QED
    BY <1>2, <2>1, <2>2, DispatchedOnce
<1>9. /\ InQos[m] = 2 => delivered'[m] = 0
      /\ InQos[m] # 2 => delivered'[m] \in {0, 1} /\ (open => delivered'[m] = 1)
  <2>1. open => Accepts
    BY DEF ReceiptInv, Shut, Accepts
  <2>2. delivered' = IF (InQos[m] = 0 \/ Accepts) /\ InQos[m] # 2 THEN Dispatched(m) ELSE delivered
    BY DEF DispatchPublish
  <2>3. Dispatched(m)[m] = 1
    <3>1. Dispatched(m)[m] = 0 + 1
      BY <1>2, <1>4, DispatchedOnce DEF ReceiptInv, ReceiptTypes
    <3> QED
      BY <3>1, Numbers
  <2> QED
    BY <1>4, <2>1, <2>2, <2>3
<1> HIDE DEF new
<1>10. toPeer \in Seq(Packets) /\ toClient \in Seq(Packets) /\ Uniq(toPeer, toClient, InOut, InBack)
  BY DEF WireTypes, ReceiptInv, Exchanges
<1>11. Absent(Tail(toClient), InBack, m) /\ Absent(toPeer, InOut, m)
  <2>1. Uniq(toClient, toPeer, InBack, InOut) /\ p.type \in InBack
    BY <1>1, <1>10, UniqSwap DEF InBack
  <2> QED
    BY <1>1, <1>10, <2>1, UniqHead
<1>12. Uniq(toPeer', toClient', InOut, InBack)
  <2>1. Uniq(toClient, toPeer, InBack, InOut) /\ Loses(toClient, toClient')
    BY <1>1, <1>10, UniqSwap DEF Loses
  <2>2. Uniq(toClient', toPeer, InBack, InOut)
    BY <1>10, <2>1, UniqLoses
  <2>3. Uniq(toPeer, toClient', InOut, InBack)
    BY <2>2, UniqSwap
  <2>4. ASSUME NEW q \in new, toPeer' = Append(toPeer, q) PROVE Uniq(toPeer', toClient', InOut, InBack)
    BY <1>1, <1>5, <1>10, <1>11, <2>3, <2>4, UniqAppend
  <2> QED
    BY <1>1, <2>3, <2>4 DEF Gains
<1>13. From(toClient, toClient', {}) /\ From(toPeer, toPeer', new)
  BY <1>1, <1>10, TailOf, GainsFrom
<1>14. Stored'
  BY <1>2, <1>4, <1>6, <1>7, <1>8, <1>9, SMTT(30), Z3T(30) DEF ReceiptInv, Stored, ReceiptTypes
<1>15. ReceiptTypes' /\ Receipts'
  BY <1>2, <1>4, <1>6, <1>7, <1>8, <1>9 DEF ReceiptInv, ReceiptTypes, Receipts
<1>16. Exchanges'
  BY <1>6, <1>12 DEF ReceiptInv, Exchanges
<1>17. ASSUME NEW x \in live, x # m
       PROVE  stash[InId[x]] = x => stash'[InId[x]] = x
  <2>1. stash \in [InIds -> Inbound \cup {None}] /\ (m \in live => InId[x] # InId[m])
    BY <1>2, <1>17 DEF ReceiptInv, Exchanges, ReceiptTypes
  <2>4. InId[x] \in InIds
    BY <1>17 DEF ReceiptInv, ReceiptTypes, Receipts, InIds
  <2>2. CASE InQos[m] = 2
    <3>1. m \in live
      BY <1>4, <2>2, Numbers
    <3> QED
      BY <1>2, <1>7, <2>1, <2>2, <2>4, <3>1
  <2>3. CASE InQos[m] # 2
    BY <1>7, <2>3
  <2> QED
    BY <2>2, <2>3
<1>18. ASSUME NEW x \in Inbound, x # m, stash[InId[x]] # x
       PROVE  stash'[InId[x]] # x
  <2>1. InId[x] \in InIds
    BY DEF InIds
  <2> QED
    BY <1>2, <1>7, <1>18, <2>1 DEF ReceiptInv, ReceiptTypes
<1>19. (\A q \in Elems(toClient) : Coming(q))'
  <2> SUFFICES ASSUME NEW q \in Elems(toClient') PROVE Coming(q)'
    OBVIOUS
  <2>1. Coming(q) /\ (q.type \in InBack => Offer(q) /\ q.for # m)
    BY <1>1, <1>11, <1>13 DEF From, ReceiptInv, WireTypes, Absent
  <2>2. q.type \in InBack => q.for \in Inbound /\ delivered'[q.for] = delivered[q.for]
    BY <2>1, <1>8 DEF Offer
  <2> QED
    BY <2>1, <2>2, <1>6, <1>17, <1>18 DEF Coming, InBack
<1>20. (\A q \in Elems(toPeer) : Going(q))'
  <2> SUFFICES ASSUME NEW q \in Elems(toPeer') PROVE Going(q)'
    OBVIOUS
  <2>1. CASE q \in new
    <3>1. q.for = m /\ ((InQos[m] = 1 /\ q.type = "puback") \/ (InQos[m] = 2 /\ q.type = "pubrec"))
      BY <2>1, <1>5
    <3>2. InQos[m] = 2 => stash'[InId[m]] = m
      BY <1>2, <1>7 DEF ReceiptInv, ReceiptTypes
    <3>3. InQos[m] = 1 => stash'[InId[m]] # m
      BY <1>4, <1>7, SMTT(30), Z3T(30)
    <3> QED
      BY <3>1, <3>2, <3>3, <1>4, <1>6, <1>9, SMTT(30), Z3T(30) DEF Going
  <2>2. CASE q \in Elems(toPeer)
    <3>1. Going(q) /\ (q.type \in InOut => Offer(q) /\ q.for # m)
      BY <2>2, <1>11 DEF ReceiptInv, WireTypes, Absent
    <3>2. q.type \in InOut => q.for \in Inbound /\ delivered'[q.for] = delivered[q.for]
      BY <3>1, <1>8 DEF Offer
    <3> QED
      BY <3>1, <3>2, <1>6, <1>17, <1>18 DEF Going, InOut
  <2> QED
    BY <2>1, <2>2, <1>13 DEF From
<1> QED
  BY <1>14, <1>15, <1>16, <1>19, <1>20 DEF ReceiptInv

\* A PUBREL: the stored message, which is the one it releases, goes to the
\* endpoints.
LEMMA PubrelReceipt ==
  ASSUME Inv, WireTypes, ReceiptInv, DispatchPubrel, Shut'
  PROVE  ReceiptInv'
<1> DEFINE p == Head(toClient)
           m == p.for
           r == Packet("pubcomp", p.id, p.for)
<1>1. /\ toClient # <<>> /\ p \in Packets /\ p.type = "pubrel" /\ Offer(p)
      /\ Gains(toPeer, toPeer', {r}) /\ toClient' = Tail(toClient) /\ r \in Packets
  BY DispatchPubrelWire
<1>2. /\ m \in Inbound /\ InId[m] \in InIds /\ p.id = InId[m] /\ delivered[m] \in {0, 1}
      /\ stash[InId[m]] \in Inbound \cup {None} /\ m # None
  BY <1>1, HeldMessage
<1>3. InQos[m] = 2 /\ m \in live /\ (open => stash[InId[m]] = m)
  BY <1>1, TailOf DEF ReceiptInv, WireTypes, Coming
<1>4. stash[InId[m]] \in {None, m} /\ (stash[InId[m]] = m => delivered[m] = 0)
  <2>1. ASSUME stash[InId[m]] # None PROVE stash[InId[m]] = m /\ delivered[m] = 0
    <3>1. /\ stash[InId[m]] \in live /\ InId[stash[InId[m]]] = InId[m]
          /\ delivered[stash[InId[m]]] = 0
      BY <1>2, <2>1 DEF ReceiptInv, Stored
    <3>2. stash[InId[m]] = m
      BY <1>3, <3>1 DEF ReceiptInv, Exchanges
    <3> QED
      BY <3>1, <3>2
  <2> QED
    BY <1>2, <2>1
<1>5. r.for = m /\ r.type = "pubcomp"
  BY DEF Packet
<1>6. UNCHANGED <<live, offered, settled, open>>
  BY DEF DispatchPubrel, chanVars, peerVars
<1>7. stash' = [stash EXCEPT ![InId[m]] = None]
  BY <1>2 DEF DispatchPubrel
<1>8. delivered' = IF stash[InId[m]] = m THEN [delivered EXCEPT ![m] = @ + 1] ELSE delivered
  BY <1>2, <1>4 DEF DispatchPubrel, Dispatched
<1>9. /\ delivered' \in [Inbound -> Nat] /\ \A x \in Inbound : x # m => delivered'[x] = delivered[x]
      /\ delivered'[m] \in {0, 1} /\ (open => delivered'[m] = 1)
  BY <1>2, <1>3, <1>4, <1>8, SMTT(30), Z3T(30) DEF ReceiptInv, ReceiptTypes
<1> HIDE DEF r
<1>10. toPeer \in Seq(Packets) /\ toClient \in Seq(Packets) /\ Uniq(toPeer, toClient, InOut, InBack)
  BY DEF WireTypes, ReceiptInv, Exchanges
<1>11. Absent(Tail(toClient), InBack, m) /\ Absent(toPeer, InOut, m)
  <2>1. Uniq(toClient, toPeer, InBack, InOut) /\ p.type \in InBack
    BY <1>1, <1>10, UniqSwap DEF InBack
  <2> QED
    BY <1>1, <1>10, <2>1, UniqHead
<1>12. Uniq(toPeer', toClient', InOut, InBack)
  <2>1. Uniq(toClient, toPeer, InBack, InOut) /\ Loses(toClient, toClient')
    BY <1>1, <1>10, UniqSwap DEF Loses
  <2>2. Uniq(toClient', toPeer, InBack, InOut)
    BY <1>10, <2>1, UniqLoses
  <2>3. Uniq(toPeer, toClient', InOut, InBack)
    BY <2>2, UniqSwap
  <2>4. CASE toPeer' = Append(toPeer, r)
    BY <1>1, <1>5, <1>10, <1>11, <2>3, <2>4, UniqAppend
  <2> QED
    BY <1>1, <2>3, <2>4 DEF Gains
<1>13. From(toClient, toClient', {}) /\ From(toPeer, toPeer', {r})
  <2>1. From(toClient, toClient', {})
    BY <1>1, <1>10, TailOf
  <2>2. {r} \subseteq Packets
    BY <1>1
  <2> QED
    BY <1>1, <1>10, <2>1, <2>2, GainsFrom
<1>14. Stored'
  BY <1>2, <1>4, <1>6, <1>7, <1>9, SMTT(30), Z3T(30) DEF ReceiptInv, Stored, ReceiptTypes
<1>15. ReceiptTypes' /\ Receipts'
  BY <1>2, <1>3, <1>6, <1>7, <1>9 DEF ReceiptInv, ReceiptTypes, Receipts, Exchanges
<1>16. Exchanges'
  BY <1>6, <1>12 DEF ReceiptInv, Exchanges
<1>17. ASSUME NEW x \in live, x # m
       PROVE  stash[InId[x]] = x => stash'[InId[x]] = x
  BY <1>3, <1>7, <1>17, SMTT(30), Z3T(30) DEF ReceiptInv, Exchanges, ReceiptTypes
<1>18. ASSUME NEW x \in Inbound, stash[InId[x]] # x
       PROVE  stash'[InId[x]] # x
  <2>1. InId[x] \in InIds /\ x # None
    BY ClientAssumption DEF InIds
  <2> QED
    BY <1>2, <1>7, <1>18, <2>1 DEF ReceiptInv, ReceiptTypes
<1>19. (\A q \in Elems(toClient) : Coming(q))'
  <2> SUFFICES ASSUME NEW q \in Elems(toClient') PROVE Coming(q)'
    OBVIOUS
  <2>1. Coming(q) /\ (q.type \in InBack => Offer(q) /\ q.for # m)
    BY <1>1, <1>11, <1>13 DEF From, ReceiptInv, WireTypes, Absent
  <2>2. q.type \in InBack => q.for \in Inbound /\ delivered'[q.for] = delivered[q.for]
    BY <2>1, <1>9 DEF Offer
  <2> QED
    BY <2>1, <2>2, <1>6, <1>17, <1>18 DEF Coming, InBack
<1>20. (\A q \in Elems(toPeer) : Going(q))'
  <2> SUFFICES ASSUME NEW q \in Elems(toPeer') PROVE Going(q)'
    OBVIOUS
  <2>1. CASE q = r
    <3>1. stash'[InId[m]] # m
      BY <1>2, <1>7 DEF ReceiptInv, ReceiptTypes
    <3> QED
      BY <2>1, <3>1, <1>3, <1>5, <1>6, <1>9 DEF Going
  <2>2. CASE q \in Elems(toPeer)
    <3>1. Going(q) /\ (q.type \in InOut => Offer(q) /\ q.for # m)
      BY <2>2, <1>11 DEF ReceiptInv, WireTypes, Absent
    <3>2. q.type \in InOut => q.for \in Inbound /\ delivered'[q.for] = delivered[q.for]
      BY <3>1, <1>9 DEF Offer
    <3> QED
      BY <3>1, <3>2, <1>6, <1>17, <1>18 DEF Going, InOut
  <2> QED
    BY <2>1, <2>2, <1>13 DEF From
<1> QED
  BY <1>14, <1>15, <1>16, <1>19, <1>20 DEF ReceiptInv

\* The broker reads: PUBREC is answered with PUBREL, PUBACK and PUBCOMP end the
\* exchange.
LEMMA PeerReadsReceipt ==
  ASSUME Inv, WireTypes, ReceiptInv, PeerReads, Shut'
  PROVE  ReceiptInv'
<1> DEFINE p == Head(toPeer)
           over == IF p.type \in {"puback", "pubcomp"} THEN {p.for} ELSE {}
<1>1. /\ toPeer # <<>> /\ p \in Packets /\ toPeer' = Tail(toPeer)
      /\ Gains(toClient, toClient', Answers(p)) /\ Answers(p) \subseteq Packets
      /\ \A q \in Answers(p) : q.type \in InBack => Offer(q)
  BY PeerReadsWire
<1>2. /\ UNCHANGED <<stash, delivered, offered, open>>
      /\ live' = live \ over /\ settled' = settled \cup over
  BY DEF PeerReads, taskVars, chanVars
<1>3. p \in Elems(toPeer) /\ Going(p) /\ (p.type \in InOut => Offer(p))
  BY <1>1, TailOf DEF ReceiptInv, WireTypes
<1>4. \A x \in over : /\ x = p.for /\ p.type \in InOut /\ x \in Inbound /\ x \in live
                      /\ stash[InId[x]] # x /\ (open => delivered[x] = 1)
  BY <1>3 DEF Going, Offer, InOut
<1> HIDE DEF over
<1>5. \A q \in Answers(p) : q.type \in InBack => q.type = "pubrel" /\ q.for = p.for /\ p.type = "pubrec"
  BY PlainType, AnswerTypes, SMTT(30), Z3T(30) DEF Answers, Packet, InBack
<1>6. toPeer \in Seq(Packets) /\ toClient \in Seq(Packets) /\ Uniq(toPeer, toClient, InOut, InBack)
  BY DEF WireTypes, ReceiptInv, Exchanges
<1>7. p.type \in InOut => Absent(Tail(toPeer), InOut, p.for) /\ Absent(toClient, InBack, p.for)
  BY <1>1, <1>6, UniqHead
<1>8. Uniq(toPeer', toClient', InOut, InBack)
  <2>1. Uniq(toPeer', toClient, InOut, InBack)
    BY <1>1, <1>6, UniqLoses DEF Loses
  <2>2. Uniq(toClient, toPeer', InBack, InOut)
    BY <2>1, UniqSwap
  <2>3. ASSUME NEW q \in Answers(p), toClient' = Append(toClient, q)
        PROVE  Uniq(toClient', toPeer', InBack, InOut)
    <3>1. q.type \in InBack => Absent(toClient, InBack, q.for) /\ Absent(toPeer', InOut, q.for)
      BY <1>1, <1>5, <1>7 DEF InOut
    <3> QED
      BY <1>1, <1>6, <2>2, <2>3, <3>1, UniqAppend
  <2>4. Uniq(toClient', toPeer', InBack, InOut)
    BY <1>1, <2>2, <2>3 DEF Gains
  <2> QED
    BY <2>4, UniqSwap
<1>9. From(toPeer, toPeer', {}) /\ From(toClient, toClient', Answers(p))
  BY <1>1, <1>6, TailOf, GainsFrom
<1>10. ReceiptTypes' /\ Receipts'
  BY <1>2, <1>4 DEF ReceiptInv, ReceiptTypes, Receipts, Exchanges
<1>11. Stored'
  BY <1>2, <1>4 DEF ReceiptInv, ReceiptTypes, Stored
<1>12. Exchanges'
  BY <1>2, <1>4, <1>8 DEF ReceiptInv, Exchanges
<1>13. (\A q \in Elems(toClient) : Coming(q))'
  <2> SUFFICES ASSUME NEW q \in Elems(toClient') PROVE Coming(q)'
    OBVIOUS
  <2>1. CASE q \in Answers(p)
    <3>1. q.type = "pubrel" => q.for = p.for /\ p.type = "pubrec"
      BY <2>1, <1>5 DEF InBack
    <3>2. q.type # "publish"
      BY <2>1, <1>5 DEF InBack
    <3>3. p.type = "pubrec" => p.for \notin over
      BY DEF over
    <3> QED
      BY <1>2, <1>3, <3>1, <3>2, <3>3 DEF Coming, Going
  <2>2. CASE q \in Elems(toClient)
    <3>1. Coming(q) /\ (q.type \in InBack => q.for \notin over)
      BY <2>2, <1>4, <1>7 DEF ReceiptInv, Absent
    <3> QED
      BY <1>2, <3>1 DEF Coming, InBack
  <2> QED
    BY <2>1, <2>2, <1>9 DEF From
<1>14. (\A q \in Elems(toPeer) : Going(q))'
  <2> SUFFICES ASSUME NEW q \in Elems(toPeer') PROVE Going(q)'
    OBVIOUS
  <2>1. Going(q) /\ (q.type \in InOut => q.for \notin over)
    BY <1>1, <1>4, <1>7, <1>9 DEF ReceiptInv, Absent, From
  <2> QED
    BY <1>2, <2>1 DEF Going, InOut
<1> QED
  BY <1>10, <1>11, <1>12, <1>13, <1>14 DEF ReceiptInv

\* The broker publishes a message for the first time, under a free id.
LEMMA PeerPublishesReceipt ==
  ASSUME Inv, WireTypes, ReceiptInv, NEW m \in Inbound, PeerPublishes(m), Shut'
  PROVE  ReceiptInv'
<1> DEFINE r == Packet("publish", InId[m], m)
<1>1. toPeer' = toPeer /\ toClient' = Append(toClient, r) /\ r \in Packets /\ Offer(r)
  BY PeerPublishesWire
<1>2. /\ UNCHANGED <<stash, delivered, settled, open>>
      /\ offered' = offered \cup {m} /\ live' = IF InQos[m] = 0 THEN live ELSE live \cup {m}
      /\ m \notin offered /\ \A x \in live : InId[x] # InId[m]
  BY DEF PeerPublishes, taskVars, chanVars
<1>3. r.type = "publish" /\ r.for = m
  BY DEF Packet
<1> HIDE DEF r
<1>4. m \notin live /\ m \notin settled /\ delivered[m] = 0 /\ InId[m] \in InIds /\ m # None
  BY <1>2, ClientAssumption DEF ReceiptInv, Exchanges, Receipts, InIds
<1>5. stash[InId[m]] # m
  BY <1>4 DEF ReceiptInv, Stored
<1>6. Absent(toClient, InBack, m) /\ Absent(toPeer, InOut, m)
  BY <1>2, <1>4 DEF ReceiptInv, Coming, Going, Absent, InBack, InOut
<1>7. toPeer \in Seq(Packets) /\ toClient \in Seq(Packets) /\ Uniq(toPeer, toClient, InOut, InBack)
  BY DEF WireTypes, ReceiptInv, Exchanges
<1>8. Uniq(toPeer', toClient', InOut, InBack)
  <2>1. Uniq(toClient, toPeer, InBack, InOut)
    BY <1>7, UniqSwap
  <2>2. Uniq(toClient', toPeer, InBack, InOut)
    BY <1>1, <1>3, <1>6, <1>7, <2>1, UniqAppend
  <2> QED
    BY <1>1, <2>2, UniqSwap
<1>9. From(toClient, toClient', {r})
  BY <1>1, <1>7, AppendOf
<1>10. ReceiptTypes' /\ Receipts' /\ Stored'
  BY <1>2, <1>4 DEF ReceiptInv, ReceiptTypes, Receipts, Stored
<1>11. Exchanges'
  BY <1>2, <1>4, <1>8 DEF ReceiptInv, Exchanges
<1>12. (\A q \in Elems(toClient) : Coming(q))'
  <2> SUFFICES ASSUME NEW q \in Elems(toClient') PROVE Coming(q)'
    OBVIOUS
  <2>1. CASE q = r
    BY <2>1, <1>2, <1>3, <1>4, <1>5 DEF Coming
  <2>2. CASE q \in Elems(toClient)
    BY <2>2, <1>2 DEF ReceiptInv, Coming
  <2> QED
    BY <2>1, <2>2, <1>9 DEF From
<1>13. (\A q \in Elems(toPeer) : Going(q))'
  BY <1>1, <1>2 DEF ReceiptInv, Going
<1> QED
  BY <1>10, <1>11, <1>12, <1>13 DEF ReceiptInv

\* Every other step leaves the broker's exchanges alone.
LEMMA OtherAside ==
  ASSUME Inv, WireTypes, Next, ~DispatchPublish, ~DispatchPubrel, ~PeerReads, ~Abandon,
         ~ \E m \in Inbound : PeerPublishes(m)
  PROVE  Aside
<1> USE DEF taskVars, peerVars
<1>1. ASSUME NEW o \in Ops, Start(o) PROVE Aside
  <2>1. UNCHANGED <<stash, delivered, live, offered, settled>>
    BY <1>1 DEF Start
  <2>2. Packet("qos0", 0, o).type \notin InOut
    BY DEF Packet, InOut
  <2>3. {Packet("qos0", 0, o)} \in SUBSET Packets /\ Outward({Packet("qos0", 0, o)})
    BY <1>1, StartWire
  <2> QED
    BY <2>1, <2>2, <2>3 DEF Aside
<1>2. ASSUME NEW o \in Ops, Register(o) PROVE Aside
  <2>1. UNCHANGED <<stash, delivered, live, offered, settled>>
    BY <1>2 DEF Register
  <2>2. Packet(kind[o], id[o], o).type \notin InOut
    BY <1>2, RegisterWire DEF Packet, InOut, Kinds
  <2>3. {Packet(kind[o], id[o], o)} \in SUBSET Packets /\ Outward({Packet(kind[o], id[o], o)})
    BY <1>2, RegisterWire
  <2> QED
    BY <2>1, <2>2, <2>3 DEF Aside
<1>3. ASSUME NEW o \in Ops, Resume(o) \/ Expire(o) \/ GiveUp(o) PROVE Aside
  <2>1. UNCHANGED <<stash, delivered, live, offered, settled, toPeer, toClient>>
    BY <1>3 DEF Resume, Expire, GiveUp
  <2>2. Outward({})
    BY <2>1, SilentWire
  <2> QED
    BY <2>1, <2>2, SMTT(30), Z3T(30) DEF Aside
<1>4. CASE Housekeeping
  <2>1. UNCHANGED <<stash, delivered, live, offered, settled>>
    BY <1>4 DEF Housekeeping, SendConnect, ReadConnack, ConnackFails, AwaitInitialSubscribe,
                LoopHead, LoopBreaks, Ping, DispatchOther, SendDisconnect, HandleCloses, Goto
  <2> QED
    BY <1>4, <2>1, HousekeepingWire, PlainType DEF Aside
<1>5. CASE SendInitialSubscribe
  <2>1. UNCHANGED <<stash, delivered, live, offered, settled>>
    BY <1>5 DEF SendInitialSubscribe, Goto
  <2>2. Packet("subscribe", AllocatedId, InitSub).type \notin InOut
    BY DEF Packet, InOut
  <2> QED
    BY <1>5, <2>1, <2>2, InitialSubscribeWire, SMTT(30), Z3T(30) DEF Aside
<1>6. CASE SendPubrel
  <2>1. UNCHANGED <<stash, delivered, live, offered, settled>>
    BY <1>6 DEF SendPubrel
  <2>2. Packet("pubrel", pubrec.id, pubrec.for).type \notin InOut
    BY DEF Packet, InOut
  <2> QED
    BY <1>6, <2>1, <2>2, SendPubrelWire, SMTT(30), Z3T(30) DEF Aside
<1>7. CASE DispatchAck
  <2>1. UNCHANGED <<stash, delivered, live, offered, settled>>
    BY <1>7 DEF DispatchAck
  <2>2. Outward({})
    BY <1>7, DispatchAckWire DEF Outward, Gains, Loses
  <2> QED
    BY <2>1, <2>2, SMTT(30), Z3T(30) DEF Aside
<1>8. CASE UserClose \/ WriterReturns
  <2>1. UNCHANGED <<stash, delivered, live, offered, settled, toPeer, toClient>>
    BY <1>8 DEF UserClose, WriterReturns
  <2>2. Outward({})
    BY <2>1, SilentWire
  <2> QED
    BY <2>1, <2>2, SMTT(30), Z3T(30) DEF Aside
<1>9. CASE WriterStops
  <2>1. UNCHANGED <<stash, delivered, live, offered, settled>>
    BY <1>9 DEF WriterStops
  <2>2. Inward({})
    BY <1>9 DEF WriterStops, Inward, Gains, Loses
  <2> QED
    BY <2>1, <2>2, SMTT(30), Z3T(30) DEF Aside
<1>10. CASE PeerCloses
  <2>1. UNCHANGED <<stash, delivered, live, offered, settled>>
    BY <1>10 DEF PeerCloses
  <2> QED
    BY <1>10, <2>1, PeerClosesWire, PlainType DEF Aside
<1> QED
  BY <1>1, <1>2, <1>3, <1>4, <1>5, <1>6, <1>7, <1>8, <1>9, <1>10
     DEF Next, OpStep, Task, Read, Housekeeping

\* Every step keeps the invariant.
LEMMA ReceiptStep ==
  Inv /\ WireTypes /\ ReceiptInv /\ [Next]_vars => WireTypes' /\ ReceiptInv'
<1> SUFFICES ASSUME Inv, WireTypes, ReceiptInv, [Next]_vars PROVE WireTypes' /\ ReceiptInv'
  OBVIOUS
<1>1. CASE Next
  <2>1. WireTypes' /\ Shut' /\ (open' => open)
    BY <1>1, WireStep, ShutStep DEF ReceiptInv
  <2>2. ASSUME ~DispatchPublish, ~DispatchPubrel, ~PeerReads, ~Abandon,
               ~ \E m \in Inbound : PeerPublishes(m)
        PROVE  ReceiptInv'
    BY <1>1, <2>1, <2>2, OtherAside, AsideStep
  <2> QED
    BY <2>1, <2>2, PublishReceipt, PubrelReceipt, PeerReadsReceipt, PeerPublishesReceipt, AbandonReceipt
<1>2. CASE UNCHANGED vars
  <2>1. UNCHANGED <<hc, pubrec, stash, delivered, open, closing, writer, live, offered, settled, toPeer, toClient>>
    BY <1>2 DEF vars, taskVars, chanVars, peerVars
  <2>2. WireTypes'
    BY <2>1 DEF WireTypes
  <2>3. Outward({})
    BY <2>1, SilentWire
  <2>4. Aside
    BY <2>1, <2>3, SMTT(30), Z3T(30) DEF Aside
  <2>5. Shut' /\ (open' => open)
    BY <2>1 DEF ReceiptInv, Shut
  <2> QED
    BY <2>2, <2>4, <2>5, AsideStep
<1> QED
  BY <1>1, <1>2

\* Exactly-once delivery to the endpoints, for any messages, packet ids and
\* operations, whatever the interleaving with close() and the writer actor:
\* no message reaches them twice, and while the channel is open the broker sees
\* no exchange end whose message has not reached them.
THEOREM EndpointsOnce == Spec => []DeliveredOnce
<1>1. Inv /\ ReceiptInv => DeliveredOnce
  BY SMTT(30), Z3T(30) DEF ReceiptInv, Receipts, DeliveredOnce
<1> QED
  BY <1>1, InitInv, StepInv, InitReceipt, ReceiptStep, PTL DEF Spec
-----------------------------------------------------------------------------
(* Packet ids, as long as the counter does not wrap.                       *)

\* The counter does not wrap at the next call.
Room == counter + 1 <= MaxId

\* The operation has allocated an id.
Started(o) == pc[o] # "idle" /\ kind[o] # "qos0"

\* Allocated, and by no operation: it is the id of the initial SUBSCRIBE.
FreeId(i) == i \in 1..counter /\ \A o \in Ops : Started(o) => id[o] # i

\* Every operation has an id of its own, and slots are of those that have one.
IdInv ==
  /\ \A o \in Ops : Started(o) => id[o] \in 1..counter
  /\ \A o, q \in Ops : Started(o) /\ Started(q) /\ id[o] = id[q] => o = q
  /\ \A i \in Ids : pending[i] # None =>
       IF pending[i].op = InitSub THEN FreeId(i) ELSE Started(pending[i].op)

\* A counter that has not wrapped gives out the next id.
LEMMA AllocateNext ==
  ASSUME Inv, Room, allocate_packet_id
  PROVE  AllocatedId = counter + 1 /\ counter' = counter + 1
<1>1. counter \in Nat /\ MaxId \in Nat \ {0}
  BY ClientAssumption, SMTT(30), Z3T(30) DEF Inv, TypeOK
<1>2. (counter + 1) % (MaxId + 1) = counter + 1
  BY <1>1, SMTT(30), Z3T(30) DEF Room
<1> QED
  BY <1>1, <1>2, SMTT(30), Z3T(30) DEF AllocatedId, allocate_packet_id

\* A step that allocates nothing, and gives a slot to nobody without an id.
IdsKept ==
  /\ UNCHANGED <<kind, id, counter>>
  /\ \A o \in Ops : kind[o] # "qos0" => (pc'[o] = "idle" <=> pc[o] = "idle")
  /\ \A i \in Ids : \/ pending'[i] = pending[i] \/ pending'[i] = None
                    \/ pending'[i].op \in Ops /\ Started(pending'[i].op)

\* Such a step keeps the ids apart.
LEMMA IdsKeptStep == ASSUME Inv, Inv', IdInv, IdsKept PROVE IdInv'
<1>1. \A o \in Ops : Started(o)' <=> Started(o)
  BY DEF IdsKept, Started
<1>2. /\ \A o \in Ops : Started(o)' => id'[o] \in 1..counter'
      /\ \A o, q \in Ops : Started(o)' /\ Started(q)' /\ id'[o] = id'[q] => o = q
  BY <1>1 DEF IdInv, IdsKept
<1>3. \A i \in Ids : FreeId(i) => FreeId(i)'
  BY <1>1 DEF FreeId, IdsKept
<1>4. (\A i \in Ids : pending[i] # None =>
       IF pending[i].op = InitSub THEN FreeId(i) ELSE Started(pending[i].op))'
  <2> SUFFICES ASSUME NEW i \in Ids, pending'[i] # None
               PROVE  IF pending'[i].op = InitSub THEN FreeId(i)'
                      ELSE pc'[pending'[i].op] # "idle" /\ kind'[pending'[i].op] # "qos0"
    BY DEF Started
  <2>1. CASE pending'[i] = pending[i]
    <3>1. pending[i].op \in Waiters
      BY <2>1 DEF Inv, TypeOK, Slots
    <3>2. pending[i].op # InitSub => pending[i].op \in Ops /\ Started(pending[i].op)
      BY <2>1, <3>1 DEF IdInv, Waiters
    <3>3. pending[i].op # InitSub => pc'[pending[i].op] # "idle" /\ kind'[pending[i].op] # "qos0"
      BY <3>2 DEF IdsKept, Started
    <3>4. pending[i].op = InitSub => FreeId(i)'
      BY <2>1, <1>3 DEF IdInv
    <3> QED
      BY <2>1, <3>3, <3>4
  <2>2. CASE pending'[i].op \in Ops /\ Started(pending'[i].op)
    <3>1. pending'[i].op # InitSub
      BY <2>2, ClientAssumption
    <3> QED
      BY <2>2, <3>1 DEF IdsKept, Started
  <2> QED
    BY <2>1, <2>2 DEF IdsKept
<1> QED
  BY <1>2, <1>4 DEF IdInv

\* P::send allocates an id that nobody has.
LEMMA StartIds ==
  ASSUME Room, Inv, IdInv, NEW o \in Ops, Start(o), kind[o] # "qos0"
  PROVE  /\ IdInv' /\ counter' = counter + 1 /\ id' = [id EXCEPT ![o] = counter + 1]
         /\ \A q \in Ops : Started(q)' <=> Started(q) \/ q = o
<1>1. /\ pc[o] = "idle" /\ pc' = [pc EXCEPT ![o] = "register"] /\ id' = [id EXCEPT ![o] = AllocatedId]
      /\ allocate_packet_id /\ UNCHANGED <<hc, kind, pending>>
  BY DEF Start, taskVars, slotVars
<1>2. /\ pc \in [Ops -> {"idle", "register", "wait", "wait2", "expired", "ended"}]
      /\ id \in [Ops -> 0..MaxId] /\ counter \in Nat /\ MaxId \in Nat
  BY ClientAssumption, SMTT(30), Z3T(30) DEF Inv, TypeOK
<1>3. \A q \in Ops : Started(q)' <=> Started(q) \/ q = o
  BY <1>1, <1>2 DEF Started
<1>4. counter' = counter + 1 /\ id' = [id EXCEPT ![o] = counter + 1]
  BY <1>1, AllocateNext
<1>5. \A q \in Ops : Started(q)' => id'[q] \in 1..counter'
  BY <1>2, <1>3, <1>4, SMTT(30), Z3T(30) DEF IdInv
<1>6. \A q, r \in Ops : Started(q)' /\ Started(r)' /\ id'[q] = id'[r] => q = r
  BY <1>2, <1>3, <1>4, SMTT(30), Z3T(30) DEF IdInv
<1>7. \A i \in Ids : FreeId(i) => FreeId(i)'
  BY <1>2, <1>3, <1>4, SMTT(30), Z3T(30) DEF FreeId
<1>8. (\A i \in Ids : pending[i] # None =>
       IF pending[i].op = InitSub THEN FreeId(i) ELSE Started(pending[i].op))'
  <2> SUFFICES ASSUME NEW i \in Ids, pending[i] # None
               PROVE  IF pending[i].op = InitSub THEN FreeId(i)'
                      ELSE pc'[pending[i].op] # "idle" /\ kind'[pending[i].op] # "qos0"
    BY <1>1 DEF Started
  <2>1. pending[i].op # InitSub => pending[i].op \in Ops /\ Started(pending[i].op)
    BY DEF IdInv, Inv, TypeOK, Slots, Waiters
  <2>2. pending[i].op = InitSub => FreeId(i)'
    BY <1>7 DEF IdInv
  <2> QED
    BY <1>1, <1>2, <2>1, <2>2 DEF Started
<1> QED
  BY <1>3, <1>4, <1>5, <1>6, <1>8 DEF IdInv

\* So does the initial SUBSCRIBE, and nobody's slot is under that id.
LEMMA InitialSubscribeIds ==
  ASSUME Room, Inv, IdInv, SendInitialSubscribe
  PROVE  /\ IdInv' /\ counter' = counter + 1 /\ AllocatedId = counter + 1 /\ counter + 1 \in Ids
         /\ pending[counter + 1] = None /\ \A i \in Ids : i = counter + 1 => FreeId(i)'
         /\ pending' = [pending EXCEPT ![counter + 1] = [kind |-> "suback", op |-> InitSub]]
         /\ \A o \in Ops : sig'[o] = sig[o]
<1>1. /\ hc = "initsub" /\ hc' \in {"initwait", "close"} /\ allocate_packet_id
      /\ UNCHANGED <<kind, pc, id>>
      /\ InsertSlot(AllocatedId, [kind |-> "suback", op |-> InitSub])
  BY DEF SendInitialSubscribe, Goto
<1>2. /\ id \in [Ops -> 0..MaxId] /\ counter \in Nat /\ MaxId \in Nat
      /\ pending \in [Ids -> Slots \cup {None}] /\ sig \in [Waiters -> {"none", "fired", "dropped"}]
  BY ClientAssumption, SMTT(30), Z3T(30) DEF Inv, TypeOK
<1>3. \A q \in Ops : Started(q)' <=> Started(q)
  BY <1>1 DEF Started
<1>4. counter' = counter + 1 /\ AllocatedId = counter + 1 /\ counter + 1 \in Ids
  BY <1>1, <1>2, AllocateNext, SMTT(30), Z3T(30) DEF Ids, Room
<1>5. pending[counter + 1] = None
  <2> SUFFICES ASSUME pending[counter + 1] # None PROVE FALSE
    OBVIOUS
  <2>1. pending[counter + 1] \in Slots
    BY <1>2, <1>4
  <2>2. CASE pending[counter + 1].op = InitSub
    BY <1>2, <1>4, <2>2, Numbers DEF IdInv, FreeId
  <2>3. CASE pending[counter + 1].op \in Ops
    <3>1. id[pending[counter + 1].op] = counter + 1
      BY <1>4, <2>3 DEF Inv, OwnSlots
    <3>2. Started(pending[counter + 1].op)
      BY <1>4, <2>3, ClientAssumption DEF IdInv
    <3> QED
      BY <1>2, <2>3, <3>1, <3>2, SMTT(30), Z3T(30) DEF IdInv
  <2> QED
    BY <2>1, <2>2, <2>3 DEF Slots, Waiters
<1>6. \A i \in Ids : i = counter + 1 => FreeId(i)'
  <2>1. \A q \in Ops : Started(q) => id[q] # counter + 1
    BY <1>2, SMTT(30), Z3T(30) DEF IdInv
  <2> QED
    BY <1>1, <1>2, <1>3, <1>4, <2>1, SMTT(30), Z3T(30) DEF FreeId
<1>7. \A i \in Ids : FreeId(i) => FreeId(i)'
  BY <1>1, <1>2, <1>3, <1>4, SMTT(30), Z3T(30) DEF FreeId
<1>8. pending' = [pending EXCEPT ![counter + 1] = [kind |-> "suback", op |-> InitSub]]
  BY <1>1, <1>4 DEF InsertSlot
<1>9. \A o \in Ops : sig'[o] = sig[o]
  <2>1. sig' = [Dropped({pending[counter + 1]}) EXCEPT ![InitSub] = "none"]
    BY <1>1, <1>4 DEF InsertSlot
  <2>2. Dropped({pending[counter + 1]}) = [w \in Waiters |-> sig[w]]
    BY <1>5 DEF Dropped
  <2> QED
    BY <1>2, <2>1, <2>2, ClientAssumption DEF Waiters
<1>10. (\A i \in Ids : pending[i] # None =>
       IF pending[i].op = InitSub THEN FreeId(i) ELSE Started(pending[i].op))'
  <2> SUFFICES ASSUME NEW i \in Ids, pending'[i] # None
               PROVE  IF pending'[i].op = InitSub THEN FreeId(i)'
                      ELSE pc'[pending'[i].op] # "idle" /\ kind'[pending'[i].op] # "qos0"
    BY DEF Started
  <2>1. CASE i = counter + 1
    BY <1>2, <1>6, <1>8, <2>1
  <2>2. CASE i # counter + 1
    <3>1. pending'[i] = pending[i]
      BY <1>2, <1>8, <2>2
    <3> QED
      BY <1>1, <1>7, <3>1 DEF IdInv, Started
  <2> QED
    BY <2>1, <2>2
<1>11. \A q \in Ops : Started(q)' => id'[q] \in 1..counter'
  BY <1>1, <1>2, <1>3, <1>4, SMTT(30), Z3T(30) DEF IdInv
<1>12. \A q, r \in Ops : Started(q)' /\ Started(r)' /\ id'[q] = id'[r] => q = r
  BY <1>1, <1>3 DEF IdInv
<1>13. IdInv'
  BY <1>4, <1>10, <1>11, <1>12 DEF IdInv
<1> QED
  BY <1>4, <1>5, <1>6, <1>8, <1>9, <1>13

\* With ids of their own, operations have slots of their own.
LEMMA OwnSlotOnly ==
  ASSUME Inv, IdInv, NEW o \in Ops, Started(o)
  PROVE  /\ id[o] \in Ids
         /\ pending[id[o]] # None => pending[id[o]].op = o /\ sig[o] = "none"
<1>1. id[o] \in Ids
  BY ClientAssumption, SMTT(30), Z3T(30) DEF IdInv, Ids, Inv, TypeOK
<1>2. ASSUME pending[id[o]] # None PROVE pending[id[o]].op = o
  <2>1. pending[id[o]].op \in Waiters
    BY <1>1, <1>2 DEF Inv, TypeOK, Slots
  <2>2. pending[id[o]].op # InitSub
    BY <1>1, <1>2 DEF IdInv, FreeId
  <2>3. pending[id[o]].op \in Ops /\ Started(pending[id[o]].op)
    BY <1>1, <1>2, <2>1, <2>2 DEF IdInv, Waiters
  <2>4. id[pending[id[o]].op] = id[o]
    BY <1>1, <1>2, <2>3 DEF Inv, OwnSlots
  <2> QED
    BY <2>3, <2>4 DEF IdInv
<1>3. pending[id[o]] # None => sig[o] = "none"
  BY <1>1, <1>2, SMTT(30), Z3T(30) DEF Inv, OwnSlots
<1> QED
  BY <1>1, <1>2, <1>3

\* What happens to a slot happens to its operation alone.
LEMMA OwnSlotEffect ==
  ASSUME Inv, IdInv, NEW o \in Ops, Started(o), NEW k,
         RemoveSlot(id[o]) \/ InsertSlot(id[o], [kind |-> k, op |-> o])
  PROVE  \A q \in Ops : q # o => /\ sig'[q] = sig[q]
                                 /\ Started(q) => pending'[id[q]] = pending[id[q]]
<1> SUFFICES ASSUME NEW q \in Ops, q # o
             PROVE  sig'[q] = sig[q] /\ (Started(q) => pending'[id[q]] = pending[id[q]])
  OBVIOUS
<1>1. id[o] \in Ids /\ (pending[id[o]] # None => pending[id[o]].op = o)
  BY OwnSlotOnly
<1>2. Started(q) => id[q] \in Ids /\ id[q] # id[o]
  BY OwnSlotOnly DEF IdInv
<1>3. pending \in [Ids -> Slots \cup {None}] /\ q \in Waiters /\ o \in Waiters
  BY DEF Inv, TypeOK, Waiters
<1>4. Started(q) => pending'[id[q]] = pending[id[q]]
  BY <1>1, <1>2, <1>3 DEF RemoveSlot, InsertSlot
<1>5. Dropped({pending[id[o]]})[q] = sig[q]
  BY <1>1, <1>3 DEF Dropped
<1>6. Dropped({pending[id[o]]}) \in [Waiters -> {"none", "fired", "dropped"}]
  BY DroppedType DEF Inv
<1>7. sig'[q] = sig[q]
  BY <1>3, <1>5, <1>6 DEF RemoveSlot, InsertSlot
<1> QED
  BY <1>4, <1>7

-----------------------------------------------------------------------------
(* The packets of the operations.                                          *)

\* What P::send and handle_client send of an operation's exchange.
OpOut == {"qos1", "qos2", "subscribe", "unsubscribe", "pubrel"}

\* The packet bears the id of the operation that it is for.
Named(p) ==
  IF p.for \in Ops THEN Started(p.for) /\ pc[p.for] # "register" /\ p.id = id[p.for]
  ELSE p.for = InitSub /\ FreeId(p.id)

\* PUBREC has reached the operation; it still waits for its first answer.
Past(o) == kind[o] = "qos2" /\ (pc[o] = "wait2" \/ (pc[o] = "wait" /\ sig[o] = "fired"))
Fresh(o) == pc[o] = "wait" /\ sig[o] = "none"

\* A packet on its way to the broker: PUBREL follows the PUBREC that the
\* operation was told of, and the PUBLISH does not outlive it ...
Request(p) ==
  p.type \in OpOut =>
    /\ Named(p)
    /\ p.for \in Ops =>
         \/ p.type = kind[p.for] /\ (p.type = "qos2" => ~Past(p.for))
         \/ p.type = "pubrel" /\ kind[p.for] = "qos2" /\ ~Fresh(p.for)

\* ... and an answer on its way back, which the broker knows of.
Answer(p) ==
  p.type \in Acks =>
    /\ Named(p) /\ (p.type # "pubrec" => p.for \in answered)
    /\ p.for \in Ops =>
         /\ kind[p.for] # "qos0"
         /\ \/ p.type = AckOf[kind[p.for]] /\ (p.type = "pubrec" => ~Past(p.for))
            \/ p.type = "pubcomp" /\ kind[p.for] = "qos2" /\ ~Fresh(p.for)

\* The PUBREC in hand.
Released ==
  hc = "pubrel" => Named(pubrec) /\ (pubrec.for \in Ops => kind[pubrec.for] = "qos2" /\ ~Fresh(pubrec.for))

\* A QoS 2 publish has one packet on the wire until its PUBREC is read.
Tokens ==
  /\ \A p \in Elems(toPeer) : Request(p)
  /\ \A p \in Elems(toClient) : Answer(p)
  /\ Released
  /\ Uniq(toPeer, toClient, {"qos2"}, {"pubrec"})

\* What a step may do to the operations without disturbing their packets ...
Forward ==
  /\ kind' = kind /\ answered \subseteq answered' /\ counter <= counter'
  /\ \A o \in Ops :
       /\ ~Started(o) /\ pc'[o] # "idle" /\ kind[o] # "qos0" => id'[o] > counter
       /\ Started(o) => /\ id'[o] = id[o] /\ pc'[o] # "idle"
                        /\ pc[o] # "register" => pc'[o] # "register" /\ (Fresh(o)' => Fresh(o))

\* ... but for the one that may be told of a PUBREC.
Held(o) == Past(o)' => Past(o)

\* An id stays with whom it was given to.
LEMMA NamedKept ==
  ASSUME Inv, Inv', IdInv, Forward, NEW p, Named(p)
  PROVE  Named(p)'
<1>1. counter \in Nat /\ counter' \in Nat /\ counter <= counter' /\ kind' = kind
  BY SMTT(30), Z3T(30) DEF Inv, TypeOK, Forward
<1>2. CASE p.for \in Ops
  BY <1>2, <1>1 DEF Named, Forward, Started
<1>3. CASE p.for \notin Ops
  <2>1. p.for = InitSub /\ p.id \in 1..counter /\ \A o \in Ops : Started(o) => id[o] # p.id
    BY <1>3 DEF Named, FreeId
  <2>2. p.id \in 1..counter'
    BY <1>1, <2>1, SMTT(30), Z3T(30)
  <2>3. ASSUME NEW o \in Ops, pc'[o] # "idle", kind'[o] # "qos0" PROVE id'[o] # p.id
    <3>1. CASE Started(o)
      BY <3>1, <2>1 DEF Forward
    <3>2. CASE ~Started(o)
      <4>1. id'[o] > counter /\ id'[o] \in Nat
        BY <1>1, <2>3, <3>2, SMTT(30), Z3T(30) DEF Forward, Inv, TypeOK
      <4> QED
        BY <1>1, <2>1, <4>1, Numbers
    <3> QED
      BY <3>1, <3>2
  <2> QED
    BY <1>3, <2>1, <2>2, <2>3 DEF Named, FreeId, Started
<1> QED
  BY <1>2, <1>3

\* So do the packets on the wire.
LEMMA RequestKept ==
  ASSUME Inv, Inv', IdInv, Forward, NEW p, Request(p),
         p.type = "qos2" /\ p.for \in Ops => Held(p.for)
  PROVE  Request(p)'
<1>1. p.type \in OpOut => Named(p)' /\ Named(p)
  BY NamedKept DEF Request
<1>2. kind' = kind
  BY DEF Forward
<1>3. p.type \in OpOut /\ p.for \in Ops => (Fresh(p.for)' => Fresh(p.for))
  BY <1>1 DEF Named, Forward
<1> QED
  BY <1>1, <1>2, <1>3 DEF Request, Held, OpOut

\* And the answers.
LEMMA AnswerKept ==
  ASSUME Inv, Inv', IdInv, Forward, NEW p, Answer(p),
         p.type = "pubrec" /\ p.for \in Ops => Held(p.for)
  PROVE  Answer(p)'
<1>1. p.type \in Acks => Named(p)' /\ Named(p)
  BY NamedKept DEF Answer
<1>2. kind' = kind /\ answered \subseteq answered'
  BY DEF Forward
<1>3. p.type \in Acks /\ p.for \in Ops => (Fresh(p.for)' => Fresh(p.for))
  BY <1>1 DEF Named, Forward
<1> QED
  BY <1>1, <1>2, <1>3 DEF Answer, Held

\* The PUBREC in hand stays the one in hand.
LEMMA ReleasedKept ==
  ASSUME Inv, Inv', IdInv, Forward, Released, hc' = "pubrel" => hc = "pubrel" /\ pubrec' = pubrec
  PROVE  Released'
<1> SUFFICES ASSUME hc' = "pubrel"
             PROVE  (Named(pubrec) /\ (pubrec.for \in Ops => kind[pubrec.for] = "qos2" /\ ~Fresh(pubrec.for)))'
  BY DEF Released
<1> PICK p : p = pubrec
  OBVIOUS
<1>1. pubrec' = p /\ Named(p) /\ (p.for \in Ops => kind[p.for] = "qos2" /\ ~Fresh(p.for))
  BY DEF Released
<1>2. Named(p)'
  BY <1>1, NamedKept
<1>3. p.for \in Ops => kind'[p.for] = "qos2" /\ ~Fresh(p.for)'
  BY <1>1 DEF Forward, Named
<1> QED
  BY <1>1, <1>2, <1>3 DEF Named, FreeId, Fresh, Started

\* A step in which the client sends.
LEMMA TokensOut ==
  ASSUME Inv, Inv', IdInv, WireTypes, Tokens, Forward, Released', \A o \in Ops : Held(o),
         NEW new \in SUBSET Packets, Outward(new),
         \A p \in new : /\ Request(p)'
                        /\ p.type = "qos2" => /\ Absent(toPeer, {"qos2"}, p.for)
                                              /\ Absent(toClient, {"pubrec"}, p.for)
  PROVE  Tokens'
<1>1. toPeer \in Seq(Packets) /\ toClient \in Seq(Packets) /\ Uniq(toPeer, toClient, {"qos2"}, {"pubrec"})
  BY DEF WireTypes, Tokens
<1>2. From(toPeer, toPeer', new) /\ From(toClient, toClient', {})
  BY <1>1, GainsFrom, LosesFrom DEF Outward
<1>3. \A p \in Elems(toPeer') : Request(p)'
  BY <1>2, RequestKept DEF From, Tokens
<1>4. \A p \in Elems(toClient') : Answer(p)'
  BY <1>2, AnswerKept DEF From, Tokens
<1>5. Uniq(toPeer', toClient, {"qos2"}, {"pubrec"})
  <2>1. ASSUME NEW p \in new, toPeer' = Append(toPeer, p)
        PROVE  Uniq(toPeer', toClient, {"qos2"}, {"pubrec"})
    BY <1>1, <2>1, UniqAppend
  <2> QED
    BY <1>1, <2>1 DEF Outward, Gains
<1>6. Uniq(toClient, toPeer', {"pubrec"}, {"qos2"})
  BY <1>5, UniqSwap
<1>7. Uniq(toClient', toPeer', {"pubrec"}, {"qos2"})
  BY <1>1, <1>6, UniqLoses DEF Outward
<1>8. Uniq(toPeer', toClient', {"qos2"}, {"pubrec"})
  BY <1>7, UniqSwap
<1> QED
  BY <1>3, <1>4, <1>8 DEF Tokens

\* A step in which the broker sends.
LEMMA TokensIn ==
  ASSUME Inv, Inv', IdInv, WireTypes, Tokens, Forward, Released', \A o \in Ops : Held(o),
         NEW new \in SUBSET Packets, Inward(new),
         \A p \in new : /\ Answer(p)'
                        /\ p.type = "pubrec" => /\ Absent(toClient, {"pubrec"}, p.for)
                                                /\ Absent(toPeer', {"qos2"}, p.for)
  PROVE  Tokens'
<1>1. toPeer \in Seq(Packets) /\ toClient \in Seq(Packets) /\ Uniq(toPeer, toClient, {"qos2"}, {"pubrec"})
  BY DEF WireTypes, Tokens
<1>2. From(toPeer, toPeer', {}) /\ From(toClient, toClient', new)
  BY <1>1, GainsFrom, LosesFrom DEF Inward
<1>3. \A p \in Elems(toPeer') : Request(p)'
  BY <1>2, RequestKept DEF From, Tokens
<1>4. \A p \in Elems(toClient') : Answer(p)'
  BY <1>2, AnswerKept DEF From, Tokens
<1>5. Uniq(toPeer', toClient, {"qos2"}, {"pubrec"})
  BY <1>1, UniqLoses DEF Inward
<1>6. Uniq(toClient, toPeer', {"pubrec"}, {"qos2"})
  BY <1>5, UniqSwap
<1>7. Uniq(toClient', toPeer', {"pubrec"}, {"qos2"})
  <2>1. ASSUME NEW p \in new, toClient' = Append(toClient, p)
        PROVE  Uniq(toClient', toPeer', {"pubrec"}, {"qos2"})
    BY <1>1, <1>6, <2>1, UniqAppend
  <2> QED
    BY <1>6, <2>1 DEF Inward, Gains
<1>8. Uniq(toPeer', toClient', {"qos2"}, {"pubrec"})
  BY <1>7, UniqSwap
<1> QED
  BY <1>3, <1>4, <1>8 DEF Tokens

-----------------------------------------------------------------------------
(* Where each operation stands.                                            *)

Awaited(o) == IF pc[o] = "wait" THEN AckOf[kind[o]] ELSE "pubcomp"

Standing(o) ==
  /\ pc[o] \in {"wait", "wait2"} /\ sig[o] = "none" => pending[id[o]] = [kind |-> Awaited(o), op |-> o]
  /\ pc[o] = "wait2" => kind[o] = "qos2"
  /\ sig[o] = "fired" /\ (pc[o] = "wait2" \/ (pc[o] = "wait" /\ kind[o] # "qos2")) => o \in answered
  /\ sig[o] = "dropped" /\ pc[o] \in {"wait", "wait2"} => ~open
  /\ o \in heard /\ kind[o] # "qos2" =>
       res[o] # "timeout" /\ (pc[o] = "ended" \/ (pc[o] = "wait" /\ sig[o] # "none"))
  /\ res[o] \in {"ok", "timeout", "closed"} => pc[o] = "ended"
  /\ res[o] = "ok" /\ kind[o] # "qos0" => o \in answered
  /\ res[o] = "closed" => ~open

OpsInv == IdInv /\ Tokens /\ \A o \in Ops : Standing(o)

\* What a step leaves of an operation that does not take it.
SameOp(o) ==
  /\ pc'[o] = pc[o] /\ res'[o] = res[o] /\ sig'[o] = sig[o] /\ (o \in heard' => o \in heard)
  /\ Started(o) => id'[o] = id[o] /\ pending'[id[o]] = pending[id[o]]

Around == kind' = kind /\ answered \subseteq answered' /\ (open' => open)

\* The operation stands where it stood.
LEMMA SameStanding ==
  ASSUME Inv, NEW o \in Ops, Standing(o), SameOp(o), Around
  PROVE  Standing(o)'
<1>1. pc[o] \in {"wait", "wait2"} => Started(o)
  BY DEF Inv, IdsInHand, Started
<1>2. Awaited(o)' = Awaited(o)
  BY DEF Awaited, SameOp, Around
<1>3. pc[o] \in {"wait", "wait2"} => id'[o] = id[o] /\ pending'[id[o]] = pending[id[o]]
  BY <1>1 DEF SameOp
<1>4. (pc[o] \in {"wait", "wait2"} /\ sig[o] = "none" => pending[id[o]] = [kind |-> Awaited(o), op |-> o])'
  BY <1>2, <1>3 DEF Standing, SameOp
<1> QED
  BY <1>4 DEF Standing, SameOp, Around

\* An operation that is not a QoS 0 publish awaits an ack.
LEMMA AwaitedAck == ASSUME NEW o, kind[o] \in Kinds \ {"qos0"} PROVE Awaited(o) \in Acks
<1>1. AckOf["qos1"] = "puback" /\ AckOf["qos2"] = "pubrec"
  BY SMTT(30), Z3T(30) DEF AckOf
<1>2. AckOf["subscribe"] = "suback" /\ AckOf["unsubscribe"] = "unsuback"
  BY SMTT(30), Z3T(30) DEF AckOf
<1>3. AckOf[kind[o]] \in Acks
  BY <1>1, <1>2 DEF Kinds, Acks
<1> QED
  BY <1>3 DEF Awaited, Acks

\* No operation has started and nothing is on the wire.
LEMMA InitOps == ASSUME Init PROVE OpsInv
<1>1. \A o \in Ops : ~Started(o)
  BY DEF Init, Started
<1>2. IdInv
  BY <1>1 DEF Init, IdInv
<1>3. Tokens
  BY SMTT(30), Z3T(30) DEF Init, Tokens, Elems, Uniq, Released
<1>4. ASSUME NEW o \in Ops PROVE Standing(o)
  <2>1. /\ pc[o] = "idle" /\ sig[o] = "none" /\ res[o] = None /\ o \notin heard
        /\ None \notin {"ok", "timeout", "closed"}
    BY ClientAssumption DEF Init, Waiters
  <2> QED
    BY <2>1 DEF Standing
<1> QED
  BY <1>2, <1>3, <1>4 DEF OpsInv

\* P::send begins.
LEMMA StartOps ==
  ASSUME Inv, Inv', WireTypes, Shut, OpsInv, open' => open,
         NEW o \in Ops, Start(o), kind[o] # "qos0" => Room
  PROVE  OpsInv'
<1>1. /\ UNCHANGED <<hc, pubrec, kind, sig, pending, open, writer, answered, heard>>
      /\ pc[o] = "idle"
  BY DEF Start, taskVars, slotVars, chanVars, peerVars
<1>2. /\ pc \in [Ops -> {"idle", "register", "wait", "wait2", "expired", "ended"}]
      /\ res \in [Ops -> {None, "ok", "timeout", "closed"}]
      /\ id \in [Ops -> 0..MaxId] /\ counter \in Nat
  BY ClientAssumption, SMTT(30), Z3T(30) DEF Inv, TypeOK
<1>3. Around
  BY <1>1 DEF Around
<1>4. /\ kind[o] = "qos0" => /\ pc' = [pc EXCEPT ![o] = "ended"] /\ UNCHANGED <<id, counter>>
                             /\ res' = [res EXCEPT ![o] = IF Accepts THEN "ok" ELSE "closed"]
      /\ kind[o] # "qos0" => pc' = [pc EXCEPT ![o] = "register"] /\ UNCHANGED res
  BY DEF Start, Ends
<1>5. /\ IdInv'
      /\ kind[o] # "qos0" => counter' = counter + 1 /\ id' = [id EXCEPT ![o] = counter + 1]
  <2>1. CASE kind[o] # "qos0"
    BY <2>1, StartIds DEF OpsInv
  <2>2. CASE kind[o] = "qos0"
    <3>1. IdsKept
      BY <1>1, <1>2, <1>4, <2>2 DEF IdsKept
    <3> QED
      BY <2>2, <3>1, IdsKeptStep DEF OpsInv
  <2> QED
    BY <2>1, <2>2
<1>6. ASSUME NEW q \in Ops
      PROVE  /\ Held(q) /\ (q # o => SameOp(q))
             /\ ~Started(q) /\ pc'[q] # "idle" /\ kind[q] # "qos0" => id'[q] > counter
             /\ Started(q) => /\ id'[q] = id[q] /\ pc'[q] # "idle"
                              /\ pc[q] # "register" => pc'[q] # "register" /\ (Fresh(q)' => Fresh(q))
  <2>1. CASE q = o
    BY <1>1, <1>2, <1>4, <1>5, <2>1, SMTT(30), Z3T(30) DEF Held, Past, Started
  <2>2. CASE q # o
    <3>1. pc'[q] = pc[q] /\ id'[q] = id[q] /\ res'[q] = res[q] /\ sig'[q] = sig[q]
      BY <1>1, <1>2, <1>4, <1>5, <2>2
    <3> QED
      BY <1>1, <3>1, <2>2 DEF Held, Past, Started, SameOp, Fresh
  <2> QED
    BY <2>1, <2>2
<1>7. Forward
  <2>1. counter <= counter'
    BY <1>2, <1>4, <1>5, SMTT(30), Z3T(30)
  <2> QED
    BY <1>1, <1>6, <2>1 DEF Forward
<1>8. Tokens'
  <2>1. Outward({Packet("qos0", 0, o)}) /\ {Packet("qos0", 0, o)} \in SUBSET Packets
    BY StartWire
  <2>2. \A p \in {Packet("qos0", 0, o)} : p.type # "qos2" /\ Request(p)'
    BY SMTT(30), Z3T(30) DEF Packet, Request, OpOut
  <2>3. Released'
    BY <1>1, <1>7, ReleasedKept DEF OpsInv, Tokens
  <2> QED
    BY <1>6, <1>7, <2>1, <2>2, <2>3, TokensOut DEF OpsInv
<1>9. Standing(o)'
  <2>1. Standing(o)
    BY DEF OpsInv
  <2>2. res'[o] = "ok" => kind[o] = "qos0"
    BY <1>1, <1>2, <1>4, <2>1 DEF Standing
  <2>3. res'[o] = "closed" => ~open
    BY <1>1, <1>2, <1>4, <2>1 DEF Standing, Shut, Accepts
  <2>4. pc'[o] \in {"register", "ended"} /\ (res'[o] \in {"ok", "timeout", "closed"} => pc'[o] = "ended")
    BY <1>1, <1>2, <1>4, <2>1 DEF Standing
  <2>5. o \in heard => kind[o] = "qos2"
    BY <1>1, <2>1 DEF Standing
  <2> QED
    BY <1>1, <2>2, <2>3, <2>4, <2>5 DEF Standing
<1> QED
  BY <1>3, <1>5, <1>6, <1>8, <1>9, SameStanding DEF OpsInv

\* The slot goes in, the packet goes out.
LEMMA RegisterOps ==
  ASSUME Inv, Inv', WireTypes, Shut, OpsInv, open' => open, NEW o \in Ops, Register(o)
  PROVE  OpsInv'
<1> DEFINE slot == [kind |-> AckOf[kind[o]], op |-> o]
           r == Packet(kind[o], id[o], o)
<1>1. /\ UNCHANGED <<hc, pubrec, kind, id, counter, open, writer, answered, heard>>
      /\ pc[o] = "register" /\ InsertSlot(id[o], slot)
      /\ IF Accepts THEN pc' = [pc EXCEPT ![o] = "wait"] /\ UNCHANGED res
         ELSE pc' = [pc EXCEPT ![o] = "ended"] /\ res' = [res EXCEPT ![o] = "closed"]
  BY DEF Register, Ends, taskVars, chanVars, peerVars
<1>2. /\ pc \in [Ops -> {"idle", "register", "wait", "wait2", "expired", "ended"}]
      /\ res \in [Ops -> {None, "ok", "timeout", "closed"}] /\ o \in Waiters
      /\ pending \in [Ids -> Slots \cup {None}] /\ counter \in Nat
  BY SMTT(30), Z3T(30) DEF Inv, TypeOK, Waiters
<1>3. Outward({r}) /\ r \in Packets /\ kind[o] \in Kinds \ {"qos0"} /\ id[o] \in Ids
  BY RegisterWire
<1>4. Started(o) /\ IdInv /\ Tokens /\ Standing(o)
  BY <1>1, <1>3 DEF Started, OpsInv
<1>5. \A q \in Ops : q # o => sig'[q] = sig[q] /\ (Started(q) => pending'[id[q]] = pending[id[q]])
  BY <1>1, <1>4, OwnSlotEffect
<1>6. sig'[o] = "none" /\ pending'[id[o]] = slot /\ \A i \in Ids : i # id[o] => pending'[i] = pending[i]
  <2>1. Dropped({pending[id[o]]}) \in [Waiters -> {"none", "fired", "dropped"}]
    BY DroppedType DEF Inv
  <2> QED
    BY <1>1, <1>2, <1>3, <2>1 DEF InsertSlot
<1>7. pc'[o] \in {"wait", "ended"} /\ \A q \in Ops : q # o => pc'[q] = pc[q] /\ res'[q] = res[q]
  BY <1>1, <1>2
<1>8. IdInv'
  <2>1. IdsKept
    <3>1. \A q \in Ops : pc'[q] = "idle" <=> pc[q] = "idle"
      BY <1>1, <1>7
    <3>2. \A i \in Ids : pending'[i] = pending[i] \/ (pending'[i].op \in Ops /\ Started(pending'[i].op))
      BY <1>4, <1>6, SMTT(30), Z3T(30)
    <3> QED
      BY <1>1, <3>1, <3>2 DEF IdsKept
  <2> QED
    BY <1>4, <2>1, IdsKeptStep
<1>9. ASSUME NEW q \in Ops
      PROVE  /\ Held(q) /\ (q # o => SameOp(q))
             /\ ~Started(q) /\ pc'[q] # "idle" /\ kind[q] # "qos0" => id'[q] > counter
             /\ Started(q) => /\ id'[q] = id[q] /\ pc'[q] # "idle"
                              /\ pc[q] # "register" => pc'[q] # "register" /\ (Fresh(q)' => Fresh(q))
  <2>1. CASE q = o
    BY <1>1, <1>4, <1>6, <1>7, <2>1 DEF Held, Past, Started
  <2>2. CASE q # o
    BY <1>1, <1>5, <1>7, <2>2 DEF Held, Past, Started, SameOp, Fresh
  <2> QED
    BY <2>1, <2>2
<1>10. Forward
  BY <1>1, <1>2, <1>9, Numbers DEF Forward
<1>11. Tokens'
  <2>1. r.type = kind[o] /\ r.for = o /\ r.id = id[o]
    BY DEF Packet
  <2> HIDE DEF r
  <2>2. ASSUME NEW p, p = r PROVE Request(p)'
    <3>1. Named(p)'
      BY <1>1, <1>4, <1>7, <2>1, <2>2 DEF Named, Started
    <3>2. ~Past(o)'
      BY <1>6, <1>7 DEF Past
    <3> QED
      BY <1>1, <2>1, <2>2, <3>1, <3>2 DEF Request
  <2>3. ASSUME kind[o] = "qos2" PROVE Absent(toPeer, {"qos2"}, o) /\ Absent(toClient, {"pubrec"}, o)
    BY <1>1, <1>4 DEF Absent, Tokens, Request, Answer, Named, OpOut, Acks
  <2>4. Released'
    BY <1>1, <1>4, <1>10, ReleasedKept DEF Tokens
  <2>5. {r} \in SUBSET Packets
    BY <1>3
  <2>6. \A p \in {r} : /\ Request(p)'
                       /\ p.type = "qos2" => /\ Absent(toPeer, {"qos2"}, p.for)
                                             /\ Absent(toClient, {"pubrec"}, p.for)
    BY <2>1, <2>2, <2>3
  <2> QED
    BY <1>3, <1>4, <1>9, <1>10, <2>4, <2>5, <2>6, TokensOut
<1>12. Standing(o)'
  <2>1. pc'[o] = "wait" => Awaited(o)' = AckOf[kind[o]]
    BY <1>1 DEF Awaited
  <2>2. o \in heard => kind[o] = "qos2"
    BY <1>1, <1>4 DEF Standing
  <2>3. /\ res'[o] \in {"ok", "timeout", "closed"} => pc'[o] = "ended"
        /\ res'[o] # "ok" /\ (res'[o] = "closed" => ~open)
    BY <1>1, <1>2, <1>4 DEF Standing, Shut, Accepts
  <2>4. pc'[o] \in {"wait", "wait2"} => pending'[id'[o]] = [kind |-> Awaited(o)', op |-> o]
    BY <1>1, <1>6, <1>7, <2>1
  <2> QED
    BY <1>1, <1>6, <1>7, <2>2, <2>3, <2>4 DEF Standing
<1>13. Around
  BY <1>1 DEF Around
<1> QED
  BY <1>8, <1>9, <1>11, <1>12, <1>13, SameStanding DEF OpsInv

\* A step of one operation that neither sends nor reads.
LEMMA OpMoves ==
  ASSUME Inv, Inv', WireTypes, OpsInv, NEW o \in Ops, Started(o), pc[o] # "register",
         UNCHANGED <<hc, pubrec, kind, id, counter, open, answered, heard, toPeer, toClient>>,
         pc'[o] \notin {"idle", "register"}, Held(o), Fresh(o)' => Fresh(o), Standing(o)',
         \A q \in Ops : q # o => /\ pc'[q] = pc[q] /\ res'[q] = res[q] /\ sig'[q] = sig[q]
                                 /\ Started(q) => pending'[id[q]] = pending[id[q]],
         \A i \in Ids : \/ pending'[i] = pending[i] \/ pending'[i] = None
                        \/ pending'[i].op \in Ops /\ Started(pending'[i].op)
  PROVE  OpsInv'
<1>1. \A q \in Ops : pc'[q] = "idle" <=> pc[q] = "idle"
  BY DEF Started
<1>2. IdsKept
  BY <1>1 DEF IdsKept
<1>3. IdInv'
  BY <1>2, IdsKeptStep DEF OpsInv
<1>4. \A q \in Ops : q # o => SameOp(q) /\ Held(q) /\ (Fresh(q)' => Fresh(q))
  BY DEF SameOp, Held, Past, Fresh
<1>5. Forward
  <2>1. counter <= counter'
    BY SMTT(30), Z3T(30) DEF Inv, TypeOK
  <2> QED
    BY <1>1, <1>4, <2>1 DEF Forward, Started
<1>6. Released'
  BY <1>5, ReleasedKept DEF OpsInv, Tokens
<1>7. Tokens'
  <2>1. Outward({}) /\ {} \in SUBSET Packets
    BY SilentWire
  <2> QED
    BY <1>4, <1>5, <1>6, <2>1, TokensOut DEF OpsInv
<1>8. Around
  BY DEF Around
<1> QED
  BY <1>3, <1>4, <1>7, <1>8, SameStanding DEF OpsInv

\* The oneshot is ready.
LEMMA ResumeOps ==
  ASSUME Inv, Inv', WireTypes, OpsInv, NEW o \in Ops, Resume(o)
  PROVE  OpsInv'
<1>1. /\ UNCHANGED <<hc, pubrec, kind, id, counter, open, answered, heard, toPeer, toClient>>
      /\ pc[o] \in {"wait", "wait2"} /\ sig[o] # "none"
  BY DEF Resume, taskVars, chanVars, peerVars
<1>2. /\ pc \in [Ops -> {"idle", "register", "wait", "wait2", "expired", "ended"}]
      /\ res \in [Ops -> {None, "ok", "timeout", "closed"}] /\ o \in Waiters
      /\ sig \in [Waiters -> {"none", "fired", "dropped"}]
      /\ pending \in [Ids -> Slots \cup {None}]
  BY DEF Inv, TypeOK, Waiters
<1>3. Started(o) /\ Standing(o) /\ IdInv
  BY <1>1 DEF Started, OpsInv, Inv, IdsInHand
<1>4. id[o] \in Ids
  BY <1>3, OwnSlotOnly
<1>5. CASE pc[o] = "wait" /\ kind[o] = "qos2" /\ sig[o] = "fired"
  <2> DEFINE slot == [kind |-> "pubcomp", op |-> o]
  <2>1. pc' = [pc EXCEPT ![o] = "wait2"] /\ UNCHANGED res /\ InsertSlot(id[o], slot)
    BY <1>5 DEF Resume
  <2>2. \A q \in Ops : q # o => sig'[q] = sig[q] /\ (Started(q) => pending'[id[q]] = pending[id[q]])
    BY <1>3, <2>1, OwnSlotEffect
  <2>3. sig'[o] = "none" /\ pending'[id[o]] = slot /\ \A i \in Ids : i # id[o] => pending'[i] = pending[i]
    <3>1. Dropped({pending[id[o]]}) \in [Waiters -> {"none", "fired", "dropped"}]
      BY DroppedType DEF Inv
    <3> QED
      BY <1>2, <1>4, <2>1, <3>1 DEF InsertSlot
  <2>4. pc'[o] = "wait2" /\ \A q \in Ops : q # o => pc'[q] = pc[q] /\ res'[q] = res[q]
    BY <1>2, <2>1
  <2>5. Held(o) /\ ~Fresh(o)'
    BY <1>1, <1>5, <2>4 DEF Held, Past, Fresh
  <2>6. Awaited(o)' = "pubcomp"
    BY <2>4 DEF Awaited
  <2>7. pending'[id'[o]] = [kind |-> Awaited(o)', op |-> o]
    BY <1>1, <2>3, <2>6
  <2>8. Standing(o)'
    BY <1>1, <1>3, <1>5, <2>1, <2>3, <2>4, <2>7 DEF Standing
  <2>9. \A i \in Ids : pending'[i] = pending[i] \/ (pending'[i].op \in Ops /\ Started(pending'[i].op))
    BY <1>3, <2>3, SMTT(30), Z3T(30)
  <2> QED
    BY <1>1, <1>3, <2>2, <2>4, <2>5, <2>8, <2>9, OpMoves
<1>6. CASE ~(pc[o] = "wait" /\ kind[o] = "qos2" /\ sig[o] = "fired")
  <2>1. /\ pc' = [pc EXCEPT ![o] = "ended"] /\ UNCHANGED <<sig, pending>>
        /\ res' = [res EXCEPT ![o] = IF sig[o] = "fired" THEN "ok" ELSE "closed"]
    BY <1>6 DEF Resume, Ends, slotVars
  <2>2. pc'[o] = "ended" /\ \A q \in Ops : q # o => pc'[q] = pc[q] /\ res'[q] = res[q]
    BY <1>2, <2>1
  <2>3. /\ sig[o] = "fired" => res'[o] = "ok" /\ o \in answered
        /\ sig[o] # "fired" => res'[o] = "closed" /\ ~open
    BY <1>1, <1>2, <1>3, <1>6, <2>1 DEF Standing
  <2>4. Held(o) /\ ~Fresh(o)'
    BY <2>2 DEF Held, Past, Fresh
  <2>5. Standing(o)'
    BY <1>1, <2>2, <2>3 DEF Standing
  <2> QED
    BY <1>1, <1>3, <2>1, <2>2, <2>4, <2>5, OpMoves
<1> QED
  BY <1>5, <1>6

\* The wait for the answer ends without one.
LEMMA ExpireOps ==
  ASSUME Inv, Inv', WireTypes, OpsInv, NEW o \in Ops, Expire(o) \/ GiveUp(o)
  PROVE  OpsInv'
<1>1. UNCHANGED <<hc, pubrec, kind, id, counter, open, answered, heard, toPeer, toClient>>
  BY DEF Expire, GiveUp, taskVars, chanVars, peerVars
<1>2. /\ pc \in [Ops -> {"idle", "register", "wait", "wait2", "expired", "ended"}]
      /\ res \in [Ops -> {None, "ok", "timeout", "closed"}]
      /\ pending \in [Ids -> Slots \cup {None}]
  BY DEF Inv, TypeOK
<1>3. pc[o] \in {"wait", "wait2", "expired"}
  BY DEF Expire, GiveUp
<1>4. Started(o) /\ Standing(o) /\ IdInv /\ id[o] \in Ids
  BY <1>3 DEF Started, OpsInv, Inv, IdsInHand
<1>5. CASE Expire(o)
  <2>1. pc' = [pc EXCEPT ![o] = "expired"] /\ UNCHANGED <<res, sig, pending>> /\ sig[o] = "none"
    BY <1>5 DEF Expire, slotVars
  <2>2. pc'[o] = "expired" /\ \A q \in Ops : q # o => pc'[q] = pc[q]
    BY <1>2, <2>1
  <2>3. Held(o) /\ ~Fresh(o)'
    BY <2>2 DEF Held, Past, Fresh
  <2>4. pc[o] \in {"wait", "wait2"}
    BY <1>5 DEF Expire
  <2>5. Standing(o)'
    BY <1>1, <1>4, <2>1, <2>2, <2>4 DEF Standing
  <2> QED
    BY <1>1, <1>3, <1>4, <2>1, <2>2, <2>3, <2>5, OpMoves
<1>6. CASE GiveUp(o)
  <2>1. /\ pc[o] = "expired" /\ pc' = [pc EXCEPT ![o] = "ended"] /\ res' = [res EXCEPT ![o] = "timeout"]
        /\ RemoveSlot(id[o])
    BY <1>6 DEF GiveUp, Ends
  <2>2. pc'[o] = "ended" /\ res'[o] = "timeout" /\ \A q \in Ops : q # o => pc'[q] = pc[q] /\ res'[q] = res[q]
    BY <1>2, <2>1
  <2>3. \A q \in Ops : q # o => sig'[q] = sig[q] /\ (Started(q) => pending'[id[q]] = pending[id[q]])
    BY <1>4, <2>1, OwnSlotEffect
  <2>4. \A i \in Ids : pending'[i] = pending[i] \/ pending'[i] = None
    BY <1>2, <1>4, <2>1 DEF RemoveSlot
  <2>5. Held(o) /\ ~Fresh(o)'
    BY <2>2 DEF Held, Past, Fresh
  <2>6. Standing(o)'
    BY <1>1, <1>4, <2>1, <2>2 DEF Standing
  <2> QED
    BY <1>1, <1>3, <1>4, <2>1, <2>2, <2>3, <2>4, <2>5, <2>6, OpMoves
<1> QED
  BY <1>5, <1>6

-----------------------------------------------------------------------------
(* Acknowledgements.                                                       *)

\* fire_ack wakes the operation the answer is for, if it still waits, and
\* touches no other.
LEMMA AckEffect ==
  ASSUME Inv, WireTypes, OpsInv, DispatchAck, NEW p, p = Head(toClient)
  PROVE  /\ Answer(p) /\ Named(p) /\ p.type \in Acks
         /\ \A q \in Ops : q # p.for => /\ sig'[q] = sig[q]
                                        /\ Started(q) => pending'[id[q]] = pending[id[q]]
         /\ \A q \in Ops : q = p.for =>
              /\ sig[q] # "none" => sig'[q] = sig[q]
              /\ pc[q] \in {"wait", "wait2"} /\ sig[q] = "none" =>
                   sig'[q] = "fired" /\ p.type = Awaited(q)
         /\ \A i \in Ids : pending'[i] = pending[i] \/ pending'[i] = None
<1>1. Answer(p) /\ p.type \in Acks /\ fire_ack(p.id, p.type) /\ IdInv
  <2>1. toClient # <<>> /\ p \in Elems(toClient)
    BY TailOf, DispatchAckWire DEF WireTypes
  <2> QED
    BY <2>1 DEF OpsInv, Tokens, DispatchAck
<1>2. Named(p)
  BY <1>1 DEF Answer
<1>3. /\ pending \in [Ids -> Slots \cup {None}] /\ sig \in [Waiters -> {"none", "fired", "dropped"}]
      /\ Ops \subseteq Waiters /\ counter \in 0..MaxId
  BY DEF Inv, TypeOK, Waiters
<1>4. p.id \in Ids
  BY <1>1, <1>2, <1>3, OwnSlotOnly, ClientAssumption, SMTT(30), Z3T(30) DEF Named, FreeId, Ids
<1>5. \A i \in Ids : pending'[i] = pending[i] \/ pending'[i] = None
  BY <1>1, <1>3, <1>4 DEF fire_ack, RemoveSlot
<1>6. CASE p.for \in Ops
  <2>0. PICK o \in Ops : o = p.for
    BY <1>6
  <2>1. Started(o) /\ p.id = id[o] /\ Standing(o)
    BY <1>2, <2>0 DEF Named, OpsInv
  <2>2. pending[id[o]] # None => pending[id[o]].op = o /\ sig[o] = "none"
    BY <1>1, <2>0, <2>1, OwnSlotOnly
  <2>3. CASE pending[id[o]] # None /\ pending[id[o]].kind = p.type
    <3>1. /\ pending' = [pending EXCEPT ![id[o]] = None]
          /\ sig' = [sig EXCEPT ![o] = IF @ = "none" THEN "fired" ELSE @]
      <4>1. /\ p.id \in Ids /\ pending[p.id] # None /\ pending[p.id].kind = p.type
            /\ pending[p.id].op = o /\ p.id = id[o]
        BY <1>4, <2>1, <2>2, <2>3
      <4>2. /\ pending' = [pending EXCEPT ![p.id] = None]
            /\ sig' = [sig EXCEPT ![pending[p.id].op] = IF @ = "none" THEN "fired" ELSE @]
        BY <1>1, <4>1 DEF fire_ack
      <4> QED
        BY <4>1, <4>2
    <3>2. sig'[o] = "fired" /\ sig[o] = "none" /\ \A q \in Ops : q # o => sig'[q] = sig[q]
      BY <1>3, <2>0, <2>2, <2>3, <3>1
    <3>3. \A q \in Ops : q # o /\ Started(q) => id[q] \in Ids /\ id[q] # id[o]
      BY <1>1, <2>0, <2>1, OwnSlotOnly DEF IdInv
    <3>4. \A q \in Ops : q # o /\ Started(q) => pending'[id[q]] = pending[id[q]]
      BY <1>3, <3>1, <3>3
    <3>5. pc[o] \in {"wait", "wait2"} => p.type = Awaited(o)
      <4> SUFFICES ASSUME pc[o] \in {"wait", "wait2"} PROVE p.type = Awaited(o)
        OBVIOUS
      <4>1. pending[id[o]] = [kind |-> Awaited(o), op |-> o]
        BY <2>1, <3>2 DEF Standing
      <4>2. pending[id[o]].kind = Awaited(o)
        BY <4>1, SMTT(30), Z3T(30)
      <4> QED
        BY <2>3, <4>2
    <3> QED
      BY <1>1, <1>2, <1>5, <2>0, <3>2, <3>4, <3>5
  <2>4. CASE ~(pending[id[o]] # None /\ pending[id[o]].kind = p.type)
    <3>1. RemoveSlot(id[o])
      BY <1>1, <1>4, <2>1, <2>4 DEF fire_ack
    <3>2. \A q \in Ops : q # o => sig'[q] = sig[q] /\ (Started(q) => pending'[id[q]] = pending[id[q]])
      BY <1>1, <2>0, <2>1, <3>1, OwnSlotEffect
    <3>3. sig[o] # "none" => sig'[o] = sig[o]
      BY <1>3, <2>0, <3>1 DEF RemoveSlot, Dropped
    <3>4. ~(pc[o] \in {"wait", "wait2"} /\ sig[o] = "none")
      <4> SUFFICES ASSUME pc[o] \in {"wait", "wait2"} /\ sig[o] = "none" PROVE FALSE
        OBVIOUS
      <4>1. pending[id[o]] = [kind |-> Awaited(o), op |-> o]
        BY <2>1 DEF Standing
      <4>2. pending[id[o]] # None
        <5>1. kind[o] \in Kinds \ {"qos0"}
          BY <2>0, <2>1 DEF Inv, TypeOK, Started
        <5>2. Awaited(o) \in Acks /\ o \in Waiters
          BY <1>3, <2>0, <5>1, AwaitedAck
        <5>3. [kind |-> Awaited(o), op |-> o] \in Slots
          BY <5>2 DEF Slots
        <5> QED
          BY <4>1, <5>3, ClientAssumption
      <4>3. p.type # Awaited(o)
        <5>1. pending[id[o]].kind = Awaited(o)
          BY <4>1, SMTT(30), Z3T(30)
        <5> QED
          BY <2>4, <4>2, <5>1
      <4>4. CASE pc[o] = "wait"
        <5>1. Fresh(o) /\ Awaited(o) = AckOf[kind[o]]
          BY <4>4 DEF Fresh, Awaited
        <5> QED
          BY <1>1, <2>0, <4>3, <5>1 DEF Answer
      <4>5. CASE pc[o] = "wait2"
        <5>1. kind[o] = "qos2" /\ Awaited(o) = "pubcomp"
          BY <2>1, <4>5 DEF Standing, Awaited
        <5>2. Past(o) /\ AckOf[kind[o]] = "pubrec"
          BY <4>5, <5>1, SMTT(30), Z3T(30) DEF Past, AckOf
        <5> QED
          BY <1>1, <2>0, <4>3, <5>1, <5>2 DEF Answer
      <4> QED
        BY <4>4, <4>5
    <3> QED
      BY <1>1, <1>2, <1>5, <2>0, <3>2, <3>3, <3>4
  <2> QED
    BY <2>3, <2>4
<1>7. CASE p.for \notin Ops
  <2>1. FreeId(p.id)
    BY <1>2, <1>7 DEF Named
  <2>2. pending[p.id] # None => pending[p.id].op = InitSub
    <3> SUFFICES ASSUME pending[p.id] # None, pending[p.id].op # InitSub PROVE FALSE
      OBVIOUS
    <3>1. pending[p.id].op \in Ops
      BY <1>3, <1>4 DEF Slots, Waiters
    <3>2. id[pending[p.id].op] = p.id /\ Started(pending[p.id].op)
      BY <1>1, <1>4, <3>1 DEF IdInv, Inv, OwnSlots
    <3> QED
      BY <2>1, <3>1, <3>2 DEF FreeId
  <2>3. \A q \in Ops : Started(q) => id[q] \in Ids /\ id[q] # p.id
    BY <1>1, <2>1, OwnSlotOnly DEF FreeId
  <2>4. \A q \in Ops : Started(q) => pending'[id[q]] = pending[id[q]]
    BY <1>1, <1>3, <1>4, <2>3 DEF fire_ack, RemoveSlot
  <2>5. \A q \in Ops : q # InitSub
    BY ClientAssumption
  <2>6. CASE pending[p.id] # None /\ pending[p.id].kind = p.type
    <3>1. sig' = [sig EXCEPT ![InitSub] = IF @ = "none" THEN "fired" ELSE @]
      BY <1>1, <1>4, <2>2, <2>6 DEF fire_ack
    <3> QED
      BY <1>1, <1>2, <1>3, <1>5, <1>7, <2>4, <2>5, <3>1
  <2>7. CASE ~(pending[p.id] # None /\ pending[p.id].kind = p.type)
    <3>1. sig' = Dropped({pending[p.id]})
      BY <1>1, <1>4, <2>7 DEF fire_ack, RemoveSlot
    <3>2. \A q \in Ops : sig'[q] = sig[q]
      BY <1>3, <2>2, <2>5, <3>1 DEF Dropped
    <3> QED
      BY <1>1, <1>2, <1>5, <1>7, <2>4, <3>2
  <2> QED
    BY <2>6, <2>7
<1> QED
  BY <1>6, <1>7

\* An acknowledgement is read.
LEMMA AckOps ==
  ASSUME Inv, Inv', WireTypes, OpsInv, DispatchAck
  PROVE  OpsInv'
<1> PICK p : p = Head(toClient)
  OBVIOUS
<1>1. /\ UNCHANGED <<kind, pc, id, res, counter, open, answered>>
      /\ hc = "select" /\ heard' = IF Concludes(p) THEN heard \cup {p.for} ELSE heard
      /\ hc' = IF p.type = "pubrec" THEN "pubrel" ELSE "top"
      /\ p.type = "pubrec" => pubrec' = p
  BY DEF DispatchAck, opVars, chanVars, peerVars
<1>2. /\ toClient # <<>> /\ p \in Packets /\ toPeer' = toPeer /\ toClient' = Tail(toClient)
  BY DispatchAckWire
<1>3. /\ Answer(p) /\ Named(p) /\ p.type \in Acks
      /\ \A q \in Ops : q # p.for => /\ sig'[q] = sig[q]
                                     /\ Started(q) => pending'[id[q]] = pending[id[q]]
      /\ \A q \in Ops : q = p.for =>
           /\ sig[q] # "none" => sig'[q] = sig[q]
           /\ pc[q] \in {"wait", "wait2"} /\ sig[q] = "none" =>
                sig'[q] = "fired" /\ p.type = Awaited(q)
      /\ \A i \in Ids : pending'[i] = pending[i] \/ pending'[i] = None
  BY AckEffect
<1>4. IdInv /\ Tokens /\ \A o \in Ops : Standing(o)
  BY DEF OpsInv
<1>5. IdInv'
  <2>1. IdsKept
    BY <1>1, <1>3 DEF IdsKept
  <2> QED
    BY <1>4, <2>1, IdsKeptStep
<1>6. \A q \in Ops : Fresh(q)' => Fresh(q) /\ q # p.for
  BY <1>1, <1>3 DEF Fresh
<1>7. \A q \in Ops : Held(q) \/ (q = p.for /\ p.type = "pubrec")
  <2> SUFFICES ASSUME NEW q \in Ops, Past(q)', ~Past(q) PROVE q = p.for /\ p.type = "pubrec"
    BY DEF Held
  <2>1. kind[q] = "qos2" /\ pc[q] = "wait" /\ sig'[q] = "fired" /\ sig[q] # "fired"
    BY <1>1 DEF Past
  <2>2. q = p.for /\ sig[q] = "none"
    BY <1>3, <2>1
  <2>3. p.type = AckOf[kind[q]]
    BY <1>3, <2>1, <2>2 DEF Awaited
  <2> QED
    BY <2>1, <2>2, <2>3, SMTT(30), Z3T(30) DEF AckOf
<1>8. Forward
  <2>1. counter <= counter'
    BY <1>1, SMTT(30), Z3T(30) DEF Inv, TypeOK
  <2> QED
    BY <1>1, <1>6, <2>1 DEF Forward, Started
<1>9. Tokens'
  <2>1. toPeer \in Seq(Packets) /\ toClient \in Seq(Packets) /\ Uniq(toClient, toPeer, {"pubrec"}, {"qos2"})
    BY <1>4, UniqSwap DEF WireTypes, Tokens
  <2>2. p.type = "pubrec" => Absent(Tail(toClient), {"pubrec"}, p.for) /\ Absent(toPeer, {"qos2"}, p.for)
    BY <1>2, <2>1, UniqHead
  <2>3. From(toClient, toClient', {})
    BY <1>2, <2>1, TailOf
  <2>4. \A q \in Elems(toPeer') : Request(q)'
    <3> SUFFICES ASSUME NEW q \in Elems(toPeer) PROVE Request(q)'
      BY <1>2
    <3>1. Request(q)
      BY <1>4 DEF Tokens
    <3>2. q.type = "qos2" /\ q.for \in Ops => Held(q.for)
      BY <1>7, <2>2 DEF Absent
    <3> QED
      BY <1>4, <1>8, <3>1, <3>2, RequestKept
  <2>5. \A q \in Elems(toClient') : Answer(q)'
    <3> SUFFICES ASSUME NEW q \in Elems(toClient') PROVE Answer(q)'
      OBVIOUS
    <3>1. Answer(q)
      BY <1>4, <2>3 DEF Tokens, From
    <3>2. q.type = "pubrec" /\ q.for \in Ops => Held(q.for)
      BY <1>2, <1>7, <2>2 DEF Absent
    <3> QED
      BY <1>4, <1>8, <3>1, <3>2, AnswerKept
  <2>6. Uniq(toPeer', toClient', {"qos2"}, {"pubrec"})
    <3>1. Loses(toClient, toClient')
      BY <1>2 DEF Loses
    <3>2. Uniq(toClient', toPeer, {"pubrec"}, {"qos2"})
      BY <2>1, <3>1, UniqLoses
    <3> QED
      BY <1>2, <3>2, UniqSwap
  <2>7. Released'
    <3> SUFFICES ASSUME hc' = "pubrel"
                 PROVE  (Named(pubrec) /\ (pubrec.for \in Ops => kind[pubrec.for] = "qos2" /\ ~Fresh(pubrec.for)))'
      BY DEF Released
    <3>1. p.type = "pubrec" /\ pubrec' = p
      BY <1>1
    <3>2. Named(p)'
      BY <1>3, <1>4, <1>8, NamedKept
    <3>3. p.for \in Ops => kind[p.for] = "qos2"
      <4> SUFFICES ASSUME p.for \in Ops PROVE kind[p.for] = "qos2"
        OBVIOUS
      <4>1. kind[p.for] \in Kinds \ {"qos0"} /\ AckOf[kind[p.for]] = "pubrec"
        BY <1>3, <3>1 DEF Answer, Inv, TypeOK
      <4> QED
        BY <4>1, SMTT(30), Z3T(30) DEF AckOf, Kinds
    <3>4. p.for \in Ops => ~Fresh(p.for)'
      BY <1>6
    <3> QED
      BY <1>1, <3>1, <3>2, <3>3, <3>4 DEF Named, FreeId, Fresh, Started
  <2> QED
    BY <2>4, <2>5, <2>6, <2>7 DEF Tokens
<1>10. Around
  BY <1>1 DEF Around
<1>11. ASSUME NEW q \in Ops, q # p.for PROVE Standing(q)'
  <2>1. SameOp(q)
    BY <1>1, <1>3, <1>11 DEF SameOp
  <2> QED
    BY <1>4, <1>10, <2>1, SameStanding
<1>12. ASSUME NEW o \in Ops, o = p.for PROVE Standing(o)'
  <2>1. Standing(o) /\ Started(o) /\ pc[o] # "register" /\ pc[o] # "idle"
    BY <1>3, <1>4, <1>12 DEF Named, Started
  <2>2. /\ sig[o] # "none" => sig'[o] = sig[o]
        /\ pc[o] \in {"wait", "wait2"} /\ sig[o] = "none" => sig'[o] = "fired" /\ p.type = Awaited(o)
    BY <1>3, <1>12
  <2>3. pc[o] \in {"wait", "wait2"} => sig'[o] # "none"
    BY <2>2
  <2>4. sig'[o] = "fired" /\ (pc[o] = "wait2" \/ (pc[o] = "wait" /\ kind[o] # "qos2")) => o \in answered
    <3> SUFFICES ASSUME sig'[o] = "fired", pc[o] = "wait2" \/ (pc[o] = "wait" /\ kind[o] # "qos2"),
                        sig[o] = "none"
                 PROVE  o \in answered
      BY <2>1, <2>2 DEF Standing
    <3>1. kind[o] \in Kinds \ {"qos0"}
      BY <2>1 DEF Started, Inv, TypeOK
    <3>2. Awaited(o) # "pubrec"
      BY <3>1, SMTT(30), Z3T(30) DEF Awaited, AckOf, Kinds
    <3> QED
      BY <1>3, <1>12, <2>2, <3>2 DEF Answer
  <2>5. sig'[o] = "dropped" /\ pc[o] \in {"wait", "wait2"} => ~open
    BY <2>1, <2>2 DEF Standing
  <2>6. o \in heard' /\ kind[o] # "qos2" =>
          res[o] # "timeout" /\ (pc[o] = "ended" \/ (pc[o] = "wait" /\ sig'[o] # "none"))
    <3>1. CASE o \in heard
      BY <2>1, <2>2, <3>1 DEF Standing
    <3>2. CASE o \notin heard /\ o \in heard' /\ kind[o] # "qos2"
      <4>1. pc[o] \notin {"expired", "ended"}
        BY <1>1, <1>12, <3>2 DEF Concludes
      <4>2. pc[o] = "wait"
        BY <2>1, <3>2, <4>1 DEF Standing, Inv, TypeOK
      <4> QED
        BY <2>1, <2>3, <4>2 DEF Standing
    <3> QED
      BY <3>1, <3>2
  <2> QED
    BY <1>1, <2>1, <2>3, <2>4, <2>5, <2>6 DEF Standing
<1> QED
  BY <1>5, <1>9, <1>11, <1>12 DEF OpsInv

\* A step that leaves the operations where they are.
Stay ==
  /\ UNCHANGED <<kind, pc, id, res, counter, sig, pending, heard>>
  /\ answered \subseteq answered'

\* Nothing moves but the wire.
LEMMA StayOps ==
  ASSUME Inv, Inv', OpsInv, Stay, open' => open
  PROVE  /\ IdInv' /\ Forward /\ (\A o \in Ops : Held(o) /\ Standing(o)')
         /\ (hc' = "pubrel" => hc = "pubrel" /\ pubrec' = pubrec) => Released'
<1>1. IdsKept
  BY DEF Stay, IdsKept
<1>2. IdInv'
  BY <1>1, IdsKeptStep DEF OpsInv
<1>3. Forward
  <2>1. counter <= counter'
    BY SMTT(30), Z3T(30) DEF Stay, Inv, TypeOK
  <2> QED
    BY <2>1 DEF Stay, Forward, Started, Fresh
<1>4. \A o \in Ops : Held(o)
  BY DEF Stay, Held, Past
<1>5. Around /\ \A o \in Ops : SameOp(o)
  BY DEF Stay, Around, SameOp
<1>6. \A o \in Ops : Standing(o)'
  BY <1>5, SameStanding DEF OpsInv
<1> QED
  BY <1>2, <1>3, <1>4, <1>6, ReleasedKept DEF OpsInv, Tokens

\* A step that sends nothing of an operation's exchange.
Elsewhere ==
  /\ Stay /\ (hc' = "pubrel" => hc = "pubrel" /\ pubrec' = pubrec)
  /\ \E new \in SUBSET Packets :
       \/ Outward(new) /\ \A p \in new : p.type \notin OpOut
       \/ Inward(new) /\ \A p \in new : p.type \notin Acks

\* Such a step keeps the invariant.
LEMMA ElsewhereOps ==
  ASSUME Inv, Inv', WireTypes, OpsInv, Elsewhere, open' => open
  PROVE  OpsInv'
<1> PICK new \in SUBSET Packets : \/ Outward(new) /\ \A p \in new : p.type \notin OpOut
                                  \/ Inward(new) /\ \A p \in new : p.type \notin Acks
  BY DEF Elsewhere
<1>1. IdInv' /\ Forward /\ Released' /\ \A o \in Ops : Held(o) /\ Standing(o)'
  BY StayOps DEF Elsewhere
<1>2. CASE Outward(new) /\ \A p \in new : p.type \notin OpOut
  <2>1. \A p \in new : Request(p)' /\ p.type # "qos2"
    BY <1>2 DEF Request, OpOut
  <2> QED
    BY <1>1, <1>2, <2>1, TokensOut DEF OpsInv
<1>3. CASE Inward(new) /\ \A p \in new : p.type \notin Acks
  <2>1. \A p \in new : Answer(p)' /\ p.type # "pubrec"
    BY <1>3 DEF Answer, Acks
  <2> QED
    BY <1>1, <1>3, <2>1, TokensIn DEF OpsInv
<1> QED
  BY <1>2, <1>3

\* The initial SUBSCRIBE has an id and a slot of its own.
LEMMA InitialSubscribeOps ==
  ASSUME Room, Inv, Inv', WireTypes, OpsInv, SendInitialSubscribe, open' => open
  PROVE  OpsInv'
<1> PICK n : n = counter + 1
  OBVIOUS
<1> PICK r : r = Packet("subscribe", AllocatedId, InitSub)
  OBVIOUS
<1>1. /\ UNCHANGED <<kind, pc, id, res, heard, answered, open>> /\ hc' # "pubrel"
  BY DEF SendInitialSubscribe, Goto, chanVars, peerVars
<1>2. /\ IdInv' /\ counter' = n /\ AllocatedId = n /\ n \in Ids /\ pending[n] = None
      /\ FreeId(n)' /\ (\A o \in Ops : sig'[o] = sig[o])
      /\ pending' = [pending EXCEPT ![n] = [kind |-> "suback", op |-> InitSub]]
  BY InitialSubscribeIds DEF OpsInv
<1>3. counter \in Nat /\ pending \in [Ids -> Slots \cup {None}] /\ IdInv /\ Tokens
  BY SMTT(30), Z3T(30) DEF Inv, TypeOK, OpsInv
<1>4. Outward({r}) /\ {r} \in SUBSET Packets
  BY InitialSubscribeWire
<1>5. r.type = "subscribe" /\ r.id = n /\ r.for = InitSub /\ InitSub \notin Ops
  BY <1>2, ClientAssumption DEF Packet
<1>6. \A o \in Ops : Started(o) => id[o] \in Ids /\ id[o] # n
  <2>1. n \notin 1..counter
    BY <1>3, Numbers
  <2>2. ASSUME NEW o \in Ops, Started(o) PROVE id[o] \in Ids /\ id[o] \in 1..counter
    BY <1>3, <2>2, OwnSlotOnly DEF IdInv
  <2> QED
    BY <2>1, <2>2
<1>7. \A o \in Ops : Started(o) => pending'[id[o]] = pending[id[o]]
  BY <1>2, <1>3, <1>6
<1>8. \A o \in Ops : SameOp(o) /\ Held(o) /\ (Fresh(o)' => Fresh(o))
  BY <1>1, <1>2, <1>7 DEF SameOp, Held, Past, Fresh
<1>9. Forward
  <2>1. counter <= counter'
    BY <1>2, <1>3, SMTT(30), Z3T(30)
  <2> QED
    BY <1>1, <1>8, <2>1 DEF Forward, Started
<1>10. Request(r)'
  BY <1>2, <1>5 DEF Request, Named
<1>11. Released'
  BY <1>1 DEF Released
<1>12. Tokens'
  BY <1>3, <1>4, <1>5, <1>8, <1>9, <1>10, <1>11, TokensOut
<1>13. Around
  BY <1>1 DEF Around
<1> QED
  BY <1>2, <1>8, <1>12, <1>13, SameStanding DEF OpsInv

\* PUBREL goes to the broker after the operation was told of the PUBREC.
LEMMA SendPubrelOps ==
  ASSUME Inv, Inv', WireTypes, OpsInv, SendPubrel, open' => open
  PROVE  OpsInv'
<1> PICK r : r = Packet("pubrel", pubrec.id, pubrec.for)
  OBVIOUS
<1>1. Stay /\ hc = "pubrel" /\ hc' # "pubrel"
  BY DEF SendPubrel, Stay, opVars, slotVars, chanVars, peerVars
<1>2. Outward({r}) /\ {r} \in SUBSET Packets
  BY SendPubrelWire
<1>3. IdInv' /\ Forward /\ Released' /\ \A o \in Ops : Held(o) /\ Standing(o)'
  BY <1>1, StayOps
<1>4. r.type = "pubrel" /\ r.id = pubrec.id /\ r.for = pubrec.for
  BY DEF Packet
<1>5. Request(r)
  BY <1>1, <1>4 DEF OpsInv, Tokens, Released, Request, Named
<1>6. Request(r)'
  BY <1>3, <1>4, <1>5, RequestKept DEF OpsInv
<1>7. Tokens'
  BY <1>2, <1>3, <1>4, <1>6, TokensOut DEF OpsInv
<1> QED
  BY <1>3, <1>7 DEF OpsInv

\* abandon() wakes who still waits; the channel is closed.
LEMMA AbandonOps ==
  ASSUME Inv, Inv', WireTypes, Shut, OpsInv, Abandon
  PROVE  OpsInv'
<1>1. /\ UNCHANGED <<kind, pc, id, res, counter, open, pubrec, answered, heard, toPeer, toClient>>
      /\ hc' \in {hc, "done"} /\ ~open /\ pending' = [i \in Ids |-> None]
      /\ sig' = Dropped({pending[i] : i \in Ids})
  BY DEF Abandon, opVars, peerVars, Shut
<1>2. IdInv'
  <2>1. IdsKept
    BY <1>1 DEF IdsKept
  <2> QED
    BY <2>1, IdsKeptStep DEF OpsInv
<1>3. \A o \in Ops : /\ sig[o] # "none" => sig'[o] = sig[o]
                     /\ sig'[o] \in {sig[o], "dropped"}
  BY <1>1 DEF Dropped, Waiters
<1>4. ASSUME NEW o \in Ops, pc[o] \in {"wait", "wait2"}, sig[o] = "none" PROVE sig'[o] = "dropped"
  <2>1. id[o] \in Ids /\ kind[o] \in Kinds \ {"qos0"} /\ o \in Waiters
    BY <1>4 DEF Inv, TypeOK, IdsInHand, Waiters
  <2>2. pending[id[o]] = [kind |-> Awaited(o), op |-> o]
    BY <1>4 DEF OpsInv, Standing
  <2>3. [kind |-> Awaited(o), op |-> o] \in Slots
    <3>1. Awaited(o) \in Acks
      BY <2>1, AwaitedAck
    <3> QED
      BY <2>1, <3>1 DEF Slots
  <2>4. pending[id[o]] # None /\ pending[id[o]].op = o
    <3>1. pending[id[o]] # None
      BY <2>2, <2>3, ClientAssumption
    <3>2. pending[id[o]].op = o
      BY <2>2, SMTT(30), Z3T(30)
    <3> QED
      BY <3>1, <3>2
  <2>5. \E s \in {pending[i] : i \in Ids} : s # None /\ s.op = o
    BY <2>1, <2>4
  <2> QED
    BY <1>1, <1>4, <2>1, <2>5 DEF Dropped
<1>5. \A o \in Ops : Held(o) /\ ~Fresh(o)'
  <2>1. \A o \in Ops : Held(o)
    BY <1>1, <1>3 DEF Held, Past
  <2>2. \A o \in Ops : ~Fresh(o)'
    BY <1>1, <1>3, <1>4 DEF Fresh
  <2> QED
    BY <2>1, <2>2
<1>6. Forward
  <2>1. counter <= counter'
    BY <1>1, CounterNat, Numbers
  <2> QED
    BY <1>1, <1>5, <2>1 DEF Forward, Started
<1>7. Tokens'
  <2>1. Outward({}) /\ {} \in SUBSET Packets
    BY <1>1, SilentWire
  <2>2. Released'
    BY <1>1, <1>6, ReleasedKept DEF OpsInv, Tokens
  <2> QED
    BY <1>5, <1>6, <2>1, <2>2, TokensOut DEF OpsInv
<1>8. ASSUME NEW o \in Ops PROVE Standing(o)'
  <2>1. Standing(o)
    BY DEF OpsInv
  <2>2. pc[o] \in {"wait", "wait2"} => sig'[o] # "none"
    BY <1>3, <1>4
  <2> QED
    BY <1>1, <1>3, <2>1, <2>2 DEF Standing
<1> QED
  BY <1>2, <1>7, <1>8 DEF OpsInv

\* The broker answers an operation's packet, or something else.
LEMMA PeerReadsOps ==
  ASSUME Inv, Inv', WireTypes, OpsInv, PeerReads, open' => open
  PROVE  OpsInv'
<1> PICK p : p = Head(toPeer)
  OBVIOUS
<1>1. Stay /\ UNCHANGED <<hc, pubrec>>
  BY DEF PeerReads, Stay, taskVars, opVars, slotVars
<1>2. /\ toPeer # <<>> /\ p \in Packets /\ toPeer' = Tail(toPeer)
      /\ Gains(toClient, toClient', Answers(p))
      /\ peer = "waiting" => Gains(toClient, toClient', Plain)
      /\ Answers(p) \in SUBSET Packets
  BY PeerReadsWire
<1>3. \A q \in Plain : q.type \notin Acks
  BY PlainType
<1>4. CASE peer = "waiting"
  <2>1. Inward(Plain) /\ Plain \in SUBSET Packets
    BY <1>2, <1>4, PlainType DEF Inward, Loses
  <2>2. Elsewhere
    BY <1>1, <1>3, <2>1 DEF Elsewhere
  <2> QED
    BY <2>2, ElsewhereOps
<1>5. CASE peer # "waiting"
  <2>1. IdInv /\ Tokens /\ IdInv' /\ Forward /\ Released' /\ \A o \in Ops : Held(o) /\ Standing(o)'
    BY <1>1, StayOps DEF OpsInv
  <2>2. p.type \in {"qos1", "pubrel", "subscribe", "unsubscribe"} => p.for \in answered'
    <3>1. peer = "up"
      BY <1>5 DEF PeerReads, Inv, TypeOK
    <3> QED
      BY <3>1 DEF PeerReads
  <2>3. p \in Elems(toPeer) /\ toPeer \in Seq(Packets) /\ toClient \in Seq(Packets)
    BY <1>2, TailOf DEF WireTypes
  <2>4. Request(p) /\ Request(p)'
    BY <2>1, <2>3, RequestKept DEF Tokens
  <2>5. p.type = "qos2" => Absent(toPeer', {"qos2"}, p.for) /\ Absent(toClient, {"pubrec"}, p.for)
    BY <1>2, <2>1, <2>3, UniqHead DEF Tokens
  <2>6. ASSUME NEW q \in Answers(p), q.type \in Acks
        PROVE  /\ p.type \in OpOut /\ q.type = AnswerTo[p.type] /\ q.id = p.id /\ q.for = p.for
               /\ q.type = "pubrec" <=> p.type = "qos2"
               /\ q.type = "pubcomp" <=> p.type = "pubrel"
               /\ p.type # "pubrel" => q.type = AckOf[p.type]
    <3>1. p.type \in DOMAIN AnswerTo /\ q = Packet(AnswerTo[p.type], p.id, p.for)
      BY <1>3, <2>6 DEF Answers
    <3>2. q.type = AnswerTo[p.type] /\ q.id = p.id /\ q.for = p.for
      BY <3>1 DEF Packet
    <3>3. p.type \in OpOut
      BY <2>6, <3>1, <3>2, AnswerTypes DEF OpOut
    <3>4. AnswerTo["qos2"] = "pubrec" /\ AnswerTo["pubrel"] = "pubcomp"
      BY DEF AnswerTo
    <3>5. /\ q.type = "pubrec" <=> p.type = "qos2"
          /\ q.type = "pubcomp" <=> p.type = "pubrel"
      <4>1. q.type = "pubrec" => p.type = "qos2"
        BY <3>1, <3>2, AnswersOnly
      <4>2. q.type = "pubcomp" => p.type = "pubrel"
        BY <3>1, <3>2, AnswersOnly
      <4> QED
        BY <3>2, <3>4, <4>1, <4>2
    <3>6. p.type # "pubrel" => q.type = AckOf[p.type]
      BY <3>1, <3>2, <3>3, AnswerTypes DEF OpOut
    <3> QED
      BY <3>2, <3>3, <3>5, <3>6
  <2>7. ASSUME NEW q \in Answers(p) PROVE Answer(q)'
    <3> SUFFICES ASSUME q.type \in Acks PROVE Answer(q)'
      BY DEF Answer
    <3>1. /\ p.type \in OpOut /\ q.id = p.id /\ q.for = p.for
          /\ q.type = "pubrec" <=> p.type = "qos2"
          /\ q.type = "pubcomp" <=> p.type = "pubrel"
          /\ p.type # "pubrel" => q.type = AckOf[p.type]
      BY <2>6
    <3>2. Named(p)'
      BY <2>4, <3>1 DEF Request
    <3>3. Named(q)'
      BY <3>1, <3>2 DEF Named
    <3>4. q.type # "pubrec" => q.for \in answered'
      BY <2>2, <3>1 DEF OpOut
    <3>5. ASSUME q.for \in Ops
          PROVE  /\ kind'[q.for] # "qos0"
                 /\ \/ q.type = AckOf[kind'[q.for]] /\ (q.type = "pubrec" => ~Past(q.for)')
                    \/ q.type = "pubcomp" /\ kind'[q.for] = "qos2" /\ ~Fresh(q.for)'
      <4>1. kind'[q.for] # "qos0"
        BY <3>3, <3>5 DEF Named, Started
      <4>2. \/ p.type = kind'[p.for] /\ (p.type = "qos2" => ~Past(p.for)') /\ kind'[p.for] \in Kinds
            \/ p.type = "pubrel" /\ kind'[p.for] = "qos2" /\ ~Fresh(p.for)'
        BY <2>4, <3>1, <3>5 DEF Request, Inv, TypeOK
      <4>3. "pubrel" \notin Kinds
        BY DEF Kinds
      <4> QED
        BY <3>1, <4>1, <4>2, <4>3
    <3> QED
      BY <3>3, <3>4, <3>5 DEF Answer
  <2>8. \A q \in Answers(p) : q.type = "pubrec" => p.type = "qos2" /\ q.for = p.for
    BY <2>6 DEF Acks
  <2>9. Inward(Answers(p))
    BY <1>2 DEF Inward, Loses
  <2>10. Tokens'
    BY <1>2, <2>1, <2>5, <2>7, <2>8, <2>9, TokensIn
  <2> QED
    BY <2>1, <2>10 DEF OpsInv
<1> QED
  BY <1>4, <1>5

\* The steps that are left have nothing to do with the operations.
LEMMA OtherElsewhere ==
  ASSUME Inv, WireTypes, UserClose \/ WriterStops \/ WriterReturns \/ PeerCloses \/ Housekeeping
                         \/ DispatchPublish \/ DispatchPubrel \/ \E m \in Inbound : PeerPublishes(m)
  PROVE  Elsewhere
<1> USE DEF taskVars, opVars, slotVars, chanVars, peerVars
<1>1. CASE UserClose \/ WriterReturns
  <2>1. Stay /\ UNCHANGED <<hc, pubrec, toPeer, toClient>>
    BY <1>1 DEF UserClose, WriterReturns, Stay
  <2>2. Outward({})
    BY <2>1, SilentWire
  <2> QED
    BY <2>1, <2>2, SMTT(30), Z3T(30) DEF Elsewhere
<1>2. CASE WriterStops
  <2>1. Stay /\ UNCHANGED <<hc, pubrec>>
    BY <1>2 DEF WriterStops, Stay
  <2>2. Inward({})
    BY <1>2 DEF WriterStops, Inward, Gains, Loses
  <2> QED
    BY <2>1, <2>2, SMTT(30), Z3T(30) DEF Elsewhere
<1>3. CASE PeerCloses
  <2>1. Stay /\ UNCHANGED <<hc, pubrec>>
    BY <1>3 DEF PeerCloses, Stay
  <2>2. Inward(Plain) /\ Plain \in SUBSET Packets
    BY <1>3, PeerClosesWire, PlainType
  <2>3. \A q \in Plain : q.type \notin Acks
    BY SMTT(30), Z3T(30) DEF Plain, Packet, Acks
  <2> QED
    BY <2>1, <2>2, <2>3 DEF Elsewhere
<1>4. CASE Housekeeping
  <2>1. Stay
    BY <1>4 DEF Housekeeping, SendConnect, ReadConnack, ConnackFails, AwaitInitialSubscribe,
                LoopHead, LoopBreaks, Ping, DispatchOther, SendDisconnect, HandleCloses, Goto, Stay
  <2>2. Outward(Plain) /\ Plain \in SUBSET Packets /\ hc' # "pubrel"
    BY <1>4, HousekeepingWire, PlainType
  <2>3. \A q \in Plain : q.type \notin OpOut
    BY SMTT(30), Z3T(30) DEF Plain, Packet, OpOut
  <2> QED
    BY <2>1, <2>2, <2>3 DEF Elsewhere
<1>5. CASE DispatchPublish
  <2> DEFINE p == Head(toClient)
             new == CASE InQos[p.for] = 0 -> {}
                      [] InQos[p.for] = 1 -> {Packet("puback", p.id, p.for)}
                      [] InQos[p.for] = 2 -> {Packet("pubrec", p.id, p.for)}
  <2>1. Stay /\ hc' # "pubrel"
    BY <1>5 DEF DispatchPublish, Stay
  <2>2. Outward(new) /\ new \in SUBSET Packets /\ Offer(p)
    BY <1>5, DispatchPublishWire DEF Outward, Loses
  <2>3. InQos[p.for] \in 0..2
    BY <2>2, ClientAssumption DEF Offer
  <2>4. \A q \in new : q.type \notin OpOut
    BY <2>3, SMTT(30), Z3T(30) DEF Packet, OpOut
  <2> HIDE DEF new
  <2> QED
    BY <2>1, <2>2, <2>4 DEF Elsewhere
<1>6. CASE DispatchPubrel
  <2> DEFINE r == Packet("pubcomp", Head(toClient).id, Head(toClient).for)
  <2>1. Stay /\ hc' # "pubrel"
    BY <1>6 DEF DispatchPubrel, Stay
  <2>2. Outward({r}) /\ {r} \in SUBSET Packets
    BY <1>6, DispatchPubrelWire DEF Outward, Loses
  <2>3. r.type \notin OpOut
    BY DEF Packet, OpOut
  <2> HIDE DEF r
  <2> QED
    BY <2>1, <2>2, <2>3 DEF Elsewhere
<1>7. ASSUME NEW m \in Inbound, PeerPublishes(m) PROVE Elsewhere
  <2> DEFINE r == Packet("publish", InId[m], m)
  <2>1. Stay /\ UNCHANGED <<hc, pubrec>>
    BY <1>7 DEF PeerPublishes, Stay
  <2>2. Inward({r}) /\ {r} \in SUBSET Packets
    BY <1>7, PeerPublishesWire DEF Inward, Gains, Loses
  <2>3. r.type \notin Acks
    BY DEF Packet, Acks
  <2> HIDE DEF r
  <2> QED
    BY <2>1, <2>2, <2>3 DEF Elsewhere
<1> QED
  BY <1>1, <1>2, <1>3, <1>4, <1>5, <1>6, <1>7

\* Steps that take an id.
Allocates == SendInitialSubscribe \/ \E o \in Ops : Start(o) /\ kind[o] # "qos0"

\* Every step keeps the invariant, if it takes an id while there is one.
LEMMA OpsStep ==
  ASSUME Inv, WireTypes, Shut, OpsInv, [Next]_vars, Allocates => Room
  PROVE  OpsInv'
<1>1. Inv'
  BY StepInv
<1>2. CASE Next
  <2>1. open' => open
    BY <1>2, ShutStep
  <2>2. ASSUME NEW o \in Ops, OpStep(o) PROVE OpsInv'
    BY <1>1, <2>1, <2>2, StartOps, RegisterOps, ResumeOps, ExpireOps DEF OpStep, Allocates
  <2>3. CASE UserClose \/ WriterStops \/ WriterReturns \/ PeerCloses \/ Housekeeping
             \/ DispatchPublish \/ DispatchPubrel \/ \E m \in Inbound : PeerPublishes(m)
    BY <1>1, <2>1, <2>3, OtherElsewhere, ElsewhereOps
  <2>4. CASE DispatchAck \/ SendInitialSubscribe \/ SendPubrel \/ Abandon \/ PeerReads
    BY <1>1, <2>1, <2>4, AckOps, InitialSubscribeOps, SendPubrelOps, AbandonOps, PeerReadsOps DEF Allocates
  <2> QED
    BY <1>2, <2>2, <2>3, <2>4 DEF Next, Task, Read, Housekeeping
<1>3. CASE UNCHANGED vars
  <2>1. /\ UNCHANGED <<hc, pubrec, kind, pc, id, res, counter, sig, pending, heard, answered>>
        /\ UNCHANGED <<open, toPeer, toClient>>
    BY <1>3 DEF vars, taskVars, opVars, slotVars, chanVars, peerVars
  <2>2. Outward({})
    BY <2>1, SilentWire
  <2>3. Stay
    BY <2>1 DEF Stay
  <2>4. Elsewhere
    BY <2>1, <2>2, <2>3, SMTT(30), Z3T(30) DEF Elsewhere
  <2> QED
    BY <1>1, <2>1, <2>4, ElsewhereOps
<1> QED
  BY <1>2, <1>3

-----------------------------------------------------------------------------
(* Counting the packet ids.                                                *)

LOCAL INSTANCE FiniteSetTheorems

\* There are as many packet ids as operations, the initial SUBSCRIBE included.
\* (The code has 65535.  When the counter wraps, operations share ids.)
NoWrap == IsFiniteSet(Ops) /\ Cardinality(Waiters) <= MaxId

\* Who may have allocated an id.
Issued ==
  {o \in Ops : Started(o)} \cup (IF hc \in {"connect", "connack", "initsub"} THEN {} ELSE {InitSub})

\* No more ids than that have been allocated.
CountInv == counter <= Cardinality(Issued)

\* Counting operations.
LEMMA CountWaiters ==
  ASSUME NoWrap, NEW S \in SUBSET Waiters, NEW T \in SUBSET Waiters, S \subseteq T
  PROVE  /\ Cardinality(S) \in Nat /\ Cardinality(S) <= Cardinality(T)
         /\ \A w \in T \ S : Cardinality(S) + 1 <= MaxId /\ Cardinality(S) + 1 <= Cardinality(T)
<1>1. IsFiniteSet(Waiters)
  BY FS_AddElement DEF NoWrap, Waiters
<1>2. IsFiniteSet(T) /\ IsFiniteSet(S) /\ Cardinality(S) <= Cardinality(T) /\ Cardinality(T) <= Cardinality(Waiters)
  BY <1>1, FS_Subset
<1>3. Cardinality(S) \in Nat /\ Cardinality(T) \in Nat /\ Cardinality(Waiters) \in Nat
  BY <1>1, <1>2, FS_CardinalityType
<1>4. ASSUME NEW w \in T \ S PROVE Cardinality(S) + 1 <= Cardinality(T)
  <2>1. IsFiniteSet(S \cup {w}) /\ Cardinality(S \cup {w}) = Cardinality(S) + 1
    BY <1>2, <1>4, FS_AddElement
  <2>2. S \cup {w} \subseteq T
    BY <1>4
  <2>3. Cardinality(S \cup {w}) <= Cardinality(T)
    BY <1>2, <2>2, FS_Subset
  <2> QED
    BY <2>1, <2>3
<1>5. MaxId \in Nat /\ Cardinality(Waiters) <= MaxId
  BY ClientAssumption DEF NoWrap
<1>6. ASSUME NEW w \in T \ S PROVE Cardinality(S) + 1 <= MaxId
  BY <1>2, <1>3, <1>4, <1>5, <1>6, Numbers
<1> QED
  BY <1>2, <1>3, <1>4, <1>6

\* Whoever takes an id has none, so that there is one left.
LEMMA TakesId ==
  ASSUME NoWrap, Inv, CountInv, Allocates
  PROVE  Room /\ CountInv'
<1>1. allocate_packet_id
  BY DEF Allocates, SendInitialSubscribe, Start
<1>0. counter \in Nat
  BY SMTT(30), Z3T(30) DEF Inv, TypeOK
<1>2. PICK w \in Waiters : Issued' = Issued \cup {w} /\ w \notin Issued
  <2>1. CASE SendInitialSubscribe
    <3>1. /\ hc = "initsub" /\ hc' \in {"initwait", "close"} /\ UNCHANGED <<kind, pc>>
      BY <2>1 DEF SendInitialSubscribe, Goto
    <3>2. Issued' = Issued \cup {InitSub} /\ InitSub \notin Issued /\ InitSub \in Waiters
      BY <3>1, ClientAssumption DEF Issued, Started, Waiters
    <3> QED
      BY <3>2
  <2>2. ASSUME NEW o \in Ops, Start(o), kind[o] # "qos0" PROVE \E w \in Waiters : Issued' = Issued \cup {w} /\ w \notin Issued
    <3>1. /\ pc[o] = "idle" /\ pc' = [pc EXCEPT ![o] = "register"] /\ UNCHANGED <<hc, kind>>
          /\ pc = [q \in Ops |-> pc[q]]
      BY <2>2 DEF Start, taskVars, Inv, TypeOK
    <3>2. \A q \in Ops : Started(q)' <=> Started(q) \/ q = o
      BY <2>2, <3>1 DEF Started
    <3>3. Issued' = Issued \cup {o} /\ o \notin Issued /\ o \in Waiters
      BY <3>1, <3>2, ClientAssumption DEF Issued, Waiters, Started
    <3> QED
      BY <3>3
  <2> QED
    BY <2>1, <2>2 DEF Allocates
<1>3. Issued \in SUBSET Waiters /\ Issued' \in SUBSET Waiters
  BY <1>2 DEF Issued, Waiters
<1>4. /\ Cardinality(Issued) \in Nat /\ Cardinality(Issued) + 1 <= MaxId
      /\ Cardinality(Issued) + 1 <= Cardinality(Issued') /\ Cardinality(Issued') \in Nat
  BY <1>2, <1>3, CountWaiters
<1>5. Room /\ counter + 1 <= Cardinality(Issued')
  BY <1>0, <1>4, ClientAssumption, Numbers DEF CountInv, Room
<1> QED
  BY <1>1, <1>5, AllocateNext DEF CountInv

\* The other steps take none, and whoever has one keeps it.
LEMMA TakesNone ==
  ASSUME Inv, [Next]_vars, ~Allocates
  PROVE  counter' = counter /\ Issued \subseteq Issued'
<1> USE DEF taskVars, opVars, slotVars, chanVars, peerVars
<1>1. ASSUME NEW o \in Ops, OpStep(o)
      PROVE  counter' = counter /\ Issued \subseteq Issued'
  <2>1. /\ UNCHANGED <<hc, kind, counter>> /\ pc = [q \in Ops |-> pc[q]]
        /\ \E l \in {"register", "wait", "wait2", "expired", "ended"} : pc' = [pc EXCEPT ![o] = l]
    BY <1>1 DEF OpStep, Start, Register, Resume, Expire, GiveUp, Ends, Allocates, Inv, TypeOK
  <2>2. \A q \in Ops : Started(q) => Started(q)'
    BY <2>1 DEF Started
  <2> QED
    BY <2>1, <2>2 DEF Issued
<1>2. ASSUME ~\E o \in Ops : OpStep(o)
      PROVE  /\ UNCHANGED <<counter, kind, pc>>
             /\ hc' \in {"connect", "connack", "initsub"} => hc \in {"connect", "connack", "initsub"}
  <2>1. CASE UNCHANGED vars
    BY <2>1 DEF vars
  <2>2. CASE Housekeeping
    BY <2>2 DEF Housekeeping, SendConnect, ReadConnack, ConnackFails, AwaitInitialSubscribe,
                LoopHead, LoopBreaks, Ping, DispatchOther, SendDisconnect, HandleCloses, Goto
  <2>3. CASE DispatchPublish \/ DispatchPubrel \/ DispatchAck \/ SendPubrel \/ Abandon
    BY <2>3 DEF DispatchPublish, DispatchPubrel, DispatchAck, SendPubrel, Abandon
  <2>4. CASE UserClose \/ WriterStops \/ WriterReturns \/ PeerCloses \/ PeerReads
             \/ \E m \in Inbound : PeerPublishes(m)
    BY <2>4 DEF UserClose, WriterStops, WriterReturns, PeerCloses, PeerReads, PeerPublishes
  <2> QED
    BY <1>2, <2>1, <2>2, <2>3, <2>4 DEF Next, Task, Read, Housekeeping, Allocates
<1>3. ASSUME ~\E o \in Ops : OpStep(o) PROVE Issued \subseteq Issued'
  BY <1>2, <1>3 DEF Issued, Started
<1> QED
  BY <1>1, <1>2, <1>3

\* No more ids are allocated than there are operations.
LEMMA CountStep ==
  ASSUME NoWrap, Inv, Inv', CountInv, [Next]_vars
  PROVE  CountInv' /\ (Allocates => Room)
<1>1. CASE Allocates
  BY <1>1, TakesId
<1>2. CASE ~Allocates
  <2>1. counter' = counter /\ Issued \subseteq Issued' /\ counter \in Nat
    BY <1>2, TakesNone, CounterNat
  <2>2. Issued \in SUBSET Waiters /\ Issued' \in SUBSET Waiters
    BY DEF Issued, Waiters
  <2>3. /\ Cardinality(Issued) \in Nat /\ Cardinality(Issued') \in Nat
        /\ Cardinality(Issued) <= Cardinality(Issued')
    BY <2>1, <2>2, CountWaiters
  <2> QED
    BY <1>2, <2>1, <2>3, Numbers DEF CountInv
<1> QED
  BY <1>1, <1>2

\* The invariants of the operations hold.
LEMMA OpsHold == ASSUME NoWrap PROVE Spec => []OpsInv
<1>1. Init => OpsInv
  BY InitOps
<1>2. Init => CountInv
  <2> SUFFICES ASSUME Init PROVE CountInv
    OBVIOUS
  <2>1. Issued = {} /\ counter = 0
    BY DEF Init, Issued, Started
  <2>2. Cardinality({}) = 0
    BY FS_EmptySet
  <2> QED
    BY <2>1, <2>2, SMTT(30), Z3T(30) DEF CountInv
<1>3. ReceiptInv => Shut
  BY DEF ReceiptInv
<1>4. ASSUME Inv, Inv', WireTypes, Shut, CountInv, OpsInv, [Next]_vars PROVE CountInv' /\ OpsInv'
  BY <1>4, CountStep, OpsStep
<1> QED
  BY <1>1, <1>2, <1>3, <1>4, InitInv, StepInv, InitReceipt, ReceiptStep, PTL DEF Spec

\* P::send reports success only for what the broker has acknowledged to the end:
\* an Ok of a QoS 2 publish means PUBCOMP, not PUBREC, for any number of
\* operations whose packet ids do not wrap.
THEOREM OkMeansAnswered == ASSUME NoWrap PROVE Spec => []AckedMeansAnswered
<1>1. OpsInv => AckedMeansAnswered
  BY DEF OpsInv, Standing, AckedMeansAnswered
<1> QED
  BY <1>1, OpsHold, PTL

\* P::send reports ChannelClosed only on a closed channel: no operation, and not
\* the initial SUBSCRIBE, drops the slot that another one waits on.
THEOREM ClosedIsClosed == ASSUME NoWrap PROVE Spec => []ClosedMeansClosed
<1>1. OpsInv => ClosedMeansClosed
  BY DEF OpsInv, Standing, ClosedMeansClosed
<1> QED
  BY <1>1, OpsHold, PTL

\* An operation that one packet answers does not time out once that packet has
\* been read while it waited.
THEOREM HeardInTime == ASSUME NoWrap PROVE Spec => []HeardOneAck
<1>1. OpsInv => HeardOneAck
  BY DEF OpsInv, Standing, HeardOneAck
<1> QED
  BY <1>1, OpsHold, PTL
=============================================================================
