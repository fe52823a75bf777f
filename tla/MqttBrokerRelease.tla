------------------------- MODULE MqttBrokerRelease --------------------------
(***************************************************************************)
(* Proofs that MqttBroker fans no message out too often.                   *)
(*                                                                         *)
(* A QoS 2 message is fanned out once per handshake: however often PUBLISH *)
(* is repeated before its PUBREL, the messages that subscribers have been  *)
(* sent are matched by the PUBCOMPs of their publisher.                    *)
(*                                                                         *)
(* And a fan-out sends a client one copy per matching filter.  The copies  *)
(* a client has been sent are counted together with the subscriptions that *)
(* the task has yet to deliver to it; this takes that a message is in one  *)
(* place at a time, the stash, the session entry or one task, and that the *)
(* place it has left never yields it again.                                *)
(***************************************************************************)
EXTENDS MqttBrokerProofs, FiniteSetTheorems

\* Zenon proves the steps that need no arithmetic; the others cite SMT, with Z3 as
\* a second attempt.
USE ZenonT(30)

\* The message a task fans out is its own or a Will, comes from the stash only if
\* PUBCOMP is to follow, and after unregister_session is a Will.
Handled(c) ==
  /\ msg[c] # None => msg[c].payload[1] = c \/ msg[c].payload[2] = WillNo
  /\ pc[c] \in {"chain", "scan", "deliver"} =>
       IF after[c] = "reply" THEN reply[c].type = "pubcomp"
       ELSE msg[c].payload[3] < 2 \/ msg[c].payload[2] = WillNo
  /\ pc[c] = "unreg_wipe" =>
       after[c] = "closing" /\ (msg[c] # None => msg[c].payload[2] = WillNo)

\* The stashed message that task c is delivering.
Releasing(c) == IF pc[c] = "deliver" /\ after[c] = "reply" THEN {msg[c].payload} ELSE {}

\* A PUBCOMP is still to be sent, or its sending failed.
Due(c) == IF reply[c].type = "pubcomp" /\ pc[c] \in {"reply", "closing", "done"} THEN 1 ELSE 0

\* Messages released in full are matched by PUBCOMPs.
Counted(c) == Cardinality(Released(c) \ Releasing(c)) <= Completed(c) + Due(c)

\* The inductive invariant.
ReleaseInv == IInv /\ \A c \in Conns : Stash(c) /\ Handled(c) /\ Counted(c)

\* A connection can have read only so many QoS 2 messages.
LEMMA ReleasedFinite == ASSUME NEW c \in Conns PROVE IsFiniteSet(Released(c))
<1> DEFINE f == [p \in Released(c) |-> p[2]]
<1>1. \A p \in Released(c) : p \in Payload /\ p[1] = c /\ p[3] = 2
  BY DEF Released
<1>2. \A p \in Released(c) : p[2] \in 1..WillNo /\ p = <<c, p[2], 2>>
  BY <1>1, SMTT(30), Z3T(30) DEF Payload
<1>3. f \in [Released(c) -> 1..WillNo]
  BY <1>2
<1>4. \A p, q \in Released(c) : f[p] = f[q] => p = q
  BY <1>2
<1>5. f \in Injection(Released(c), 1..WillNo)
  BY <1>3, <1>4 DEF Injection, IsInjective
<1>6. IsFiniteSet(1..WillNo)
  BY FS_Interval, BoundsAssumption, SMTT(30), Z3T(30) DEF WillNo
<1> HIDE DEF f
<1> QED
  BY <1>5, <1>6, FS_Injection, SMTT(30), Z3T(30)

\* The PUBCOMPs of a queue can be counted.
LEMMA PubcompsFinite ==
  ASSUME NEW s \in Seq(Outgoing)
  PROVE  LET S == {i \in 1..Len(s) : s[i].type = "pubcomp"}
         IN IsFiniteSet(S) /\ Cardinality(S) \in Nat
<1>1. IsFiniteSet(1..Len(s))
  BY FS_Interval, SMTT(30), Z3T(30)
<1>2. IsFiniteSet({i \in 1..Len(s) : s[i].type = "pubcomp"})
  BY <1>1, FS_Subset, SMTT(30), Z3T(30)
<1> QED
  BY <1>2, FS_CardinalityType, SMTT(30), Z3T(30)

\* A sent PUBCOMP stays sent.
LEMMA CompletedGrows ==
  ASSUME TypeOK, TypeOK', MessageInHand, NEW c \in Conns, Task(c), NEW d \in Conns
  PROVE  Completed(d) \in Nat /\ Completed(d)' \in Nat /\ Completed(d) <= Completed(d)'
<1> DEFINE S == {i \in 1..Len(out[d]) : out[d][i].type = "pubcomp"}
<1>0. out[d] \in Seq(Outgoing) /\ out'[d] \in Seq(Outgoing)
  BY DEF TypeOK
<1>1. Completed(d) \in Nat /\ Completed(d)' \in Nat /\ IsFiniteSet(S')
  BY <1>0, PubcompsFinite DEF Completed
<1>2. /\ Len(out[d]) \in Nat /\ Len(out'[d]) \in Nat /\ Len(out[d]) <= Len(out'[d])
      /\ \A i \in 1..Len(out[d]) : out'[d][i] = out[d][i]
  BY <1>0, QueuesGrow, SMTT(30), Z3T(30)
<1>3. S \subseteq S'
  BY <1>2, SMTT(30), Z3T(30)
<1>4. Cardinality(S) <= Cardinality(S')
  <2> HIDE DEF S
  <2> QED
    BY <1>1, <1>3, FS_Subset, SMTT(30), Z3T(30)
<1> QED
  BY <1>1, <1>4, SMTT(30), Z3T(30) DEF Completed

\* Sending PUBCOMP counts.
LEMMA CompletesOne ==
  ASSUME TypeOK, TypeOK', NEW c \in Conns, reply[c].type = "pubcomp", Send(c, reply[c]), CanSend(c)
  PROVE  Completed(c)' = Completed(c) + 1
<1> DEFINE S == {i \in 1..Len(out[c]) : out[c][i].type = "pubcomp"}
           n == Len(out[c]) + 1
<1>0. /\ out \in [Conns -> Seq(Outgoing)] /\ reply[c] \in Outgoing
      /\ out[c] \in Seq(Outgoing) /\ Len(out[c]) \in Nat
  BY ReplyIsOutgoing, SMTT(30), Z3T(30) DEF TypeOK
<1>1. Queues(c, reply[c])
  BY <1>0, SendEffect
<1>2. IsFiniteSet(S)
  BY <1>0, PubcompsFinite
<1>3. S' = S \cup {n}
  BY <1>0, <1>1, SMTT(30), Z3T(30) DEF Queues
<1>4. n \notin S
  BY <1>0, SMTT(30), Z3T(30)
<1> HIDE DEF S, n
<1>5. Cardinality(S \cup {n}) = Cardinality(S) + 1
  BY <1>2, <1>4, FS_AddElement
<1> QED
  BY <1>3, <1>5 DEF Completed, S

\* What a step releases is the message it delivers.
LEMMA NewRelease ==
  ASSUME TypeOK, MessageInHand, NEW c \in Conns, Task(c), NEW d \in Conns, NEW p \in Released(d)'
  PROVE  p \in Released(d) \/ (PublishDeliver(c) /\ p = msg[c].payload)
<1>1. /\ p \in Payload /\ p[1] = d /\ p[2] # WillNo /\ p[3] = 2
      /\ \E e \in Conns : \E i \in Published(e)' : out'[e][i].payload = p
  BY DEF Released
<1>2. PICK e \in Conns : \E i \in Published(e)' : out'[e][i].payload = p
  BY <1>1
<1>3. PICK i \in Published(e)' : out'[e][i].payload = p
  BY <1>2
<1>4. CASE i \in Published(e) /\ out'[e][i] = out[e][i]
  BY <1>1, <1>3, <1>4 DEF Released
<1> QED
  BY <1>3, <1>4, NewPublication

\* Every step of a task keeps Handled, of itself and of the others.
LEMMA HandledStep ==
  ASSUME TypeOK, MessageInHand, NEW c \in Conns, Task(c), Stash(c), NEW d \in Conns, Handled(d)
  PROVE  Handled(d)'
<1>0. /\ pc = [x \in Conns |-> pc[x]] /\ msg = [x \in Conns |-> msg[x]]
      /\ after = [x \in Conns |-> after[x]] /\ reply = [x \in Conns |-> reply[x]]
      /\ after[c] \in {"top", "reply", "closing"}
  BY DEF TypeOK
<1>1. CASE d # c
  BY <1>1, TaskIsLocal DEF OthersUnchanged, Handled
<1>2. CASE d = c
  <2> USE <1>0, <1>2
  <2>1. CASE Still(c)
    BY <2>1 DEF Still, Handled
  <2>2. ASSUME NEW r \in Requests[c], ReadPublish(c, r) PROVE Handled(c)'
    <3> DEFINE m == [payload |-> <<c, reads[c] + 1, r.qos>>, topic |-> r.topic, qos |-> r.qos]
    <3>1. CASE r.qos < 2
      <4>1. msg'[c] = m /\ after'[c] = "top" /\ pc'[c] \in {"chain", "closing"}
        BY <2>2, <3>1, SMTT(30), Z3T(30) DEF ReadPublish, Goto, SendOrFail
      <4>2. m.payload[1] = c /\ m.payload[3] < 2
        BY <3>1
      <4> HIDE DEF m
      <4> QED
        BY <4>1, <4>2 DEF Handled
    <3>2. CASE r.qos = 2
      <4>1. msg'[c] = msg[c] /\ pc'[c] \in {"top", "closing"}
        BY <2>2, <3>2, SMTT(30), Z3T(30) DEF ReadPublish, Goto, SendOrFail
      <4> QED
        BY <4>1 DEF Handled
    <3> QED
      BY <2>2, <3>1, <3>2, SMTT(30), Z3T(30) DEF ReadPublish
  <2>3. ASSUME NEW r \in Requests[c], ReadPubrel(c, r) PROVE Handled(c)'
    <3>0. r.id \in PacketIds
      BY <2>3, RequestFields DEF ReadPubrel
    <3>1. CASE qos2[c][r.id] = None
      BY <2>3, <3>1 DEF ReadPubrel, Goto, Handled
    <3>2. CASE qos2[c][r.id] # None
      <4>1. /\ msg'[c] = qos2[c][r.id] /\ after'[c] = "reply" /\ pc'[c] = "chain"
            /\ reply'[c] = [type |-> "pubcomp", id |-> r.id]
        BY <2>3, <3>2 DEF ReadPubrel, Goto
      <4>2. msg'[c].payload[1] = c
        BY <3>0, <3>2, <4>1 DEF Stash
      <4> QED
        BY <4>1, <4>2, SMTT(30), Z3T(30) DEF Handled
    <3> QED
      BY <3>1, <3>2
  <2>4. CASE RunChain(c)
    <3>0. pc[c] = "chain" /\ after' = after /\ reply' = reply /\ msg[c] \in Message
      BY <2>4 DEF RunChain, MessageInHand, TypeOK
    <3>1. pc'[c] \in {after[c], "scan"}
      BY <2>4 DEF RunChain, Goto
    <3>2. msg'[c].payload = msg[c].payload
      <4>1. PICK o \in Chain[<<msg[c].topic, msg[c].qos>>] :
              msg' = msg \/ msg' = [msg EXCEPT ![c] = [@ EXCEPT !.topic = o[1], !.qos = o[2]]]
        BY <2>4 DEF RunChain
      <4> QED
        BY <3>0, <4>1 DEF Message
    <3>3. msg[c] # None
      BY <3>0, NoneAssumption
    <3> QED
      BY <3>0, <3>1, <3>2, <3>3 DEF Handled
  <2>5. CASE PublishScan(c)
    BY <2>5 DEF PublishScan, Goto, Handled
  <2>6. CASE PublishDeliver(c)
    BY <2>6 DEF PublishDeliver, Goto, Handled
  <2>7. CASE UnregisterRemove(c)
    <3> DEFINE e == sessions[Id(c)]
               w == [payload |-> <<e.conn, WillNo, e.will.qos>>, topic |-> e.will.topic, qos |-> e.will.qos]
    <3>1. /\ msg'[c] = w \/ msg'[c] = None
          /\ after'[c] = "closing" /\ pc'[c] \in {"closing", "unreg_wipe"}
      BY <2>7 DEF UnregisterRemove, Goto
    <3>2. w.payload[2] = WillNo
      OBVIOUS
    <3> HIDE DEF w
    <3> QED
      BY <3>1, <3>2 DEF Handled
  <2>8. CASE UnregisterWipe(c)
    <3>1. /\ pc[c] = "unreg_wipe" /\ msg' = msg /\ after' = after
          /\ pc'[c] \in {"unreg_wipe", "closing"} \/ (pc'[c] = "scan" /\ msg[c] # None)
      BY <2>8 DEF UnregisterWipe, Goto
    <3> QED
      BY <3>1 DEF Handled
  <2>9. CASE Close(c)
    BY <2>9 DEF Close, Goto, taskVars, Handled
  <2> QED
    BY <2>1, <2>2, <2>3, <2>4, <2>5, <2>6, <2>7, <2>8, <2>9, StillOrMoves DEF Moves, Teardown
<1> QED
  BY <1>1, <1>2

\* A PUBCOMP that is due is sent, or stays due.
LEMMA DueStays ==
  ASSUME TypeOK, TypeOK', MessageInHand, NEW c \in Conns, Task(c)
  PROVE  Completed(c) + Due(c) <= Completed(c)' + Due(c)'
<1>0. /\ pc = [x \in Conns |-> pc[x]]
      /\ Completed(c) \in Nat /\ Completed(c)' \in Nat /\ Completed(c) <= Completed(c)'
  BY CompletedGrows DEF TypeOK
<1>1. Due(c) \in {0, 1} /\ Due(c)' \in {0, 1}
  BY DEF Due
<1>2. CASE Due(c) = 0
  BY <1>0, <1>1, <1>2, SMTT(30), Z3T(30)
<1>3. CASE Due(c) = 1
  <2>1. reply[c].type = "pubcomp" /\ pc[c] \in {"reply", "closing", "done"}
    BY <1>3, SMTT(30), Z3T(30) DEF Due
  <2>2. SendReply(c) \/ Close(c)
    BY <2>1 DEF Task, Handshake, ConnectFails, Refuse, Accept, RegisterRemove,
       RegisterWipe, RegisterInsert, SendConnack, ReadPacket, Reads, ReadFails, ReadFatal,
       ReadDisconnect, ReadNoise, ReadPingreq, ReadAck, ReadPubrec, ReadPublish, ReadPubrel,
       ReadSubscribe, Handle, LoopTop, RunChain, PublishScan, PublishDeliver, ListStep,
       Teardown, UnregisterRemove, UnregisterWipe
  <2>3. reply' = reply
    BY <2>2 DEF SendReply, Close, taskVars
  <2>4. CASE SendReply(c) /\ CanSend(c)
    <3>1. Completed(c)' = Completed(c) + 1
      BY <2>1, <2>4, CompletesOne DEF SendReply, SendOrFail
    <3> QED
      BY <1>0, <1>1, <1>3, <3>1, SMTT(30), Z3T(30)
  <2>5. CASE Close(c) \/ ~CanSend(c)
    <3>1. pc'[c] \in {"closing", "done"}
      BY <1>0, <2>2, <2>5 DEF SendReply, SendOrFail, Close, Goto
    <3>2. Due(c)' = 1
      BY <2>1, <2>3, <3>1 DEF Due
    <3> QED
      BY <1>0, <1>3, <3>2, SMTT(30), Z3T(30)
  <2> QED
    BY <2>2, <2>4, <2>5
<1> QED
  BY <1>1, <1>2, <1>3

\* Every step of a task keeps Counted, of itself and of the others.
LEMMA CountedStep ==
  ASSUME TypeOK, TypeOK', MessageInHand, NEW c \in Conns, Task(c), Handled(c),
         NEW d \in Conns, Counted(d)
  PROVE  Counted(d)'
<1> DEFINE R == Released(d) \ Releasing(d)
           m == msg[c].payload
<1>0. /\ pc = [x \in Conns |-> pc[x]]
      /\ Completed(d) \in Nat /\ Completed(d)' \in Nat /\ Completed(d) <= Completed(d)'
  BY CompletedGrows DEF TypeOK
<1>1. Due(d) \in {0, 1} /\ Due(d)' \in {0, 1}
  BY DEF Due
<1>2. IsFiniteSet(R)
  <2>1. IsFiniteSet(Released(d)) /\ R \in SUBSET Released(d)
    BY ReleasedFinite
  <2> QED
    BY <2>1, FS_Subset, SMTT(30), Z3T(30)
<1>3. Cardinality(R) \in Nat /\ Cardinality(R) <= Completed(d) + Due(d)
  BY <1>2, FS_CardinalityType, SMTT(30), Z3T(30) DEF Counted
<1>4. ASSUME R' \subseteq R, Completed(d) + Due(d) <= Completed(d)' + Due(d)' PROVE Counted(d)'
  <2>1. Cardinality(R') \in Nat /\ Cardinality(R') <= Cardinality(R)
    <3> HIDE DEF R
    <3> QED
      BY <1>2, <1>4, FS_Subset, FS_CardinalityType, SMTT(30), Z3T(30)
  <2>2. Cardinality(R') <= Completed(d)' + Due(d)'
    <3> HIDE DEF R
    <3> QED
      BY <1>0, <1>1, <1>3, <1>4, <2>1, SMTT(30), Z3T(30)
  <2> QED
    BY <2>2, SMTT(30), Z3T(30) DEF Counted
<1>5. CASE d # c
  <2>1. /\ pc'[d] = pc[d] /\ after'[d] = after[d] /\ msg'[d] = msg[d] /\ reply'[d] = reply[d]
    BY <1>5, TaskIsLocal DEF OthersUnchanged
  <2>2. Releasing(d)' = Releasing(d) /\ Due(d)' = Due(d)
    BY <2>1 DEF Releasing, Due
  <2>3. ASSUME NEW p \in Released(d)' PROVE p \in Released(d)
    <3>1. p[1] = d /\ p[2] # WillNo
      BY DEF Released
    <3>2. PublishDeliver(c) => msg[c] # None
      BY DEF PublishDeliver, MessageInHand
    <3> QED
      BY <1>5, <3>1, <3>2, NewRelease DEF Handled
  <2>4. R' \subseteq R
    BY <2>2, <2>3
  <2> QED
    BY <1>0, <1>1, <1>4, <2>2, <2>4, SMTT(30), Z3T(30)
<1>6. CASE d = c /\ ~PublishDeliver(c)
  <2>1. pc[c] # "deliver"
    BY <1>6 DEF Task, Handshake, ConnectFails, Refuse, Accept, RegisterRemove,
       RegisterWipe, RegisterInsert, SendConnack, ReadPacket, Reads, ReadFails, ReadFatal,
       ReadDisconnect, ReadNoise, ReadPingreq, ReadAck, ReadPubrec, ReadPublish, ReadPubrel,
       ReadSubscribe, Handle, LoopTop, RunChain, PublishScan, ListStep, SendReply,
       Teardown, UnregisterRemove, UnregisterWipe, Close
  <2>2. Releasing(d) = {}
    BY <1>6, <2>1 DEF Releasing
  <2>3. Released(d)' \subseteq Released(d)
    BY <1>6, NewRelease
  <2>4. R' \subseteq R
    BY <2>2, <2>3
  <2> QED
    BY <1>4, <1>6, <2>4, DueStays
<1>7. CASE d = c /\ PublishDeliver(c)
  <2>0. /\ pc[c] = "deliver" /\ msg' = msg /\ after' = after /\ reply' = reply
        /\ pc'[c] = "deliver" \/ pc'[c] = after[c]
    BY <1>0, <1>7 DEF PublishDeliver, Goto
  <2>1. Released(d)' \subseteq Released(d) \cup {m}
    BY NewRelease
  <2>2. Due(d) = 0
    BY <1>7, <2>0 DEF Due
  <2>3. Completed(d) + Due(d) <= Completed(d)' + Due(d)'
    BY <1>0, <1>1, <2>2, SMTT(30), Z3T(30)
  <2>4. CASE after[c] # "reply"
    <3>1. \A p \in Released(d)' : p # m
      <4>1. m[3] < 2 \/ m[2] = WillNo
        BY <2>0, <2>4 DEF Handled
      <4>2. \A p \in Released(d)' : p[2] # WillNo /\ p[3] = 2
        BY DEF Released
      <4> QED
        BY <4>1, <4>2, SMTT(30), Z3T(30)
    <3>2. Releasing(d)' = {} /\ Releasing(d) = {}
      BY <1>7, <2>0, <2>4 DEF Releasing
    <3>3. R' \subseteq R
      BY <2>1, <3>1, <3>2
    <3> QED
      BY <1>4, <2>3, <3>3
  <2>5. CASE after[c] = "reply" /\ pc'[c] = "deliver"
    <3>1. Releasing(d)' = {m} /\ Releasing(d) = {m}
      BY <1>7, <2>0, <2>5 DEF Releasing
    <3>2. R' \subseteq R
      BY <2>1, <3>1
    <3> QED
      BY <1>4, <2>3, <3>2
  <2>6. CASE after[c] = "reply" /\ pc'[c] = "reply"
    <3>1. Releasing(d)' = {} /\ Releasing(d) = {m}
      BY <1>7, <2>0, <2>6 DEF Releasing
    <3>2. Due(d)' = 1
      BY <1>7, <2>0, <2>6 DEF Due, Handled
    <3>3. R' \in SUBSET (R \cup {m})
      BY <2>1, <3>1
    <3> HIDE DEF R, m
    <3>4. IsFiniteSet(R \cup {m}) /\ Cardinality(R \cup {m}) <= Cardinality(R) + 1
      <4>1. /\ IsFiniteSet(R \cup {m})
            /\ Cardinality(R \cup {m}) = IF m \in R THEN Cardinality(R) ELSE Cardinality(R) + 1
        BY <1>2, FS_AddElement, SMTT(30), Z3T(30)
      <4> QED
        BY <1>3, <4>1, SMTT(30), Z3T(30)
    <3>5. Cardinality(R') <= Cardinality(R \cup {m}) /\ Cardinality(R') \in Nat
          /\ Cardinality(R \cup {m}) \in Nat
      BY <3>3, <3>4, FS_Subset, FS_CardinalityType, SMTT(30), Z3T(30)
    <3>6. Cardinality(R') <= Completed(d)' + Due(d)'
      BY <1>0, <1>3, <2>2, <3>2, <3>4, <3>5, SMTT(30), Z3T(30)
    <3> QED
      BY <3>6, SMTT(30), Z3T(30) DEF Counted, R
  <2> QED
    BY <2>0, <2>4, <2>5, <2>6
<1> QED
  BY <1>5, <1>6, <1>7

\* Nothing is stashed, in hand or released at first.
LEMMA InitRelease == Init => ReleaseInv
<1> SUFFICES ASSUME Init PROVE ReleaseInv
  OBVIOUS
<1>0. IInv /\ TypeOK
  BY InitIInv DEF IInv
<1> SUFFICES ASSUME NEW c \in Conns PROVE Stash(c) /\ Handled(c) /\ Counted(c)
  BY <1>0 DEF ReleaseInv
<1>1. Stash(c) /\ Handled(c)
  BY DEF Init, Stash, Handled
<1>2. Released(c) \ Releasing(c) = {}
  <2>1. \A d \in Conns : Published(d) = {}
    BY SMTT(30), Z3T(30) DEF Init, Published
  <2>2. Released(c) = {}
    BY <2>1 DEF Released
  <2> QED
    BY <2>2
<1>3. Completed(c) \in Nat /\ Due(c) \in {0, 1}
  BY <1>0, PubcompsFinite DEF TypeOK, Due, Completed
<1>4. Counted(c)
  BY <1>2, <1>3, FS_EmptySet, SMTT(30), Z3T(30) DEF Counted
<1> QED
  BY <1>1, <1>4

\* Every step keeps the invariant.
LEMMA StepRelease == ReleaseInv /\ [Next]_vars => ReleaseInv'
<1> SUFFICES ASSUME ReleaseInv, [Next]_vars PROVE ReleaseInv'
  OBVIOUS
<1>0. IInv' /\ TypeOK' /\ TypeOK /\ MessageInHand
  BY StepIInv DEF ReleaseInv, IInv
<1>1. ASSUME NEW c \in Conns, Task(c) PROVE ReleaseInv'
  <2>1. ASSUME NEW d \in Conns PROVE Stash(d)'
    <3>1. CASE d = c
      BY <1>0, <1>1, <3>1, StashStep DEF ReleaseInv
    <3>2. CASE d # c
      <4>1. qos2'[d] = qos2[d] /\ reads'[d] = reads[d]
        BY <1>0, <1>1, <3>2, TaskIsLocal DEF OthersUnchanged
      <4>2. Stash(d)
        BY DEF ReleaseInv
      <4> QED
        BY <4>1, <4>2 DEF Stash
    <3> QED
      BY <3>1, <3>2
  <2>2. ASSUME NEW d \in Conns PROVE Handled(d)' /\ Counted(d)'
    BY <1>0, <1>1, HandledStep, CountedStep DEF ReleaseInv
  <2> QED
    BY <1>0, <2>1, <2>2 DEF ReleaseInv
<1>2. CASE ~ \E c \in Conns : Task(c)
  <2>1. UNCHANGED <<pc, taskVars, qos2, out>>
    BY <1>2 DEF Next, Terminated, WriterExits, WriterGone, vars, chanVars
  <2>2. UNCHANGED <<pc, reads, msg, after, reply, qos2, out>>
    BY <2>1 DEF taskVars
  <2>3. ASSUME NEW d \in Conns PROVE Stash(d)' /\ Handled(d)' /\ Counted(d)'
    <3>1. Stash(d)' /\ Handled(d)'
      BY <2>2 DEF ReleaseInv, Stash, Handled
    <3>2. Released(d)' = Released(d) /\ Releasing(d)' = Releasing(d)
      BY <2>2 DEF Released, Releasing, Published
    <3>3. Completed(d)' = Completed(d) /\ Due(d)' = Due(d)
      BY <2>2 DEF Completed, Due
    <3> QED
      BY <3>1, <3>2, <3>3 DEF ReleaseInv, Counted
  <2> QED
    BY <1>0, <2>3 DEF ReleaseInv
<1> QED
  BY <1>1, <1>2

\* No handshake releases two QoS 2 messages: whatever ids are shared, packets are
\* repeated and sends fail, the messages of a connection that subscribers have
\* been sent are at most as many as its PUBCOMPs, one being due.
THEOREM ReleasedOnce == Spec => []OneReleasePerHandshake
<1>1. ASSUME ReleaseInv, NEW c \in Conns
      PROVE  Cardinality(Released(c)) <=
               Completed(c) + (IF reply[c].type = "pubcomp"
                                    /\ pc[c] \in {"deliver", "reply", "closing", "done"}
                               THEN 1 ELSE 0)
  <2>0. /\ TypeOK /\ Handled(c) /\ Counted(c) /\ IsFiniteSet(Released(c))
        /\ Cardinality(Released(c)) \in Nat
    BY <1>1, ReleasedFinite, FS_CardinalityType, SMTT(30), Z3T(30) DEF ReleaseInv, IInv
  <2>1. Completed(c) \in Nat
    BY <2>0, PubcompsFinite DEF TypeOK, Completed
  <2>2. CASE pc[c] = "deliver" /\ after[c] = "reply"
    <3>1. Cardinality(Released(c)) <= Cardinality(Released(c) \ {msg[c].payload}) + 1
          /\ Cardinality(Released(c) \ {msg[c].payload}) \in Int
      BY <2>0, FS_RemoveElement, SMTT(30), Z3T(30)
    <3>2. Cardinality(Released(c) \ {msg[c].payload}) <= Completed(c)
      BY <2>0, <2>1, <2>2, SMTT(30), Z3T(30) DEF Counted, Releasing, Due
    <3>3. reply[c].type = "pubcomp"
      BY <2>0, <2>2 DEF Handled
    <3> PICK k, l, n : /\ k = Cardinality(Released(c)) /\ n = Completed(c)
                       /\ l = Cardinality(Released(c) \ {msg[c].payload})
      OBVIOUS
    <3>4. k <= n + 1
      BY <2>0, <2>1, <3>1, <3>2, SMTT(30), Z3T(30)
    <3> QED
      BY <2>2, <3>3, <3>4
  <2>3. CASE ~(pc[c] = "deliver" /\ after[c] = "reply")
    <3>1. Releasing(c) = {}
      BY <2>3 DEF Releasing
    <3>2. Released(c) \ Releasing(c) = Released(c)
      BY <3>1
    <3>3. Cardinality(Released(c)) <= Completed(c) + Due(c)
      BY <2>0, <3>2, SMTT(30), Z3T(30) DEF Counted
    <3> QED
      BY <2>0, <2>1, <3>3, SMTT(30), Z3T(30) DEF Due
  <2> QED
    BY <2>2, <2>3
<1>2. ReleaseInv => OneReleasePerHandshake
  BY <1>1, SMTT(30), Z3T(30) DEF OneReleasePerHandshake
<1> QED
  BY <1>2, InitRelease, StepRelease, PTL DEF Spec

-----------------------------------------------------------------------------
(* A publication reaches a client at most once per matching filter.        *)

\* The publications with payload p queued on connection d.
Copies(d, p) == {j \in Published(d) : out[d][j].payload = p}

\* The filters a topic matches.
Takers(t) == {f \in Filters : t \in Matching[f]}

\* The filters under which task c has yet to deliver to d's client.
Wanted(c, d) == {f \in Filters : \E q \in QoS : <<f, Id(d), q>> \in hits[c]}

\* Task c has a message to fan out.
InHand(c) == pc[c] \in {"chain", "scan", "deliver"} \/ (pc[c] = "unreg_wipe" /\ msg[c] # None)

\* Some client has been sent payload p.
Sent(p) == \E d \in Conns : \E i \in Published(d) : out[d][i].payload = p

\* Payload p has left the stash or the session entry it was kept in.
Begun(p) == Sent(p) \/ \E c \in Conns : InHand(c) /\ msg[c].payload = p

\* A message comes after the ones its publisher has sent so far.
Known == \A p \in Payload : Begun(p) /\ p[2] # WillNo => p[2] <= reads[p[1]]

\* A stashed message is the only one with its payload.
StashKept ==
  \A c \in Conns, n \in PacketIds, p \in Payload :
    qos2[c][n] # None /\ qos2[c][n].payload = p =>
      /\ ~Begun(p)
      /\ \A m \in PacketIds \ {n} : qos2[c][m] # None => qos2[c][m].payload # p

\* A Will that is published has left the map, and its connection does not register again.
WillKept ==
  \A p \in Payload : Begun(p) /\ p[2] = WillNo =>
    /\ pc[p[1]] \notin Early
    /\ \A id \in ClientIds : sessions[id] # None => sessions[id].conn # p[1]

\* No two tasks fan the same message out.
OneHand ==
  \A c, d \in Conns : c # d /\ InHand(c) /\ InHand(d) => msg[c].payload # msg[d].payload

\* A message is sent to nobody before matching() has gone through the tree.
HandUnsent == \A c \in Conns : InHand(c) /\ pc[c] # "deliver" => ~Sent(msg[c].payload)

\* matching() collects one QoS per matching filter and client.
HitsFit(c) ==
  pc[c] \in {"scan", "deliver"} => \A h \in hits[c] :
    /\ msg[c].topic \in Matching[h[1]]
    /\ pc[c] = "scan" => h[1] \notin todo[c]
    /\ \A g \in hits[c] : g[1] = h[1] /\ g[2] = h[2] => g = h

\* The copies of c's message that d has been sent and those it may still be sent
\* are no more than the filters the topic matches.
Fits(c, d) ==
  /\ \A i \in Copies(d, msg[c].payload) : out[d][i].topic = msg[c].topic
  /\ Cardinality(Copies(d, msg[c].payload)) + Cardinality(Wanted(c, d))
       <= Cardinality(Takers(msg[c].topic))

\* A client that has not registered is sent nothing.
NoneEarly == \A d \in Conns : pc[d] \in Early => Published(d) = {}

\* Where a message comes from, its freshness and the places it is in.
Single == Owned /\ NoneEarly /\ Known /\ StashKept /\ WillKept /\ OneHand /\ HandUnsent

\* The inductive invariant.
CopiesInv ==
  /\ ReleaseInv /\ Single
  /\ \A c \in Conns : HitsFit(c) /\ (pc[c] = "deliver" => \A d \in Conns : Fits(c, d))
  /\ CopiesBounded

\* What is published stays published.
LEMMA OldPublication ==
  ASSUME TypeOK, TypeOK', MessageInHand, NEW c \in Conns, Task(c), NEW d \in Conns, NEW i \in Published(d)
  PROVE  i \in Published(d)' /\ out'[d][i] = out[d][i]
<1>0. out[d] \in Seq(Outgoing) /\ out'[d] \in Seq(Outgoing)
  BY DEF TypeOK
<1>a. Len(out[d]) \in Nat /\ Len(out'[d]) \in Nat
  BY <1>0, SMTT(30), Z3T(30)
<1>1. Len(out[d]) <= Len(out'[d]) /\ \A j \in 1..Len(out[d]) : out'[d][j] = out[d][j]
  BY QueuesGrow
<1>2. i \in 1..Len(out[d]) /\ out[d][i].type = "publish"
  BY DEF Published
<1>3. i \in 1..Len(out'[d])
  BY <1>a, <1>1, <1>2, SMTT(30), Z3T(30)
<1> QED
  BY <1>1, <1>2, <1>3 DEF Published

\* Only the delivery of a message makes copies of it.
LEMMA KeptCopies ==
  ASSUME TypeOK, TypeOK', MessageInHand, NEW c \in Conns, Task(c), NEW d \in Conns, NEW p,
         ~(PublishDeliver(c) /\ msg[c].payload = p)
  PROVE  Copies(d, p)' = Copies(d, p) /\ \A i \in Copies(d, p) : out'[d][i] = out[d][i]
<1>1. ASSUME NEW i \in Published(d) PROVE i \in Published(d)' /\ out'[d][i] = out[d][i]
  BY OldPublication
<1>2. ASSUME NEW i \in Published(d)', out'[d][i].payload = p
      PROVE  i \in Published(d) /\ out[d][i].payload = p
  BY <1>2, NewPublication
<1> QED
  BY <1>1, <1>2 DEF Copies

\* The same, for all clients at once.
LEMMA SentStep ==
  ASSUME TypeOK, MessageInHand, NEW c \in Conns, Task(c), NEW p, Sent(p)'
  PROVE  Sent(p) \/ (PublishDeliver(c) /\ msg[c].payload = p)
<1>1. PICK d \in Conns : \E i \in Published(d)' : out'[d][i].payload = p
  BY DEF Sent
<1>2. PICK i \in Published(d)' : out'[d][i].payload = p
  BY <1>1
<1>3. \/ i \in Published(d) /\ out[d][i].payload = p
      \/ PublishDeliver(c) /\ msg[c].payload = p
  BY <1>2, NewPublication
<1> QED
  BY <1>3 DEF Sent

\* Task c takes up the message with payload p: the one it has just read, one of
\* its stash, or the Will of the entry it removes.
TakesUp(c, p) ==
  /\ ~InHand(c) /\ pc[c] # "deliver" /\ pc'[c] # "deliver" /\ p \in Payload
  /\ \/ /\ p[1] = c /\ p[2] = reads[c] + 1 /\ p[2] # WillNo
        /\ reads'[c] = reads[c] + 1 /\ qos2' = qos2
     \/ \E n \in PacketIds : /\ qos2[c][n] # None /\ p = qos2[c][n].payload
                             /\ qos2' = [qos2 EXCEPT ![c][n] = None]
     \/ /\ sessions[Id(c)] # None /\ p[1] = sessions[Id(c)].conn /\ p[2] = WillNo
        /\ sessions' = [sessions EXCEPT ![Id(c)] = None] /\ qos2' = qos2

\* A task that has a message to fan out had it before, or takes it up.
LEMMA KeepsOrTakes ==
  ASSUME TypeOK, TypeOK', MessageInHand, MessageInHand', NEW c \in Conns, Task(c), InHand(c)'
  PROVE  \/ /\ InHand(c) /\ msg'[c].payload = msg[c].payload
            /\ pc[c] = "deliver" => pc'[c] = "deliver"
         \/ TakesUp(c, msg'[c].payload)
<1>0. /\ pc = [x \in Conns |-> pc[x]] /\ msg = [x \in Conns |-> msg[x]]
      /\ after[c] \in {"top", "reply", "closing"}
      /\ pc'[c] \in {"chain", "scan", "deliver", "unreg_wipe"}
  BY DEF TypeOK, InHand
<1>1. CASE Still(c)
  BY <1>0, <1>1 DEF Still
<1>p. msg'[c] # None /\ msg'[c].payload \in Payload
  <2>1. msg'[c] # None
    BY <1>0 DEF InHand, MessageInHand
  <2>2. msg'[c] \in Message \cup {None}
    BY DEF TypeOK
  <2> QED
    BY <2>1, <2>2 DEF Message
<1>2. ASSUME NEW r \in Requests[c], ReadPublish(c, r) PROVE TakesUp(c, msg'[c].payload)
  <2> DEFINE m == [payload |-> <<c, reads[c] + 1, r.qos>>, topic |-> r.topic, qos |-> r.qos]
  <2>1. pc[c] = "read" /\ reads[c] \in 0..MaxReads /\ reads[c] < MaxReads /\ reads'[c] = reads[c] + 1
    BY <1>2 DEF ReadPublish, Reads, TypeOK
  <2>2. CASE r.qos = 2
    <3>1. pc'[c] \in {"top", "closing"}
      BY <1>0, <1>2, <2>2, SMTT(30), Z3T(30) DEF ReadPublish, Goto, SendOrFail
    <3> QED
      BY <1>0, <3>1
  <2>3. CASE r.qos \in {0, 1}
    <3>1. msg' = [msg EXCEPT ![c] = m] /\ pc'[c] \in {"chain", "closing"} /\ qos2' = qos2
      BY <1>0, <1>2, <2>3, SMTT(30), Z3T(30) DEF ReadPublish, Goto, SendOrFail
    <3>2. msg'[c] = m /\ pc'[c] = "chain"
      BY <1>0, <3>1
    <3>3. m.payload[1] = c /\ m.payload[2] = reads[c] + 1
      OBVIOUS
    <3>4. reads[c] + 1 # WillNo
      BY <2>1, BoundsAssumption, SMTT(30), Z3T(30) DEF WillNo
    <3> HIDE DEF m
    <3> QED
      BY <1>p, <2>1, <3>1, <3>2, <3>3, <3>4 DEF TakesUp, InHand
  <2> QED
    BY <1>2, <2>2, <2>3 DEF ReadPublish
<1>3. ASSUME NEW r \in Requests[c], ReadPubrel(c, r) PROVE TakesUp(c, msg'[c].payload)
  <2>0. r.id \in PacketIds /\ pc[c] = "read"
    BY <1>3, RequestFields DEF ReadPubrel, Reads
  <2>1. qos2[c][r.id] # None
    BY <1>0, <1>3 DEF ReadPubrel, Goto
  <2>2. /\ msg'[c] = qos2[c][r.id] /\ pc'[c] = "chain"
        /\ qos2' = [qos2 EXCEPT ![c][r.id] = None]
    BY <1>0, <1>3, <2>1 DEF ReadPubrel, Goto
  <2> QED
    BY <1>p, <2>0, <2>1, <2>2 DEF TakesUp, InHand
<1>4. CASE RunChain(c)
  <2>1. pc[c] = "chain" /\ msg[c] \in Message
    BY <1>4 DEF RunChain, MessageInHand, TypeOK
  <2>2. PICK o \in Chain[<<msg[c].topic, msg[c].qos>>] :
          msg' = msg \/ msg' = [msg EXCEPT ![c] = [@ EXCEPT !.topic = o[1], !.qos = o[2]]]
    BY <1>4 DEF RunChain
  <2>3. msg'[c].payload = msg[c].payload
    BY <1>0, <2>1, <2>2 DEF Message
  <2> QED
    BY <2>1, <2>3 DEF InHand
<1>5. CASE PublishScan(c)
  BY <1>5 DEF PublishScan, InHand
<1>6. CASE PublishDeliver(c)
  <2>1. pc[c] = "deliver" /\ msg' = msg /\ pc'[c] \in {after[c], "deliver"}
    BY <1>0, <1>6 DEF PublishDeliver, Goto
  <2> QED
    BY <1>0, <2>1 DEF InHand
<1>7. CASE UnregisterRemove(c)
  <2> DEFINE e == sessions[Id(c)]
             w == [payload |-> <<e.conn, WillNo, e.will.qos>>, topic |-> e.will.topic, qos |-> e.will.qos]
  <2>1. /\ pc[c] = "unreg_remove" /\ sessions' = [sessions EXCEPT ![Id(c)] = None]
        /\ qos2' = qos2
        /\ pc'[c] = IF e = None THEN "closing" ELSE "unreg_wipe"
        /\ msg'[c] = w \/ msg'[c] = None
    BY <1>0, <1>7 DEF UnregisterRemove, Goto, chanVars
  <2>2. e # None /\ pc'[c] = "unreg_wipe"
    BY <1>0, <2>1
  <2>3. w.payload[1] = e.conn /\ w.payload[2] = WillNo
    OBVIOUS
  <2> HIDE DEF w
  <2> QED
    BY <1>p, <2>1, <2>2, <2>3 DEF TakesUp, InHand
<1>8. CASE UnregisterWipe(c)
  <2>1. pc[c] = "unreg_wipe" /\ msg' = msg /\ (pc'[c] = "scan" => msg[c] # None)
        /\ pc'[c] \in {"unreg_wipe", "closing", "scan"}
    BY <1>0, <1>8 DEF UnregisterWipe, Goto
  <2> QED
    BY <1>0, <2>1 DEF InHand
<1>9. CASE Close(c)
  BY <1>0, <1>9 DEF Close, Goto
<1> QED
  <2>1. \/ Still(c) \/ (\E r \in Requests[c] : ReadPublish(c, r) \/ ReadPubrel(c, r))
        \/ RunChain(c) \/ PublishScan(c) \/ PublishDeliver(c)
        \/ UnregisterRemove(c) \/ UnregisterWipe(c) \/ Close(c)
    BY StillOrMoves DEF Moves, Teardown
  <2> QED
    BY <1>1, <1>2, <1>3, <1>4, <1>5, <1>6, <1>7, <1>8, <1>9, <2>1

\* A message is begun by the task that takes it up.
LEMMA BegunStep ==
  ASSUME TypeOK, TypeOK', MessageInHand, MessageInHand', NEW c \in Conns, Task(c), NEW p, Begun(p)'
  PROVE  Begun(p) \/ (TakesUp(c, p) /\ InHand(c)')
<1>1. CASE Sent(p)'
  <2>1. PublishDeliver(c) => InHand(c)
    BY DEF PublishDeliver, InHand
  <2> QED
    BY <1>1, <2>1, SentStep DEF Begun
<1>2. ASSUME NEW d \in Conns, InHand(d)', msg'[d].payload = p
      PROVE  Begun(p) \/ (TakesUp(c, p) /\ InHand(c)')
  <2>1. CASE d = c
    BY <1>2, <2>1, KeepsOrTakes DEF Begun
  <2>2. CASE d # c
    <3>1. pc'[d] = pc[d] /\ msg'[d] = msg[d]
      BY <2>2, TaskIsLocal DEF OthersUnchanged
    <3>2. InHand(d) /\ msg[d].payload = p
      BY <1>2, <3>1 DEF InHand
    <3> QED
      BY <3>2 DEF Begun
  <2> QED
    BY <2>1, <2>2
<1> QED
  BY <1>1, <1>2 DEF Begun

\* What is stashed for a connection is a message, and no Will.
LEMMA StashedPayload ==
  ASSUME TypeOK, NEW c \in Conns, Stash(c), NEW n \in PacketIds, qos2[c][n] # None
  PROVE  LET p == qos2[c][n].payload
         IN p \in Payload /\ p[1] = c /\ p[2] \in Int /\ p[2] <= reads[c] /\ p[2] # WillNo
<1>1. qos2[c][n] \in Message
  <2>1. qos2 \in [Conns -> [PacketIds -> Message \cup {None}]]
    BY DEF TypeOK
  <2>2. qos2[c] \in [PacketIds -> Message \cup {None}]
    BY <2>1
  <2>3. qos2[c][n] \in Message \cup {None}
    BY <2>2
  <2> QED
    BY <2>3
<1>2. /\ qos2[c][n].payload \in Payload /\ qos2[c][n].payload[2] \in 1..WillNo
      /\ reads[c] \in 0..MaxReads
  BY <1>1, PayloadFields DEF Message, TypeOK
<1>3. qos2[c][n].payload[1] = c /\ qos2[c][n].payload[2] <= reads[c]
  BY DEF Stash
<1>4. qos2[c][n].payload[2] \in Int /\ qos2[c][n].payload[2] # WillNo
  BY <1>2, <1>3, BoundsAssumption, SMTT(30), Z3T(30) DEF WillNo
<1> QED
  BY <1>2, <1>3, <1>4

\* A message is taken up once.
LEMMA TakenIsNew ==
  ASSUME TypeOK, NEW c \in Conns, NEW p, TakesUp(c, p), Known, StashKept, WillKept
  PROVE  ~Begun(p)
<1>0. p \in Payload
  BY DEF TakesUp
<1>1. CASE p[1] = c /\ p[2] = reads[c] + 1 /\ p[2] # WillNo
  <2>1. Begun(p) => p[2] <= reads[c]
    BY <1>0, <1>1 DEF Known
  <2>2. reads[c] \in Nat
    BY SMTT(30), Z3T(30) DEF TypeOK
  <2> QED
    BY <1>1, <2>1, <2>2, SMTT(30), Z3T(30)
<1>2. CASE \E n \in PacketIds : qos2[c][n] # None /\ p = qos2[c][n].payload
  BY <1>0, <1>2 DEF StashKept
<1>3. CASE sessions[Id(c)] # None /\ p[1] = sessions[Id(c)].conn /\ p[2] = WillNo
  <2>1. Id(c) \in ClientIds
    BY DEF TypeOK, Id
  <2> QED
    BY <1>0, <1>3, <2>1 DEF WillKept
<1> QED
  BY <1>1, <1>2, <1>3 DEF TakesUp

\* Every step of a task keeps Known.
LEMMA KnownStep ==
  ASSUME TypeOK, TypeOK', MessageInHand, MessageInHand', NEW c \in Conns, Task(c), Stash(c), Known
  PROVE  Known'
<1> SUFFICES ASSUME NEW p \in Payload, Begun(p)', p[2] # WillNo PROVE p[2] <= reads'[p[1]]
  BY DEF Known
<1>0. p[1] \in Conns /\ p[2] \in 1..WillNo
  BY DEF Payload
<1>1. /\ reads[p[1]] \in 0..MaxReads /\ reads'[p[1]] \in {reads[p[1]], reads[p[1]] + 1}
  BY <1>0, ReadsGrow
<1>2. CASE Begun(p)
  <2>1. p[2] <= reads[p[1]]
    BY <1>2 DEF Known
  <2> QED
    BY <1>0, <1>1, <2>1, BoundsAssumption, SMTT(30), Z3T(30) DEF WillNo
<1>3. CASE TakesUp(c, p)
  <2>1. CASE p[1] = c /\ p[2] = reads[c] + 1 /\ reads'[c] = reads[c] + 1
    <3>1. p[2] = reads'[p[1]]
      BY <2>1
    <3> QED
      BY <1>0, <3>1, BoundsAssumption, SMTT(30), Z3T(30) DEF WillNo
  <2>2. CASE \E n \in PacketIds : qos2[c][n] # None /\ p = qos2[c][n].payload
    <3>1. p[1] = c /\ p[2] <= reads[c]
      BY <2>2, StashedPayload
    <3> QED
      BY <1>0, <1>1, <3>1, BoundsAssumption, SMTT(30), Z3T(30) DEF WillNo
  <2> QED
    BY <1>3, <2>1, <2>2 DEF TakesUp
<1> QED
  BY <1>2, <1>3, BegunStep

\* A message is added to the stash only as it is read.
LEMMA NewInStash ==
  ASSUME TypeOK, NEW c \in Conns, Task(c), NEW n \in PacketIds, qos2'[c][n] # None
  PROVE  \/ qos2'[c][n] = qos2[c][n]
         \/ /\ qos2'[c][n].payload = <<c, reads[c] + 1, 2>> /\ pc'[c] \in {"top", "closing"}
            /\ pc[c] = "read" /\ reads[c] + 1 \in 1..MaxReads
            /\ \A m \in PacketIds \ {n} : qos2'[c][m] = qos2[c][m]
<1>0. qos2 \in [Conns -> [PacketIds -> Message \cup {None}]] /\ pc = [x \in Conns |-> pc[x]]
  BY DEF TypeOK
<1>1. CASE UNCHANGED qos2
  BY <1>1
<1>2. CASE Close(c)
  BY <1>0, <1>2 DEF Close
<1>3. CASE \E j \in PacketIds : qos2' = [qos2 EXCEPT ![c][j] = None]
  BY <1>0, <1>3
<1>4. ASSUME NEW r \in Requests[c], ReadPublish(c, r), r.qos = 2
      PROVE  \/ qos2'[c][n] = qos2[c][n]
             \/ /\ qos2'[c][n].payload = <<c, reads[c] + 1, 2>>
                /\ pc'[c] \in {"top", "closing"}
                /\ pc[c] = "read" /\ reads[c] + 1 \in 1..MaxReads
                /\ \A m \in PacketIds \ {n} : qos2'[c][m] = qos2[c][m]
  <2> DEFINE m0 == [payload |-> <<c, reads[c] + 1, r.qos>>, topic |-> r.topic, qos |-> r.qos]
  <2>0. pc'[c] \in {"top", "closing"} /\ pc[c] = "read"
    <3>1. SendOrFail(c, [type |-> "pubrec", id |-> r.id], "top") /\ pc[c] = "read"
      BY <1>4, SMTT(30), Z3T(30) DEF ReadPublish, Reads
    <3> QED
      BY <1>0, <3>1 DEF SendOrFail, Goto
  <2>1. qos2' = [qos2 EXCEPT ![c][r.id] = m0]
    BY <1>4, SMTT(30), Z3T(30) DEF ReadPublish
  <2>2. r.id \in PacketIds
    BY <1>4, RequestFields DEF ReadPublish
  <2>3. reads[c] + 1 \in 1..MaxReads
    BY <1>4, BoundsAssumption, SMTT(30), Z3T(30) DEF ReadPublish, Reads, TypeOK
  <2>4. m0.payload = <<c, reads[c] + 1, 2>>
    BY <1>4
  <2> HIDE DEF m0
  <2>5. \A m \in PacketIds : qos2'[c][m] = IF m = r.id THEN m0 ELSE qos2[c][m]
    BY <1>0, <2>1, <2>2
  <2>6. CASE n = r.id
    BY <2>0, <2>3, <2>4, <2>5, <2>6
  <2>7. CASE n # r.id
    BY <2>5, <2>7
  <2> QED
    BY <2>6, <2>7
<1> QED
  BY <1>1, <1>2, <1>3, <1>4, StashEffect DEF StashChange

\* Every step of a task keeps StashKept.
LEMMA StashKeptStep ==
  ASSUME TypeOK, TypeOK', MessageInHand, MessageInHand', NEW c \in Conns, Task(c),
         \A d \in Conns : Stash(d), Known, StashKept
  PROVE  StashKept'
<1> SUFFICES ASSUME NEW d \in Conns, NEW n \in PacketIds, NEW p \in Payload,
                    qos2'[d][n] # None, qos2'[d][n].payload = p
             PROVE  /\ ~Begun(p)'
                    /\ \A m \in PacketIds \ {n} :
                         qos2'[d][m] # None => qos2'[d][m].payload # p
  BY DEF StashKept
<1>0. /\ qos2 \in [Conns -> [PacketIds -> Message \cup {None}]] /\ reads[c] \in 0..MaxReads
      /\ pc = [x \in Conns |-> pc[x]]
  BY DEF TypeOK
<1>1. CASE qos2'[d][n] = qos2[d][n]
  <2>0. /\ p[1] = d /\ p[2] \in Int /\ p[2] <= reads[d] /\ p[2] # WillNo
        /\ qos2[d][n] # None /\ qos2[d][n].payload = p
    <3>1. qos2[d][n] # None /\ qos2[d][n].payload = p /\ Stash(d)
      BY <1>1
    <3>2. qos2[d][n].payload[1] = d
      BY <3>1, StashedPayload
    <3>3. /\ qos2[d][n].payload[2] \in Int /\ qos2[d][n].payload[2] <= reads[d]
          /\ qos2[d][n].payload[2] # WillNo
      BY <3>1, StashedPayload
    <3> QED
      BY <3>1, <3>2, <3>3
  <2>a. /\ ~Begun(p)
        /\ \A m \in PacketIds \ {n} : qos2[d][m] # None => qos2[d][m].payload # p
    BY <2>0 DEF StashKept
  <2>1. ASSUME TakesUp(c, p) PROVE FALSE
    <3>1. CASE p[1] = c /\ p[2] = reads[c] + 1
      BY <1>0, <2>0, <3>1, BoundsAssumption, SMTT(30), Z3T(30)
    <3>2. CASE \E k \in PacketIds : /\ qos2[c][k] # None /\ p = qos2[c][k].payload
                                    /\ qos2' = [qos2 EXCEPT ![c][k] = None]
      <4>1. PICK k \in PacketIds : /\ qos2[c][k] # None /\ p = qos2[c][k].payload
                                   /\ qos2' = [qos2 EXCEPT ![c][k] = None]
        BY <3>2
      <4>2. p[1] = c
        BY <4>1, StashedPayload
      <4>3. d = c
        BY <2>0, <4>2
      <4>4. n # k
        BY <1>0, <4>1, <4>3
      <4> QED
        BY <2>a, <4>1, <4>3, <4>4
    <3> QED
      BY <2>0, <2>1, <3>1, <3>2 DEF TakesUp
  <2>2. ~Begun(p)'
    BY <2>1, <2>a, BegunStep
  <2>3. ASSUME NEW m \in PacketIds \ {n}, qos2'[d][m] # None
        PROVE  qos2'[d][m].payload # p
    <3>1. CASE qos2'[d][m] = qos2[d][m]
      BY <2>3, <2>a, <3>1
    <3>2. CASE d = c /\ qos2'[c][m].payload = <<c, reads[c] + 1, 2>>
      <4>1. qos2'[d][m].payload[2] = reads[c] + 1
        BY <3>2, SMTT(30), Z3T(30)
      <4>2. p[2] # reads[c] + 1
        BY <1>0, <2>0, <3>2, BoundsAssumption, SMTT(30), Z3T(30)
      <4> QED
        BY <4>1, <4>2
    <3>3. d # c => qos2'[d] = qos2[d]
      BY TaskIsLocal DEF OthersUnchanged
    <3>4. CASE d = c
      <4>1. qos2'[c][m] # None /\ m \in PacketIds
        BY <2>3, <3>4
      <4>2. qos2'[c][m] = qos2[c][m] \/ qos2'[c][m].payload = <<c, reads[c] + 1, 2>>
        BY <4>1, NewInStash, SMTT(30), Z3T(30)
      <4> QED
        BY <3>1, <3>2, <3>4, <4>2
    <3> QED
      BY <3>1, <3>3, <3>4
  <2> QED
    BY <2>2, <2>3
<1>2. CASE qos2'[d][n] # qos2[d][n]
  <2>0. d = c
    BY <1>2, TaskIsLocal DEF OthersUnchanged
  <2>1. /\ p = <<c, reads[c] + 1, 2>> /\ pc'[c] \in {"top", "closing"} /\ pc[c] = "read"
        /\ reads[c] + 1 \in 1..MaxReads
        /\ \A m \in PacketIds \ {n} : qos2'[c][m] = qos2[c][m]
    BY <1>2, <2>0, NewInStash
  <2>2. p[1] = c /\ p[2] = reads[c] + 1
    BY <2>1, SMTT(30), Z3T(30)
  <2>3. p[2] # WillNo /\ ~(p[2] <= reads[c])
    BY <1>0, <2>1, <2>2, BoundsAssumption, SMTT(30), Z3T(30) DEF WillNo
  <2>4. ~Begun(p)
    BY <2>2, <2>3 DEF Known
  <2>5. ~InHand(c)'
    BY <2>1 DEF InHand
  <2>6. ASSUME NEW m \in PacketIds \ {n}, qos2'[d][m] # None
        PROVE  qos2'[d][m].payload # p
    <3>1. qos2[c][m] # None /\ qos2'[d][m] = qos2[c][m]
      BY <2>0, <2>1, <2>6
    <3>2. qos2[c][m].payload[2] <= reads[c]
      BY <3>1, StashedPayload
    <3> QED
      BY <2>3, <3>1, <3>2
  <2> QED
    BY <2>0, <2>4, <2>5, <2>6, BegunStep
<1> QED
  BY <1>1, <1>2

\* Every step of a task keeps WillKept.
LEMMA WillKeptStep ==
  ASSUME IInv, TypeOK', MessageInHand', NEW c \in Conns, Task(c), Stash(c), Owned, WillKept
  PROVE  WillKept'
<1> SUFFICES ASSUME NEW p \in Payload, Begun(p)', p[2] = WillNo
             PROVE  /\ pc'[p[1]] \notin Early
                    /\ \A id \in ClientIds : sessions'[id] # None => sessions'[id].conn # p[1]
  BY DEF WillKept
<1>0. /\ TypeOK /\ MessageInHand /\ ListInHand /\ GuardedEntry /\ p[1] \in Conns
      /\ Id(c) \in ClientIds /\ sessions \in [ClientIds -> Session \cup {None}]
  BY DEF IInv, TypeOK, Payload, Id
<1>1. CASE Begun(p)
  <2>1. /\ pc[p[1]] \notin Early
        /\ \A id \in ClientIds : sessions[id] # None => sessions[id].conn # p[1]
    BY <1>1 DEF WillKept
  <2>2. pc'[p[1]] \notin Early
    <3>1. CASE p[1] = c
      BY <1>0, <2>1, <3>1, Onward
    <3>2. CASE p[1] # c
      <4>1. OthersUnchanged(c)
        BY <1>0, TaskIsLocal
      <4>2. pc'[p[1]] = pc[p[1]]
        BY <1>0, <3>2, <4>1 DEF OthersUnchanged
      <4> QED
        BY <2>1, <4>2
    <3> QED
      BY <3>1, <3>2
  <2>3. ASSUME NEW id \in ClientIds, sessions'[id] # None PROVE sessions'[id].conn # p[1]
    <3>1. CASE sessions[id] # None /\ sessions'[id].conn = sessions[id].conn
      BY <2>1, <3>1
    <3>2. CASE RegisterInsert(c) /\ id = Id(c)
      <4>1. pc[c] \in Early /\ sessions'[id].conn = c
        BY <1>0, <3>2 DEF RegisterInsert, Early
      <4> QED
        BY <2>1, <4>1
    <3> QED
      BY <1>0, <2>3, <3>1, <3>2, NewEntry
  <2> QED
    BY <2>2, <2>3
<1>2. CASE TakesUp(c, p)
  <2>1. /\ sessions[Id(c)] # None /\ p[1] = sessions[Id(c)].conn
        /\ sessions' = [sessions EXCEPT ![Id(c)] = None]
    BY <1>0, <1>2, StashedPayload DEF TakesUp
  <2>2. pc'[p[1]] \notin Early
    BY <1>0, <2>1, KeptOwner
  <2>3. ASSUME NEW id \in ClientIds, sessions'[id] # None PROVE sessions'[id].conn # p[1]
    <3>1. id # Id(c) /\ sessions'[id] = sessions[id]
      BY <1>0, <2>1, <2>3
    <3>2. Id(sessions[id].conn) = id /\ Id(p[1]) = Id(c)
      BY <1>0, <2>1, <2>3, <3>1 DEF Owned
    <3> QED
      BY <3>1, <3>2
  <2> QED
    BY <2>2, <2>3
<1> QED
  BY <1>0, <1>1, <1>2, BegunStep

\* Every step of a task keeps OneHand.
LEMMA OneHandStep ==
  ASSUME TypeOK, TypeOK', MessageInHand, MessageInHand', NEW c \in Conns, Task(c),
         Known, StashKept, WillKept, OneHand
  PROVE  OneHand'
<1>1. ASSUME NEW d \in Conns, d # c, InHand(d)', InHand(c)'
      PROVE  msg'[d].payload # msg'[c].payload
  <2>1. InHand(d) /\ msg'[d] = msg[d]
    BY <1>1, TaskIsLocal DEF OthersUnchanged, InHand
  <2>2. CASE InHand(c) /\ msg'[c].payload = msg[c].payload
    BY <1>1, <2>1, <2>2 DEF OneHand
  <2>3. CASE TakesUp(c, msg'[c].payload)
    <3>1. PICK p : p = msg'[c].payload
      OBVIOUS
    <3>2. ~Begun(p)
      BY <2>3, <3>1, TakenIsNew
    <3> QED
      BY <2>1, <3>1, <3>2 DEF Begun
  <2> QED
    BY <1>1, <2>2, <2>3, KeepsOrTakes
<1>2. ASSUME NEW d \in Conns, NEW e \in Conns, d # c, e # c, d # e, InHand(d)', InHand(e)'
      PROVE  msg'[d].payload # msg'[e].payload
  <2>1. InHand(d) /\ msg'[d] = msg[d] /\ InHand(e) /\ msg'[e] = msg[e]
    BY <1>2, TaskIsLocal DEF OthersUnchanged, InHand
  <2> QED
    BY <1>2, <2>1 DEF OneHand
<1> QED
  BY <1>1, <1>2 DEF OneHand

\* Every step of a task keeps HandUnsent.
LEMMA HandUnsentStep ==
  ASSUME TypeOK, TypeOK', MessageInHand, MessageInHand', NEW c \in Conns, Task(c),
         Known, StashKept, WillKept, OneHand, HandUnsent
  PROVE  HandUnsent'
<1> SUFFICES ASSUME NEW d \in Conns, InHand(d)', pc'[d] # "deliver", NEW p, p = msg'[d].payload, Sent(p)'
             PROVE  FALSE
  BY DEF HandUnsent, Sent
<1>0. PublishDeliver(c) => InHand(c) /\ pc[c] = "deliver"
  BY DEF PublishDeliver, InHand
<1>1. Sent(p) \/ (PublishDeliver(c) /\ msg[c].payload = p)
  BY SentStep
<1>2. CASE d # c
  <2>1. InHand(d) /\ pc[d] # "deliver" /\ msg[d].payload = p
    BY <1>2, TaskIsLocal DEF OthersUnchanged, InHand
  <2> QED
    BY <1>0, <1>1, <1>2, <2>1 DEF HandUnsent, OneHand
<1>3. CASE d = c
  <2>1. CASE InHand(c) /\ p = msg[c].payload /\ pc[c] # "deliver"
    BY <1>0, <1>1, <2>1 DEF HandUnsent
  <2>2. CASE TakesUp(c, p)
    <3>1. ~Begun(p)
      BY <2>2, TakenIsNew
    <3> QED
      BY <1>0, <1>1, <2>2, <3>1 DEF Begun, TakesUp
  <2> QED
    BY <1>3, <2>1, <2>2, KeepsOrTakes
<1> QED
  BY <1>2, <1>3

\* A delivery adds one copy, to the queue of the client's present connection.
LEMMA DeliverCopies ==
  ASSUME TypeOK, NEW c \in Conns, NEW h \in Filters \X ClientIds \X QoS, Delivers(c, h),
         NEW d \in Conns, out'[d] # out[d]
  PROVE  /\ sessions[h[2]] # None /\ sessions[h[2]].conn = d
         /\ LET n == Len(out[d]) + 1 IN
            /\ Published(d)' = Published(d) \cup {n} /\ n \notin Published(d)
            /\ out'[d][n].payload = msg[c].payload /\ out'[d][n].topic = msg[c].topic
            /\ \A i \in Published(d) : out'[d][i] = out[d][i]
<1> DEFINE n == Len(out[d]) + 1
           x == sessions[h[2]].conn
<1>0. out \in [Conns -> Seq(Outgoing)] /\ Len(out[d]) \in Nat
  BY SMTT(30), Z3T(30) DEF TypeOK
<1>1. /\ sessions[h[2]] # None /\ x \in Conns
      /\ \E q \in QoS, id \in PacketIds :
           Delivery(c, x, q, id) \in Outgoing /\ Send(x, Delivery(c, x, q, id))
  BY DEF Delivers
<1>2. PICK q \in QoS, id \in PacketIds :
        Delivery(c, x, q, id) \in Outgoing /\ Send(x, Delivery(c, x, q, id))
  BY <1>1
<1>3. d = x /\ CanSend(x)
  BY <1>0, <1>1, <1>2, SendEffect
<1>4. Queues(d, Delivery(c, x, q, id))
  BY <1>0, <1>1, <1>2, <1>3, SendEffect
<1>5. /\ out'[d][n].payload = msg[c].payload /\ out'[d][n].topic = msg[c].topic
      /\ out'[d][n].type = "publish"
  <2>1. out'[d][n] = Delivery(c, x, q, id)
    BY <1>4 DEF Queues
  <2> HIDE DEF n, x
  <2> QED
    BY <2>1, SMTT(30), Z3T(30) DEF Delivery
<1>6. Len(out'[d]) = n /\ \A i \in 1..Len(out[d]) : out'[d][i] = out[d][i]
  BY <1>4 DEF Queues
<1>7. 1..n = 1..Len(out[d]) \cup {n} /\ n \notin 1..Len(out[d])
  BY <1>0, SMTT(30), Z3T(30)
<1> HIDE DEF n
<1>8. Published(d)' = Published(d) \cup {n} /\ n \notin Published(d)
  BY <1>5, <1>6, <1>7 DEF Published
<1>9. \A i \in Published(d) : out'[d][i] = out[d][i]
  BY <1>6 DEF Published
<1> QED
  BY <1>1, <1>3, <1>5, <1>8, <1>9 DEF n

\* Every step of a task keeps NoneEarly.
LEMMA NoneEarlyStep ==
  ASSUME TypeOK, TypeOK', MessageInHand, NEW c \in Conns, Task(c), Owned, NoneEarly
  PROVE  NoneEarly'
<1> SUFFICES ASSUME NEW d \in Conns, pc'[d] \in Early, NEW i \in Published(d)' PROVE FALSE
  BY DEF NoneEarly
<1>1. pc[d] \in Early
  BY Onward, TaskIsLocal DEF OthersUnchanged
<1>2. i \notin Published(d)
  BY <1>1 DEF NoneEarly
<1>3. PublishDeliver(c)
  BY <1>2, NewPublication
<1>4. PICK h \in hits[c] : h \in Filters \X ClientIds \X QoS /\ Delivers(c, h)
  BY <1>3, DeliverEffect
<1>5. out'[d] # out[d]
  BY <1>2 DEF Published
<1>6. sessions[h[2]] # None /\ sessions[h[2]].conn = d
  BY <1>4, <1>5, DeliverCopies, SMTT(30), Z3T(30)
<1>7. h[2] \in ClientIds
  BY <1>4, SMTT(30), Z3T(30)
<1> QED
  BY <1>1, <1>6, <1>7 DEF Owned

\* Reading one filter's subscriptions collects nothing twice.
LEMMA ScanFits ==
  ASSUME TypeOK, NEW c \in Conns, PublishScan(c), HitsFit(c)
  PROVE  \A h \in hits'[c] :
           /\ msg'[c].topic \in Matching[h[1]] /\ h[1] \notin todo'[c]
           /\ \A g \in hits'[c] : g[1] = h[1] /\ g[2] = h[2] => g = h
<1> DEFINE t == msg[c].topic
<1>1. PICK f \in todo[c] : /\ hits' = [hits EXCEPT ![c] = @ \cup MatchingAt(f, t)]
                           /\ todo' = [todo EXCEPT ![c] = @ \ {f}]
  BY DEF PublishScan
<1>2. /\ hits'[c] = hits[c] \cup MatchingAt(f, t) /\ todo'[c] = todo[c] \ {f}
      /\ msg' = msg /\ pc[c] = "scan"
  <2>1. c \in DOMAIN hits /\ c \in DOMAIN todo
    BY DEF TypeOK
  <2> QED
    BY <1>1, <2>1 DEF PublishScan
<1>3. ASSUME NEW h \in MatchingAt(f, t)
      PROVE  t \in Matching[f] /\ h[1] = f /\ h = <<f, h[2], subs[f][h[2]]>>
  <2>1. t \in Matching[f] /\ \E id \in ClientIds : h = <<f, id, subs[f][id]>>
    BY <1>3 DEF MatchingAt
  <2>2. PICK id \in ClientIds : h = <<f, id, subs[f][id]>>
    BY <2>1
  <2>3. h[1] = f /\ h[2] = id
    BY <2>2
  <2> QED
    BY <2>1, <2>2, <2>3
<1>4. ASSUME NEW h \in hits[c]
      PROVE  /\ t \in Matching[h[1]] /\ h[1] \notin todo[c] /\ h[1] # f
             /\ \A g \in hits[c] : g[1] = h[1] /\ g[2] = h[2] => g = h
  BY <1>1, <1>2 DEF HitsFit
<1> HIDE DEF t
<1>5. ASSUME NEW h \in hits'[c]
      PROVE  /\ t \in Matching[h[1]] /\ h[1] \notin todo'[c]
             /\ \A g \in hits'[c] : g[1] = h[1] /\ g[2] = h[2] => g = h
  <2>1. h \in hits[c] \/ h \in MatchingAt(f, t)
    BY <1>2, <1>5
  <2>2. t \in Matching[h[1]] /\ h[1] \notin todo'[c]
    BY <1>2, <1>3, <1>4, <2>1
  <2>3. ASSUME NEW g \in hits'[c], g[1] = h[1], g[2] = h[2] PROVE g = h
    <3>1. g \in hits[c] \/ g \in MatchingAt(f, t)
      BY <1>2, <2>3
    <3>2. CASE h \in hits[c]
      <4>1. g \in hits[c]
        BY <1>3, <1>4, <2>3, <3>1, <3>2
      <4> QED
        BY <1>4, <2>3, <3>2, <4>1
    <3>3. CASE h \in MatchingAt(f, t)
      <4>1. h[1] = f /\ h = <<f, h[2], subs[f][h[2]]>>
        BY <1>3, <3>3
      <4>2. g \in MatchingAt(f, t)
        BY <1>4, <2>3, <3>1, <4>1
      <4>3. g = <<f, g[2], subs[f][g[2]]>>
        BY <1>3, <4>2
      <4> QED
        BY <2>3, <4>1, <4>3
    <3> QED
      BY <2>1, <3>2, <3>3
  <2> QED
    BY <2>2, <2>3
<1> QED
  BY <1>2, <1>5 DEF t

\* Every step of a task keeps what it has collected fit for its message.
LEMMA HitsFitStep ==
  ASSUME TypeOK, TypeOK', NEW c \in Conns, Task(c), NEW d \in Conns, HitsFit(d)
  PROVE  HitsFit(d)'
<1>0. /\ pc = [x \in Conns |-> pc[x]] /\ hits = [x \in Conns |-> hits[x]]
      /\ after[c] \in {"top", "reply", "closing"}
  BY DEF TypeOK
<1>1. CASE d # c
  <2>1. pc'[d] = pc[d] /\ hits'[d] = hits[d] /\ todo'[d] = todo[d] /\ msg'[d] = msg[d]
    BY <1>1, TaskIsLocal DEF OthersUnchanged
  <2> QED
    BY <2>1 DEF HitsFit
<1>2. CASE d = c /\ pc'[c] \notin {"scan", "deliver"}
  BY <1>2 DEF HitsFit
<1>3. CASE d = c /\ hits'[c] = {}
  BY <1>3 DEF HitsFit
<1>4. CASE d = c /\ PublishScan(c)
  BY <1>4, ScanFits DEF HitsFit
<1>5. CASE d = c /\ PublishDeliver(c)
  <2>1. pc[c] = "deliver" /\ msg' = msg /\ hits'[c] \subseteq hits[c]
    BY <1>0, <1>5 DEF PublishDeliver
  <2>2. pc'[c] # "scan"
    BY <1>0, <1>5 DEF PublishDeliver, Goto
  <2> QED
    BY <1>5, <2>1, <2>2 DEF HitsFit
<1>6. CASE Still(c) \/ Close(c) \/ UnregisterRemove(c)
  <2>1. pc'[c] \notin {"scan", "deliver"}
    BY <1>0, <1>6 DEF Still, Close, UnregisterRemove, Goto
  <2> QED
    BY <1>1, <1>2, <2>1
<1>7. CASE \E r \in Requests[c] : ReadPublish(c, r) \/ ReadPubrel(c, r)
  <2>1. PICK r \in Requests[c] : ReadPublish(c, r) \/ ReadPubrel(c, r)
    BY <1>7
  <2>2. pc'[c] \in {"top", "closing", "chain", "reply"}
    BY <1>0, <2>1 DEF ReadPublish, ReadPubrel, Goto, SendOrFail
  <2> QED
    BY <1>1, <1>2, <2>2
<1>8. CASE RunChain(c)
  <2>1. pc'[c] = after[c] \/ hits'[c] = {}
    BY <1>0, <1>8 DEF RunChain, Goto
  <2> QED
    BY <1>0, <1>1, <1>2, <1>3, <2>1
<1>9. CASE UnregisterWipe(c)
  <2>1. pc'[c] = "unreg_wipe" \/ hits'[c] = {}
    BY <1>0, <1>9 DEF UnregisterWipe
  <2> QED
    BY <1>1, <1>2, <1>3, <2>1
<1> QED
  BY <1>1, <1>4, <1>5, <1>6, <1>7, <1>8, <1>9, StillOrMoves DEF Moves, Teardown

\* What is counted is finite.
LEMMA FiniteQueue ==
  ASSUME NEW q \in Seq(Outgoing), NEW S \in SUBSET (1..Len(q))
  PROVE  IsFiniteSet(S) /\ Cardinality(S) \in Nat
<1>1. 1 \in Int /\ Len(q) \in Int
  BY SMTT(30), Z3T(30)
<1>2. IsFiniteSet(1..Len(q))
  BY <1>1, FS_Interval
<1>3. IsFiniteSet(S)
  BY <1>2, FS_Subset
<1> QED
  BY <1>3, FS_CardinalityType

\* A topic matches finitely many of finitely many filters.
LEMMA FiniteTakers ==
  ASSUME IsFiniteSet(Filters), NEW t, NEW W \in SUBSET Takers(t)
  PROVE  /\ IsFiniteSet(W) /\ Cardinality(W) \in Nat
         /\ Cardinality(Takers(t)) \in Nat /\ Cardinality(W) <= Cardinality(Takers(t))
<1>1. IsFiniteSet(Takers(t))
  BY FS_Subset DEF Takers
<1>2. IsFiniteSet(W) /\ Cardinality(W) <= Cardinality(Takers(t))
  BY <1>1, FS_Subset
<1> QED
  BY <1>1, <1>2, FS_CardinalityType

\* One more copy for one filter less.
LEMMA OneMoved ==
  ASSUME NEW A, NEW B, NEW a, NEW f \in B, NEW W \in SUBSET (B \ {f}), NEW n \in Nat,
         IsFiniteSet(A), IsFiniteSet(B), a \notin A, Cardinality(A) + Cardinality(B) <= n
  PROVE  Cardinality(A \cup {a}) + Cardinality(W) <= n
<1>1. Cardinality(A) \in Nat /\ Cardinality(B) \in Nat /\ Cardinality(A \cup {a}) = Cardinality(A) + 1
  BY FS_AddElement, FS_CardinalityType
<1>2. IsFiniteSet(B \ {f}) /\ Cardinality(B \ {f}) = Cardinality(B) - 1
  BY FS_RemoveElement
<1>3. IsFiniteSet(W) /\ Cardinality(W) <= Cardinality(B \ {f})
  BY <1>2, FS_Subset
<1>4. Cardinality(W) \in Nat
  BY <1>3, FS_CardinalityType
<1> QED
  BY <1>1, <1>2, <1>3, <1>4, SMTT(30), Z3T(30)

\* No more copies for no more filters.
LEMMA NoneMoved ==
  ASSUME NEW A, NEW B, NEW W \in SUBSET B, NEW n \in Nat,
         IsFiniteSet(A), IsFiniteSet(B), Cardinality(A) + Cardinality(B) <= n
  PROVE  Cardinality(A) + Cardinality(W) <= n
<1>1. IsFiniteSet(W) /\ Cardinality(W) <= Cardinality(B)
  BY FS_Subset
<1>2. Cardinality(A) \in Nat /\ Cardinality(B) \in Nat /\ Cardinality(W) \in Nat
  BY <1>1, FS_CardinalityType
<1> QED
  BY <1>1, <1>2, SMTT(30), Z3T(30)

\* Fits after a step, for a payload and a topic given by name.
LEMMA FitsAfter ==
  ASSUME NEW c \in Conns, NEW d \in Conns, NEW p, NEW t, msg'[c].payload = p, msg'[c].topic = t,
         \A i \in Copies(d, p)' : out'[d][i].topic = t,
         Cardinality(Copies(d, p)') + Cardinality(Wanted(c, d)') <= Cardinality(Takers(t))
  PROVE  Fits(c, d)'
<1>1. {j \in Published(d)' : out'[d][j].payload = msg'[c].payload} = Copies(d, p)'
  BY DEF Copies
<1> QED
  BY <1>1 DEF Fits, Copies

\* The same, before the step.
LEMMA FitsBefore ==
  ASSUME NEW c \in Conns, NEW d \in Conns, NEW p, NEW t, msg[c].payload = p, msg[c].topic = t, Fits(c, d)
  PROVE  /\ \A i \in Copies(d, p) : out[d][i].topic = t
         /\ Cardinality(Copies(d, p)) + Cardinality(Wanted(c, d)) <= Cardinality(Takers(t))
  BY DEF Fits

\* What is collected is collected under matching filters.
LEMMA EmptyFits ==
  ASSUME IsFiniteSet(Filters), NEW c \in Conns, NEW d \in Conns, HitsFit(c)', pc'[c] = "deliver",
         NEW p, p = msg'[c].payload, Copies(d, p)' = {}
  PROVE  Fits(c, d)'
<1>1. PICK t : t = msg'[c].topic
  OBVIOUS
<1>2. ASSUME NEW f \in Wanted(c, d)' PROVE f \in Takers(t)
  <2>1. PICK h \in hits'[c] : f \in Filters /\ h[1] = f
    BY <1>2 DEF Wanted
  <2> QED
    BY <1>1, <2>1 DEF HitsFit, Takers
<1>3. /\ Cardinality(Wanted(c, d)') \in Nat
      /\ Cardinality(Wanted(c, d)') <= Cardinality(Takers(t)) /\ Cardinality(Takers(t)) \in Nat
  BY <1>2, FiniteTakers
<1>4. Cardinality(Copies(d, p)') = 0
  BY FS_EmptySet
<1>5. Cardinality(Copies(d, p)') + Cardinality(Wanted(c, d)') <= Cardinality(Takers(t))
  <2> PICK k, l, m : /\ k = Cardinality(Copies(d, p)') /\ l = Cardinality(Wanted(c, d)')
                     /\ m = Cardinality(Takers(t))
    OBVIOUS
  <2>1. k + l <= m
    BY <1>3, <1>4, SMTT(30), Z3T(30)
  <2> QED
    BY <2>1
<1> QED
  BY <1>1, <1>5, FitsAfter

\* A delivery: one more copy, for one collected subscription less.
LEMMA DeliverFits ==
  ASSUME TypeOK, TypeOK', MessageInHand, IsFiniteSet(Filters), NEW c \in Conns, PublishDeliver(c),
         Owned, HitsFit(c), NEW d \in Conns, Fits(c, d)
  PROVE  Fits(c, d)'
<1>1. PICK h \in hits[c] : h \in Filters \X ClientIds \X QoS /\ Delivers(c, h)
  BY DeliverEffect
<1>2. PICK p, t : msg[c].payload = p /\ msg[c].topic = t
  OBVIOUS
<1>3. /\ msg' = msg /\ req' = req /\ hits'[c] = hits[c] \ {h} /\ pc[c] = "deliver"
  <2>1. c \in DOMAIN hits
    BY DEF TypeOK
  <2> QED
    BY <1>1, <2>1 DEF Delivers, PublishDeliver
<1>4. Wanted(c, d)' \subseteq Wanted(c, d)
  BY <1>3 DEF Wanted, Id
<1>5. /\ \A i \in Copies(d, p) : out[d][i].topic = t
      /\ Cardinality(Copies(d, p)) + Cardinality(Wanted(c, d)) <= Cardinality(Takers(t))
  BY <1>2, FitsBefore, SMTT(30), Z3T(30)
<1>a. msg'[c].payload = p /\ msg'[c].topic = t
  BY <1>2, <1>3
<1>6. IsFiniteSet(Copies(d, p))
  <2>1. out[d] \in Seq(Outgoing) /\ Copies(d, p) \subseteq 1..Len(out[d])
    BY DEF TypeOK, Copies, Published
  <2> QED
    BY <2>1, FiniteQueue
<1>7. IsFiniteSet(Wanted(c, d)) /\ Cardinality(Takers(t)) \in Nat
  <2>1. Wanted(c, d) \subseteq Filters /\ {} \subseteq Takers(t)
    BY DEF Wanted
  <2> QED
    BY <2>1, FS_Subset, FiniteTakers
<1>8. CASE out'[d] = out[d]
  <2>1. Copies(d, p)' = Copies(d, p)
    BY <1>8 DEF Copies, Published
  <2>2. Cardinality(Copies(d, p)') + Cardinality(Wanted(c, d)') <= Cardinality(Takers(t))
    BY <1>4, <1>5, <1>6, <1>7, <2>1, NoneMoved
  <2>3. \A i \in Copies(d, p)' : out'[d][i].topic = t
    BY <1>5, <1>8, <2>1
  <2> QED
    BY <1>a, <2>2, <2>3, FitsAfter, SMTT(30), Z3T(30)
<1>9. CASE out'[d] # out[d]
  <2>1. PICK n : n = Len(out[d]) + 1
    OBVIOUS
  <2>2. /\ sessions[h[2]] # None /\ sessions[h[2]].conn = d
        /\ Published(d)' = Published(d) \cup {n} /\ n \notin Published(d)
        /\ out'[d][n].payload = p /\ out'[d][n].topic = t
        /\ \A i \in Published(d) : out'[d][i] = out[d][i]
    <3>1. sessions[h[2]] # None /\ sessions[h[2]].conn = d
      BY <1>1, <1>9, DeliverCopies, SMTT(30), Z3T(30)
    <3>2. Published(d)' = Published(d) \cup {n} /\ n \notin Published(d)
      BY <1>1, <1>9, <2>1, DeliverCopies
    <3>3. out'[d][n].payload = msg[c].payload /\ out'[d][n].topic = msg[c].topic
      BY <1>1, <1>9, <2>1, DeliverCopies, SMTT(30), Z3T(30)
    <3>4. \A i \in Published(d) : out'[d][i] = out[d][i]
      BY <1>1, <1>9, DeliverCopies
    <3> QED
      BY <1>2, <3>1, <3>2, <3>3, <3>4
  <2>3. h[1] \in Filters /\ h[2] = Id(d) /\ h[3] \in QoS /\ h = <<h[1], h[2], h[3]>>
    <3>1. h[1] \in Filters /\ h[2] \in ClientIds /\ h[3] \in QoS /\ h = <<h[1], h[2], h[3]>>
      BY <1>1, SMTT(30), Z3T(30)
    <3> QED
      BY <2>2, <3>1 DEF Owned
  <2>4. h[1] \in Wanted(c, d)
    BY <1>1, <2>3 DEF Wanted
  <2>5. h[1] \notin Wanted(c, d)'
    <3>1. SUFFICES ASSUME NEW q \in QoS, <<h[1], Id(d)', q>> \in hits'[c] PROVE FALSE
      BY DEF Wanted
    <3>2. PICK g : g = <<h[1], h[2], q>>
      OBVIOUS
    <3>3. g \in hits[c] /\ g # h
      BY <1>3, <2>3, <3>1, <3>2 DEF Id
    <3>4. g[1] = h[1] /\ g[2] = h[2]
      BY <3>2
    <3> QED
      BY <1>1, <1>3, <3>3, <3>4 DEF HitsFit
  <2>6. Copies(d, p)' = Copies(d, p) \cup {n} /\ n \notin Copies(d, p)
    BY <2>2 DEF Copies
  <2>7. Cardinality(Copies(d, p)') + Cardinality(Wanted(c, d)') <= Cardinality(Takers(t))
    <3>1. Wanted(c, d)' \subseteq Wanted(c, d) \ {h[1]}
      BY <1>4, <2>5
    <3> QED
      BY <1>5, <1>6, <1>7, <2>4, <2>6, <3>1, OneMoved
  <2>8. \A i \in Copies(d, p)' : out'[d][i].topic = t
    <3>1. ASSUME NEW i \in Copies(d, p) PROVE out'[d][i].topic = t
      <4>1. i \in Published(d)
        BY DEF Copies
      <4>2. out'[d][i] = out[d][i]
        BY <2>2, <4>1
      <4> QED
        BY <1>5, <4>2
    <3> QED
      BY <2>2, <2>6, <3>1
  <2> QED
    BY <1>a, <2>7, <2>8, FitsAfter, SMTT(30), Z3T(30)
<1> QED
  BY <1>8, <1>9

\* A task starts to deliver once it has gone through the tree.
LEMMA IntoDeliver ==
  ASSUME TypeOK, NEW c \in Conns, Task(c), pc'[c] = "deliver"
  PROVE  PublishScan(c) \/ PublishDeliver(c)
<1>0. pc = [x \in Conns |-> pc[x]] /\ after[c] \in {"top", "reply", "closing"}
  BY DEF TypeOK
<1>1. ~(Still(c) \/ Close(c) \/ UnregisterRemove(c))
  BY <1>0 DEF Still, Close, UnregisterRemove, Goto
<1>2. ~ \E r \in Requests[c] : ReadPublish(c, r) \/ ReadPubrel(c, r)
  <2>1. ASSUME NEW r \in Requests[c], ReadPublish(c, r) \/ ReadPubrel(c, r) PROVE FALSE
    <3>1. pc'[c] \in {"top", "closing", "chain", "reply"}
      BY <1>0, <2>1 DEF ReadPublish, ReadPubrel, Goto, SendOrFail
    <3> QED
      BY <3>1
  <2> QED
    BY <2>1
<1>3. ~RunChain(c)
  BY <1>0 DEF RunChain, Goto
<1>4. ~UnregisterWipe(c)
  BY <1>0 DEF UnregisterWipe, Goto
<1> QED
  BY <1>1, <1>2, <1>3, <1>4, StillOrMoves DEF Moves, Teardown

\* The steps of the other tasks leave the counts alone, but for a client that
\* takes an id in its CONNECT: it has been sent nothing yet.
LEMMA OtherFits ==
  ASSUME TypeOK, TypeOK', MessageInHand, IsFiniteSet(Filters), NEW c \in Conns, Task(c),
         NEW a \in Conns, a # c, pc'[a] = "deliver", HitsFit(a)', NEW d \in Conns,
         pc[a] = "deliver" => Fits(a, d), OneHand, NoneEarly
  PROVE  Fits(a, d)'
<1>1. /\ pc[a] = "deliver" /\ msg'[a] = msg[a] /\ hits'[a] = hits[a]
      /\ (d # c => req'[d] = req[d])
  BY TaskIsLocal DEF OthersUnchanged
<1>2. PICK p, t : p = msg[a].payload /\ t = msg[a].topic
  OBVIOUS
<1>3. ~(PublishDeliver(c) /\ msg[c].payload = p)
  BY <1>1, <1>2 DEF OneHand, InHand, PublishDeliver
<1>4. Copies(d, p)' = Copies(d, p) /\ \A i \in Copies(d, p) : out'[d][i] = out[d][i]
  BY <1>3, KeptCopies
<1>5. /\ \A i \in Copies(d, p) : out[d][i].topic = t
      /\ Cardinality(Copies(d, p)) + Cardinality(Wanted(a, d)) <= Cardinality(Takers(t))
  BY <1>1, <1>2, FitsBefore, SMTT(30), Z3T(30)
<1>6. CASE req'[d] = req[d]
  <2>1. Wanted(a, d)' = Wanted(a, d)
    BY <1>1, <1>6 DEF Wanted, Id
  <2>2. Cardinality(Copies(d, p)') + Cardinality(Wanted(a, d)') <= Cardinality(Takers(t))
    BY <1>4, <1>5, <2>1
  <2>3. \A i \in Copies(d, p)' : out'[d][i].topic = t
    BY <1>4, <1>5
  <2> QED
    BY <1>1, <1>2, <2>2, <2>3, FitsAfter, SMTT(30), Z3T(30)
<1>7. CASE req'[d] # req[d]
  <2>1. d = c /\ pc[c] = "accept"
    BY <1>1, <1>7, Onward
  <2>2. Copies(d, p) = {}
    BY <2>1 DEF NoneEarly, Early, Copies
  <2> QED
    BY <1>1, <1>2, <1>4, <2>2, EmptyFits
<1> QED
  BY <1>6, <1>7

\* Every step of a task keeps the counts of the messages being delivered.
LEMMA FitsStep ==
  ASSUME TypeOK, TypeOK', MessageInHand, IsFiniteSet(Filters), NEW c \in Conns, Task(c),
         Owned, NoneEarly, OneHand, HandUnsent, NEW a \in Conns, HitsFit(a), HitsFit(a)',
         NEW d \in Conns, pc[a] = "deliver" => Fits(a, d), pc'[a] = "deliver"
  PROVE  Fits(a, d)'
<1>1. CASE a # c
  BY <1>1, OtherFits
<1>2. CASE a = c /\ PublishDeliver(c)
  <2>1. pc[a] = "deliver"
    BY <1>2 DEF PublishDeliver
  <2> QED
    BY <1>2, <2>1, DeliverFits
<1>3. CASE a = c /\ PublishScan(c)
  <2>1. pc[c] = "scan" /\ msg' = msg /\ out' = out
    BY <1>3 DEF PublishScan, chanVars
  <2>2. PICK p : p = msg[c].payload
    OBVIOUS
  <2>3. ~Sent(p)
    BY <2>1, <2>2 DEF HandUnsent, InHand
  <2>4. Copies(d, p)' = {}
    BY <2>1, <2>3 DEF Sent, Copies, Published
  <2> QED
    BY <1>3, <2>1, <2>2, <2>4, EmptyFits
<1> QED
  BY <1>1, <1>2, <1>3, IntoDeliver

\* Every step of a task keeps the bound.
LEMMA BoundStep ==
  ASSUME TypeOK, TypeOK', MessageInHand, IsFiniteSet(Filters), NEW c \in Conns, Task(c), Owned,
         HitsFit(c), \A d \in Conns : pc[c] = "deliver" => Fits(c, d), CopiesBounded
  PROVE  CopiesBounded'
<1> SUFFICES ASSUME NEW d \in Conns, NEW i \in Published(d)'
             PROVE  Cardinality({j \in Published(d)' : out'[d][j].payload = out'[d][i].payload})
                      <= Cardinality({f \in Filters : out'[d][i].topic \in Matching[f]})
  BY DEF CopiesBounded
<1>1. PICK p, t : p = out'[d][i].payload /\ t = out'[d][i].topic
  OBVIOUS
<1>2. /\ {j \in Published(d)' : out'[d][j].payload = out'[d][i].payload} = Copies(d, p)'
      /\ {f \in Filters : out'[d][i].topic \in Matching[f]} = Takers(t)
      /\ i \in Copies(d, p)'
  BY <1>1 DEF Copies, Takers
<1>3. CASE PublishDeliver(c) /\ msg[c].payload = p
  <2>1. pc[c] = "deliver" /\ msg' = msg
    BY <1>3 DEF PublishDeliver
  <2>2. Fits(c, d)'
    BY <1>3, <2>1, DeliverFits
  <2>3. {j \in Published(d)' : out'[d][j].payload = msg'[c].payload} = Copies(d, p)'
    BY <1>3, <2>1 DEF Copies
  <2>4. /\ out'[d][i].topic = msg'[c].topic
        /\ Cardinality(Copies(d, p)') + Cardinality(Wanted(c, d)') <= Cardinality(Takers(msg'[c].topic))
    BY <1>2, <2>2, <2>3 DEF Fits, Copies
  <2>5. Cardinality(Copies(d, p)') + Cardinality(Wanted(c, d)') <= Cardinality(Takers(t))
    BY <1>1, <2>4
  <2>6. Cardinality(Copies(d, p)') \in Nat
    <3>1. out'[d] \in Seq(Outgoing) /\ Copies(d, p)' \subseteq 1..Len(out'[d])
      BY DEF TypeOK, Copies, Published
    <3> QED
      BY <3>1, FiniteQueue
  <2>7. Cardinality(Wanted(c, d)') \in Nat /\ Cardinality(Takers(t)) \in Nat
    <3>1. Wanted(c, d)' \subseteq Filters /\ {} \subseteq Takers(t)
      BY DEF Wanted
    <3>2. IsFiniteSet(Wanted(c, d)')
      BY <3>1, FS_Subset
    <3> QED
      BY <3>1, <3>2, FS_CardinalityType, FiniteTakers
  <2> PICK k, l, m : /\ k = Cardinality(Copies(d, p)') /\ l = Cardinality(Wanted(c, d)')
                     /\ m = Cardinality(Takers(t))
    OBVIOUS
  <2>8. k <= m
    BY <2>5, <2>6, <2>7, SMTT(30), Z3T(30)
  <2> QED
    BY <1>2, <2>8
<1>4. CASE ~(PublishDeliver(c) /\ msg[c].payload = p)
  <2>1. Copies(d, p)' = Copies(d, p) /\ \A j \in Copies(d, p) : out'[d][j] = out[d][j]
    BY <1>4, KeptCopies
  <2>2. i \in Published(d) /\ out[d][i].payload = p /\ out[d][i].topic = t
    BY <1>1, <1>2, <2>1 DEF Copies
  <2>3. /\ {j \in Published(d) : out[d][j].payload = out[d][i].payload} = Copies(d, p)
        /\ {f \in Filters : out[d][i].topic \in Matching[f]} = Takers(t)
    BY <2>2 DEF Copies, Takers
  <2>4. Cardinality(Copies(d, p)) <= Cardinality(Takers(t))
    BY <2>2, <2>3 DEF CopiesBounded
  <2> QED
    BY <1>2, <2>1, <2>4
<1> QED
  BY <1>3, <1>4

\* Nothing is published, stashed or in hand at the start.
LEMMA InitCopies == Init => CopiesInv
<1> SUFFICES ASSUME Init PROVE CopiesInv
  OBVIOUS
<1>1. ReleaseInv
  BY InitRelease
<1>2. /\ \A d \in Conns : pc[d] = "accept" /\ out[d] = <<>>
      /\ \A id \in ClientIds : sessions[id] = None
      /\ \A d \in Conns, n \in PacketIds : qos2[d][n] = None
  BY DEF Init
<1>3. \A d \in Conns : Published(d) = {} /\ ~InHand(d)
  <2>1. 1..Len(<<>>) = {}
    BY SMTT(30), Z3T(30)
  <2> QED
    BY <1>2, <2>1 DEF Published, InHand
<1>4. \A p : ~Begun(p)
  BY <1>3 DEF Begun, Sent
<1>5. Single
  BY <1>2, <1>3, <1>4 DEF Single, Owned, NoneEarly, Known, StashKept, WillKept, OneHand, HandUnsent
<1>6. \A c \in Conns : HitsFit(c) /\ pc[c] # "deliver"
  BY <1>2 DEF HitsFit
<1>7. CopiesBounded
  BY <1>3 DEF CopiesBounded
<1> QED
  BY <1>1, <1>5, <1>6, <1>7 DEF CopiesInv

\* Every step keeps the invariant.
LEMMA StepCopies == IsFiniteSet(Filters) /\ CopiesInv /\ [Next]_vars => CopiesInv'
<1> SUFFICES ASSUME IsFiniteSet(Filters), CopiesInv, [Next]_vars PROVE CopiesInv'
  OBVIOUS
<1>0. /\ ReleaseInv /\ ReleaseInv' /\ IInv /\ TypeOK /\ TypeOK' /\ MessageInHand /\ MessageInHand'
      /\ ListInHand /\ GuardedEntry /\ \A c \in Conns : Stash(c)
  BY StepRelease DEF CopiesInv, ReleaseInv, IInv
<1>a. /\ Owned /\ NoneEarly /\ Known /\ StashKept /\ WillKept /\ OneHand /\ HandUnsent
      /\ CopiesBounded
      /\ \A c \in Conns : HitsFit(c) /\ (pc[c] = "deliver" => \A d \in Conns : Fits(c, d))
  BY DEF CopiesInv, Single
<1>1. ASSUME NEW c \in Conns, Task(c) PROVE CopiesInv'
  <2>1. Owned' /\ NoneEarly'
    BY <1>0, <1>1, <1>a, OwnedStep, NoneEarlyStep
  <2>2. Known' /\ StashKept'
    BY <1>0, <1>1, <1>a, KnownStep, StashKeptStep
  <2>3. WillKept'
    BY <1>0, <1>1, <1>a, WillKeptStep
  <2>4. OneHand' /\ HandUnsent'
    BY <1>0, <1>1, <1>a, OneHandStep, HandUnsentStep
  <2>5. \A a \in Conns : HitsFit(a)'
    BY <1>0, <1>1, <1>a, HitsFitStep
  <2>6. ASSUME NEW a \in Conns, pc'[a] = "deliver", NEW d \in Conns PROVE Fits(a, d)'
    BY <1>0, <1>1, <1>a, <2>5, <2>6, FitsStep
  <2>7. CopiesBounded'
    BY <1>0, <1>1, <1>a, BoundStep
  <2> QED
    BY <1>0, <2>1, <2>2, <2>3, <2>4, <2>5, <2>6, <2>7 DEF CopiesInv, Single
<1>2. CASE ~ \E c \in Conns : Task(c)
  <2>1. UNCHANGED <<mapVars, pc, taskVars, out, qos2>>
    BY <1>2 DEF Next, Terminated, WriterExits, WriterGone, vars, chanVars
  <2>2. /\ sessions' = sessions /\ pc' = pc /\ req' = req /\ todo' = todo /\ hits' = hits
        /\ msg' = msg /\ reads' = reads /\ out' = out /\ qos2' = qos2
    BY <2>1 DEF mapVars, taskVars
  <2>3. \A d \in Conns : Published(d)' = Published(d) /\ InHand(d)' = InHand(d) /\ Id(d)' = Id(d)
    BY <2>2 DEF Published, InHand, Id
  <2>4. \A p : Sent(p)' <=> Sent(p)
    BY <2>2, <2>3 DEF Sent
  <2>5. \A p : Begun(p)' <=> Begun(p)
    BY <2>2, <2>3, <2>4 DEF Begun
  <2>6. Owned' /\ NoneEarly'
    BY <1>a, <2>2, <2>3 DEF Owned, NoneEarly, Id
  <2>c. Known'
    BY <1>a, <2>2, <2>5 DEF Known
  <2>d. StashKept'
    BY <1>a, <2>2, <2>5 DEF StashKept
  <2>7. WillKept' /\ OneHand'
    BY <1>a, <2>2, <2>3, <2>5 DEF WillKept, OneHand
  <2>b. HandUnsent'
    BY <1>a, <2>2, <2>3 DEF HandUnsent, Sent
  <2>8. \A a \in Conns : HitsFit(a)' = HitsFit(a)
    BY <2>2 DEF HitsFit
  <2>e. ASSUME NEW a \in Conns, NEW d \in Conns PROVE Fits(a, d)' = Fits(a, d)
    <3>1. Copies(d, msg[a].payload)' = Copies(d, msg[a].payload)
      BY <2>2, <2>3 DEF Copies
    <3>2. Wanted(a, d)' = Wanted(a, d)
      BY <2>2, <2>3 DEF Wanted
    <3> QED
      BY <2>2, <3>1, <3>2 DEF Fits
  <2>9. CopiesBounded'
    BY <1>a, <2>2 DEF CopiesBounded, Published
  <2> QED
    BY <1>0, <1>a, <2>2, <2>6, <2>7, <2>8, <2>9, <2>b, <2>c, <2>d, <2>e
    DEF CopiesInv, Single
<1> QED
  BY <1>1, <1>2

\* One publication reaches a client at most once per matching filter, whatever
\* client ids are shared, PUBLISH and PUBREL are repeated, and sessions and
\* subscriptions change during the fan-out.  The tree holds finitely many filters.
THEOREM OncePerFilter == ASSUME IsFiniteSet(Filters) PROVE Spec => []CopiesBounded
<1>1. IsFiniteSet(Filters)
  OBVIOUS
<1>2. CopiesInv /\ [Next]_vars => CopiesInv'
  BY <1>1, StepCopies
<1>3. CopiesInv => CopiesBounded
  BY DEF CopiesInv
<1> QED
  BY <1>2, <1>3, InitCopies, PTL DEF Spec
=============================================================================
