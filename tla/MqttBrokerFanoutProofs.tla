----------------------- MODULE MqttBrokerFanoutProofs -----------------------
(***************************************************************************)
(* Proofs of what Broker::publish promises: whom a fan-out reaches, and    *)
(* whom it does not, however many tasks register, unregister, subscribe    *)
(* and publish while it scans the tree and delivers.  Client ids may be    *)
(* shared and any send may fail.                                           *)
(*                                                                         *)
(* Owing says where a subscription stands that has been in place since the *)
(* fan-out began: not yet visited, collected, or served.  Noticed says     *)
(* that the history variable eligible covers what has been collected.      *)
(***************************************************************************)
EXTENDS MqttBrokerProofs, MqttBrokerFanout

\* Zenon proves the steps that need no arithmetic; the others cite SMT, with Z3 as
\* a second attempt.
USE ZenonT(30)

\* matching() has collected subscription s for c's message.
Collected(c, s) == \E q \in QoS : <<s[3], s[1], q>> \in hits[c]

\* The message in c's hands is in the queue of the subscription's channel.
Served(c, s) == \E i \in Published(s[2]) : out[s[2]][i].payload = msg[c].payload

\* A subscription in place since the fan-out began is still to be visited by the
\* scan, has been collected, or has been served.
Stands(c, s) ==
  /\ s \in Live /\ s[1] # Source(c) /\ msg[c].topic \in Matching[s[3]]
  /\ pc[c] = "scan" => s[3] \in todo[c] \/ Collected(c, s)
  /\ pc[c] = "deliver" => Collected(c, s) \/ writer[s[2]] # "running" \/ Served(c, s)

\* So stands every one of them, in every fan-out.
Owing == \A c \in Conns : FanningOut(c) => \A s \in owed[c] : Stands(c, s)

\* Every client that has a matching subscription now, or had one when the scan
\* visited its filter, is eligible.
Noticed ==
  \A c \in Conns : FanningOut(c) =>
    /\ Matched(c) \subseteq eligible[c]
    /\ \A h \in hits[c] : h[2] \in eligible[c] \cup {Source(c)}

\* The inductive invariant.
FanoutInv == IInv /\ Owing /\ Noticed

\* Nothing is being fanned out at first.
LEMMA InitFanout == FanoutInit => FanoutInv
<1> SUFFICES ASSUME FanoutInit PROVE FanoutInv
  OBVIOUS
<1>1. Init
  BY DEF FanoutInit
<1>2. \A c \in Conns : ~FanningOut(c)
  BY <1>1 DEF Init, FanningOut
<1> QED
  BY <1>1, <1>2, InitIInv DEF FanoutInv, Owing, Noticed

-----------------------------------------------------------------------------
(* Steps of a fan-out.                                                     *)

\* A task that is fanning out takes a step of the fan-out.
LEMMA FanoutStep ==
  ASSUME NEW c \in Conns, Task(c), FanningOut(c)
  PROVE  PublishScan(c) \/ PublishDeliver(c)
<1> USE DEF FanningOut
<1>1. ~Handshake(c)
  BY DEF Handshake, ConnectFails, Refuse, Accept, RegisterRemove, RegisterWipe, RegisterInsert,
         SendConnack
<1>2. ~ReadPacket(c)
  BY DEF ReadPacket, Reads, ReadFails, ReadFatal, ReadDisconnect, ReadNoise, ReadPingreq,
         ReadAck, ReadPubrec, ReadPublish, ReadPubrel, ReadSubscribe
<1>3. ~Teardown(c)
  BY DEF Teardown, UnregisterRemove, UnregisterWipe, Close
<1>4. ~LoopTop(c) /\ ~RunChain(c) /\ ~ListStep(c) /\ ~SendReply(c)
  BY DEF LoopTop, RunChain, ListStep, SendReply
<1> QED
  BY <1>1, <1>2, <1>3, <1>4 DEF Task, Handle

\* A fan-out starts with an empty collection and the whole tree to scan.
LEMMA FanoutStarts ==
  ASSUME TypeOK, NEW c \in Conns, Task(c), Starts(c)
  PROVE  pc'[c] = "scan" /\ todo'[c] = Filters /\ hits'[c] = {}
<1>0. /\ pc = [d \in Conns |-> pc[d]] /\ todo = [d \in Conns |-> todo[d]]
      /\ hits = [d \in Conns |-> hits[d]] /\ after[c] \in {"top", "reply", "closing"}
  BY DEF TypeOK
<1> USE <1>0 DEF Starts, FanningOut, Goto, SendOrFail, mapVars, taskVars
<1>1. CASE Handshake(c)
  BY <1>1 DEF Handshake, ConnectFails, Refuse, Accept, RegisterRemove, RegisterWipe,
              RegisterInsert, SendConnack
<1>2. CASE ReadFails(c) \/ \E r \in Requests[c] : Answers(c, r)
  BY <1>2 DEF ReadFails, Answers, ReadFatal, ReadDisconnect, ReadNoise, ReadPingreq,
              ReadAck, ReadPubrec, ReadPublish, ReadPubrel
<1>3. CASE \E r \in Requests[c] : ReadSubscribe(c, r)
  BY <1>3 DEF ReadSubscribe
<1>4. CASE Handle(c)
  <2>1. CASE RunChain(c)
    BY <2>1 DEF RunChain
  <2> QED
    BY <1>4, <2>1 DEF Handle, LoopTop, PublishScan, PublishDeliver, ListStep, SendReply
<1>5. CASE Teardown(c)
  BY <1>5 DEF Teardown, UnregisterRemove, UnregisterWipe, Close
<1> QED
  BY <1>1, <1>2, <1>3, <1>4, <1>5 DEF Task, ReadPacket, Answers

\* What a subscription <<id, d, f>> in place means for the maps.
LEMMA LiveFields ==
  ASSUME NEW s \in Live
  PROVE  /\ s[1] \in ClientIds /\ s[2] \in Conns /\ s[3] \in Filters
         /\ sessions[s[1]] # None /\ sessions[s[1]].conn = s[2] /\ subs[s[3]][s[1]] # None
  BY DEF Live

\* The scan of filter f collects every subscription in place under it that the
\* message is for.
LEMMA ScanCollects ==
  ASSUME TypeOK, NEW c \in Conns, NEW f \in Filters, NEW s \in Live, s[3] = f,
         msg[c].topic \in Matching[f], hits' = [hits EXCEPT ![c] = @ \cup MatchingAt(f, msg[c].topic)]
  PROVE  Collected(c, s)'
<1>1. subs[f][s[1]] \in QoS /\ s[1] \in ClientIds
  BY LiveFields, SMTT(30), Z3T(30) DEF TypeOK
<1>2. <<f, s[1], subs[f][s[1]]>> \in MatchingAt(f, msg[c].topic)
  BY <1>1, LiveFields DEF MatchingAt
<1>3. <<f, s[1], subs[f][s[1]]>> \in hits'[c]
  BY <1>2 DEF TypeOK
<1> QED
  BY <1>1, <1>3 DEF Collected

\* Delivering a hit of subscription s serves it, if its writer actor is running.
LEMMA DeliveryServes ==
  ASSUME TypeOK, NEW c \in Conns, NEW s \in Live, s[1] # Source(c), msg' = msg,
         NEW h, Delivers(c, h), h[2] = s[1], writer[s[2]] = "running"
  PROVE  Served(c, s)'
<1>1. sessions[h[2]] # None /\ sessions[h[2]].conn = s[2] /\ s[2] \in Conns
  BY LiveFields
<1>2. PICK q \in QoS, id \in PacketIds :
        Delivery(c, s[2], q, id) \in Outgoing /\ Send(s[2], Delivery(c, s[2], q, id))
  BY <1>1 DEF Delivers
<1>3. Queues(s[2], Delivery(c, s[2], q, id))
  BY <1>1, <1>2, SendEffect DEF TypeOK, CanSend
<1>4. Len(out[s[2]]) \in Nat
  BY <1>1, SMTT(30), Z3T(30) DEF TypeOK
<1>5. Len(out[s[2]]) + 1 \in Published(s[2])'
  BY <1>3, <1>4, SMTT(30), Z3T(30) DEF Queues, Published, Delivery
<1>6. out'[s[2]][Len(out[s[2]]) + 1].payload = msg'[c].payload
  BY <1>3, SMTT(30), Z3T(30) DEF Queues, Delivery
<1> QED
  BY <1>5, <1>6 DEF Served

\* What has been served stays served: nothing leaves a queue but at its head.
LEMMA StaysServed ==
  ASSUME TypeOK, TypeOK', MessageInHand, NEW e \in Conns, Task(e), NEW c \in Conns,
         msg'[c] = msg[c], NEW s, s[2] \in Conns, Served(c, s)
  PROVE  Served(c, s)'
<1>1. PICK i \in Published(s[2]) : out[s[2]][i].payload = msg[c].payload
  BY DEF Served
<1>2. i \in 1..Len(out[s[2]]) /\ out[s[2]][i].type = "publish"
  BY <1>1 DEF Published
<1>3. out'[s[2]][i] = out[s[2]][i] /\ Len(out[s[2]]) <= Len(out'[s[2]])
  BY <1>2, QueuesGrow
<1>4. Len(out[s[2]]) \in Nat /\ Len(out'[s[2]]) \in Nat
  <2>1. out \in [Conns -> Seq(Outgoing)] /\ out' \in [Conns -> Seq(Outgoing)]
    BY DEF TypeOK
  <2> QED
    BY <2>1, SMTT(30), Z3T(30)
<1>5. i \in Published(s[2])'
  BY <1>2, <1>3, <1>4, SMTT(30), Z3T(30) DEF Published
<1> QED
  BY <1>1, <1>3, <1>5 DEF Served
\* A step of the scan: what is in place under the visited filter is collected,
\* the rest stands as before.
LEMMA ScanStands ==
  ASSUME TypeOK, NEW c \in Conns, PublishScan(c), NEW s, Stands(c, s), s \in Live'
  PROVE  /\ pc'[c] \in {"scan", "deliver"} => Stands(c, s)'
         /\ pc'[c] \in {"scan", "deliver"}
<1>1. PICK f \in todo[c] :
       /\ hits' = [hits EXCEPT ![c] = @ \cup MatchingAt(f, msg[c].topic)]
       /\ todo' = [todo EXCEPT ![c] = @ \ {f}]
       /\ Goto(c, IF todo[c] # {f} THEN "scan"
                  ELSE IF hits'[c] = {} THEN after[c] ELSE "deliver")
  BY DEF PublishScan
<1>2. f \in Filters /\ todo'[c] = todo[c] \ {f} /\ hits[c] \subseteq hits'[c]
  BY <1>1 DEF TypeOK
<1>3. /\ msg' = msg /\ after' = after /\ req' = req /\ pc[c] = "scan"
      /\ pc'[c] = IF todo[c] # {f} THEN "scan" ELSE IF hits'[c] = {} THEN after[c] ELSE "deliver"
  BY <1>1 DEF PublishScan, Goto, TypeOK
<1>4. s \in Live /\ s[1] # Source(c) /\ msg[c].topic \in Matching[s[3]]
      /\ (s[3] \in todo[c] \/ Collected(c, s))
  BY <1>3 DEF Stands
<1>5. Source(c)' = Source(c)
  BY <1>3 DEF Source, Id
<1>6. s[3] \in todo'[c] \/ Collected(c, s)'
  <2>1. CASE s[3] = f
    BY <1>1, <1>2, <1>4, <2>1, ScanCollects
  <2>2. CASE s[3] # f
    BY <1>2, <1>4, <2>2 DEF Collected
  <2> QED
    BY <2>1, <2>2
<1>7. CASE todo[c] # {f}
  BY <1>3, <1>4, <1>5, <1>6, <1>7 DEF Stands
<1>8. CASE todo[c] = {f}
  <2>1. Collected(c, s)'
    BY <1>2, <1>6, <1>8
  <2>2. hits'[c] # {}
    BY <2>1 DEF Collected
  <2>3. pc'[c] = "deliver"
    BY <1>3, <1>8, <2>2
  <2> QED
    BY <1>3, <1>4, <1>5, <2>1, <2>3 DEF Stands
<1> QED
  BY <1>7, <1>8

\* A delivery: the subscription delivered is served, unless its writer actor is
\* gone; the rest stands as before.
LEMMA DeliverStands ==
  ASSUME TypeOK, TypeOK', MessageInHand, NEW c \in Conns, PublishDeliver(c), Task(c), NEW s,
         Stands(c, s), s \in Live'
  PROVE  /\ pc'[c] \in {"scan", "deliver"} => Stands(c, s)'
         /\ pc'[c] \notin {"scan", "deliver"} => writer[s[2]] # "running" \/ Served(c, s)'
<1>1. PICK h \in hits[c] : h \in Filters \X ClientIds \X QoS /\ Delivers(c, h)
  BY DeliverEffect
<1>2. /\ msg' = msg /\ after' = after /\ req' = req /\ pc[c] = "deliver"
      /\ pc'[c] = IF hits[c] = {h} THEN after[c] ELSE "deliver"
      /\ hits'[c] = hits[c] \ {h}
  <2>1. c \in DOMAIN pc /\ c \in DOMAIN hits
    BY DEF TypeOK
  <2>2. msg' = msg /\ after' = after /\ req' = req /\ pc[c] = "deliver"
    BY DEF PublishDeliver
  <2>3. pc'[c] = IF hits[c] = {h} THEN after[c] ELSE "deliver"
    BY <1>1, <2>1 DEF Delivers, Goto
  <2>4. hits'[c] = hits[c] \ {h}
    BY <1>1, <2>1 DEF Delivers
  <2> QED
    BY <2>2, <2>3, <2>4
<1>3. /\ s \in Live /\ s[1] # Source(c) /\ msg[c].topic \in Matching[s[3]]
      /\ (Collected(c, s) \/ writer[s[2]] # "running" \/ Served(c, s))
  BY <1>2 DEF Stands
<1>4. Source(c)' = Source(c) /\ writer' = writer /\ s[2] \in Conns
  BY <1>2, <1>3, WriterStands, LiveFields DEF Source, Id
<1>5. Collected(c, s)' \/ writer[s[2]] # "running" \/ Served(c, s)'
  <2>1. CASE Served(c, s)
    BY <1>2, <1>4, <2>1, StaysServed
  <2>2. CASE Collected(c, s)
    <3>1. PICK q \in QoS : <<s[3], s[1], q>> \in hits[c]
      BY <2>2 DEF Collected
    <3>2. CASE h = <<s[3], s[1], q>>
      <4>1. h[2] = s[1]
        BY <3>2
      <4> QED
        BY <1>1, <1>2, <1>3, <4>1, DeliveryServes
    <3>3. CASE h # <<s[3], s[1], q>>
      BY <1>2, <3>1, <3>3 DEF Collected
    <3> QED
      BY <3>2, <3>3
  <2> QED
    BY <1>3, <2>1, <2>2
<1>6. CASE hits[c] # {h}
  BY <1>2, <1>3, <1>4, <1>5, <1>6 DEF Stands
<1>7. CASE hits[c] = {h}
  <2>1. ~Collected(c, s)' /\ pc'[c] \notin {"scan", "deliver"}
    BY <1>2, <1>7 DEF Collected, TypeOK
  <2> QED
    BY <1>5, <2>1
<1> QED
  BY <1>6, <1>7

\* A step of another task or of a writer actor.
LEMMA OtherStands ==
  ASSUME TypeOK, TypeOK', MessageInHand, NEW c \in Conns, FanningOut(c), [Next]_vars, ~Task(c),
         NEW s, Stands(c, s), s \in Live'
  PROVE  Stands(c, s)' /\ pc'[c] = pc[c]
<1>1. /\ s \in Live /\ s[1] # Source(c) /\ msg[c].topic \in Matching[s[3]] /\ s[2] \in Conns
  BY LiveFields DEF Stands
<1>2. ASSUME NEW e \in Conns, Task(e) PROVE Stands(c, s)' /\ pc'[c] = pc[c]
  <2>1. /\ pc'[c] = pc[c] /\ req'[c] = req[c] /\ todo'[c] = todo[c] /\ hits'[c] = hits[c]
        /\ msg'[c] = msg[c] /\ after'[c] = after[c] /\ writer' = writer
    BY <1>2, TaskIsLocal, WriterStands DEF OthersUnchanged
  <2>2. Served(c, s) => Served(c, s)'
    BY <1>1, <1>2, <2>1, StaysServed
  <2> QED
    BY <1>1, <2>1, <2>2 DEF Stands, Source, Id, Collected
<1>3. ASSUME NEW e \in Conns, WriterExits(e) \/ WriterGone(e)
      PROVE  Stands(c, s)' /\ pc'[c] = pc[c]
  <2>1. UNCHANGED <<mapVars, pc, taskVars, out>>
    BY <1>3 DEF WriterExits, WriterGone
  <2>2. writer[s[2]] # "running" => writer'[s[2]] # "running"
    BY <1>1, <1>3, SMTT(30), Z3T(30) DEF WriterExits, WriterGone, TypeOK
  <2> QED
    BY <1>1, <2>1, <2>2 DEF Stands, Source, Id, Collected, Served, Published, mapVars, taskVars
<1>4. CASE UNCHANGED vars
  BY <1>1, <1>4 DEF Stands, Source, Id, Collected, Served, Published, vars, mapVars, taskVars, chanVars
<1> QED
  BY <1>2, <1>3, <1>4 DEF Next, Terminated
-----------------------------------------------------------------------------
(* The inductive invariant.                                                *)

\* A fan-out is started by the task whose it is.
LEMMA StartsOwn ==
  ASSUME TypeOK, NEW c \in Conns, [Next]_vars, Starts(c)
  PROVE  Task(c)
<1>1. pc'[c] # pc[c]
  BY DEF Starts, FanningOut
<1>2. ASSUME NEW e \in Conns, Task(e), e # c PROVE FALSE
  BY <1>1, <1>2, TaskIsLocal DEF OthersUnchanged
<1> QED
  BY <1>1, <1>2 DEF Next, Terminated, WriterExits, WriterGone, vars

\* The same for its end.
LEMMA EndsOwn ==
  ASSUME TypeOK, NEW c \in Conns, [Next]_vars, Ends(c)
  PROVE  Task(c)
<1>1. pc'[c] # pc[c]
  BY DEF Ends, FanningOut
<1>2. ASSUME NEW e \in Conns, Task(e), e # c PROVE FALSE
  BY <1>1, <1>2, TaskIsLocal DEF OthersUnchanged
<1> QED
  BY <1>1, <1>2 DEF Next, Terminated, WriterExits, WriterGone, vars

\* Every step keeps Owing.
LEMMA OwingStep == ASSUME IInv, IInv', Owing, FanoutNext PROVE Owing'
<1> SUFFICES ASSUME NEW c \in Conns, FanningOut(c)', NEW s \in owed'[c] PROVE Stands(c, s)'
  BY DEF Owing
<1>0. TypeOK /\ TypeOK' /\ MessageInHand /\ [Next]_vars
  BY DEF IInv, FanoutNext
<1>1. CASE Starts(c)
  <2>1. s \in Addressed(c)'
    BY <1>1 DEF FanoutNext
  <2>2. pc'[c] = "scan" /\ todo'[c] = Filters
    BY <1>0, <1>1, StartsOwn, FanoutStarts
  <2>3. s[3] \in Filters
    BY <2>1 DEF Addressed, Live
  <2> QED
    BY <2>1, <2>2, <2>3 DEF Addressed, Stands
<1>2. CASE ~Starts(c)
  <2>1. FanningOut(c) /\ s \in owed[c] /\ s \in Live'
    BY <1>2 DEF FanoutNext, Starts
  <2>2. Stands(c, s)
    BY <2>1 DEF Owing
  <2>3. CASE PublishScan(c)
    BY <1>0, <2>1, <2>2, <2>3, ScanStands
  <2>4. CASE PublishDeliver(c) /\ Task(c)
    BY <1>0, <2>1, <2>2, <2>4, DeliverStands DEF FanningOut
  <2>5. CASE ~Task(c)
    BY <1>0, <2>1, <2>2, <2>5, OtherStands
  <2> QED
    BY <2>1, <2>3, <2>4, <2>5, FanoutStep
<1> QED
  BY <1>1, <1>2

\* What the scan collects is a client that has a matching subscription now.
LEMMA CollectsMatched ==
  ASSUME NEW c, NEW f \in Filters, NEW h \in MatchingAt(f, msg[c].topic)
  PROVE  h[2] \in Matched(c) \cup {Source(c)}
<1>1. msg[c].topic \in Matching[f]
  BY DEF MatchingAt
<1>2. PICK id \in ClientIds : subs[f][id] # None /\ h = <<f, id, subs[f][id]>>
  BY DEF MatchingAt
<1> QED
  BY <1>1, <1>2 DEF Matched

\* Every step keeps Noticed.
LEMMA NoticedStep == ASSUME IInv, Noticed, FanoutNext PROVE Noticed'
<1> SUFFICES ASSUME NEW c \in Conns, FanningOut(c)'
             PROVE  /\ Matched(c)' \subseteq eligible'[c]
                    /\ \A h \in hits'[c] : h[2] \in eligible'[c] \cup {Source(c)'}
  BY DEF Noticed
<1>0. TypeOK /\ [Next]_vars
  BY DEF IInv, FanoutNext
<1>1. CASE Starts(c)
  <2>1. eligible'[c] = Matched(c)'
    BY <1>1 DEF FanoutNext
  <2>2. hits'[c] = {}
    BY <1>0, <1>1, StartsOwn, FanoutStarts
  <2> QED
    BY <2>1, <2>2
<1>2. CASE ~Starts(c)
  <2>1. FanningOut(c) /\ eligible'[c] = eligible[c] \cup Matched(c)'
    BY <1>2 DEF FanoutNext, Starts
  <2>2. Matched(c) \subseteq eligible[c] /\ \A h \in hits[c] : h[2] \in eligible[c] \cup {Source(c)}
    BY <2>1 DEF Noticed
  <2>3. CASE PublishScan(c)
    <3>1. PICK f \in Filters : hits'[c] = hits[c] \cup MatchingAt(f, msg[c].topic)
      BY <1>0, <2>3, SMTT(30), Z3T(30) DEF PublishScan, TypeOK
    <3>2. Source(c)' = Source(c)
      BY <2>3 DEF PublishScan, Source, Id
    <3>3. ASSUME NEW h \in hits'[c] PROVE h[2] \in eligible[c] \cup {Source(c)}
      BY <2>2, <3>1, CollectsMatched
    <3> QED
      BY <2>1, <3>2, <3>3
  <2>4. CASE PublishDeliver(c)
    <3>1. hits'[c] \subseteq hits[c] /\ Source(c)' = Source(c)
      BY <1>0, <2>4, SMTT(30), Z3T(30) DEF PublishDeliver, TypeOK, Source, Id
    <3> QED
      BY <2>1, <2>2, <3>1
  <2>5. CASE ~Task(c)
    <3>1. hits'[c] = hits[c] /\ after'[c] = after[c] /\ req'[c] = req[c]
      BY <1>0, <2>5, TaskIsLocal
         DEF Next, Terminated, WriterExits, WriterGone, vars, taskVars, OthersUnchanged
    <3> QED
      BY <2>1, <2>2, <3>1 DEF Source, Id
  <2> QED
    BY <2>1, <2>3, <2>4, <2>5, FanoutStep
<1> QED
  BY <1>1, <1>2

\* Every step of the broker with its history variables keeps the invariant.
LEMMA StepFanout == FanoutInv /\ [FanoutNext]_fanoutVars => FanoutInv'
<1> SUFFICES ASSUME FanoutInv, [FanoutNext]_fanoutVars PROVE FanoutInv'
  OBVIOUS
<1>1. CASE FanoutNext
  <2>1. IInv'
    BY <1>1, StepIInv DEF FanoutNext, FanoutInv
  <2> QED
    BY <1>1, <2>1, OwingStep, NoticedStep DEF FanoutInv
<1>2. CASE UNCHANGED fanoutVars
  <2>1. UNCHANGED vars /\ UNCHANGED <<owed, eligible>>
    BY <1>2 DEF fanoutVars
  <2>2. IInv'
    BY <2>1, StepIInv DEF FanoutInv
  <2>3. Owing' /\ Noticed'
    BY <2>1, SMTT(30), Z3T(30) DEF FanoutInv, Owing, Noticed, Stands, FanningOut, Live, Source, Id, Collected, Served,
                Published, Matched, vars, mapVars, taskVars, chanVars
  <2> QED
    BY <2>2, <2>3 DEF FanoutInv
<1> QED
  BY <1>1, <1>2

-----------------------------------------------------------------------------

\* A subscription that is in place when Broker::publish begins its fan-out, and
\* stays in place on the same channel until it ends, is served: the message is
\* in that channel's queue, whatever the other tasks do between the steps of
\* the scan and of the deliveries, and whether or not client ids are shared.
THEOREM FanoutReaches == FanoutSpec => ReachesSubscribers
<1> DEFINE A == \A c \in Conns : Ends(c) =>
                  \A s \in owed[c] \cap Live' :
                    writer[s[2]] = "running" =>
                      \E i \in Published(s[2])' : out'[s[2]][i].payload = msg[c].payload
<1>1. FanoutInv /\ [FanoutNext]_fanoutVars => [A]_fanoutVars
  <2> SUFFICES ASSUME FanoutInv, FanoutNext, NEW c \in Conns, Ends(c), NEW s \in owed[c] \cap Live',
                      writer[s[2]] = "running"
               PROVE  \E i \in Published(s[2])' : out'[s[2]][i].payload = msg[c].payload
    OBVIOUS
  <2>1. TypeOK /\ MessageInHand /\ [Next]_vars /\ TypeOK'
    BY StepIInv DEF FanoutInv, IInv, FanoutNext
  <2>2. Task(c) /\ FanningOut(c)
    BY <2>1, EndsOwn DEF Ends
  <2>3. Stands(c, s) /\ s \in Live'
    BY <2>2 DEF FanoutInv, Owing
  <2>4. pc'[c] \notin {"scan", "deliver"}
    BY DEF Ends, FanningOut
  <2>5. PublishDeliver(c)
    BY <2>1, <2>2, <2>3, <2>4, FanoutStep, ScanStands
  <2>6. Served(c, s)'
    BY <2>1, <2>2, <2>3, <2>4, <2>5, DeliverStands
  <2>7. msg'[c] = msg[c]
    BY <2>5 DEF PublishDeliver
  <2> QED
    BY <2>6, <2>7 DEF Served
<1> QED
  BY <1>1, InitFanout, StepFanout, PTL DEF FanoutSpec, ReachesSubscribers

\* Broker::publish sends a message only to the channel of a client that had a
\* matching subscription at some moment of the fan-out: after its UNSUBSCRIBE
\* a client is sent nothing whose fan-out begins later.
THEOREM FanoutKeepsOut == FanoutSpec => OnlySubscribers
<1> DEFINE A == \A c, d \in Conns :
                  pc[c] = "deliver" /\ hits'[c] # hits[c] /\ out'[d] # out[d] =>
                    \E id \in eligible[c] : sessions[id] # None /\ sessions[id].conn = d
<1>1. FanoutInv /\ [FanoutNext]_fanoutVars => [A]_fanoutVars
  <2> SUFFICES ASSUME FanoutInv, FanoutNext, NEW c \in Conns, NEW d \in Conns,
                      pc[c] = "deliver", hits'[c] # hits[c], out'[d] # out[d]
               PROVE  \E id \in eligible[c] : sessions[id] # None /\ sessions[id].conn = d
    OBVIOUS
  <2>1. TypeOK /\ MessageInHand /\ [Next]_vars
    BY DEF FanoutInv, IInv, FanoutNext
  <2>2. Task(c)
    BY <2>1, TaskIsLocal
       DEF Next, Terminated, WriterExits, WriterGone, vars, taskVars, OthersUnchanged
  <2>3. PublishDeliver(c)
    BY <2>2, FanoutStep DEF FanningOut, PublishScan
  <2>4. PICK h \in hits[c] : Delivers(c, h)
    BY <2>1, <2>3, DeliverEffect
  <2>5. h[2] # Source(c) /\ sessions[h[2]] # None
    BY <2>4 DEF Delivers
  <2>6. sessions[h[2]].conn = d
    <3>1. PICK p \in Outgoing : Send(sessions[h[2]].conn, p)
      BY <2>4, <2>5 DEF Delivers
    <3> QED
      BY <3>1, <2>1, <2>4, <2>5, SendEffect, SMTT(30), Z3T(30) DEF TypeOK, Delivers
  <2>7. h[2] \in eligible[c]
    BY <2>5 DEF FanoutInv, Noticed, FanningOut
  <2> QED
    BY <2>5, <2>6, <2>7
<1> QED
  BY <1>1, InitFanout, StepFanout, PTL DEF FanoutSpec, OnlySubscribers
=============================================================================
