------------------------- MODULE MqttChannelProofs -------------------------
(***************************************************************************)
(* Proofs about MqttChannel, for any set of packets, any number of handles *)
(* and any bound on the sends: the channel implements MqttWire, and        *)
(* is_open() means that a send succeeds.                                   *)
(***************************************************************************)
EXTENDS MqttChannel, TLAPS

Up == writer \in {"select", "writing"}

\* While the actor is in its loop the queue holds exactly the packets that were
\* accepted and are not on the wire yet, in order; what it writes is there.
Fifo ==
  /\ Up => /\ Len(accepted) = Len(wire) + Len(queue)
           /\ \A i \in 1..Len(queue) : accepted[Len(wire) + i] = queue[i]
  /\ writer = "writing" => queue # <<>>

\* The actor clears the flag before it drops the queue.
FlagCleared == writer \in {"shutdown", "gone"} => ~open

IInv == TypeOK /\ Fifo /\ FlagCleared

\* A new channel: everything is empty and the flag is set.
LEMMA InitIInv == Init => IInv
<1> SUFFICES ASSUME Init PROVE IInv OBVIOUS
<1>1. <<>> \in Seq(Packets) /\ Len(<<>>) = 0 OBVIOUS
<1>2. TypeOK
  <2>1. handles \in 0..MaxHandles BY ChannelAssumption DEF Init
  <2>2. queue \in Seq(Packets) /\ wire \in Seq(Packets) /\ accepted \in Seq(Packets)
    BY <1>1 DEF Init
  <2>. QED BY <2>1, <2>2 DEF Init, TypeOK
<1>3. Len(wire) = 0 /\ Len(queue) = 0 /\ Len(accepted) = 0 BY <1>1 DEF Init
<1>4. Fifo BY <1>3 DEF Init, Fifo, Up
<1>. QED BY <1>2, <1>4 DEF IInv, FlagCleared, Init

\* Every step of a handle or of the actor keeps the types.
LEMMA StepType == TypeOK /\ Fifo /\ [Next]_vars => TypeOK'
<1> SUFFICES ASSUME TypeOK, Fifo, [Next]_vars PROVE TypeOK' OBVIOUS
<1> USE ChannelAssumption DEF TypeOK
<1>1. CASE \E p \in Packets : SendPacket(p)
  BY <1>1 DEF SendPacket
<1>2. CASE CloseSwap BY <1>2 DEF CloseSwap
<1>3. CASE DropHandle
  <2>1. handles > 0 /\ handles' = handles - 1 BY <1>3 DEF DropHandle
  <2>2. handles' \in 0..MaxHandles BY <2>1
  <2>. QED BY <1>3, <2>2 DEF DropHandle
<1>4. CASE CloseNotify
  <2>1. notified' \in BOOLEAN BY <1>4 DEF CloseNotify
  <2>. QED BY <1>4, <2>1 DEF CloseNotify
<1>5. CASE CloseAbandon BY <1>5 DEF CloseAbandon
<1>6. CASE WriterRecv BY <1>6 DEF WriterRecv
<1>7. CASE WriteSucceeds
  <2>1. queue # <<>> BY <1>7 DEF WriteSucceeds, Fifo
  <2>2. Head(queue) \in Packets /\ Tail(queue) \in Seq(Packets) BY <2>1
  <2>. QED BY <1>7, <2>2 DEF WriteSucceeds
<1>8. CASE WriteFails
  <2>1. queue # <<>> BY <1>8 DEF WriteFails, Fifo
  <2>2. Tail(queue) \in Seq(Packets) BY <2>1
  <2>. QED BY <1>8, <2>2 DEF WriteFails
<1>9. CASE WriterNotified BY <1>9 DEF WriterNotified
<1>10. CASE WriterHungUp BY <1>10 DEF WriterHungUp
<1>11. CASE WriterStores BY <1>11 DEF WriterStores
<1>12. CASE WriterReturns BY <1>12 DEF WriterReturns
<1>13. CASE UNCHANGED vars BY <1>13 DEF vars
<1>. QED
  BY <1>1, <1>2, <1>3, <1>4, <1>5, <1>6, <1>7, <1>8, <1>9, <1>10, <1>11, <1>12, <1>13
  DEF Next, Users, Writer

\* Only the actor's write moves a packet from the queue to the wire, and only a
\* send adds one at the back of the queue.
LEMMA StepFifo == TypeOK /\ Fifo /\ [Next]_vars => Fifo'
<1>a. SUFFICES ASSUME TypeOK, Fifo, [Next]_vars PROVE Fifo' OBVIOUS
<1>0. queue \in Seq(Packets) /\ wire \in Seq(Packets) /\ accepted \in Seq(Packets)
  BY <1>a DEF TypeOK
<1>b. Len(queue) \in Nat /\ Len(wire) \in Nat /\ Len(accepted) \in Nat BY <1>0
<1>c. Up => Len(accepted) = Len(wire) + Len(queue) BY <1>a DEF Fifo
<1>d. Up => \A i \in 1..Len(queue) : accepted[Len(wire) + i] = queue[i] BY <1>a DEF Fifo
<1>1. CASE \E p \in Packets : SendPacket(p)
  <2>1. PICK p \in Packets : SendPacket(p) BY <1>1
  <2>2. queue' = Append(queue, p) /\ accepted' = Append(accepted, p)
        /\ wire' = wire /\ writer' = writer
    BY <2>1 DEF SendPacket
  <2>3. queue' # <<>> BY <2>2, <1>0
  <2>4. Len(queue') = Len(queue) + 1 /\ Len(accepted') = Len(accepted) + 1
    BY <2>2, <1>0
  <2>5. ASSUME Up, NEW i \in 1..Len(queue') PROVE accepted'[Len(wire) + i] = queue'[i]
    <3>1. CASE i = Len(queue) + 1
      <4>1. Len(wire) + i = Len(accepted) + 1 BY <3>1, <2>5, <1>b, <1>c
      <4>. QED BY <3>1, <4>1, <2>2, <1>0
    <3>2. CASE i \in 1..Len(queue)
      <4>1. accepted[Len(wire) + i] = queue[i] BY <3>2, <2>5, <1>d
      <4>2. Len(wire) + i \in 1..Len(accepted) BY <3>2, <2>5, <1>b, <1>c
      <4>. QED BY <3>2, <4>1, <4>2, <2>2, <1>0
    <3>. QED BY <3>1, <3>2, <2>5, <2>4, <1>b
  <2>6. Up => Len(accepted') = Len(wire') + Len(queue') BY <2>2, <2>4, <1>b, <1>c
  <2>. QED BY <2>2, <2>3, <2>5, <2>6 DEF Fifo, Up
<1>2. CASE CloseSwap BY <1>a, <1>2 DEF Fifo, Up, CloseSwap
<1>3. CASE DropHandle BY <1>a, <1>3 DEF Fifo, Up, DropHandle
<1>4. CASE CloseNotify BY <1>a, <1>4 DEF Fifo, Up, CloseNotify
<1>5. CASE CloseAbandon BY <1>a, <1>5 DEF Fifo, Up, CloseAbandon
<1>6. CASE WriterRecv BY <1>a, <1>6 DEF Fifo, Up, WriterRecv
<1>7. CASE WriteSucceeds
  <2>1. queue # <<>> /\ Up BY <1>a, <1>7 DEF WriteSucceeds, Fifo, Up
  <2>2. wire' = Append(wire, Head(queue)) /\ queue' = Tail(queue)
        /\ accepted' = accepted /\ writer' = "select"
    BY <1>7 DEF WriteSucceeds
  <2>3. Len(wire') = Len(wire) + 1 /\ Len(queue') = Len(queue) - 1
    BY <2>1, <2>2, <1>0
  <2>4. ASSUME NEW i \in 1..Len(queue') PROVE accepted'[Len(wire') + i] = queue'[i]
    <3>1. queue'[i] = queue[i + 1] /\ i + 1 \in 1..Len(queue) BY <2>1, <2>2, <2>3, <1>0
    <3>2. accepted[Len(wire) + (i + 1)] = queue[i + 1] BY <3>1, <2>1, <1>d
    <3>3. Len(wire') + i = Len(wire) + (i + 1) BY <2>3, <1>b
    <3>. QED BY <3>1, <3>2, <3>3, <2>2
  <2>5. Len(accepted') = Len(wire') + Len(queue')
    BY <2>1, <2>2, <2>3, <1>b, <1>c
  <2>. QED BY <2>2, <2>4, <2>5 DEF Fifo, Up
<1>8. CASE WriteFails BY <1>a, <1>8 DEF Fifo, Up, WriteFails
<1>9. CASE WriterNotified BY <1>a, <1>9 DEF Fifo, Up, WriterNotified
<1>10. CASE WriterHungUp BY <1>a, <1>10 DEF Fifo, Up, WriterHungUp
<1>11. CASE WriterStores BY <1>a, <1>11 DEF Fifo, Up, WriterStores
<1>12. CASE WriterReturns BY <1>a, <1>12 DEF Fifo, Up, WriterReturns
<1>13. CASE UNCHANGED vars BY <1>a, <1>13 DEF Fifo, Up, vars
<1>. QED
  BY <1>a, <1>1, <1>2, <1>3, <1>4, <1>5, <1>6, <1>7, <1>8, <1>9, <1>10, <1>11, <1>12, <1>13
  DEF Next, Users, Writer

\* No step sets the flag again.
LEMMA StepFlag == TypeOK /\ FlagCleared /\ [Next]_vars => FlagCleared'
BY DEF TypeOK, FlagCleared, Next, vars, Users, Writer, SendPacket, CloseSwap, DropHandle,
  CloseNotify, CloseAbandon, WriterRecv, WriteSucceeds, WriteFails, WriterNotified,
  WriterHungUp, WriterStores, WriterReturns

\* The invariant holds in every reachable state of a channel.
LEMMA Invariance == Spec => []IInv
<1>1. IInv /\ [Next]_vars => IInv' BY StepType, StepFifo, StepFlag DEF IInv
<1>. QED BY InitIInv, <1>1, PTL DEF Spec

\* is_open() tells the truth: while it returns true, send_packet succeeds.
THEOREM OpenMeansAccepts == Spec => []OpenAccepts
<1>1. IInv => OpenAccepts BY DEF IInv, FlagCleared, OpenAccepts
<1>. QED BY Invariance, <1>1, PTL

\* A step of the channel is a step of MqttWire or leaves its variables alone.
LEMMA StepWire == IInv /\ [Next]_vars => [Wire!Next]_(Wire!wireVars)
<1> SUFFICES ASSUME IInv, [Next]_vars PROVE [Wire!Next]_(Wire!wireVars) OBVIOUS
<1> USE DEF Wire!wireVars
<1>0. queue \in Seq(Packets) /\ wire \in Seq(Packets) /\ accepted \in Seq(Packets)
  BY DEF IInv, TypeOK
<1>1. CASE \E p \in Packets : SendPacket(p)
  <2>1. Wire!Accept BY <1>1 DEF SendPacket, Wire!Accept
  <2>. QED BY <2>1 DEF Wire!Next
<1>2. CASE CloseSwap BY <1>2 DEF CloseSwap
<1>3. CASE DropHandle BY <1>3 DEF DropHandle
<1>4. CASE CloseNotify BY <1>4 DEF CloseNotify
<1>5. CASE CloseAbandon BY <1>5 DEF CloseAbandon
<1>6. CASE WriterRecv BY <1>6 DEF WriterRecv
<1>7. CASE WriteSucceeds
  <2>1. queue # <<>> /\ writer = "writing" BY <1>7 DEF WriteSucceeds, IInv, Fifo
  <2>2. Len(accepted) = Len(wire) + Len(queue) /\ 1 \in 1..Len(queue)
        /\ accepted[Len(wire) + 1] = queue[1]
    BY <2>1, <1>0 DEF IInv, Fifo, Up
  <2>3. Head(queue) = accepted[Len(wire) + 1] BY <2>1, <2>2, <1>0
  <2>4. Len(wire) < Len(accepted) BY <2>2, <1>0
  <2>5. Wire!Carry BY <1>7, <2>1, <2>3, <2>4 DEF WriteSucceeds, Wire!Carry
  <2>. QED BY <2>5 DEF Wire!Next
<1>8. CASE WriteFails \/ WriterNotified \/ WriterHungUp
  <2>1. Wire!GoDown BY <1>8 DEF WriteFails, WriterNotified, WriterHungUp, Wire!GoDown
  <2>. QED BY <2>1 DEF Wire!Next
<1>9. CASE WriterStores BY <1>9 DEF WriterStores
<1>10. CASE WriterReturns BY <1>10 DEF WriterReturns
<1>11. CASE UNCHANGED vars BY <1>11 DEF vars
<1>. QED
  BY <1>1, <1>2, <1>3, <1>4, <1>5, <1>6, <1>7, <1>8, <1>9, <1>10, <1>11
  DEF Next, Users, Writer

\* The channel implements MqttWire: packets leave in the order the queue took
\* them, none twice and none skipped, until the actor leaves its loop.
THEOREM ChannelInOrder == Spec => InOrder
<1>1. Init => Wire!Init BY DEF Init, Wire!Init
<1>. QED BY Invariance, StepWire, <1>1, PTL DEF Spec, InOrder, Wire!Spec
=============================================================================
