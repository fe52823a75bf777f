-------------------------- MODULE MqttBrokerOwners --------------------------
(***************************************************************************)
(* Proofs about who owns what in MqttBroker, and about what a client is    *)
(* sent and when.  An entry of the session map belongs to the connection   *)
(* that put it there; as long as client ids are not shared, entry,         *)
(* subscriptions and in-flight messages have one owner, a publisher's      *)
(* messages keep their order, its Will comes last and only after a crash,  *)
(* and CONNACK comes before all else.                                      *)
(*                                                                         *)
(* The queues are related to the tasks that filled them: HandOwned and     *)
(* StashOwned say which messages a task may still fan out, SentOwned which *)
(* it has, in terms of the number of packets it has read.                  *)
(***************************************************************************)
EXTENDS MqttBrokerProofs

\* Zenon proves the steps that need no arithmetic; the others cite SMT, with Z3 as
\* a second attempt.
USE ZenonT(30)

\* The client ids connection c may get: those of its CONNECT packets, or its own
\* "hotaru-auto-" id where the packet has none.
IdsOf(c) == {AutoId[c]} \cup ({r.id : r \in Connects[c]} \ {EmptyId})

\* No two connections get the same client id.
Unshared == \A c, d \in Conns : c # d => IdsOf(c) \cap IdsOf(d) = {}

\* A connection has one of its ids.
OwnIds == \A c \in Conns : Id(c) \in IdsOf(c)

\* A task that DISCONNECT has ended goes straight to its end, and from
\* unregister_session on the map holds nothing of it.
GracefulLeaves ==
  \A c \in Conns : graceful[c] =>
    /\ pc[c] \in {"unreg_remove", "unreg_wipe", "closing", "done"}
    /\ pc[c] = "unreg_wipe" => msg[c] = None
    /\ pc[c] # "unreg_remove" => \A id \in ClientIds : sessions[id] # None => sessions[id].conn # c

\* A subscription is there for a client whose connection has registered.
SubsOwned ==
  \A f \in Filters, id \in ClientIds : subs[f][id] # None =>
    \E c \in Conns : Id(c) = id /\ pc[c] \notin Early

\* A task that wipes the tree after removing an entry finds no new entry.
StaysRemoved == \A c \in Conns : pc[c] = "unreg_wipe" => sessions[Id(c)] = None

-----------------------------------------------------------------------------
(* Ownership, whether or not client ids are shared.                        *)

\* Accept is the only step that gives a connection an id, and it is one of its.
LEMMA OwnIdsStep == ASSUME TypeOK, OwnIds, NEW c \in Conns, Task(c) PROVE OwnIds'
<1>1. OthersUnchanged(c)
  BY TaskIsLocal
<1>2. CASE Accept(c)
  <2>1. PICK r \in Connects[c] :
          req' = [req EXCEPT ![c] = [r EXCEPT !.id = IF @ = EmptyId THEN AutoId[c] ELSE @]]
    BY <1>2 DEF Accept
  <2>2. r \in Connect
    BY PacketsAssumption
  <2>3. req'[c].id = IF r.id = EmptyId THEN AutoId[c] ELSE r.id
    BY <2>1, <2>2 DEF TypeOK, Connect
  <2>4. Id(c)' \in IdsOf(c)
    BY <2>3 DEF IdsOf, Id
  <2> QED
    BY <1>1, <2>4 DEF OwnIds, OthersUnchanged, Id
<1>3. CASE ~Accept(c)
  <2>1. req'[c] = req[c]
    <3>1. CASE pc[c] # "accept"
      BY <3>1, Onward
    <3>2. CASE pc[c] = "accept"
      BY <1>3, <3>2 DEF Task, Handshake, ConnectFails, Refuse, RegisterRemove, RegisterWipe,
           RegisterInsert, SendConnack, ReadPacket, ReadFails, ReadFatal, ReadDisconnect, ReadNoise,
           ReadPingreq, ReadAck, ReadPubrec, ReadPublish, ReadPubrel, ReadSubscribe, Reads, Handle,
           LoopTop, RunChain, PublishScan, PublishDeliver, ListStep, SendReply, Teardown,
           UnregisterRemove, UnregisterWipe, Close, taskVars
    <3> QED
      BY <3>1, <3>2
  <2> QED
    BY <1>1, <2>1 DEF OwnIds, OthersUnchanged, Id
<1> QED
  BY <1>2, <1>3

\* graceful is set by DISCONNECT and by nothing else.
LEMMA SetsGraceful ==
  ASSUME TypeOK, NEW c \in Conns, Task(c)
  PROVE  \/ UNCHANGED graceful
         \/ graceful' = [graceful EXCEPT ![c] = TRUE] /\ pc' = [pc EXCEPT ![c] = "unreg_remove"]
<1> USE DEF taskVars
<1>1. CASE Handshake(c)
  BY <1>1 DEF Handshake, ConnectFails, Refuse, Accept, RegisterRemove, RegisterWipe,
              RegisterInsert, SendConnack
<1>2. CASE ReadPacket(c)
  BY <1>2 DEF ReadPacket, ReadFails, ReadFatal, ReadDisconnect, ReadNoise, ReadPingreq,
              ReadAck, ReadPubrec, ReadPublish, ReadPubrel, ReadSubscribe, Goto
<1>3. CASE Handle(c)
  BY <1>3 DEF Handle, LoopTop, RunChain, PublishScan, PublishDeliver, ListStep, SendReply
<1>4. CASE Teardown(c)
  BY <1>4 DEF Teardown, UnregisterRemove, UnregisterWipe, Close
<1> QED
  BY <1>1, <1>2, <1>3, <1>4 DEF Task

\* A task on its way out takes only the steps of the way out.
LEMMA OnTheWayOut ==
  ASSUME TypeOK, NEW c \in Conns, Task(c), pc[c] \in {"unreg_remove", "unreg_wipe", "closing", "done"}
  PROVE  Teardown(c)
<1>1. ~Handshake(c)
  BY DEF Handshake, ConnectFails, Refuse, Accept, RegisterRemove, RegisterWipe, RegisterInsert,
         SendConnack
<1>2. ~ReadPacket(c)
  BY DEF ReadPacket, Reads, ReadFails, ReadFatal, ReadDisconnect, ReadNoise, ReadPingreq,
         ReadAck, ReadPubrec, ReadPublish, ReadPubrel, ReadSubscribe
<1>3. ~Handle(c)
  BY DEF Handle, LoopTop, RunChain, PublishScan, PublishDeliver, ListStep, SendReply
<1> QED
  BY <1>1, <1>2, <1>3 DEF Task

\* Every step of a task keeps GracefulLeaves.
LEMMA GracefulStep ==
  ASSUME TypeOK, ListInHand, GuardedEntry, Owned, GracefulLeaves, NEW c \in Conns, Task(c)
  PROVE  GracefulLeaves'
<1> SUFFICES ASSUME NEW d \in Conns, graceful'[d]
             PROVE  /\ pc'[d] \in {"unreg_remove", "unreg_wipe", "closing", "done"}
                    /\ pc'[d] = "unreg_wipe" => msg'[d] = None
                    /\ pc'[d] # "unreg_remove" =>
                         \A id \in ClientIds : sessions'[id] # None => sessions'[id].conn # d
  BY DEF GracefulLeaves
<1>0. pc = [x \in Conns |-> pc[x]] /\ msg = [x \in Conns |-> msg[x]] /\ Id(c) \in ClientIds
  BY DEF TypeOK, Id
<1>1. CASE d # c
  <2>1. graceful[d] /\ pc'[d] = pc[d] /\ msg'[d] = msg[d]
    <3>1. graceful = [x \in Conns |-> graceful[x]]
      BY DEF TypeOK
    <3>2. graceful'[d] = graceful[d]
      BY <1>1, <3>1, SetsGraceful
    <3> QED
      BY <1>1, <3>2, TaskIsLocal DEF OthersUnchanged
  <2>2. ASSUME NEW id \in ClientIds, sessions'[id] # None, pc[d] # "unreg_remove"
        PROVE  sessions'[id].conn # d
    <3>1. CASE sessions[id] # None /\ sessions'[id].conn = sessions[id].conn
      BY <2>1, <2>2, <3>1 DEF GracefulLeaves
    <3>2. CASE RegisterInsert(c) /\ id = Id(c)
      BY <1>0, <1>1, <3>2 DEF RegisterInsert, TypeOK
    <3> QED
      BY <2>2, <3>1, <3>2, NewEntry
  <2> QED
    BY <2>1, <2>2 DEF GracefulLeaves
<1>2. CASE d = c /\ ~graceful[c]
  BY <1>0, <1>2, SetsGraceful
<1>3. CASE d = c /\ graceful[c]
  <2>1. Teardown(c)
    BY <1>3, OnTheWayOut DEF GracefulLeaves
  <2>2. CASE UnregisterRemove(c)
    <3>1. /\ sessions' = [sessions EXCEPT ![Id(c)] = None] /\ msg'[c] = None
          /\ pc'[c] \in {"closing", "unreg_wipe"}
      BY <1>0, <1>3, <2>2 DEF UnregisterRemove, WillFires, Goto
    <3>2. ASSUME NEW id \in ClientIds, sessions'[id] # None PROVE sessions'[id].conn # c
      <4>1. id # Id(c) /\ sessions'[id] = sessions[id]
        BY <1>0, <3>1, <3>2 DEF TypeOK
      <4> QED
        BY <3>2, <4>1 DEF Owned
    <3> QED
      BY <1>3, <3>1, <3>2
  <2>3. CASE UnregisterWipe(c)
    <3>1. pc[c] = "unreg_wipe" /\ msg[c] = None
      BY <1>3, <2>3 DEF UnregisterWipe, GracefulLeaves
    <3>2. sessions' = sessions /\ msg' = msg /\ pc'[c] \in {"unreg_wipe", "closing"}
      BY <1>0, <2>3, <3>1 DEF UnregisterWipe, Goto
    <3> QED
      BY <1>3, <3>1, <3>2 DEF GracefulLeaves
  <2>4. CASE Close(c)
    <3>1. pc[c] = "closing" /\ pc'[c] = "done" /\ sessions' = sessions
      BY <1>0, <2>4 DEF Close, Goto, mapVars
    <3> QED
      BY <1>3, <3>1 DEF GracefulLeaves
  <2> QED
    BY <2>1, <2>2, <2>3, <2>4 DEF Teardown
<1> QED
  BY <1>1, <1>2, <1>3

\* The inductive invariant for any client ids.
OwnInv == IInv /\ OwnIds /\ Owned /\ GracefulLeaves

\* It holds of an empty broker.
LEMMA InitOwn == Init => OwnInv
<1> SUFFICES ASSUME Init PROVE OwnInv
  OBVIOUS
<1>1. OwnIds /\ Owned /\ GracefulLeaves
  BY DEF Init, OwnIds, Owned, GracefulLeaves, Id, IdsOf
<1> QED
  BY <1>1, InitIInv DEF OwnInv

\* Every step keeps it.
LEMMA StepOwn == OwnInv /\ [Next]_vars => OwnInv'
<1> SUFFICES ASSUME OwnInv, [Next]_vars PROVE OwnInv'
  OBVIOUS
<1>1. IInv'
  BY StepIInv DEF OwnInv
<1>2. CASE \E c \in Conns : Task(c)
  BY <1>1, <1>2, OwnIdsStep, OwnedStep, GracefulStep DEF OwnInv, IInv
<1>3. CASE ~ \E c \in Conns : Task(c)
  <2>1. UNCHANGED <<mapVars, pc, taskVars>>
    BY <1>3, WriterIsApart
  <2>2. OwnIds' /\ Owned' /\ GracefulLeaves'
    BY <2>1 DEF OwnInv, OwnIds, Owned, GracefulLeaves, Id, mapVars, taskVars
  <2> QED
    BY <1>1, <2>2 DEF OwnInv
<1> QED
  BY <1>2, <1>3

\* A client that sent DISCONNECT leaves no session behind when its task ends,
\* whoever shares its client id and whatever fails: unregister_session removes
\* the entry that register_session of this connection made.
THEOREM GracefulGone == Spec => []GracefulIsUnregistered
<1>1. OwnInv => GracefulIsUnregistered
  BY DEF OwnInv, GracefulLeaves, GracefulIsUnregistered
<1> QED
  BY <1>1, InitOwn, StepOwn, PTL DEF Spec

-----------------------------------------------------------------------------
(* One owner: client ids that are not shared.                              *)

\* Every step of a task keeps SubsOwned.
LEMMA SubsOwnedStep ==
  ASSUME TypeOK, ListInHand, GuardedEntry, SubsOwned, NEW c \in Conns, Task(c)
  PROVE  SubsOwned'
<1> SUFFICES ASSUME NEW f \in Filters, NEW id \in ClientIds, subs'[f][id] # None
             PROVE  \E d \in Conns : req'[d].id = id /\ pc'[d] \notin Early
  BY DEF SubsOwned, Id
<1>0. Id(c) \in ClientIds /\ subs \in [Filters -> [ClientIds -> QoS \cup {None}]]
  BY DEF TypeOK, Id
<1>1. ASSUME subs[f][id] # None PROVE \E d \in Conns : req'[d].id = id /\ pc'[d] \notin Early
  <2>1. PICK d \in Conns : Id(d) = id /\ pc[d] \notin Early
    BY <1>1 DEF SubsOwned
  <2>2. CASE d = c
    BY <2>1, <2>2, Onward DEF Id, Early
  <2>3. CASE d # c
    BY <2>1, <2>3, TaskIsLocal, SMTT(30), Z3T(30) DEF OthersUnchanged, Id
  <2> QED
    BY <2>2, <2>3
<1>2. CASE Quiet(c) \/ RegisterRemove(c) \/ UnregisterRemove(c) \/ RegisterInsert(c)
  BY <1>1, <1>2 DEF Quiet, mapVars, RegisterRemove, UnregisterRemove, RegisterInsert
<1>3. CASE RegisterWipe(c) \/ UnregisterWipe(c)
  <2>1. PICK g : subs' = [subs EXCEPT ![g][Id(c)] = None]
    BY <1>3 DEF RegisterWipe, UnregisterWipe, WipeFilter
  <2>2. subs[f][id] # None
    BY <1>0, <2>1
  <2> QED
    BY <1>1, <2>2
<1>4. CASE ListStep(c)
  <2>1. CASE UNCHANGED mapVars
    BY <1>1, <2>1 DEF mapVars
  <2>2. CASE \E g \in Filters, q \in QoS \cup {None} : subs' = [subs EXCEPT ![g][Id(c)] = q]
    <3>1. CASE id = Id(c)
      BY <1>4, <3>1, Onward DEF ListStep, Id, Early
    <3>2. CASE id # Id(c)
      <4>1. subs'[f][id] = subs[f][id]
        BY <1>0, <2>2, <3>2
      <4> QED
        BY <1>1, <4>1
    <3> QED
      BY <3>1, <3>2
  <2> QED
    BY <1>4, <2>1, <2>2, ListEffect DEF Relists
<1> QED
  BY <1>2, <1>3, <1>4, QuietOrMap DEF MapStep

\* Unshared ids tell the connections apart.
LEMMA OneOwner ==
  ASSUME Unshared, OwnIds, NEW c \in Conns, NEW d \in Conns, Id(c) = Id(d)
  PROVE  c = d
  BY DEF Unshared, OwnIds

\* Until its entry is in the map nothing is subscribed under a task's id.
LEMMA NothingYet ==
  ASSUME TypeOK, Unshared, OwnIds, SubsOwned, NEW c \in Conns, pc[c] \in Early, NEW f \in Filters
  PROVE  subs[f][Id(c)] = None
<1>1. Id(c) \in ClientIds
  BY DEF TypeOK, Id
<1> SUFFICES ASSUME subs[f][Id(c)] # None PROVE FALSE
  OBVIOUS
<1>2. PICK d \in Conns : Id(d) = Id(c) /\ pc[d] \notin Early
  BY <1>1 DEF SubsOwned
<1> QED
  BY <1>2, OneOwner

\* Every step of a task keeps StaysRemoved.
LEMMA StaysRemovedStep ==
  ASSUME TypeOK, ListInHand, GuardedEntry, Unshared, OwnIds, StaysRemoved, NEW c \in Conns, Task(c)
  PROVE  StaysRemoved'
<1> SUFFICES ASSUME NEW d \in Conns, pc'[d] = "unreg_wipe", sessions'[req'[d].id] # None
             PROVE  FALSE
  BY DEF StaysRemoved, Id
<1>0. /\ sessions \in [ClientIds -> Session \cup {None}] /\ pc = [x \in Conns |-> pc[x]]
      /\ Id(c) \in ClientIds /\ Id(d) \in ClientIds
  BY DEF TypeOK, Id
<1>1. CASE UnregisterRemove(c) /\ d = c
  <2>1. sessions' = [sessions EXCEPT ![Id(c)] = None] /\ req' = req
    BY <1>1 DEF UnregisterRemove
  <2> QED
    BY <1>0, <1>1, <2>1 DEF Id
<1>2. CASE ~(UnregisterRemove(c) /\ d = c)
  <2>1. pc[d] = "unreg_wipe" /\ req'[d] = req[d]
    BY <1>2, Onward, TaskIsLocal, SMTT(30), Z3T(30) DEF OthersUnchanged
  <2>2. sessions[Id(d)] = None /\ sessions'[Id(d)] # None
    BY <2>1 DEF StaysRemoved, Id
  <2>3. RegisterInsert(c) /\ Id(d) = Id(c)
    BY <1>0, <2>2, NewEntry
  <2>4. d = c
    BY <2>3, OneOwner
  <2> QED
    BY <2>1, <2>3, <2>4 DEF RegisterInsert
<1> QED
  BY <1>1, <1>2

\* Every step of a task keeps the session's filters and the tree in step.
LEMMA TreeStep ==
  ASSUME TypeOK, ListInHand, GuardedEntry, Unshared, OwnIds, SubsOwned, StaysRemoved, TreeAgrees,
         NEW c \in Conns, Task(c)
  PROVE  TreeAgrees'
<1> SUFFICES ASSUME NEW id \in ClientIds, sessions'[id] # None, NEW f \in Filters
             PROVE  subs'[f][id] = sessions'[id].filters[f]
  BY DEF TreeAgrees
<1>0. /\ Id(c) \in ClientIds /\ sessions \in [ClientIds -> Session \cup {None}]
      /\ subs \in [Filters -> [ClientIds -> QoS \cup {None}]]
  BY DEF TypeOK, Id
<1>1. CASE Quiet(c)
  BY <1>1 DEF Quiet, mapVars, TreeAgrees
<1>2. CASE RegisterRemove(c) \/ UnregisterRemove(c)
  <2>1. sessions' = [sessions EXCEPT ![Id(c)] = None] /\ subs' = subs
    BY <1>2 DEF RegisterRemove, UnregisterRemove
  <2> QED
    BY <1>0, <2>1 DEF TreeAgrees
<1>3. CASE RegisterInsert(c)
  <2>1. sessions' = [sessions EXCEPT ![Id(c)] = Fresh(c)] /\ subs' = subs
    BY <1>3 DEF RegisterInsert, Fresh
  <2>2. CASE id = Id(c)
    <3>1. subs[f][id] = None
      BY <1>3, <2>2, NothingYet DEF RegisterInsert, Early
    <3> QED
      BY <1>0, <2>1, <2>2, <3>1 DEF Fresh, NoFilters
  <2>3. CASE id # Id(c)
    BY <1>0, <2>1, <2>3 DEF TreeAgrees
  <2> QED
    BY <2>2, <2>3
<1>4. CASE RegisterWipe(c)
  <2>1. PICK g \in todo[c] : subs' = [subs EXCEPT ![g][Id(c)] = None]
    BY <1>4 DEF RegisterWipe, WipeFilter
  <2>2. g \in Filters /\ sessions' = sessions /\ pc[c] \in Early
    BY <1>4, <2>1 DEF TypeOK, RegisterWipe, Early
  <2>3. subs[g][Id(c)] = None
    BY <2>2, NothingYet
  <2>4. subs'[f][id] = subs[f][id]
    BY <1>0, <2>1, <2>2, <2>3
  <2> QED
    BY <2>2, <2>4 DEF TreeAgrees
<1>5. CASE UnregisterWipe(c)
  <2>1. PICK g \in todo[c] : subs' = [subs EXCEPT ![g][Id(c)] = None]
    BY <1>5 DEF UnregisterWipe, WipeFilter
  <2>2. sessions' = sessions /\ sessions[Id(c)] = None
    BY <1>5 DEF UnregisterWipe, StaysRemoved
  <2>3. subs'[f][id] = subs[f][id]
    BY <1>0, <2>1, <2>2
  <2> QED
    BY <2>2, <2>3 DEF TreeAgrees
<1>6. CASE ListStep(c)
  <2>1. CASE UNCHANGED mapVars
    BY <2>1 DEF mapVars, TreeAgrees
  <2>2. CASE ~UNCHANGED mapVars
    <3> PICK g \in Filters, q \in QoS \cup {None}, e \in Session : Relists(c, g, q, e)
      BY <1>6, <2>2, ListEffect
    <3>0. /\ sessions[Id(c)] \in Session
          /\ e.filters = [sessions[Id(c)].filters EXCEPT ![g] = q]
          /\ sessions' = [sessions EXCEPT ![Id(c)] = e]
          /\ subs' = [subs EXCEPT ![g][Id(c)] = q]
      BY DEF Relists
    <3>1. sessions[Id(c)] # None /\ sessions[Id(c)].filters \in [Filters -> QoS \cup {None}]
      BY <3>0, NoneAssumption DEF Session
    <3>2. CASE id = Id(c)
      <4>1. sessions'[id].filters = [sessions[id].filters EXCEPT ![g] = q]
        BY <1>0, <3>0, <3>2
      <4>2. subs[f][id] = sessions[id].filters[f]
        BY <3>1, <3>2 DEF TreeAgrees
      <4> QED
        BY <1>0, <3>0, <3>1, <3>2, <4>1, <4>2
    <3>3. CASE id # Id(c)
      <4>1. sessions'[id] = sessions[id] /\ subs'[f][id] = subs[f][id]
        BY <1>0, <3>0, <3>3
      <4> QED
        BY <4>1 DEF TreeAgrees
    <3> QED
      BY <3>2, <3>3
  <2> QED
    BY <2>1, <2>2
<1> QED
  BY <1>1, <1>2, <1>3, <1>4, <1>5, <1>6, QuietOrMap DEF MapStep

\* The inductive invariant for unshared ids.
SoleInv == OwnInv /\ SubsOwned /\ StaysRemoved /\ TreeAgrees

\* It holds of an empty broker.
LEMMA InitSole == Init => SoleInv
<1> SUFFICES ASSUME Init PROVE SoleInv
  OBVIOUS
<1>1. SubsOwned /\ StaysRemoved /\ TreeAgrees
  BY DEF Init, SubsOwned, StaysRemoved, TreeAgrees
<1> QED
  BY <1>1, InitOwn DEF SoleInv

\* Every step keeps it.
LEMMA StepSole == Unshared /\ SoleInv /\ [Next]_vars => SoleInv'
<1> SUFFICES ASSUME Unshared, SoleInv, [Next]_vars PROVE SoleInv'
  OBVIOUS
<1>1. OwnInv'
  BY StepOwn DEF SoleInv
<1>2. CASE \E c \in Conns : Task(c)
  BY <1>1, <1>2, SubsOwnedStep, StaysRemovedStep, TreeStep DEF SoleInv, OwnInv, IInv
<1>3. CASE ~ \E c \in Conns : Task(c)
  <2>1. UNCHANGED <<mapVars, pc, taskVars>>
    BY <1>3, WriterIsApart
  <2>2. SubsOwned' /\ StaysRemoved' /\ TreeAgrees'
    BY <2>1, SMTT(30), Z3T(30) DEF SoleInv, SubsOwned, StaysRemoved, TreeAgrees, Id, mapVars, taskVars
  <2> QED
    BY <1>1, <2>2 DEF SoleInv
<1> QED
  BY <1>2, <1>3

\* subscribe, unsubscribe, register_session and unregister_session keep the
\* filters of a session and the subscription tree in step, for any number of
\* connections with client ids of their own.
THEOREM TreeInStep == ASSUME Unshared PROVE Spec => []TreeAgrees
<1>1. SoleInv => TreeAgrees
  BY DEF SoleInv
<1>2. SoleInv /\ [Next]_vars => SoleInv'
  BY StepSole
<1> QED
  BY <1>1, <1>2, InitSole, PTL DEF Spec

\* The steps that change the in-flight messages of some connection.
LEMMA ChangesInflight ==
  ASSUME NEW c \in Conns, Task(c)
  PROVE  \/ UNCHANGED inflight \/ PublishDeliver(c) \/ Close(c)
         \/ \E r \in Requests[c] : ReadAck(c, r)
<1> USE DEF chanVars
<1>1. CASE Handshake(c)
  BY <1>1 DEF Handshake, ConnectFails, Refuse, Accept, RegisterRemove, RegisterWipe,
              RegisterInsert, SendConnack
<1>2. CASE ReadPacket(c)
  <2>1. CASE ReadFails(c)
    BY <2>1 DEF ReadFails
  <2>2. ASSUME NEW r \in Requests[c],
               ReadFatal(c, r) \/ ReadDisconnect(c, r) \/ ReadNoise(c, r) \/ ReadPingreq(c, r)
                 \/ ReadPubrec(c, r) \/ ReadPublish(c, r) \/ ReadPubrel(c, r) \/ ReadSubscribe(c, r)
        PROVE  UNCHANGED inflight
    BY <2>2 DEF ReadFatal, ReadDisconnect, ReadNoise, ReadPingreq, ReadPubrec, ReadPublish,
                ReadPubrel, ReadSubscribe
  <2> QED
    BY <1>2, <2>1, <2>2 DEF ReadPacket
<1>3. CASE Handle(c)
  BY <1>3 DEF Handle, LoopTop, RunChain, PublishScan, ListStep, SendReply
<1>4. CASE Teardown(c)
  BY <1>4 DEF Teardown, UnregisterRemove, UnregisterWipe
<1> QED
  BY <1>1, <1>2, <1>3, <1>4 DEF Task

\* ack_outbound, which finds the channel through the client id, clears an
\* in-flight message of the connection that read the acknowledgement and of no
\* other, for any number of connections with client ids of their own.
THEOREM AckedByOwnerOnly == ASSUME Unshared PROVE Spec => AckedByOwner
<1> DEFINE A == \A d \in Conns : inflight[d] \ inflight'[d] # {} =>
                  pc[d] = "closing" \/ reads'[d] = reads[d] + 1
<1>1. SoleInv /\ [Next]_vars => [A]_vars
  <2> SUFFICES ASSUME SoleInv, [Next]_vars, NEW d \in Conns, inflight[d] \ inflight'[d] # {}
               PROVE  pc[d] = "closing" \/ reads'[d] = reads[d] + 1
    OBVIOUS
  <2>0. /\ inflight = [x \in Conns |-> inflight[x]] /\ reads = [x \in Conns |-> reads[x]]
        /\ sessions \in [ClientIds -> Session \cup {None}]
    BY DEF SoleInv, OwnInv, IInv, TypeOK
  <2>1. PICK c \in Conns : Task(c)
    BY WriterIsApart
  <2>2. CASE PublishDeliver(c)
    <3>1. inflight' = inflight \/ \E e, i : inflight' = [inflight EXCEPT ![e] = @ \cup {i}]
      BY <2>2 DEF PublishDeliver
    <3>2. inflight[d] \subseteq inflight'[d]
      BY <2>0, <3>1
    <3> QED
      BY <3>2
  <2>3. CASE Close(c)
    BY <2>0, <2>3 DEF Close
  <2>4. ASSUME NEW r \in Requests[c], ReadAck(c, r) PROVE reads'[d] = reads[d] + 1
    <3>1. /\ reads' = [reads EXCEPT ![c] = @ + 1] /\ sessions[Id(c)] # None
          /\ inflight' = [inflight EXCEPT ![sessions[Id(c)].conn] = @ \ {r.id}]
      BY <2>4 DEF ReadAck, Reads
    <3>2. d = sessions[Id(c)].conn
      BY <2>0, <3>1
    <3>3. Id(c) \in ClientIds
      BY DEF SoleInv, OwnInv, IInv, TypeOK, Id
    <3>4. Id(d) = Id(c)
      BY <3>1, <3>2, <3>3 DEF SoleInv, OwnInv, Owned
    <3>5. d = c
      BY <3>4, OneOwner DEF SoleInv, OwnInv
    <3> QED
      BY <2>0, <3>1, <3>5
  <2> QED
    BY <2>1, <2>2, <2>3, <2>4, ChangesInflight
<1>2. SoleInv /\ [Next]_vars => SoleInv'
  BY StepSole
<1> QED
  BY <1>1, <1>2, InitSole, PTL DEF Spec, AckedByOwner

-----------------------------------------------------------------------------
(* What a publisher has sent.                                              *)

\* The message in task c's hands is its own: one of the packets it has read, the
\* last one if the message was not stashed for QoS 2, or its Will.
Hand(c) ==
  msg[c] # None =>
    LET p == msg[c].payload
    IN /\ p[1] = c
       /\ p[2] = WillNo => ~graceful[c] /\ after[c] = "closing" /\ pc[c] \in Leaving
       /\ p[2] # WillNo => p[2] <= reads[c] /\ pc[c] # "unreg_wipe"
       /\ pc[c] \in {"chain", "scan", "deliver"} /\ p[2] # WillNo /\ p[3] < 2 => p[2] = reads[c]

\* Payload p has been fanned out: its connection has read it, or is past
\* unregister_session with p as its Will.
Sent(p) ==
  /\ p[2] # WillNo => p[2] <= reads[p[1]]
  /\ p[2] = WillNo =>
       /\ ~graceful[p[1]]
       /\ \/ pc[p[1]] \in {"closing", "done"}
          \/ pc[p[1]] = "deliver" /\ msg[p[1]].payload[2] = WillNo

\* The same of every task, and of every queue.
HandOwned == \A c \in Conns : Hand(c)
StashOwned == \A c \in Conns : Stash(c)
SentOwned == \A d \in Conns : \A i \in Published(d) : Sent(out[d][i].payload)

\* The inductive invariant for the order of publications.
OrderInv == SoleInv /\ HandOwned /\ StashOwned /\ SentOwned /\ FanoutOrder

-----------------------------------------------------------------------------
(* What a step does to a task's own message.                               *)

\* DISCONNECT sets the flag of the connection that sent it.
LEMMA GracefulLocal ==
  ASSUME TypeOK, NEW c \in Conns, Task(c), NEW d \in Conns
  PROVE  /\ d # c => graceful'[d] = graceful[d]
         /\ pc[c] # "read" => graceful' = graceful
<1>1. graceful = [x \in Conns |-> graceful[x]]
  BY DEF TypeOK
<1>2. d # c => graceful'[d] = graceful[d]
  BY <1>1, SetsGraceful
<1>3. pc[c] # "read" => graceful' = graceful
  BY DEF Task, Handshake, ConnectFails, Refuse, Accept, RegisterRemove, RegisterWipe,
         RegisterInsert, SendConnack, ReadPacket, Reads, ReadFails, ReadFatal, ReadDisconnect,
         ReadNoise, ReadPingreq, ReadAck, ReadPubrec, ReadPublish, ReadPubrel, ReadSubscribe,
         Handle, LoopTop, RunChain, PublishScan, PublishDeliver, ListStep, SendReply,
         Teardown, UnregisterRemove, UnregisterWipe, Close, taskVars
<1> QED
  BY <1>2, <1>3

\* A message that stays where it is stays the task's own.
LEMMA HandStill ==
  ASSUME TypeOK, NEW c \in Conns, Task(c), Hand(c), Still(c)
  PROVE  Hand(c)'
<1>1. reads[c] \in 0..MaxReads /\ reads'[c] \in {reads[c], reads[c] + 1}
  BY ReadsGrow
<1>2. CASE msg[c] = None
  BY <1>2 DEF Hand, Still
<1>3. CASE msg[c] # None
  <2>1. msg[c].payload[2] \in 1..WillNo
    BY <1>3, PayloadFields, SMTT(30), Z3T(30) DEF TypeOK
  <2>2. msg[c].payload[1] = c /\ msg[c].payload[2] # WillNo /\ msg[c].payload[2] <= reads[c]
    BY <1>3 DEF Hand, Still
  <2>3. msg[c].payload[2] <= reads'[c]
    BY <1>1, <2>1, <2>2, BoundsAssumption, SMTT(30), Z3T(30) DEF WillNo
  <2> QED
    BY <1>3, <2>2, <2>3 DEF Hand, Still
<1> QED
  BY <1>2, <1>3

\* PUBLISH puts a packet just read into the task's hands, or stashes it.
LEMMA HandPublish ==
  ASSUME TypeOK, NEW c \in Conns, Task(c), Hand(c), NEW r \in Requests[c], ReadPublish(c, r)
  PROVE  Hand(c)'
<1> DEFINE m == [payload |-> <<c, reads[c] + 1, r.qos>>, topic |-> r.topic, qos |-> r.qos]
<1>1. reads' = [reads EXCEPT ![c] = @ + 1] /\ reads[c] + 1 \in 1..MaxReads /\ pc[c] = "read"
  BY ReadsType DEF ReadPublish, Reads
<1>2. /\ \/ msg' = [msg EXCEPT ![c] = m]
         \/ msg' = msg /\ after' = after /\ pc'[c] \in {"top", "closing"}
      /\ pc'[c] \notin {"unreg_wipe"}
  BY DEF ReadPublish, SendOrFail, Goto, TypeOK
<1>3. CASE msg' = [msg EXCEPT ![c] = m]
  <2>1. msg'[c] = m /\ reads'[c] = reads[c] + 1
    BY <1>1, <1>3 DEF TypeOK
  <2>2. m.payload[1] = c /\ m.payload[2] = reads[c] + 1
    OBVIOUS
  <2>3. reads[c] + 1 # WillNo /\ reads[c] + 1 <= reads[c] + 1
    BY <1>1, BoundsAssumption, SMTT(30), Z3T(30) DEF WillNo
  <2> HIDE DEF m
  <2> QED
    BY <1>2, <2>1, <2>2, <2>3 DEF Hand
<1>4. CASE msg' = msg /\ after' = after /\ pc'[c] \in {"top", "closing"}
  <2>1. Still(c)
    BY <1>1, <1>4 DEF Still, Leaving
  <2> QED
    BY <2>1, HandStill
<1> QED
  BY <1>2, <1>3, <1>4

\* PUBREL takes a stashed message, which is one of the task's own.
LEMMA HandPubrel ==
  ASSUME TypeOK, NEW c \in Conns, Task(c), Hand(c), Stash(c), NEW r \in Requests[c], ReadPubrel(c, r)
  PROVE  Hand(c)'
<1>1. reads' = [reads EXCEPT ![c] = @ + 1] /\ reads[c] + 1 \in 1..MaxReads /\ pc[c] = "read"
  BY ReadsType DEF ReadPubrel, Reads
<1>2. r.id \in PacketIds
  BY RequestFields DEF ReadPubrel
<1>3. CASE qos2[c][r.id] = None
  <2>1. Still(c)
    BY <1>1, <1>3 DEF Still, Leaving, ReadPubrel, Goto, TypeOK
  <2> QED
    BY <2>1, HandStill
<1>4. CASE qos2[c][r.id] # None
  <2>1. msg'[c] = qos2[c][r.id] /\ reads'[c] = reads[c] + 1 /\ pc'[c] = "chain"
    BY <1>1, <1>4, SMTT(30), Z3T(30) DEF ReadPubrel, Goto, TypeOK
  <2>2. /\ msg'[c].payload[1] = c /\ msg'[c].payload[2] <= reads[c] /\ msg'[c].payload[3] = 2
        /\ msg'[c].payload[2] \in 1..WillNo
    BY <1>2, <1>4, <2>1, PayloadFields, SMTT(30), Z3T(30) DEF Stash, TypeOK
  <2>3. msg'[c].payload[2] # WillNo /\ msg'[c].payload[2] <= reads'[c]
    BY <1>1, <2>1, <2>2, ReadsGrow, BoundsAssumption, SMTT(30), Z3T(30) DEF WillNo
  <2> QED
    BY <2>1, <2>2, <2>3, SMTT(30), Z3T(30) DEF Hand
<1> QED
  BY <1>3, <1>4

\* The endpoints keep the payload.
LEMMA HandChain ==
  ASSUME TypeOK, MessageInHand, NEW c \in Conns, Task(c), Hand(c), RunChain(c)
  PROVE  Hand(c)'
<1>1. pc[c] = "chain" /\ reads' = reads /\ after' = after /\ msg[c] \in Message
  BY DEF RunChain, TypeOK, MessageInHand
<1>2. msg[c] # None /\ msg[c].payload[2] # WillNo
  BY <1>1, NoneAssumption DEF Hand, Leaving
<1>3. msg'[c].payload = msg[c].payload /\ pc'[c] # "unreg_wipe"
  <2>1. \/ msg' = msg
        \/ \E t, q : msg' = [msg EXCEPT ![c] = [@ EXCEPT !.topic = t, !.qos = q]]
    BY DEF RunChain
  <2>2. msg = [d \in Conns |-> msg[d]]
    BY DEF TypeOK
  <2>3. msg'[c].payload = msg[c].payload
    BY <1>1, <2>1, <2>2 DEF Message
  <2>4. pc'[c] # "unreg_wipe"
    BY DEF RunChain, Goto, TypeOK
  <2> QED
    BY <2>3, <2>4
<1> QED
  BY <1>1, <1>2, <1>3 DEF Hand

\* Scanning and delivering keep the message; a Will's task ends after it.
LEMMA HandFanout ==
  ASSUME TypeOK, MessageInHand, NEW c \in Conns, Task(c), Hand(c), PublishScan(c) \/ PublishDeliver(c)
  PROVE  Hand(c)'
<1>1. /\ msg' = msg /\ reads' = reads /\ after' = after /\ pc[c] \in {"scan", "deliver"}
      /\ graceful' = graceful
  BY DEF PublishScan, PublishDeliver
<1>2. pc'[c] \in {"scan", "deliver", after[c]} /\ after[c] \in {"top", "reply", "closing"}
  BY DEF PublishScan, PublishDeliver, Goto, TypeOK
<1> QED
  BY <1>1, <1>2 DEF Hand, Leaving

\* The Will in the entry that unregister_session removes is the task's own.
LEMMA HandTeardown ==
  ASSUME Unshared, OwnInv, NEW c \in Conns, Task(c), Hand(c), Teardown(c)
  PROVE  Hand(c)'
<1>0. TypeOK
  BY DEF OwnInv, IInv
<1>1. CASE UnregisterRemove(c)
  <2> DEFINE entry == sessions[Id(c)]
  <2>1. /\ pc'[c] \in {"closing", "unreg_wipe"} /\ after'[c] = "closing" /\ graceful' = graceful
        /\ msg'[c] = IF WillFires(c, entry)
                       THEN [payload |-> <<entry.conn, WillNo, entry.will.qos>>,
                             topic |-> entry.will.topic, qos |-> entry.will.qos]
                       ELSE None
    BY <1>0, <1>1 DEF UnregisterRemove, Goto, TypeOK
  <2>2. CASE ~WillFires(c, entry)
    BY <2>1, <2>2 DEF Hand
  <2>3. CASE WillFires(c, entry)
    <3>1. entry # None /\ Id(c) \in ClientIds /\ ~graceful[c]
      BY <1>0, <2>3 DEF WillFires, TypeOK, Id
    <3>2. entry.conn \in Conns
      BY <1>0, <3>1, SMTT(30), Z3T(30) DEF TypeOK, Session
    <3>3. entry.conn = c
      BY <3>1, <3>2, OneOwner DEF OwnInv, Owned
    <3>4. msg'[c].payload[1] = c /\ msg'[c].payload[2] = WillNo
      BY <2>1, <2>3, <3>3, SMTT(30), Z3T(30)
    <3> QED
      BY <2>1, <3>1, <3>4 DEF Hand, Leaving
  <2> QED
    BY <2>2, <2>3
<1>2. CASE UnregisterWipe(c)
  <2>1. /\ msg' = msg /\ reads' = reads /\ after' = after /\ pc[c] = "unreg_wipe"
        /\ graceful' = graceful /\ pc'[c] \in {"unreg_wipe", "scan", "closing"}
    BY <1>0, <1>2 DEF UnregisterWipe, Goto, TypeOK
  <2> QED
    BY <2>1 DEF Hand, Leaving
<1>3. CASE Close(c)
  <2>1. /\ msg' = msg /\ reads' = reads /\ after' = after /\ graceful' = graceful /\ pc'[c] = "done"
    BY <1>0, <1>3 DEF Close, Goto, TypeOK, taskVars
  <2> QED
    BY <2>1 DEF Hand, Leaving
<1> QED
  BY <1>1, <1>2, <1>3 DEF Teardown
\* Every step of its task keeps the message its own.
LEMMA HandOwn ==
  ASSUME Unshared, OwnInv, NEW c \in Conns, Task(c), Hand(c), Stash(c)
  PROVE  Hand(c)'
<1>1. TypeOK /\ MessageInHand
  BY DEF OwnInv, IInv
<1> QED
  BY <1>1, StillOrMoves, HandStill, HandPublish, HandPubrel, HandChain, HandFanout, HandTeardown
     DEF Moves

\* Every step of a task keeps what all tasks hold and have stashed.
LEMMA HandOwnedStep ==
  ASSUME Unshared, OwnInv, HandOwned, StashOwned, NEW c \in Conns, Task(c)
  PROVE  HandOwned' /\ StashOwned'
<1>0. TypeOK
  BY DEF OwnInv, IInv
<1>1. Hand(c)' /\ Stash(c)'
  BY <1>0, HandOwn, StashStep DEF HandOwned, StashOwned
<1>2. ASSUME NEW d \in Conns, d # c PROVE Hand(d)' /\ Stash(d)'
  <2>1. /\ pc'[d] = pc[d] /\ msg'[d] = msg[d] /\ after'[d] = after[d] /\ reads'[d] = reads[d]
        /\ qos2'[d] = qos2[d]
    BY <1>0, <1>2, TaskIsLocal DEF OthersUnchanged
  <2>2. graceful'[d] = graceful[d]
    BY <1>0, <1>2, GracefulLocal
  <2>3. Hand(d)'
    BY <2>1, <2>2 DEF Hand, HandOwned
  <2>4. Stash(d)'
    BY <2>1, SMTT(30), Z3T(30) DEF Stash, StashOwned
  <2> QED
    BY <2>3, <2>4
<1> QED
  BY <1>1, <1>2 DEF HandOwned, StashOwned

-----------------------------------------------------------------------------
(* What a step adds to the queues.                                         *)

\* The payload of a publication in a queue is a payload.
LEMMA PublishedPayload ==
  ASSUME TypeOK, NEW d \in Conns, NEW i \in Published(d)
  PROVE  LET p == out[d][i].payload
         IN p \in Payload /\ p[1] \in Conns /\ p[2] \in 1..WillNo /\ p[3] \in QoS
<1>1. out[d] \in Seq(Outgoing) /\ i \in 1..Len(out[d]) /\ out[d][i].type = "publish"
  BY DEF TypeOK, Published
<1>2. out[d][i] \in Outgoing
  BY <1>1, SMTT(30), Z3T(30)
<1>3. out[d][i] \notin Replies
  BY <1>1 DEF Replies
<1>4. out[d][i].payload \in Payload
  BY <1>2, <1>3 DEF Outgoing
<1> QED
  BY <1>4 DEF Payload

\* A payload that has been sent stays accounted for: its task reads on, and once
\* its Will is out it only finishes delivering and closes.
LEMMA StaysSent ==
  ASSUME TypeOK, MessageInHand, HandOwned, NEW c \in Conns, Task(c), NEW p \in Payload, Sent(p)
  PROVE  Sent(p)'
<1>0. p[1] \in Conns /\ p[2] \in 1..WillNo /\ after[c] \in {"top", "reply", "closing"}
  BY DEF Payload, TypeOK
<1>1. CASE p[2] # WillNo
  <2>1. p[2] <= reads[p[1]] /\ reads[p[1]] \in 0..MaxReads
        /\ reads'[p[1]] \in {reads[p[1]], reads[p[1]] + 1}
    BY <1>0, <1>1, ReadsGrow DEF Sent
  <2>2. p[2] <= reads'[p[1]]
    BY <1>0, <2>1, BoundsAssumption, SMTT(30), Z3T(30) DEF WillNo
  <2> QED
    BY <1>1, <2>2 DEF Sent
<1>2. CASE p[2] = WillNo /\ p[1] # c
  <2>1. /\ pc'[p[1]] = pc[p[1]] /\ msg'[p[1]] = msg[p[1]]
    BY <1>0, <1>2, TaskIsLocal, SMTT(30), Z3T(30) DEF OthersUnchanged
  <2>2. graceful'[p[1]] = graceful[p[1]]
    BY <1>0, <1>2, GracefulLocal
  <2> QED
    BY <1>2, <2>1, <2>2 DEF Sent
<1>3. CASE p[2] = WillNo /\ p[1] = c
  <2>1. ~graceful[c] /\ (pc[c] \in {"closing", "done"} \/ (pc[c] = "deliver" /\ msg[c].payload[2] = WillNo))
    BY <1>3 DEF Sent
  <2>2. graceful' = graceful
    BY <2>1, GracefulLocal
  <2>3. CASE pc[c] \in {"closing", "done"}
    <3>1. Teardown(c)
      BY <2>3, OnTheWayOut
    <3>2. pc'[c] = "done"
      BY <2>3, <3>1 DEF Teardown, UnregisterRemove, UnregisterWipe, Close, Goto, TypeOK
    <3> QED
      BY <1>3, <2>1, <2>2, <3>2 DEF Sent
  <2>4. CASE pc[c] = "deliver" /\ msg[c].payload[2] = WillNo
    <3>1. PublishDeliver(c)
      BY <2>4 DEF Task, Handshake, ConnectFails, Refuse, Accept, RegisterRemove, RegisterWipe,
         RegisterInsert, SendConnack, ReadPacket, Reads, ReadFails, ReadFatal, ReadDisconnect,
         ReadNoise, ReadPingreq, ReadAck, ReadPubrec, ReadPublish, ReadPubrel, ReadSubscribe,
         Handle, LoopTop, RunChain, PublishScan, ListStep, SendReply,
         Teardown, UnregisterRemove, UnregisterWipe, Close
    <3>2. msg' = msg /\ pc'[c] \in {"deliver", after[c]}
      BY <3>1 DEF PublishDeliver, Goto, TypeOK
    <3>3. pc'[c] \in {"deliver", "closing"}
      <4>1. CASE msg[c] # None
        BY <2>4, <3>2, <4>1 DEF HandOwned, Hand
      <4>2. CASE msg[c] = None
        BY <4>2, <2>4 DEF MessageInHand
      <4> QED
        BY <4>1, <4>2
    <3> QED
      BY <1>3, <2>1, <2>2, <2>4, <3>2, <3>3 DEF Sent
  <2> QED
    BY <2>1, <2>3, <2>4
<1> QED
  BY <1>1, <1>2, <1>3

\* A delivery sends the message in the task's hands.
LEMMA SendsOwn ==
  ASSUME TypeOK, MessageInHand, HandOwned, NEW c \in Conns, PublishDeliver(c)
  PROVE  msg[c].payload \in Payload /\ Sent(msg[c].payload)
<1>1. pc[c] = "deliver" /\ msg[c] # None /\ msg[c] \in Message
  BY DEF PublishDeliver, MessageInHand, TypeOK
<1>2. msg[c].payload \in Payload
  BY <1>1 DEF Message
<1>3. msg[c].payload[1] = c
  BY <1>1 DEF HandOwned, Hand
<1> QED
  BY <1>1, <1>2, <1>3 DEF HandOwned, Hand, Sent

\* Every step of a task keeps SentOwned.
LEMMA SentStep ==
  ASSUME TypeOK, MessageInHand, HandOwned, SentOwned, NEW c \in Conns, Task(c)
  PROVE  SentOwned'
<1> SUFFICES ASSUME NEW d \in Conns, NEW i \in Published(d)', NEW p, p = out'[d][i].payload
             PROVE  Sent(p)'
  BY DEF SentOwned
<1>1. CASE i \in Published(d) /\ out'[d][i] = out[d][i]
  BY <1>1, PublishedPayload, StaysSent DEF SentOwned
<1>2. CASE PublishDeliver(c) /\ p = msg[c].payload
  BY <1>2, SendsOwn, StaysSent
<1> QED
  BY <1>1, <1>2, NewPublication

\* Every step of a task keeps the order of publications: what it sends has the
\* number of its last packet, or is its Will.
LEMMA OrderStep ==
  ASSUME TypeOK, MessageInHand, HandOwned, SentOwned, FanoutOrder, NEW c \in Conns, Task(c)
  PROVE  FanoutOrder'
<1> SUFFICES ASSUME NEW d \in Conns, NEW i \in Published(d)', NEW j \in Published(d)', i < j,
                    NEW p, NEW q, p = out'[d][i].payload, q = out'[d][j].payload, p[1] = q[1],
                    p[3] < 2 \/ p[2] = WillNo, q[3] < 2 \/ q[2] = WillNo
             PROVE  p[2] <= q[2]
  BY DEF FanoutOrder
<1>0. Len(out[d]) \in Nat
  BY SMTT(30), Z3T(30) DEF TypeOK
<1>1. CASE j \in Published(d) /\ out'[d][j] = out[d][j]
  <2>1. j \in 1..Len(out[d]) /\ i # Len(out[d]) + 1
    BY <1>0, <1>1, SMTT(30), Z3T(30) DEF Published
  <2>2. i \in Published(d) /\ out'[d][i] = out[d][i]
    BY <2>1, NewPublication
  <2> QED
    BY <1>1, <2>2 DEF FanoutOrder
<1>2. CASE PublishDeliver(c) /\ j = Len(out[d]) + 1 /\ q = msg[c].payload
  <2>1. i \in Published(d) /\ out'[d][i] = out[d][i]
    <3>1. i \in Int /\ i # Len(out[d]) + 1
      BY <1>0, <1>2, SMTT(30), Z3T(30) DEF Published
    <3> QED
      BY <3>1, NewPublication
  <2>2. p \in Payload /\ p[2] \in 1..WillNo /\ Sent(p)
    BY <2>1, PublishedPayload DEF SentOwned
  <2>3. pc[c] = "deliver" /\ msg[c] # None
    BY <1>2 DEF PublishDeliver, MessageInHand
  <2>4. q[1] = c /\ (q[2] # WillNo => q[2] = reads[c])
    BY <1>2, <2>3 DEF HandOwned, Hand
  <2>5. CASE q[2] = WillNo
    BY <2>2, <2>5, BoundsAssumption, SMTT(30), Z3T(30) DEF WillNo
  <2>6. CASE q[2] # WillNo
    <3>1. p[2] # WillNo
      BY <1>2, <2>2, <2>3, <2>4, <2>6 DEF Sent
    <3> QED
      BY <2>2, <2>4, <2>6, <3>1 DEF Sent
  <2> QED
    BY <2>5, <2>6
<1> QED
  BY <1>1, <1>2, NewPublication

-----------------------------------------------------------------------------
(* The order of publications, and the Will.                                *)

\* Nothing has been sent at first.
LEMMA InitOrder == Init => OrderInv
<1> SUFFICES ASSUME Init PROVE OrderInv
  OBVIOUS
<1>1. \A d \in Conns : Published(d) = {}
  BY SMTT(30), Z3T(30) DEF Init, Published
<1>2. HandOwned /\ StashOwned
  BY DEF Init, HandOwned, Hand, StashOwned, Stash
<1> QED
  BY <1>1, <1>2, InitSole DEF OrderInv, SentOwned, FanoutOrder

\* Every step keeps it.
LEMMA StepOrder == Unshared /\ OrderInv /\ [Next]_vars => OrderInv'
<1> SUFFICES ASSUME Unshared, OrderInv, [Next]_vars PROVE OrderInv'
  OBVIOUS
<1>1. SoleInv' /\ OwnInv /\ TypeOK /\ MessageInHand
  BY StepSole DEF OrderInv, SoleInv, OwnInv, IInv
<1>2. ASSUME NEW c \in Conns, Task(c) PROVE OrderInv'
  BY <1>1, <1>2, HandOwnedStep, SentStep, OrderStep DEF OrderInv
<1>3. CASE ~ \E c \in Conns : Task(c)
  <2>1. UNCHANGED <<pc, taskVars, qos2, out>>
    BY <1>3 DEF Next, Terminated, WriterExits, WriterGone, vars, chanVars
  <2>2. HandOwned' /\ StashOwned'
    BY <2>1, SMTT(30), Z3T(30) DEF OrderInv, HandOwned, Hand, StashOwned, Stash, taskVars
  <2>3. SentOwned' /\ FanoutOrder'
    BY <2>1 DEF OrderInv, SentOwned, Sent, FanoutOrder, Published, taskVars
  <2> QED
    BY <1>1, <2>2, <2>3 DEF OrderInv
<1> QED
  BY <1>2, <1>3

\* What a connection publishes at QoS 0 or 1, and its Will, reaches every queue
\* in the order in which handle_server read it, the Will last: for any number
\* of connections with client ids of their own, any endpoints and any failure
\* of the writer actors.
THEOREM PublishedInOrder == ASSUME Unshared PROVE Spec => []FanoutOrder
<1>1. OrderInv => FanoutOrder
  BY DEF OrderInv
<1>2. OrderInv /\ [Next]_vars => OrderInv'
  BY StepOrder
<1> QED
  BY <1>1, <1>2, InitOrder, PTL DEF Spec

\* unregister_session publishes a Will only for a connection that ended without
\* DISCONNECT, and the connection does nothing else afterwards.
THEOREM WillNeedsCrash == ASSUME Unshared PROVE Spec => []WillOnlyAfterCrash
<1>1. OrderInv => WillOnlyAfterCrash
  BY DEF OrderInv, SentOwned, Sent, WillOnlyAfterCrash
<1>2. OrderInv /\ [Next]_vars => OrderInv'
  BY StepOrder
<1> QED
  BY <1>1, <1>2, InitOrder, PTL DEF Spec
-----------------------------------------------------------------------------
(* CONNACK comes first.                                                    *)

\* Before CONNACK has been queued.
Unheard == Early \cup {"connack"}

\* A subscription, collected or not, is of a client that has been sent CONNACK.
SubsLate ==
  \A f \in Filters, id \in ClientIds : subs[f][id] # None =>
    \E c \in Conns : Id(c) = id /\ pc[c] \notin Unheard
HitsLate ==
  \A c \in Conns : \A h \in hits[c] : \E d \in Conns : Id(d) = h[2] /\ pc[d] \notin Unheard

\* From register_session on, the reply to send is a CONNACK.
ConnackReady ==
  \A c \in Conns : pc[c] \in {"reg_wipe", "reg_insert", "connack"} =>
    reply[c].type = "connack"

\* The map has an entry that connection c made.
Entered(c) == \E id \in ClientIds : sessions[id] # None /\ sessions[id].conn = c

\* A queue is empty until CONNACK, and stays so only if the task ends without
\* one: then no publisher finds the connection, or its writer actor is gone.
Greeted(d) ==
  /\ pc[d] \in Unheard => out[d] = <<>>
  /\ pc[d] \notin Unheard /\ out[d] = <<>> =>
       pc[d] \in {"closing", "done"} /\ (writer[d] = "gone" \/ ~Entered(d))
  /\ out[d] # <<>> => out[d][1].type = "connack"

\* The inductive invariant.
GreetInv ==
  SoleInv /\ SubsLate /\ HitsLate /\ ConnackReady /\ \A d \in Conns : Greeted(d)

\* A task does not go back before CONNACK.
LEMMA StaysHeard ==
  ASSUME TypeOK, NEW c \in Conns, Task(c), pc[c] \notin Unheard
  PROVE  pc'[c] \notin Unheard /\ req'[c] = req[c]
<1>1. pc[c] \notin Early /\ pc[c] # "accept" /\ pc[c] # "reg_insert"
  BY DEF Unheard, Early
<1>2. pc'[c] \notin Early /\ req'[c] = req[c]
  BY <1>1, Onward
<1>3. pc'[c] # "connack"
  <2>0. pc = [d \in Conns |-> pc[d]] /\ after[c] \in {"top", "reply", "closing"}
    BY DEF TypeOK
  <2> USE <1>1, <2>0 DEF Goto, SendOrFail
  <2>1. CASE Handshake(c)
    BY <2>1 DEF Handshake, ConnectFails, Refuse, Accept, RegisterRemove, RegisterWipe,
                RegisterInsert, SendConnack
  <2>2. CASE ReadFails(c) \/ \E r \in Requests[c] : Answers(c, r)
    BY <2>2 DEF ReadFails, Answers, ReadFatal, ReadDisconnect, ReadNoise, ReadPingreq,
                ReadAck, ReadPubrec, ReadPublish, ReadPubrel
  <2>3. CASE \E r \in Requests[c] : ReadSubscribe(c, r)
    BY <2>3 DEF ReadSubscribe
  <2>4. CASE Handle(c)
    BY <2>4 DEF Handle, LoopTop, RunChain, PublishScan, PublishDeliver, ListStep, SendReply
  <2>5. CASE Teardown(c)
    BY <2>5, <1>1 DEF Teardown, UnregisterRemove, UnregisterWipe, Close, Unheard
  <2> QED
    BY <2>1, <2>2, <2>3, <2>4, <2>5 DEF Task, ReadPacket, Answers
<1> QED
  BY <1>2, <1>3 DEF Unheard

\* A client that has been sent CONNACK stays one.
LEMMA ClientStays ==
  ASSUME TypeOK, NEW c \in Conns, Task(c), NEW id, \E d \in Conns : Id(d) = id /\ pc[d] \notin Unheard
  PROVE  \E d \in Conns : req'[d].id = id /\ pc'[d] \notin Unheard
<1>1. PICK d \in Conns : Id(d) = id /\ pc[d] \notin Unheard
  OBVIOUS
<1>2. CASE d = c
  BY <1>1, <1>2, StaysHeard DEF Id
<1>3. CASE d # c
  BY <1>1, <1>3, TaskIsLocal, SMTT(30), Z3T(30) DEF OthersUnchanged, Id
<1> QED
  BY <1>2, <1>3

\* A subscription in the tree was there, or is being made by a task that has
\* sent CONNACK.
LEMMA SubsLateStep ==
  ASSUME TypeOK, ListInHand, GuardedEntry, SubsLate, NEW c \in Conns, Task(c)
  PROVE  SubsLate'
<1> SUFFICES ASSUME NEW f \in Filters, NEW id \in ClientIds, subs'[f][id] # None
             PROVE  \E d \in Conns : req'[d].id = id /\ pc'[d] \notin Unheard
  BY DEF SubsLate, Id
<1>0. Id(c) \in ClientIds /\ subs \in [Filters -> [ClientIds -> QoS \cup {None}]]
  BY DEF TypeOK, Id
<1>1. ASSUME subs[f][id] # None PROVE \E d \in Conns : req'[d].id = id /\ pc'[d] \notin Unheard
  BY <1>1, ClientStays DEF SubsLate
<1>2. CASE Quiet(c) \/ RegisterRemove(c) \/ UnregisterRemove(c) \/ RegisterInsert(c)
  BY <1>1, <1>2 DEF Quiet, mapVars, RegisterRemove, UnregisterRemove, RegisterInsert
<1>3. CASE RegisterWipe(c) \/ UnregisterWipe(c)
  <2>1. PICK g : subs' = [subs EXCEPT ![g][Id(c)] = None]
    BY <1>3 DEF RegisterWipe, UnregisterWipe, WipeFilter
  <2>2. subs[f][id] # None
    BY <1>0, <2>1
  <2> QED
    BY <1>1, <2>2
<1>4. CASE ListStep(c)
  <2>1. CASE UNCHANGED mapVars
    BY <1>1, <2>1 DEF mapVars
  <2>2. CASE \E g \in Filters, q \in QoS \cup {None}, e \in Session : Relists(c, g, q, e)
    <3>1. PICK g \in Filters, q \in QoS \cup {None} : subs' = [subs EXCEPT ![g][Id(c)] = q]
      BY <2>2 DEF Relists
    <3>2. CASE id = Id(c)
      <4>1. pc[c] \notin Unheard
        BY <1>4 DEF ListStep, Unheard, Early
      <4> QED
        BY <3>2, <4>1, StaysHeard DEF Id
    <3>3. CASE id # Id(c)
      BY <1>0, <1>1, <3>1, <3>3
    <3> QED
      BY <3>2, <3>3
  <2> QED
    BY <1>4, <2>1, <2>2, ListEffect
<1> QED
  BY <1>2, <1>3, <1>4, QuietOrMap DEF MapStep

\* The steps that change what a task has collected.
LEMMA HitsChange ==
  ASSUME TypeOK, NEW c \in Conns, Task(c), NEW h \in hits'[c]
  PROVE  h \in hits[c] \/ \E f \in Filters : subs[f][h[2]] # None /\ h[2] \in ClientIds
<1>0. hits = [d \in Conns |-> hits[d]] /\ todo \in [Conns -> SUBSET Filters]
  BY DEF TypeOK
<1> USE <1>0 DEF taskVars
<1>1. CASE Handshake(c)
  BY <1>1 DEF Handshake, ConnectFails, Refuse, Accept, RegisterRemove, RegisterWipe,
              RegisterInsert, SendConnack
<1>2. CASE ReadPacket(c)
  BY <1>2 DEF ReadPacket, ReadFails, ReadFatal, ReadDisconnect, ReadNoise, ReadPingreq,
              ReadAck, ReadPubrec, ReadPublish, ReadPubrel, ReadSubscribe
<1>3. CASE PublishScan(c)
  <2>1. PICK f \in Filters : hits'[c] = hits[c] \cup MatchingAt(f, msg[c].topic)
    BY <1>3 DEF PublishScan
  <2>2. ASSUME h \in MatchingAt(f, msg[c].topic)
        PROVE  subs[f][h[2]] # None /\ h[2] \in ClientIds
    BY <2>2, SMTT(30), Z3T(30) DEF MatchingAt
  <2> QED
    BY <2>1, <2>2
<1>4. CASE LoopTop(c) \/ RunChain(c) \/ PublishDeliver(c) \/ ListStep(c) \/ SendReply(c)
  BY <1>4 DEF LoopTop, RunChain, PublishDeliver, ListStep, SendReply
<1>5. CASE Teardown(c)
  BY <1>5 DEF Teardown, UnregisterRemove, UnregisterWipe, Close
<1> QED
  BY <1>1, <1>2, <1>3, <1>4, <1>5 DEF Task, Handle

\* What is collected was subscribed when the scan passed.
LEMMA HitsLateStep ==
  ASSUME TypeOK, SubsLate, HitsLate, NEW c \in Conns, Task(c)
  PROVE  HitsLate'
<1> SUFFICES ASSUME NEW x \in Conns, NEW h \in hits'[x]
             PROVE  \E d \in Conns : req'[d].id = h[2] /\ pc'[d] \notin Unheard
  BY DEF HitsLate, Id
<1>1. CASE h \in hits[x]
  <2>1. \E d \in Conns : Id(d) = h[2] /\ pc[d] \notin Unheard
    BY <1>1 DEF HitsLate
  <2> QED
    BY <2>1, ClientStays
<1>2. CASE h \notin hits[x]
  <2>1. x = c
    BY <1>2, TaskIsLocal DEF OthersUnchanged
  <2>2. PICK f \in Filters : subs[f][h[2]] # None /\ h[2] \in ClientIds
    BY <1>2, <2>1, HitsChange
  <2> QED
    BY <2>2, ClientStays, SMTT(30), Z3T(30) DEF SubsLate
<1> QED
  BY <1>1, <1>2

\* register_session prepares the CONNACK before anything else.
LEMMA ConnackReadyStep ==
  ASSUME TypeOK, ConnackReady, NEW c \in Conns, Task(c)
  PROVE  ConnackReady'
<1>1. ASSUME NEW d \in Conns, d # c, pc'[d] \in {"reg_wipe", "reg_insert", "connack"}
      PROVE  reply'[d].type = "connack"
  BY <1>1, TaskIsLocal, SMTT(30), Z3T(30) DEF OthersUnchanged, ConnackReady
<1>2. ASSUME pc'[c] \in {"reg_wipe", "reg_insert", "connack"} PROVE reply'[c].type = "connack"
  <2>1. pc[c] \in Unheard
    BY <1>2, StaysHeard DEF Unheard, Early
  <2>2. CASE RegisterRemove(c)
    BY <2>2 DEF RegisterRemove, TypeOK
  <2>3. CASE RegisterWipe(c) \/ RegisterInsert(c)
    BY <2>3 DEF RegisterWipe, RegisterInsert, ConnackReady, taskVars
  <2>4. CASE ConnectFails(c) \/ Refuse(c) \/ Accept(c) \/ SendConnack(c)
    BY <1>2, <2>4 DEF ConnectFails, Refuse, Accept, SendConnack, SendOrFail, Goto, TypeOK
  <2>5. CASE ~Handshake(c)
    BY <2>1, <2>5 DEF Unheard, Early, Task, ReadPacket, Reads, ReadFails, ReadFatal,
       ReadDisconnect, ReadNoise, ReadPingreq, ReadAck, ReadPubrec, ReadPublish, ReadPubrel,
       ReadSubscribe, Handle, LoopTop, RunChain, PublishScan, PublishDeliver, ListStep, SendReply,
       Teardown, UnregisterRemove, UnregisterWipe, Close
  <2> QED
    BY <2>2, <2>3, <2>4, <2>5 DEF Handshake
<1> QED
  BY <1>1, <1>2 DEF ConnackReady
\* A delivery is to a connection that has an entry, can be sent to and, since the
\* subscription is its own, has been sent CONNACK.
LEMMA DeliversToHeard ==
  ASSUME Unshared, OwnInv, HitsLate, NEW c \in Conns, PublishDeliver(c), NEW d \in Conns,
         out'[d] # out[d]
  PROVE  /\ Entered(d) /\ pc[d] \notin Unheard /\ CanSend(d)
         /\ \E p \in Outgoing : Queues(d, p)
<1>0. TypeOK /\ MessageInHand
  BY DEF OwnInv, IInv
<1>1. PICK h \in hits[c] : h \in Filters \X ClientIds \X QoS /\ Delivers(c, h)
  BY <1>0, DeliverEffect
<1>2. /\ sessions[h[2]] # None /\ h[2] \in ClientIds /\ sessions[h[2]].conn \in Conns
      /\ \E p \in Outgoing : Send(sessions[h[2]].conn, p)
  BY <1>1 DEF Delivers
<1>3. PICK p \in Outgoing : Send(sessions[h[2]].conn, p)
  BY <1>2
<1>4. out \in [Conns -> Seq(Outgoing)]
  BY <1>0 DEF TypeOK
<1>5. d = sessions[h[2]].conn /\ CanSend(d)
  BY <1>2, <1>3, <1>4, SendEffect
<1>6. Queues(d, p)
  BY <1>3, <1>4, <1>5, SendEffect
<1>7. Id(d) = h[2]
  BY <1>2, <1>5 DEF OwnInv, Owned
<1>8. pc[d] \notin Unheard
  <2>1. PICK e \in Conns : Id(e) = h[2] /\ pc[e] \notin Unheard
    BY DEF HitsLate
  <2>2. e = d
    BY <1>7, <2>1, OneOwner DEF OwnInv
  <2> QED
    BY <2>1, <2>2
<1> QED
  BY <1>2, <1>5, <1>6, <1>8 DEF Entered

\* A queue that is not empty keeps its first packet.
LEMMA KeepsFirst ==
  ASSUME TypeOK, MessageInHand, NEW c \in Conns, Task(c), NEW d \in Conns, out[d] # <<>>,
         TypeOK'
  PROVE  out'[d] # <<>> /\ out'[d][1] = out[d][1]
<1>1. out[d] \in Seq(Outgoing) /\ out'[d] \in Seq(Outgoing)
  BY DEF TypeOK
<1>2. Len(out[d]) \in Nat /\ Len(out[d]) # 0 /\ 1 \in 1..Len(out[d])
  BY <1>1, SMTT(30), Z3T(30)
<1>3. Len(out[d]) <= Len(out'[d]) /\ out'[d][1] = out[d][1]
  BY <1>2, QueuesGrow
<1>4. out'[d] # <<>>
  BY <1>1, <1>2, <1>3, SMTT(30), Z3T(30)
<1> QED
  BY <1>3, <1>4

\* The other connections: deliveries reach only those that have been sent CONNACK.
LEMMA GreetedOthers ==
  ASSUME Unshared, OwnInv, OwnInv', HitsLate, NEW c \in Conns, Task(c), NEW d \in Conns, d # c,
         Greeted(d)
  PROVE  Greeted(d)'
<1>0. TypeOK /\ TypeOK' /\ MessageInHand /\ ListInHand /\ GuardedEntry
  BY DEF OwnInv, IInv
<1>1. pc'[d] = pc[d] /\ writer'[d] = writer[d]
  BY <1>0, TaskIsLocal, WriterStands DEF OthersUnchanged
<1>2. CASE out[d] # <<>>
  <2>1. out'[d] # <<>> /\ out'[d][1] = out[d][1]
    BY <1>0, <1>2, KeepsFirst
  <2> QED
    BY <1>1, <1>2, <2>1 DEF Greeted
<1>3. CASE out[d] = <<>>
  <2>1. out'[d] = out[d]
    <3> SUFFICES ASSUME out'[d] # out[d] PROVE FALSE
      OBVIOUS
    <3>1. PublishDeliver(c)
      <4>1. \A p \in Replies : Send(c, p) => out'[d] = out[d]
        BY <1>0, ReplyIsOutgoing, SendEffect, SMTT(30), Z3T(30) DEF TypeOK
      <4> QED
        BY <1>0, <4>1, RepliesOrDelivers DEF Replied
    <3>2. Entered(d) /\ pc[d] \notin Unheard /\ CanSend(d)
      BY <3>1, DeliversToHeard
    <3> QED
      BY <1>3, <3>2 DEF Greeted, CanSend
  <2>2. ~Entered(d) => ~Entered(d)'
    <3> SUFFICES ASSUME NEW id \in ClientIds, sessions'[id] # None, sessions'[id].conn = d
                 PROVE  Entered(d)
      BY DEF Entered
    <3>1. CASE sessions[id] # None /\ sessions'[id].conn = sessions[id].conn
      BY <3>1 DEF Entered
    <3>2. CASE RegisterInsert(c) /\ id = Id(c)
      <4>1. sessions' = [sessions EXCEPT ![Id(c)] = Fresh(c)]
        BY <3>2 DEF RegisterInsert, Fresh
      <4>2. sessions'[id].conn = c
        BY <1>0, <3>2, <4>1 DEF Fresh, TypeOK
      <4> QED
        BY <4>2
    <3> QED
      BY <1>0, <3>1, <3>2, NewEntry
  <2> QED
    BY <1>1, <1>3, <2>1, <2>2 DEF Greeted
<1> QED
  BY <1>2, <1>3

\* The task's own queue: CONNACK is the first thing a handshake sends.
LEMMA GreetedOwn ==
  ASSUME OwnInv, OwnInv', ConnackReady, NEW c \in Conns, Task(c), Greeted(c)
  PROVE  Greeted(c)'
<1>0. TypeOK /\ TypeOK' /\ MessageInHand
  BY DEF OwnInv, IInv
<1>1. writer'[c] = writer[c] /\ pc = [x \in Conns |-> pc[x]] /\ out \in [Conns -> Seq(Outgoing)]
  BY <1>0, WriterStands DEF TypeOK
<1>2. CASE pc[c] \in Unheard
  <2>1. out[c] = <<>>
    BY <1>2 DEF Greeted
  <2>2. Handshake(c)
    BY <1>2 DEF Unheard, Early, Task, ReadPacket, Reads, ReadFails, ReadFatal,
       ReadDisconnect, ReadNoise, ReadPingreq, ReadAck, ReadPubrec, ReadPublish, ReadPubrel,
       ReadSubscribe, Handle, LoopTop, RunChain, PublishScan, PublishDeliver, ListStep, SendReply,
       Teardown, UnregisterRemove, UnregisterWipe, Close
  <2>3. ASSUME NEW p \in Outgoing, Send(c, p), p.type = "connack"
        PROVE  /\ CanSend(c) => out'[c] # <<>> /\ out'[c][1].type = "connack"
               /\ ~CanSend(c) => out'[c] = <<>> /\ writer'[c] = "gone"
    BY <1>1, <2>1, <2>3, SMTT(30), Z3T(30) DEF Send, CanSend
  <2>4. CASE ConnectFails(c)
    <3>1. pc'[c] = "closing" /\ out' = out /\ sessions' = sessions /\ pc[c] \in Early
      BY <1>1, <2>4 DEF ConnectFails, Goto, chanVars, mapVars, Early
    <3>2. ~Entered(c)
      BY <3>1 DEF Entered, OwnInv, Owned
    <3> QED
      BY <2>1, <3>1, <3>2 DEF Greeted, Unheard, Early, Entered
  <2>5. CASE Refuse(c)
    <3>1. pc'[c] = "closing" /\ Send(c, [type |-> "connack", accepted |-> FALSE, present |-> FALSE])
      BY <1>1, <2>5 DEF Refuse, Goto
    <3>2. [type |-> "connack", accepted |-> FALSE, present |-> FALSE] \in Outgoing
      BY DEF Outgoing, Replies
    <3> QED
      BY <2>3, <3>1, <3>2 DEF Greeted, Unheard, Early
  <2>6. CASE Accept(c) \/ RegisterRemove(c) \/ RegisterWipe(c) \/ RegisterInsert(c)
    <3>1. out' = out /\ pc'[c] \in Unheard
      BY <1>1, <2>6 DEF Accept, RegisterRemove, RegisterWipe, RegisterInsert, Goto, chanVars,
                        Unheard, Early
    <3> QED
      BY <2>1, <3>1 DEF Greeted
  <2>7. CASE SendConnack(c)
    <3>1. /\ pc'[c] = IF CanSend(c) THEN "top" ELSE "closing"
          /\ Send(c, reply[c]) /\ reply[c].type = "connack" /\ reply[c] \in Outgoing
      BY <1>0, <1>1, <2>7, ReplyIsOutgoing DEF SendConnack, SendOrFail, Goto, ConnackReady, TypeOK
    <3> QED
      BY <2>3, <3>1 DEF Greeted, Unheard, Early
  <2> QED
    BY <2>2, <2>4, <2>5, <2>6, <2>7 DEF Handshake
<1>3. CASE pc[c] \notin Unheard /\ out[c] # <<>>
  <2>1. out'[c] # <<>> /\ out'[c][1] = out[c][1]
    BY <1>0, <1>3, KeepsFirst
  <2>2. pc'[c] \notin Unheard
    BY <1>0, <1>3, StaysHeard
  <2> QED
    BY <1>3, <2>1, <2>2 DEF Greeted
<1>4. CASE pc[c] \notin Unheard /\ out[c] = <<>>
  <2>1. pc[c] \in {"closing", "done"} /\ (writer[c] = "gone" \/ ~Entered(c))
    BY <1>4 DEF Greeted
  <2>2. Teardown(c)
    BY <1>0, <2>1, OnTheWayOut
  <2>3. Close(c)
    BY <2>1, <2>2 DEF Teardown, UnregisterRemove, UnregisterWipe
  <2>4. pc'[c] = "done" /\ out' = out /\ sessions' = sessions
    BY <1>1, <2>3 DEF Close, Goto, mapVars
  <2> QED
    BY <1>1, <1>4, <2>1, <2>4 DEF Greeted, Unheard, Early, Entered
<1> QED
  BY <1>2, <1>3, <1>4

\* Nothing is queued at first.
LEMMA InitGreet == Init => GreetInv
<1> SUFFICES ASSUME Init PROVE GreetInv
  OBVIOUS
<1>1. SubsLate /\ HitsLate /\ ConnackReady /\ \A d \in Conns : Greeted(d)
  BY DEF Init, SubsLate, HitsLate, ConnackReady, Greeted, Unheard, Early
<1> QED
  BY <1>1, InitSole DEF GreetInv

\* Every step keeps it.
LEMMA StepGreet == Unshared /\ GreetInv /\ [Next]_vars => GreetInv'
<1> SUFFICES ASSUME Unshared, GreetInv, [Next]_vars PROVE GreetInv'
  OBVIOUS
<1>1. /\ SoleInv' /\ OwnInv /\ OwnInv'
      /\ TypeOK /\ MessageInHand /\ ListInHand /\ GuardedEntry
  BY StepSole DEF GreetInv, SoleInv, OwnInv, IInv
<1>2. ASSUME NEW c \in Conns, Task(c) PROVE GreetInv'
  <2>1. SubsLate' /\ HitsLate' /\ ConnackReady'
    BY <1>1, <1>2, SubsLateStep, HitsLateStep, ConnackReadyStep DEF GreetInv
  <2>2. \A d \in Conns : Greeted(d)'
    BY <1>1, <1>2, GreetedOthers, GreetedOwn DEF GreetInv
  <2> QED
    BY <1>1, <2>1, <2>2 DEF GreetInv
<1>3. CASE ~ \E c \in Conns : Task(c)
  <2>1. UNCHANGED <<mapVars, pc, taskVars, out>>
    BY <1>3 DEF Next, Terminated, WriterExits, WriterGone, vars, chanVars
  <2>2. \A d \in Conns : writer[d] = "gone" => writer'[d] = "gone"
    BY <1>1, <1>3 DEF Next, Terminated, WriterExits, WriterGone, vars, chanVars, TypeOK
  <2>3. SubsLate' /\ HitsLate' /\ ConnackReady'
    <3>1. UNCHANGED <<subs, pc, req, hits, reply>>
      BY <2>1 DEF mapVars, taskVars
    <3>2. SubsLate'
      BY <3>1 DEF GreetInv, SubsLate, Id
    <3>3. HitsLate'
      BY <3>1 DEF GreetInv, HitsLate, Id
    <3>4. ConnackReady'
      BY <3>1 DEF GreetInv, ConnackReady
    <3> QED
      BY <3>2, <3>3, <3>4
  <2>4. \A d \in Conns : Greeted(d)'
    BY <2>1, <2>2 DEF GreetInv, Greeted, Entered, mapVars
  <2> QED
    BY <1>1, <2>3, <2>4 DEF GreetInv
<1> QED
  BY <1>2, <1>3

\* CONNACK is the first packet in every queue, although register_session shows
\* the session to publishers before handle_server sends it: for any number of
\* connections with client ids of their own.
THEOREM ConnackComesFirst == ASSUME Unshared PROVE Spec => []ConnackFirst
<1>1. GreetInv => ConnackFirst
  BY DEF GreetInv, Greeted, ConnackFirst
<1>2. GreetInv /\ [Next]_vars => GreetInv'
  BY StepGreet
<1> QED
  BY <1>1, <1>2, InitGreet, PTL DEF Spec
-----------------------------------------------------------------------------
(* Connections that end in order.                                          *)

\* No writer actor fails, and no peer sends a packet that makes handle_server
\* return from inside its loop: those returns skip unregister_session.
Orderly ==
  Resets = {} /\ \A c \in Conns : \A r \in Requests[c] : r.type \notin {"malformed", "connect"}

\* The writer actor runs until its task has ended.
WriterUp == \A c \in Conns : writer[c] # "running" => pc[c] = "done"

\* Only the fan-out of a Will leads to the end of the task, and that is how
\* unregister_session prepares it.
WillLeads ==
  \A c \in Conns : /\ after[c] = "closing" => pc[c] \in Leaving
                   /\ pc[c] = "unreg_wipe" => after[c] = "closing"

\* Task c is past the removal of its entry, or never had one.
Gone(c) ==
  \/ pc[c] \in {"unreg_wipe", "closing", "done"}
  \/ pc[c] \in {"scan", "deliver"} /\ after[c] = "closing"

\* Then the map has no entry of it.
LeftClean == \A c \in Conns : Gone(c) => ~Entered(c)

\* The inductive invariant.
CleanInv == IInv /\ Owned /\ WriterUp /\ WillLeads /\ LeftClean

\* A task is gone only by failing its handshake or by unregister_session.
LEMMA GoesBy ==
  ASSUME Orderly, TypeOK, WriterUp, WillLeads, NEW c \in Conns, Task(c), Gone(c)'
  PROVE  \/ Gone(c) /\ UNCHANGED <<req, msg, after, graceful>>
         \/ ConnectFails(c) \/ Refuse(c) \/ UnregisterRemove(c)
<1>0. pc = [d \in Conns |-> pc[d]] /\ after = [d \in Conns |-> after[d]]
      /\ after[c] \in {"top", "reply", "closing"}
  BY DEF TypeOK
<1>1. pc[c] # "done" => CanSend(c)
  BY DEF WriterUp, CanSend
<1> USE <1>0, <1>1 DEF Gone, Goto, SendOrFail, Reads, WillLeads, Leaving, mapVars, taskVars
<1>2. CASE Handshake(c)
  BY <1>2 DEF Handshake, Accept, RegisterRemove, RegisterWipe, RegisterInsert, SendConnack
<1>3. CASE ReadFails(c)
  BY <1>3 DEF ReadFails
<1>4. ASSUME NEW r \in Requests[c], Answers(c, r) PROVE FALSE
  <2>1. ~ReadFatal(c, r)
    BY DEF Orderly, ReadFatal
  <2>2. CASE ReadDisconnect(c, r) \/ ReadNoise(c, r) \/ ReadPingreq(c, r) \/ ReadAck(c, r)
               \/ ReadPubrec(c, r)
    BY <2>2 DEF ReadDisconnect, ReadNoise, ReadPingreq, ReadAck, ReadPubrec
  <2>3. CASE ReadPublish(c, r)
    BY <2>3 DEF ReadPublish
  <2>4. CASE ReadPubrel(c, r)
    BY <2>4 DEF ReadPubrel
  <2> QED
    BY <1>4, <2>1, <2>2, <2>3, <2>4 DEF Answers
<1>5. ASSUME NEW r \in Requests[c], ReadSubscribe(c, r) PROVE FALSE
  BY <1>5 DEF ReadSubscribe
<1>6. CASE LoopTop(c) \/ ListStep(c) \/ SendReply(c)
  BY <1>6 DEF LoopTop, ListStep, SendReply
<1>7. CASE RunChain(c)
  BY <1>7 DEF RunChain
<1>8. CASE PublishScan(c) \/ PublishDeliver(c)
  BY <1>8 DEF PublishScan, PublishDeliver
<1>9. CASE UnregisterWipe(c) \/ Close(c)
  BY <1>9 DEF UnregisterWipe, Close
<1> HIDE DEF Gone, Goto, SendOrFail, Reads
<1> QED
  BY <1>2, <1>3, <1>4, <1>5, <1>6, <1>7, <1>8, <1>9 DEF Task, ReadPacket, Answers, Handle, Teardown

\* A task has no entry before register_session.
LEMMA NoEntryYet ==
  ASSUME Owned, NEW c \in Conns, pc[c] \in Early
  PROVE  ~Entered(c)
  BY DEF Owned, Entered

\* Entries are made by register_session of their own connection.
LEMMA EntersItself ==
  ASSUME TypeOK, ListInHand, GuardedEntry, NEW c \in Conns, Task(c), NEW d \in Conns, Entered(d)'
  PROVE  Entered(d) \/ (d = c /\ RegisterInsert(c))
<1>0. Id(c) \in ClientIds /\ sessions \in [ClientIds -> Session \cup {None}]
  BY DEF TypeOK, Id
<1>1. PICK id \in ClientIds : sessions'[id] # None /\ sessions'[id].conn = d
  BY DEF Entered
<1>2. CASE sessions[id] # None /\ sessions'[id].conn = sessions[id].conn
  BY <1>1, <1>2 DEF Entered
<1>3. CASE RegisterInsert(c) /\ id = Id(c)
  <2>1. sessions' = [sessions EXCEPT ![Id(c)] = Fresh(c)]
    BY <1>3 DEF RegisterInsert, Fresh
  <2>2. sessions'[id].conn = c
    BY <1>0, <1>3, <2>1 DEF Fresh
  <2> QED
    BY <1>1, <1>3, <2>2
<1> QED
  BY <1>1, <1>2, <1>3, NewEntry

\* Every step of a task keeps LeftClean.
LEMMA LeftCleanStep ==
  ASSUME Orderly, CleanInv, NEW c \in Conns, Task(c)
  PROVE  LeftClean'
<1>0. /\ TypeOK /\ ListInHand /\ GuardedEntry /\ Owned /\ WriterUp /\ WillLeads /\ LeftClean
      /\ pc = [d \in Conns |-> pc[d]]
  BY DEF CleanInv, IInv, TypeOK
<1> SUFFICES ASSUME NEW d \in Conns, Gone(d)', Entered(d)' PROVE FALSE
  BY DEF LeftClean
<1>1. ~(d = c /\ RegisterInsert(c))
  BY <1>0 DEF RegisterInsert, Goto, Gone
<1>2. Entered(d)
  BY <1>0, <1>1, EntersItself
<1>3. CASE d # c
  BY <1>0, <1>2, <1>3, TaskIsLocal DEF OthersUnchanged, LeftClean, Gone
<1>4. CASE d = c
  <2>1. CASE Gone(c)
    BY <1>0, <1>2, <1>4, <2>1 DEF LeftClean
  <2>2. CASE ConnectFails(c) \/ Refuse(c)
    BY <1>0, <1>2, <1>4, <2>2, NoEntryYet DEF ConnectFails, Refuse, Early
  <2>3. CASE UnregisterRemove(c)
    <3>1. sessions' = [sessions EXCEPT ![Id(c)] = None] /\ Id(c) \in ClientIds
      BY <1>0, <2>3 DEF UnregisterRemove, TypeOK, Id
    <3>2. PICK id \in ClientIds : sessions'[id] # None /\ sessions'[id].conn = c
      BY <1>4 DEF Entered
    <3>3. id # Id(c) /\ sessions[id] # None /\ sessions[id].conn = c
      BY <1>0, <3>1, <3>2 DEF TypeOK
    <3> QED
      BY <1>0, <3>3 DEF Owned
  <2> QED
    BY <1>0, <1>4, <2>1, <2>2, <2>3, GoesBy
<1> QED
  BY <1>3, <1>4

\* Every step of a task keeps WillLeads.
LEMMA WillLeadsStep ==
  ASSUME TypeOK, WillLeads, NEW c \in Conns, Task(c)
  PROVE  WillLeads'
<1>0. pc = [d \in Conns |-> pc[d]] /\ after = [d \in Conns |-> after[d]]
      /\ after[c] \in {"top", "reply", "closing"}
  BY DEF TypeOK
<1>a. ASSUME NEW d \in Conns, pc'[d] = "unreg_wipe" PROVE after'[d] = "closing"
  <2>1. CASE d # c
    BY <1>a, <2>1, TaskIsLocal DEF OthersUnchanged, WillLeads
  <2>2. CASE d = c /\ UnregisterRemove(c)
    BY <1>0, <2>2 DEF UnregisterRemove
  <2>3. CASE d = c /\ pc[c] = "unreg_wipe" /\ ~UnregisterRemove(c)
    <3>1. Teardown(c)
      BY <2>3, OnTheWayOut
    <3> QED
      BY <2>3, <3>1 DEF Teardown, UnregisterWipe, Close, WillLeads, taskVars
  <2> QED
    BY <1>a, <2>1, <2>2, <2>3, Onward
<1> SUFFICES ASSUME NEW d \in Conns, after'[d] = "closing" PROVE pc'[d] \in Leaving
  BY <1>a DEF WillLeads
<1>1. CASE d # c
  BY <1>1, TaskIsLocal DEF OthersUnchanged, WillLeads
<1>2. CASE d = c
  <2> USE <1>0, <1>2 DEF Leaving, Goto, SendOrFail, taskVars
  <2>1. CASE Still(c)
    BY <2>1 DEF Still, WillLeads
  <2>2. ASSUME NEW r \in Requests[c], ReadPublish(c, r) PROVE pc'[c] \in Leaving
    BY <2>2 DEF ReadPublish, Reads, WillLeads
  <2>3. ASSUME NEW r \in Requests[c], ReadPubrel(c, r) PROVE pc'[c] \in Leaving
    BY <2>3 DEF ReadPubrel, Reads, WillLeads
  <2>4. CASE RunChain(c)
    BY <2>4 DEF RunChain, WillLeads
  <2>5. CASE PublishScan(c)
    BY <2>5 DEF PublishScan
  <2>6. CASE PublishDeliver(c)
    BY <2>6 DEF PublishDeliver
  <2>7. CASE Teardown(c)
    BY <2>7 DEF Teardown, UnregisterRemove, UnregisterWipe, Close
  <2> HIDE DEF Goto
  <2> QED
    BY <2>1, <2>2, <2>3, <2>4, <2>5, <2>6, <2>7, StillOrMoves DEF Moves
<1> QED
  BY <1>1, <1>2

\* The invariant holds at first.
LEMMA InitClean == Init => CleanInv
<1> SUFFICES ASSUME Init PROVE CleanInv
  OBVIOUS
<1>1. WriterUp /\ WillLeads /\ LeftClean
  BY DEF Init, WriterUp, WillLeads, LeftClean, Gone
<1> QED
  BY <1>1, InitOwn DEF CleanInv, OwnInv

\* Every step keeps it.
LEMMA StepClean == Orderly /\ CleanInv /\ [Next]_vars => CleanInv'
<1> SUFFICES ASSUME Orderly, CleanInv, [Next]_vars PROVE CleanInv'
  OBVIOUS
<1>0. IInv' /\ TypeOK /\ ListInHand /\ GuardedEntry /\ Owned /\ WriterUp /\ WillLeads
  BY StepIInv DEF CleanInv, IInv
<1>1. ASSUME NEW c \in Conns, Task(c) PROVE CleanInv'
  <2>1. WriterUp'
    <3>1. \A d \in Conns : pc[d] = "done" => pc'[d] = "done"
      <4>1. pc[c] = "done" => ~Teardown(c)
        BY DEF Teardown, UnregisterRemove, UnregisterWipe, Close
      <4>2. pc[c] # "done"
        BY <1>0, <1>1, <4>1, OnTheWayOut
      <4> QED
        BY <1>0, <1>1, <4>2, TaskIsLocal DEF OthersUnchanged
    <3> QED
      BY <1>0, <1>1, <3>1, WriterStands DEF WriterUp
  <2> QED
    BY <1>0, <1>1, <2>1, OwnedStep, LeftCleanStep, WillLeadsStep DEF CleanInv
<1>2. CASE ~ \E c \in Conns : Task(c)
  <2>1. UNCHANGED <<mapVars, pc, taskVars>>
    BY <1>2 DEF Next, Terminated, WriterExits, WriterGone, vars, chanVars
  <2>2. WriterUp'
    BY <1>0, <1>2 DEF Next, Terminated, WriterExits, WriterGone, vars, chanVars, TypeOK,
                      WriterUp, Orderly
  <2>3. UNCHANGED <<sessions, pc, req, after>>
    BY <2>1 DEF mapVars, taskVars
  <2>4. Owned'
    BY <1>0, <2>3 DEF Owned, Id
  <2>5. WillLeads' /\ LeftClean'
    BY <2>3 DEF CleanInv, WillLeads, LeftClean, Gone, Entered
  <2> QED
    BY <1>0, <2>2, <2>4, <2>5 DEF CleanInv
<1> QED
  BY <1>1, <1>2

\* Whatever client ids are shared, a task that has ended has taken its session
\* out of the map, if handle_server did not return from inside its loop.
THEOREM EndsUnregistered == ASSUME Orderly PROVE Spec => []DoneIsUnregistered
<1>1. CleanInv => DoneIsUnregistered
  BY DEF CleanInv, LeftClean, Gone, Entered, DoneIsUnregistered
<1>2. CleanInv /\ [Next]_vars => CleanInv'
  BY StepClean
<1> QED
  BY <1>1, <1>2, InitClean, PTL DEF Spec

-----------------------------------------------------------------------------
(* The Will of a connection that crashed is published.                     *)

\* From register_session to unregister_session a connection's entry is in the
\* map, with the Will of its CONNECT.
Kept(c) ==
  pc[c] \notin Early /\ ~Gone(c) =>
    /\ sessions[Id(c)] # None
    /\ sessions[Id(c)].conn = c /\ sessions[Id(c)].will = req[c].will

\* The message in task c's hands is a Will exactly if c sent no DISCONNECT.
Decided(c) == graceful[c] <=> (msg[c] = None \/ msg[c].payload[2] # WillNo)

\* That is settled when unregister_session has removed the entry of a connection
\* with a Will, if its CONNECT was accepted.
WillSettled(c) ==
  Gone(c) /\ req[c].will # None =>
    out[c] = <<>> \/ ~out[c][1].accepted \/ Decided(c)

\* The inductive invariant.
CrashInv == GreetInv /\ CleanInv /\ \A c \in Conns : Kept(c) /\ WillSettled(c)

\* Another connection's entry stays.
LEMMA EntryStays ==
  ASSUME Unshared, OwnInv, NEW c \in Conns, Task(c), NEW d \in Conns, sessions[Id(d)] # None,
         d # c \/ ~(RegisterRemove(c) \/ UnregisterRemove(c))
  PROVE  sessions'[Id(d)] # None
<1>0. /\ TypeOK /\ ListInHand /\ GuardedEntry /\ OwnIds
      /\ Id(d) \in ClientIds /\ Id(c) \in ClientIds
      /\ sessions \in [ClientIds -> Session \cup {None}]
  BY DEF OwnInv, IInv, TypeOK, Id
<1>1. CASE RegisterRemove(c) \/ UnregisterRemove(c)
  <2>1. sessions' = [sessions EXCEPT ![Id(c)] = None] /\ d # c
    BY <1>1 DEF RegisterRemove, UnregisterRemove
  <2>2. Id(c) # Id(d)
    BY <1>0, <2>1, OneOwner
  <2> QED
    BY <1>0, <2>1, <2>2
<1>2. CASE RegisterInsert(c)
  <2>1. sessions' = [sessions EXCEPT ![Id(c)] = Fresh(c)]
    BY <1>2 DEF RegisterInsert, Fresh
  <2> QED
    BY <1>0, <2>1, FreshEntry
<1>3. CASE ListStep(c)
  BY <1>0, <1>3, ListStepEntry
<1>4. CASE Quiet(c) \/ RegisterWipe(c) \/ UnregisterWipe(c)
  BY <1>4 DEF Quiet, mapVars, RegisterWipe, UnregisterWipe
<1> QED
  BY <1>0, <1>1, <1>2, <1>3, <1>4, QuietOrMap DEF MapStep

\* Every step of a task keeps Kept.
LEMMA KeptStep ==
  ASSUME Unshared, OwnInv, WillLeads, NEW c \in Conns, Task(c), NEW d \in Conns, Kept(d)
  PROVE  Kept(d)'
<1>0. /\ TypeOK /\ ListInHand /\ GuardedEntry /\ OwnIds
      /\ Id(d) \in ClientIds /\ Id(c) \in ClientIds
      /\ sessions \in [ClientIds -> Session \cup {None}] /\ pc = [x \in Conns |-> pc[x]]
  BY DEF OwnInv, IInv, TypeOK, Id
<1> SUFFICES ASSUME pc'[d] \notin Early, ~Gone(d)'
             PROVE  /\ sessions'[req'[d].id] # None
                    /\ sessions'[req'[d].id].conn = d
                    /\ sessions'[req'[d].id].will = req'[d].will
  BY DEF Kept, Id
<1>1. CASE d = c /\ RegisterInsert(c)
  <2>1. sessions' = [sessions EXCEPT ![Id(c)] = Fresh(c)] /\ req' = req
    BY <1>1 DEF RegisterInsert, Fresh, taskVars
  <2> QED
    BY <1>0, <1>1, <2>1, FreshEntry DEF Fresh, Id
<1>2. CASE ~(d = c /\ RegisterInsert(c))
  <2>1. pc[d] \notin Early /\ ~Gone(d) /\ req'[d] = req[d]
        /\ (d # c \/ ~(RegisterRemove(c) \/ UnregisterRemove(c)))
    <3>1. CASE d # c
      BY <1>0, <3>1, TaskIsLocal DEF OthersUnchanged, Gone
    <3>2. CASE d = c
      <4>1. CASE pc[c] \in Early
        <5>1. Handshake(c)
          BY <4>1 DEF Early, Task, ReadPacket, Reads, ReadFails, ReadFatal,
             ReadDisconnect, ReadNoise, ReadPingreq, ReadAck, ReadPubrec, ReadPublish, ReadPubrel,
             ReadSubscribe, Handle, LoopTop, RunChain, PublishScan, PublishDeliver, ListStep,
             SendReply, Teardown, UnregisterRemove, UnregisterWipe, Close
        <5> QED
          BY <1>0, <1>2, <3>2, <4>1, <5>1 DEF Handshake, ConnectFails, Refuse, Accept, RegisterRemove,
             RegisterWipe, SendConnack, Goto, Early, Gone
      <4>2. CASE pc[c] \notin Early
        <5>1. ~RegisterRemove(c)
          BY <4>2 DEF RegisterRemove, Early
        <5>2. ~UnregisterRemove(c)
          BY <1>0, <3>2 DEF UnregisterRemove, Goto, Gone
        <5>3. req'[c] = req[c]
          BY <1>0, <4>2, Onward DEF Early
        <5>4. Gone(c) => Gone(c)'
          <6> SUFFICES ASSUME Gone(c) PROVE Gone(c)'
            OBVIOUS
          <6>1. Teardown(c) \/ PublishScan(c) \/ PublishDeliver(c)
            BY DEF Gone, Task, Handshake, ConnectFails, Refuse, Accept, RegisterRemove,
               RegisterWipe, RegisterInsert, SendConnack, ReadPacket, Reads, ReadFails, ReadFatal,
               ReadDisconnect, ReadNoise, ReadPingreq, ReadAck, ReadPubrec, ReadPublish, ReadPubrel,
               ReadSubscribe, Handle, LoopTop, RunChain, ListStep, SendReply
          <6>2. CASE PublishScan(c) \/ PublishDeliver(c)
            BY <1>0, <6>2 DEF Gone, PublishScan, PublishDeliver, Goto
          <6>3. CASE UnregisterWipe(c) \/ Close(c)
            BY <1>0, <6>3 DEF Gone, UnregisterWipe, Close, Goto, taskVars, WillLeads
          <6> QED
            BY <5>2, <6>1, <6>2, <6>3 DEF Teardown
        <5> QED
          BY <3>2, <4>2, <5>1, <5>2, <5>3, <5>4
      <4> QED
        BY <4>1, <4>2
    <3> QED
      BY <3>1, <3>2
  <2>2. /\ sessions[Id(d)] # None
        /\ sessions[Id(d)].conn = d /\ sessions[Id(d)].will = req[d].will
    BY <2>1 DEF Kept
  <2>3. sessions'[Id(d)] # None
    BY <2>1, <2>2, EntryStays
  <2>4. ~(RegisterInsert(c) /\ Id(d) = Id(c))
    BY <1>0, <1>2, OneOwner
  <2>5. sessions'[Id(d)].conn = sessions[Id(d)].conn /\ sessions'[Id(d)].will = sessions[Id(d)].will
    BY <1>0, <2>3, <2>4, NewEntry
  <2>6. req'[d].id = Id(d)
    BY <2>1 DEF Id
  <2> QED
    BY <2>1, <2>2, <2>3, <2>5, <2>6
<1> QED
  BY <1>1, <1>2

\* The first packet of a task that is gone does not change.
LEMMA FirstStays ==
  ASSUME Unshared, OwnInv, OwnInv', HitsLate, LeftClean, NEW c \in Conns, Task(c), NEW d \in Conns,
         Gone(d)
  PROVE  (out[d] = <<>> /\ out'[d] = <<>>) \/ (out'[d] # <<>> /\ out[d] # <<>> /\ out'[d][1] = out[d][1])
<1>0. TypeOK /\ TypeOK' /\ MessageInHand
  BY DEF OwnInv, IInv
<1>1. CASE out[d] # <<>>
  BY <1>0, <1>1, KeepsFirst
<1>2. CASE out[d] = <<>>
  <2> SUFFICES ASSUME out'[d] # out[d] PROVE FALSE
    BY <1>2
  <2>1. ~PublishDeliver(c)
    BY DeliversToHeard DEF LeftClean
  <2>2. ~UNCHANGED out
    OBVIOUS
  <2>3. PICK p \in Replies : Send(c, p)
    BY <1>0, <2>1, <2>2, RepliesOrDelivers DEF Replied
  <2>4. d = c
    BY <1>0, <2>3, ReplyIsOutgoing, SendEffect, SMTT(30), Z3T(30) DEF TypeOK
  <2>5. Teardown(c) \/ PublishScan(c)
    BY <2>1, <2>4 DEF Gone, Task, Handshake, ConnectFails, Refuse, Accept, RegisterRemove,
       RegisterWipe, RegisterInsert, SendConnack, ReadPacket, Reads, ReadFails, ReadFatal,
       ReadDisconnect, ReadNoise, ReadPingreq, ReadAck, ReadPubrec, ReadPublish, ReadPubrel,
       ReadSubscribe, Handle, LoopTop, RunChain, ListStep, SendReply
  <2> QED
    BY <2>2, <2>5 DEF Teardown, UnregisterRemove, UnregisterWipe, Close, PublishScan, chanVars
<1> QED
  BY <1>1, <1>2

\* Every step of a task keeps WillSettled.
LEMMA WillSettledStep ==
  ASSUME Unshared, Orderly, CrashInv, OwnInv', NEW c \in Conns, Task(c), NEW d \in Conns
  PROVE  WillSettled(d)'
<1>0. /\ OwnInv /\ TypeOK /\ MessageInHand /\ WriterUp /\ WillLeads /\ LeftClean /\ HitsLate
      /\ Greeted(d) /\ Kept(d) /\ WillSettled(d)
      /\ pc = [x \in Conns |-> pc[x]] /\ msg = [x \in Conns |-> msg[x]]
  BY DEF CrashInv, GreetInv, SoleInv, CleanInv, OwnInv, IInv, TypeOK
<1> SUFFICES ASSUME Gone(d)', req'[d].will # None
             PROVE  out'[d] = <<>> \/ ~out'[d][1].accepted \/ Decided(d)'
  BY DEF WillSettled
<1>1. CASE /\ Gone(d) /\ req'[d] = req[d] /\ msg'[d] = msg[d]
           /\ graceful'[d] = graceful[d]
  <2>1. out[d] = <<>> \/ ~out[d][1].accepted \/ Decided(d)
    BY <1>0, <1>1 DEF WillSettled
  <2>2. \/ out[d] = <<>> /\ out'[d] = <<>>
        \/ out'[d] # <<>> /\ out[d] # <<>> /\ out'[d][1] = out[d][1]
    BY <1>0, <1>1, FirstStays
  <2>3. Decided(d) => Decided(d)'
    BY <1>1 DEF Decided
  <2> QED
    BY <2>1, <2>2, <2>3
<1>2. CASE d # c
  <2>1. graceful'[d] = graceful[d]
    BY <1>0, <1>2, GracefulLocal
  <2> QED
    BY <1>0, <1>1, <1>2, <2>1, TaskIsLocal DEF OthersUnchanged, Gone
<1>3. CASE d = c /\ ConnectFails(c)
  BY <1>0, <1>3 DEF ConnectFails, chanVars, Greeted, Unheard, Early
<1>4. CASE d = c /\ Refuse(c)
  <2>1. out[c] = <<>> /\ pc[c] = "accept" /\ out \in [Conns -> Seq(Outgoing)]
    BY <1>0, <1>4 DEF Refuse, Greeted, Unheard, Early, TypeOK
  <2>2. CanSend(c)
    BY <1>0, <2>1 DEF CanSend, WriterUp
  <2> PICK r : r = [type |-> "connack", accepted |-> FALSE, present |-> FALSE]
    OBVIOUS
  <2>3. out'[c] = Append(out[c], r) /\ ~r.accepted
    BY <1>4, <2>1, <2>2 DEF Refuse, Send
  <2>4. out'[c][1] = r
    BY <2>1, <2>3, SMTT(30), Z3T(30)
  <2> QED
    BY <1>4, <2>3, <2>4
<1>5. CASE d = c /\ UnregisterRemove(c)
  <2>1. /\ pc[c] = "unreg_remove" /\ graceful' = graceful /\ req' = req
        /\ msg' = [msg EXCEPT ![c] =
                     IF WillFires(c, sessions[Id(c)])
                       THEN [payload |-> <<sessions[Id(c)].conn, WillNo, sessions[Id(c)].will.qos>>,
                             topic |-> sessions[Id(c)].will.topic, qos |-> sessions[Id(c)].will.qos]
                       ELSE None]
    BY <1>5 DEF UnregisterRemove
  <2>2. sessions[Id(c)] # None /\ sessions[Id(c)].will = req[c].will
    BY <1>0, <1>5, <2>1 DEF Kept, Early, Gone
  <2>3. WillFires(c, sessions[Id(c)]) <=> ~graceful[c]
    BY <1>5, <2>1, <2>2 DEF WillFires
  <2>4. CASE graceful[c]
    <3>1. msg'[c] = None
      BY <1>0, <2>1, <2>3, <2>4
    <3>2. graceful'[c]
      BY <2>1, <2>4
    <3> QED
      BY <1>5, <3>1, <3>2 DEF Decided
  <2>5. CASE ~graceful[c]
    <3>1. msg'[c] = [payload |-> <<sessions[Id(c)].conn, WillNo, sessions[Id(c)].will.qos>>,
                     topic |-> sessions[Id(c)].will.topic, qos |-> sessions[Id(c)].will.qos]
      BY <1>0, <2>1, <2>3, <2>5
    <3>2. msg'[c] # None
      <4>1. sessions[Id(c)].will \in Will /\ sessions[Id(c)].conn \in Conns
        BY <1>0, <1>5, <2>1, <2>2 DEF TypeOK, Session, Id
      <4>2. WillNo \in 1..WillNo
        BY BoundsAssumption, SMTT(30), Z3T(30) DEF WillNo
      <4>3. <<sessions[Id(c)].conn, WillNo, sessions[Id(c)].will.qos>> \in Payload
        BY <4>1, <4>2 DEF Payload, Will
      <4>4. msg'[c] \in Message
        BY <3>1, <4>1, <4>3, SMTT(30), Z3T(30) DEF Message, Will
      <4> QED
        BY <4>4, NoneAssumption
    <3>3. msg'[c].payload[2] = WillNo
      BY <3>1, SMTT(30), Z3T(30)
    <3>4. ~graceful'[c]
      BY <2>1, <2>5
    <3> QED
      BY <1>5, <3>2, <3>3, <3>4 DEF Decided
  <2> QED
    BY <2>4, <2>5
<1>6. CASE d = c /\ Gone(c) /\ UNCHANGED <<req, msg, after, graceful>>
  BY <1>1, <1>6
<1> QED
  BY <1>0, <1>2, <1>3, <1>4, <1>5, <1>6, GoesBy

\* The invariant holds at first.
LEMMA InitCrash == Init => CrashInv
<1> SUFFICES ASSUME Init PROVE CrashInv
  OBVIOUS
<1>1. \A c \in Conns : Kept(c) /\ WillSettled(c)
  BY DEF Init, Kept, WillSettled, Gone, Early
<1> QED
  BY <1>1, InitGreet, InitClean DEF CrashInv

\* Every step keeps it.
LEMMA StepCrash == Unshared /\ Orderly /\ CrashInv /\ [Next]_vars => CrashInv'
<1> SUFFICES ASSUME Unshared, Orderly, CrashInv, [Next]_vars PROVE CrashInv'
  OBVIOUS
<1>1. GreetInv' /\ CleanInv' /\ OwnInv /\ OwnInv'
  BY StepGreet, StepClean DEF CrashInv, GreetInv, SoleInv
<1>2. ASSUME NEW c \in Conns, Task(c) PROVE CrashInv'
  <2>1. \A d \in Conns : Kept(d)' /\ WillSettled(d)'
    BY <1>1, <1>2, KeptStep, WillSettledStep DEF CrashInv, CleanInv
  <2> QED
    BY <1>1, <2>1 DEF CrashInv
<1>3. CASE ~ \E c \in Conns : Task(c)
  <2>1. UNCHANGED <<mapVars, pc, taskVars, out>>
    BY <1>3 DEF Next, Terminated, WriterExits, WriterGone, vars, chanVars
  <2>2. UNCHANGED <<sessions, pc, req, after, msg, graceful, out>>
    BY <2>1 DEF mapVars, taskVars
  <2>3. \A d \in Conns : Kept(d)' /\ WillSettled(d)'
    BY <2>2 DEF CrashInv, Kept, WillSettled, Gone, Decided, Id
  <2> QED
    BY <1>1, <2>3 DEF CrashInv
<1> QED
  BY <1>2, <1>3

\* When handle_server did not return from inside its loop, the Will of an accepted
\* connection is published exactly if it sent no DISCONNECT: for any number of
\* connections with client ids of their own.
THEOREM WillAfterCrash == ASSUME Unshared, Orderly PROVE Spec => []WillFollowsCrash
<1>1. CrashInv => WillFollowsCrash
  BY DEF CrashInv, WillSettled, Gone, Decided, WillFollowsCrash
<1>2. CrashInv /\ [Next]_vars => CrashInv'
  BY StepCrash
<1> QED
  BY <1>1, <1>2, InitCrash, PTL DEF Spec
=============================================================================
