---------------------------- MODULE MqttChannel ----------------------------
(***************************************************************************)
(* One MqttChannel: the command queue, the writer actor that owns the      *)
(* write half, the `open` flag and the `shutdown` Notify.                  *)
(*                                                                         *)
(* tokio's Notify::notify_waiters reaches the Notified futures that exist  *)
(* at that moment and leaves nothing behind for later ones.  The actor's   *)
(* select! creates one on every turn of its loop and drops it before the   *)
(* body of the chosen branch runs, so a call made during a write is lost.  *)
(* When both branches of the select! are ready either may be chosen.       *)
(* Nothing in the crate sends WriteCmd::Flush or WriteCmd::Shutdown.       *)
(***************************************************************************)
EXTENDS Naturals, Sequences

CONSTANTS
  Packets,      \* packets to send
  MaxHandles,   \* clones of the channel: the handler's, the broker's, users'
  MaxSends,     \* bound on the packets sent
  Breaks        \* BOOLEAN: the wire may fail under a write

ASSUME ChannelAssumption ==
  MaxHandles \in Nat \ {0} /\ MaxSends \in Nat /\ Breaks \in BOOLEAN

VARIABLES
  open,       \* the flag
  handles,    \* live clones; each holds a sender of the queue
  closer,     \* the first close(): "none", "notify", "abandon" or "done"
  inflight,   \* MqttSession holds in-flight state: abandon() has not run
  queue,      \* cmd_rx
  writer,     \* "select", "writing", "leaving", "shutdown" or "gone"
  notified,   \* the Notified of the current select! has been woken
  wire,       \* packets written
  accepted    \* history: packets accepted by the queue

vars == <<open, handles, closer, inflight, queue, writer, notified, wire, accepted>>

Init ==
  /\ open = TRUE /\ handles = MaxHandles /\ closer = "none" /\ inflight = TRUE
  /\ queue = <<>> /\ writer = "select" /\ notified = FALSE
  /\ wire = <<>> /\ accepted = <<>>

-----------------------------------------------------------------------------
(* The handles.                                                            *)

\* send_packet and send_publish do not look at `open`: they succeed until the
\* actor has dropped its end of the queue.
SendPacket(p) ==
  /\ handles > 0 /\ Len(accepted) < MaxSends /\ writer # "gone"
  /\ queue' = Append(queue, p)
  /\ accepted' = Append(accepted, p)
  /\ UNCHANGED <<open, handles, closer, inflight, writer, notified, wire>>

\* close(): the swap.  A caller that finds the flag cleared returns at once.
CloseSwap ==
  /\ handles > 0 /\ open
  /\ open' = FALSE
  /\ closer' = "notify"
  /\ UNCHANGED <<handles, inflight, queue, writer, notified, wire, accepted>>

CloseNotify ==
  /\ closer = "notify"
  /\ notified' = (notified \/ writer = "select")
  /\ closer' = "abandon"
  /\ UNCHANGED <<open, handles, inflight, queue, writer, wire, accepted>>

CloseAbandon ==
  /\ closer = "abandon"
  /\ inflight' = FALSE
  /\ closer' = "done"
  /\ UNCHANGED <<open, handles, queue, writer, notified, wire, accepted>>

\* A clone is dropped; the one close() runs on lives until it returns.
DropHandle ==
  /\ handles > IF closer \in {"notify", "abandon"} THEN 1 ELSE 0
  /\ handles' = handles - 1
  /\ UNCHANGED <<open, closer, inflight, queue, writer, notified, wire, accepted>>

-----------------------------------------------------------------------------
(* writer_actor.                                                           *)

\* Mutant: the newest command is taken first.
WriterRecvNewest ==
  /\ writer = "select" /\ queue # <<>>
  /\ writer' = "writing" /\ notified' = FALSE
  /\ queue' = <<queue[Len(queue)]>> \o SubSeq(queue, 1, Len(queue) - 1)
  /\ UNCHANGED <<open, handles, closer, inflight, wire, accepted>>

\* The recv() branch: the command stays at the head of `queue` while it is
\* being written.
WriterRecv ==
  /\ writer = "select" /\ queue # <<>>
  /\ writer' = "writing" /\ notified' = FALSE
  /\ UNCHANGED <<open, handles, closer, inflight, queue, wire, accepted>>

WriteSucceeds ==
  /\ writer = "writing"
  /\ wire' = Append(wire, Head(queue))
  /\ queue' = Tail(queue)
  /\ writer' = "select"
  /\ UNCHANGED <<open, handles, closer, inflight, notified, accepted>>

\* Mutant: a failed write is ignored.
WriteFailsIgnored ==
  /\ Breaks /\ writer = "writing"
  /\ queue' = Tail(queue)
  /\ writer' = "select"
  /\ UNCHANGED <<open, handles, closer, inflight, notified, wire, accepted>>

WriteFails ==
  /\ Breaks /\ writer = "writing"
  /\ queue' = Tail(queue)
  /\ writer' = "leaving"
  /\ UNCHANGED <<open, handles, closer, inflight, notified, wire, accepted>>

\* The notified() branch, whatever is left in the queue.
WriterNotified ==
  /\ writer = "select" /\ notified
  /\ writer' = "leaving"
  /\ UNCHANGED <<open, handles, closer, inflight, queue, notified, wire, accepted>>

\* Mutant: the actor does not notice that every sender is gone.
WriterHungUpNever == FALSE /\ UNCHANGED vars

\* recv() returns None: the queue is empty and every sender has been dropped.
WriterHungUp ==
  /\ writer = "select" /\ queue = <<>> /\ handles = 0
  /\ writer' = "leaving"
  /\ UNCHANGED <<open, handles, closer, inflight, queue, notified, wire, accepted>>

\* Mutant: the actor leaves the flag alone.
WriterStoresNothing ==
  /\ writer = "leaving"
  /\ writer' = "shutdown"
  /\ UNCHANGED <<open, handles, closer, inflight, queue, notified, wire, accepted>>

\* `open.store(false)`: close() will find the flag cleared.
WriterStores ==
  /\ writer = "leaving"
  /\ open' = FALSE
  /\ writer' = "shutdown"
  /\ UNCHANGED <<handles, closer, inflight, queue, notified, wire, accepted>>

\* The write half is shut down; the receiver and what it holds are dropped.
WriterReturns ==
  /\ writer = "shutdown"
  /\ writer' = "gone"
  /\ queue' = <<>>
  /\ UNCHANGED <<open, handles, closer, inflight, notified, wire, accepted>>

-----------------------------------------------------------------------------

Writer ==
  WriterRecv \/ WriteSucceeds \/ WriteFails \/ WriterNotified \/ WriterHungUp
    \/ WriterStores \/ WriterReturns

Users == (\E p \in Packets : SendPacket(p)) \/ CloseSwap \/ DropHandle

Next == Users \/ CloseNotify \/ CloseAbandon \/ Writer

\* The runtime runs the actor whenever it can run: WriteSucceeds and WriteFails
\* are both ends of one write, which ends.  A call of close() is not suspended.
Fairness == WF_vars(Writer) /\ WF_vars(CloseNotify \/ CloseAbandon)

Spec == Init /\ [][Next]_vars
FairSpec == Spec /\ Fairness

-----------------------------------------------------------------------------
(* Properties.                                                             *)

TypeOK ==
  /\ open \in BOOLEAN /\ handles \in 0..MaxHandles
  /\ closer \in {"none", "notify", "abandon", "done"} /\ inflight \in BOOLEAN
  /\ queue \in Seq(Packets) /\ wire \in Seq(Packets) /\ accepted \in Seq(Packets)
  /\ writer \in {"select", "writing", "leaving", "shutdown", "gone"}
  /\ notified \in BOOLEAN

Wire == INSTANCE MqttWire
          WITH sent <- accepted, got <- wire, up <- writer \in {"select", "writing"}

\* However sends, close() and the actor interleave, packets go to the wire in
\* the order the queue accepted them, none twice and none skipped.
InOrder == Wire!Spec

\* is_open() tells the truth to a sender: while it returns true the actor has
\* not dropped the queue, so send_packet succeeds.
OpenAccepts == open => writer # "gone"

\* A channel that nobody closes and whose writes succeed delivers every packet.
Delivers ==
  \A n \in 1..MaxSends : Len(accepted) >= n ~> (Len(wire) >= n \/ ~open)

\* When the last handle is dropped the actor ends.
EndsWithHandles == handles = 0 ~> writer = "gone"

=============================================================================
