------------------------------ MODULE MqttWire ------------------------------
(***************************************************************************)
(* What a channel promises to those who send on it: packets leave in the   *)
(* order they were accepted, each at most once, until the wire goes down.  *)
(***************************************************************************)
EXTENDS Naturals, Sequences

CONSTANT Packets

VARIABLES
  sent,   \* packets accepted so far
  got,    \* packets that have left
  up      \* the wire still carries packets

wireVars == <<sent, got, up>>

Init == sent = <<>> /\ got = <<>> /\ up = TRUE

Accept == \E p \in Packets : sent' = Append(sent, p) /\ UNCHANGED <<got, up>>

Carry ==
  /\ up /\ Len(got) < Len(sent)
  /\ got' = Append(got, sent[Len(got) + 1])
  /\ UNCHANGED <<sent, up>>

GoDown == up /\ up' = FALSE /\ UNCHANGED <<sent, got>>

Next == Accept \/ Carry \/ GoDown

Spec == Init /\ [][Next]_wireVars
=============================================================================
