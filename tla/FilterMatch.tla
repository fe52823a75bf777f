---------------------------- MODULE FilterMatch ----------------------------
(***************************************************************************)
(* filter_matches: the loop by which the broker decides whether a filter   *)
(* of the subscription tree matches the topic of a message.  Filters and   *)
(* topics are split at '/', so each is a sequence of segments.  A filter   *)
(* reaches the tree only through validate_subscribe_filter; the topic of a *)
(* message is not validated.                                               *)
(***************************************************************************)
EXTENDS Naturals, Sequences

CONSTANTS
  Segment,   \* segments
  Plus,      \* the segment "+"
  Hash,      \* the segment "#"
  Filters,   \* filters in the subscription tree
  Topics     \* topics of messages

\* No segment of a validated filter but the last is "#".
ASSUME FiltersAssumption ==
  /\ Plus # Hash
  /\ Filters \subseteq Seq(Segment) /\ Topics \subseteq Seq(Segment)
  /\ \A F \in Filters : F # <<>> /\ \A i \in 1..(Len(F) - 1) : F[i] # Hash

VARIABLES
  filter_segs, topic_segs,   \* the arguments
  f, t,                      \* the loop's indices, 0-based as in the code
  result                     \* "running", or the value returned

vars == <<filter_segs, topic_segs, f, t, result>>

Init ==
  /\ filter_segs \in Filters /\ topic_segs \in Topics
  /\ f = 0 /\ t = 0
  /\ result = "running"

Returns(b) == result' = b /\ UNCHANGED <<filter_segs, topic_segs, f, t>>

Advance == f' = f + 1 /\ t' = t + 1 /\ UNCHANGED <<filter_segs, topic_segs, result>>

\* `while f < filter_segs.len()`.
InLoop == result = "running" /\ f < Len(filter_segs)

StepHash == InLoop /\ filter_segs[f + 1] = Hash /\ Returns("true")

\* Mutant: "+" also matches a level that is not there.
StepPlusUnbounded == InLoop /\ filter_segs[f + 1] = Plus /\ Advance

StepPlus ==
  /\ InLoop /\ filter_segs[f + 1] = Plus
  /\ IF t >= Len(topic_segs) THEN Returns("false") ELSE Advance

StepLiteral ==
  /\ InLoop /\ filter_segs[f + 1] \notin {Hash, Plus}
  /\ IF t >= Len(topic_segs) \/ filter_segs[f + 1] # topic_segs[t + 1]
       THEN Returns("false") ELSE Advance

Finish ==
  /\ result = "running" /\ f >= Len(filter_segs)
  /\ Returns(IF t = Len(topic_segs) THEN "true" ELSE "false")

Returned == result # "running" /\ UNCHANGED vars

Next == StepHash \/ StepPlus \/ StepLiteral \/ Finish \/ Returned

Spec == Init /\ [][Next]_vars

-----------------------------------------------------------------------------
(* What matching means (MQTT 3.1.1, section 4.7.1).                        *)

\* Filter segment s accepts topic level l.
Accepts(s, l) == s = Plus \/ s = l

\* "#" stands for the parent level and any number of levels below it.
Matches(F, T) ==
  LET multi == F[Len(F)] = Hash
      n == IF multi THEN Len(F) - 1 ELSE Len(F)
  IN /\ IF multi THEN Len(T) >= n ELSE Len(T) = n
     /\ \A i \in 1..n : Accepts(F[i], T[i])

TypeOK ==
  /\ filter_segs \in Filters /\ topic_segs \in Topics
  /\ f \in Nat /\ t \in Nat
  /\ result \in {"running", "true", "false"}

\* filter_matches returns true for exactly the topics that the filter matches:
\* the two indices never run past the ends, "#" includes its parent level, and
\* neither a shorter nor a longer topic slips through.
ReturnsMatches ==
  result # "running" => (result = "true") = Matches(filter_segs, topic_segs)
=============================================================================
