---------------------------- MODULE TopicGrammar ----------------------------
(***************************************************************************)
(* The parsers and validators of topic.rs.  A string is the nonempty       *)
(* sequence of segments that split('/') yields; the empty string is the    *)
(* one segment of width 0.  The parsers and the fast validators are two    *)
(* implementations of each grammar.                                        *)
(***************************************************************************)
EXTENDS Naturals, Sequences, SequencesExt

CONSTANTS
  Literals,      \* segments without a wildcard character
  Mixed,         \* segments with a wildcard character and another one
  Width,         \* Width[s]: the length of segment s in bytes
  MAX_TOPIC_LEN

Segments == Literals \cup Mixed \cup {"+", "#"}

ASSUME GrammarAssumption ==
  /\ Width \in [Segments -> Nat] /\ MAX_TOPIC_LEN \in Nat
  /\ {"+", "#"} \cap (Literals \cup Mixed) = {} /\ Literals \cap Mixed = {}

\* The length in bytes of the string, its '/' included.
StrLen(s) == FoldLeft(LAMBDA n, seg : n + Width[seg], Len(s) - 1, s)

\* PathPattern.
Literal(seg) == [kind |-> "Literal", seg |-> seg]
PathAny == [kind |-> "Any"]
AnyPath == [kind |-> "AnyPath"]

\* The checks every function of topic.rs begins with.
LengthFault(s) ==
  IF StrLen(s) = 0 THEN "EmptyTopic"
  ELSE IF StrLen(s) > MAX_TOPIC_LEN THEN "TopicTooLong"
  ELSE "none"

-----------------------------------------------------------------------------
(* SUBSCRIBE filters.                                                      *)

\* Mutant: the parser lets "#" stand anywhere.
ParseFilterSegmentNoHash(acc, s, i) ==
  IF acc.fault # "none" THEN acc
  ELSE IF s[i] = "+" THEN [acc EXCEPT !.path = Append(@, PathAny)]
  ELSE IF s[i] = "#" THEN [acc EXCEPT !.path = Append(@, AnyPath)]
  ELSE IF s[i] \in Mixed THEN [acc EXCEPT !.fault = "WildcardMixedWithLiteral"]
  ELSE [acc EXCEPT !.path = Append(@, Literal(s[i]))]

\* One pass of the parser's loop: acc is the violation found so far and the
\* patterns pushed so far, i the index of the segment.
ParseFilterSegment(acc, s, i) ==
  IF acc.fault # "none" THEN acc
  ELSE IF s[i] = "+" THEN [acc EXCEPT !.path = Append(@, PathAny)]
  ELSE IF s[i] = "#" THEN
    IF i # Len(s) THEN [acc EXCEPT !.fault = "HashWildcardNotTerminal"]
    ELSE [acc EXCEPT !.path = Append(@, AnyPath)]
  ELSE IF s[i] \in Mixed THEN [acc EXCEPT !.fault = "WildcardMixedWithLiteral"]
  ELSE [acc EXCEPT !.path = Append(@, Literal(s[i]))]

parse_subscribe_filter(s) ==
  FoldLeft(LAMBDA acc, i : ParseFilterSegment(acc, s, i),
           [fault |-> LengthFault(s), path |-> <<>>], [i \in 1..Len(s) |-> i])

\* The validator's verdict on one segment.
FilterSegmentFault(s, i) ==
  CASE s[i] = "#" /\ i # Len(s) -> "HashWildcardNotTerminal"
    [] s[i] \in Mixed -> "WildcardMixedWithLiteral"
    [] OTHER -> "none"

\* It returns at the first segment that fails.
validate_subscribe_filter(s) ==
  LET faults == {i \in 1..Len(s) : FilterSegmentFault(s, i) # "none"}
  IN IF LengthFault(s) # "none" THEN LengthFault(s)
     ELSE IF faults = {} THEN "none"
     ELSE FilterSegmentFault(s, Min(faults))

-----------------------------------------------------------------------------
(* PUBLISH topics.                                                         *)

ParseTopicSegment(acc, seg) ==
  IF acc.fault # "none" THEN acc
  ELSE IF seg \in Mixed \cup {"+", "#"} THEN [acc EXCEPT !.fault = "WildcardInPublishTopic"]
  ELSE [acc EXCEPT !.path = Append(@, Literal(seg))]

parse_publish_topic(s) ==
  FoldLeft(ParseTopicSegment, [fault |-> LengthFault(s), path |-> <<>>], s)

validate_publish_topic(s) ==
  IF LengthFault(s) # "none" THEN LengthFault(s)
  ELSE IF \E i \in 1..Len(s) : s[i] \in Mixed \cup {"+", "#"} THEN "WildcardInPublishTopic"
  ELSE "none"

-----------------------------------------------------------------------------

\* Mutant: "#" is written back as "+".
path_to_wire_filter_plus(path) ==
  [i \in 1..Len(path) |-> IF path[i].kind = "Literal" THEN path[i].seg ELSE "+"]

path_to_wire_filter(path) ==
  [i \in 1..Len(path) |->
     CASE path[i].kind = "Literal" -> path[i].seg
       [] path[i].kind = "Any" -> "+"
       [] path[i].kind = "AnyPath" -> "#"]

-----------------------------------------------------------------------------
(* Properties, of one string s.                                            *)

\* parse_subscribe_filter and validate_subscribe_filter accept the same filters
\* and report the same violation, also when a string has several.
SubscribeGrammarsAgree(s) == parse_subscribe_filter(s).fault = validate_subscribe_filter(s)

\* parse_publish_topic and validate_publish_topic agree in the same way.
PublishGrammarsAgree(s) == parse_publish_topic(s).fault = validate_publish_topic(s)

\* A filter that is parsed and written back is the same filter.
RoundTrip(s) ==
  parse_subscribe_filter(s).fault = "none" =>
    path_to_wire_filter(parse_subscribe_filter(s).path) = s
=============================================================================
