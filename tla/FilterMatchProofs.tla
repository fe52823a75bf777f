------------------------- MODULE FilterMatchProofs -------------------------
(***************************************************************************)
(* filter_matches is correct for every validated filter and every topic.   *)
(* The loop invariant: both indices agree and stay within both sequences,  *)
(* and the part of the filter passed so far accepts the part of the topic  *)
(* passed so far and holds no "#".                                         *)
(***************************************************************************)
EXTENDS FilterMatch, TLAPS

\* The first f levels have been compared.
Passed ==
  /\ f = t /\ f <= Len(filter_segs) /\ t <= Len(topic_segs)
  /\ \A i \in 1..f : filter_segs[i] # Hash /\ Accepts(filter_segs[i], topic_segs[i])

LoopInv == TypeOK /\ Passed /\ ReturnsMatches

\* What the assumption on filters says of the one in hand.
LEMMA ArgumentFacts ==
  ASSUME TypeOK
  PROVE  /\ filter_segs \in Seq(Segment) /\ topic_segs \in Seq(Segment)
         /\ Len(filter_segs) \in Nat \ {0} /\ Len(topic_segs) \in Nat
         /\ \A i \in 1..(Len(filter_segs) - 1) : filter_segs[i] # Hash
<1>1. filter_segs \in Seq(Segment) /\ topic_segs \in Seq(Segment) /\ filter_segs # <<>>
  BY FiltersAssumption DEF TypeOK
<1>2. \A i \in 1..(Len(filter_segs) - 1) : filter_segs[i] # Hash
  BY FiltersAssumption DEF TypeOK
<1> QED
  BY <1>1, <1>2

\* "#" is reached only as the last segment, and the topic matches.
LEMMA HashStep == ASSUME LoopInv, StepHash PROVE LoopInv'
<1> USE DEF LoopInv
<1>1. f + 1 = Len(filter_segs)
  BY ArgumentFacts DEF StepHash, InLoop, TypeOK
<1>2. Matches(filter_segs, topic_segs)
  BY <1>1, ArgumentFacts DEF Matches, Passed, StepHash, TypeOK
<1> QED
  BY <1>2 DEF StepHash, Returns, TypeOK, Passed, ReturnsMatches

\* A segment that is not "#" and accepts its level is passed.
LEMMA AdvanceStep ==
  ASSUME LoopInv, InLoop, t < Len(topic_segs), filter_segs[f + 1] # Hash,
         Accepts(filter_segs[f + 1], topic_segs[t + 1]), Advance
  PROVE  LoopInv'
<1> USE DEF LoopInv
<1>1. f' = f + 1 /\ t' = t + 1 /\ UNCHANGED <<filter_segs, topic_segs, result>>
  BY DEF Advance
<1>2. \A i \in 1..(f + 1) : filter_segs[i] # Hash /\ Accepts(filter_segs[i], topic_segs[i])
  BY DEF Passed, TypeOK
<1>3. Passed'
  BY <1>1, <1>2, ArgumentFacts DEF Passed, InLoop, TypeOK, Accepts
<1> QED
  BY <1>1, <1>3 DEF TypeOK, ReturnsMatches, InLoop

\* A segment other than "#" that meets the end of the topic, or a level it does
\* not accept, rules a match out.
LEMMA RejectStep ==
  ASSUME LoopInv, InLoop, filter_segs[f + 1] # Hash,
         t >= Len(topic_segs) \/ ~Accepts(filter_segs[f + 1], topic_segs[t + 1]),
         Returns("false")
  PROVE  LoopInv'
<1> USE DEF LoopInv
<1>1. ~Matches(filter_segs, topic_segs)
  <2> DEFINE n == IF filter_segs[Len(filter_segs)] = Hash THEN Len(filter_segs) - 1
                  ELSE Len(filter_segs)
  <2>1. f + 1 \in 1..n /\ n \in Nat
    BY ArgumentFacts DEF InLoop, TypeOK
  <2>2. Matches(filter_segs, topic_segs) =>
          Len(topic_segs) >= n /\ \A i \in 1..n : Accepts(filter_segs[i], topic_segs[i])
    BY ArgumentFacts DEF Matches
  <2> HIDE DEF n
  <2> QED
    BY <2>1, <2>2, ArgumentFacts DEF Passed, TypeOK
<1>2. Matches(filter_segs, topic_segs) = FALSE
  BY <1>1 DEF Matches
<1> QED
  BY <1>2 DEF Returns, TypeOK, Passed, ReturnsMatches

\* At the end of the filter the topic must end too.
LEMMA FinishStep == ASSUME LoopInv, Finish PROVE LoopInv'
<1> USE DEF LoopInv
<1>1. f = Len(filter_segs) /\ filter_segs[Len(filter_segs)] # Hash
  BY ArgumentFacts DEF Finish, Passed, TypeOK
<1>2. Matches(filter_segs, topic_segs) = (t = Len(topic_segs))
  BY <1>1, ArgumentFacts DEF Matches, Passed, TypeOK
<1> QED
  BY <1>2 DEF Finish, Returns, TypeOK, Passed, ReturnsMatches

\* Every iteration of the loop, and its end, keep the loop invariant.
LEMMA LoopStep == LoopInv /\ [Next]_vars => LoopInv'
<1> SUFFICES ASSUME LoopInv, [Next]_vars PROVE LoopInv'
  OBVIOUS
<1> USE DEF LoopInv
<1>1. CASE StepHash
  BY <1>1, HashStep
<1>2. CASE StepPlus
  <2>1. InLoop /\ filter_segs[f + 1] = Plus /\ Plus # Hash
    BY <1>2, FiltersAssumption DEF StepPlus
  <2>2. CASE t >= Len(topic_segs) /\ Returns("false")
    BY <2>1, <2>2, RejectStep
  <2>3. CASE t < Len(topic_segs) /\ Advance
    BY <2>1, <2>3, AdvanceStep DEF Accepts
  <2> QED
    BY <1>2, <2>2, <2>3, ArgumentFacts DEF StepPlus, TypeOK
<1>3. CASE StepLiteral
  <2>1. InLoop /\ filter_segs[f + 1] # Plus /\ filter_segs[f + 1] # Hash
    BY <1>3 DEF StepLiteral
  <2>2. CASE (t >= Len(topic_segs) \/ filter_segs[f + 1] # topic_segs[t + 1]) /\ Returns("false")
    BY <2>1, <2>2, RejectStep DEF Accepts
  <2>3. CASE t < Len(topic_segs) /\ filter_segs[f + 1] = topic_segs[t + 1] /\ Advance
    BY <2>1, <2>3, AdvanceStep DEF Accepts
  <2> QED
    BY <1>3, <2>2, <2>3, ArgumentFacts DEF StepLiteral, TypeOK
<1>4. CASE Finish
  BY <1>4, FinishStep
<1>5. CASE UNCHANGED vars
  BY <1>5 DEF vars, TypeOK, Passed, ReturnsMatches
<1> QED
  BY <1>1, <1>2, <1>3, <1>4, <1>5 DEF Next, Returned

\* Whatever validated filter and whatever topic it is given, filter_matches
\* returns true exactly if the filter matches the topic.
THEOREM MatchingCorrect == Spec => []ReturnsMatches
<1>1. Init => LoopInv
  <2> SUFFICES ASSUME Init PROVE LoopInv
    OBVIOUS
  <2>1. TypeOK
    BY DEF Init, TypeOK
  <2> QED
    BY <2>1, ArgumentFacts DEF Init, LoopInv, Passed, ReturnsMatches
<1>2. LoopInv => ReturnsMatches
  BY DEF LoopInv
<1> QED
  BY <1>1, <1>2, LoopStep, PTL DEF Spec
=============================================================================
