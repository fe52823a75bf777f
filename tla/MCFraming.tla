----------------------------- MODULE MCFraming -----------------------------
(***************************************************************************)
(* Instances of Framing: binary digits, at most two length bytes.          *)
(***************************************************************************)
EXTENDS Framing

CONSTANTS MaxFrames, MaxRaw

ZeroByte == [digit |-> 0, more |-> FALSE]
LastByte == [digit |-> 1, more |-> FALSE]
MCTypes == {LastByte, [digit |-> 1, more |-> TRUE]}

\* Bodies of every length the encoding can express and one beyond, in two kinds.
Bodies == UNION {[1..n -> {b}] : n \in 0..Base^Digits, b \in {ZeroByte, LastByte}}
Frames == [first : {LastByte}, body : Bodies]
MCFrameSeqs == UNION {[1..n -> Frames] : n \in 0..MaxFrames}
MCRawStreams == IF MaxRaw = 0 THEN {} ELSE UNION {[1..n -> Byte] : n \in 1..MaxRaw}
=============================================================================
