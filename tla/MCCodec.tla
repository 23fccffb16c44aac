------------------------------ MODULE MCCodec ------------------------------
(* The instance of Codec for TLC: three characters in a window of eight,
   all short messages and some long ones that repeat themselves. *)
EXTENDS Codec
MCMessages ==
  BoundedSeq(0..2, 5) \cup
  {[k \in 1..15 |-> p[(k % Len(p)) + 1]] : p \in BoundedSeq(0..2, 4) \ {<<>>}} \cup
  {[k \in 1..14 |-> IF k % 5 = 0 THEN p[1] ELSE p[(k % Len(p)) + 1]] : p \in BoundedSeq(0..2, 4) \ {<<>>}}
MCPositions == 0..2047
MCDamage == {1, 16}
Call(c, n) == [base |-> <<c, 52>>, ssid |-> n]
MCFrames ==
  {[dest |-> Call(75, 0), src |-> Call(78, 7), digis |-> <<>>, response |-> FALSE,
    ctrl |-> 0, pid |-> 240, payload |-> p] : p \in {<<>>, <<219, 220>>, <<192, 219>>, <<221, 192, 16>>}}
  \cup
  {[dest |-> Call(75, 0), src |-> Call(78, 7), digis |-> ds, response |-> TRUE,
    ctrl |-> 99, pid |-> -1, payload |-> <<>>] : ds \in {<<>>, <<Call(68, 1), Call(69, 15)>>}}
MCReads == {1, 5}
=============================================================================
