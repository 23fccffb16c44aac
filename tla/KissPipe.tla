------------------------------ MODULE KissPipe ------------------------------
(***************************************************************************)
(* What a Bluetooth bridge promises of the way from the phone to Dire Wolf:*)
(* whole chunks of the KISS stream arrive in the order the phone wrote     *)
(* them and at most once.  A chunk may be lost (Dire Wolf restarts, the    *)
(* session ends, a queue is full) without holding up the ones behind it.   *)
(* A write that fails may have handed over a part of its chunk; such parts *)
(* come before the whole of it, if that ever comes, and never after a      *)
(* newer chunk or a part of one.                                           *)
(***************************************************************************)
EXTENDS Integers, Sequences

CONSTANT Chunks      \* the chunks, numbered in the order they are written

VARIABLES
  pending,           \* taken from the phone, not yet handed to Dire Wolf
  delivered,         \* handed to Dire Wolf whole
  torn               \* the chunk a part of which was handed over since, 0 for none

Init == pending = <<>> /\ delivered = <<>> /\ torn = 0

Newer(c, s) == \A i \in 1..Len(s) : s[i] < c

Accept ==
  \E c \in Chunks :
    /\ Newer(c, pending) /\ Newer(c, delivered) /\ torn < c
    /\ pending' = Append(pending, c)
    /\ UNCHANGED <<delivered, torn>>

Deliver ==
  /\ pending # <<>>
  /\ delivered' = Append(delivered, Head(pending))
  /\ pending' = Tail(pending)
  /\ torn' = 0

\* A write fails in the middle of the chunk; it will be tried again.
Tear ==
  /\ pending # <<>>
  /\ torn' = Head(pending)
  /\ UNCHANGED <<pending, delivered>>

\* The oldest chunks are lost, the first perhaps in the middle of its write:
\* all of them when a session or the bridge ends.
Lose ==
  \E k \in 1..Len(pending) :
    /\ pending' = SubSeq(pending, k + 1, Len(pending))
    /\ torn' \in {torn, Head(pending)}
    /\ UNCHANGED delivered

Next == Accept \/ Deliver \/ Tear \/ Lose

Spec == Init /\ [][Next]_<<pending, delivered, torn>>

=============================================================================
