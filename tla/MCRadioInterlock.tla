-------------------------- MODULE MCRadioInterlock --------------------------
(* Small instances of RadioInterlock for TLC. *)
EXTENDS RadioInterlock, TLC
CONSTANTS c1, c2, c3, f1, f2
MCNobody == {}
MCOneChat == {c1}
MCChats == {c1, c2, c3}
MCOneSend == {f1}
MCSends == {f1, f2}
\* Requests of one kind are interchangeable; used for safety runs only.
MCSymmetry == Permutations(MCChats)
=============================================================================
