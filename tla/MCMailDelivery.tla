--------------------------- MODULE MCMailDelivery ---------------------------
(* Small instances of MailDelivery for TLC. *)
EXTENDS MailDelivery, TLC
CONSTANTS m1, m2, r1, r2
MCMessages == {m1, m2}
MCRequests == {r1, r2}
\* Messages, and requests, are interchangeable; used for safety runs only.
MCSymmetry == Permutations(MCMessages) \cup Permutations(MCRequests)
=============================================================================
