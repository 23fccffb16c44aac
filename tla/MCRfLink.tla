------------------------------ MODULE MCRfLink ------------------------------
(* A small instance of RfLink for TLC: the constants are in the cfg file. *)
EXTENDS RfLink

\* A delivery is followed for as long as the properties speak of what it sends;
\* the states in which they stop are still checked.
Followed == Unambiguous
=============================================================================
