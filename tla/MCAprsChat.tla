---------------------------- MODULE MCAprsChat ----------------------------
(* The instance of AprsChat for TLC. *)
EXTENDS AprsChat
=============================================================================
