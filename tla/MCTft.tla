------------------------------- MODULE MCTft -------------------------------
(* The instance of Tft for TLC: its one bound is in the configuration. *)
EXTENDS Tft
=============================================================================
