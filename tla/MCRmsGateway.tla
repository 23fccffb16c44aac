---------------------------- MODULE MCRmsGateway ----------------------------
(* Small instances of RmsGateway for TLC. *)
EXTENDS RmsGateway, TLC
CONSTANTS s1, s2
MCStations == {s1, s2}
\* The stations are interchangeable; used for the safety runs only.
MCSymmetry == Permutations(MCStations)
=============================================================================
