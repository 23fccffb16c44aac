----------------------------- MODULE MCBridges -----------------------------
(* The instance of Bridges for TLC: one service at a time. *)
EXTENDS Bridges
CONSTANTS c1, c2
MCClients == {c1, c2}
MCSockets == 1..3
MCEnabled == {{"rfcomm"}, {"ble"}, {"launcher"}}
=============================================================================
