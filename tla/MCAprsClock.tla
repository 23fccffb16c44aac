---------------------------- MODULE MCAprsClock ----------------------------
(* Small instances of AprsClock for TLC: a day of 8 units, begun around the *)
(* local midnight.                                                          *)
EXTENDS AprsClock, TLC
CONSTANTS s1, s2
MCSources == {s1, s2}
MCOneSource == {s1}
MCBegins == {8, 11}
MCZone == -4
=============================================================================
