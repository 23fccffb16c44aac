---------------------------- MODULE MCWebService ----------------------------
(* A small instance of WebService for TLC. *)
EXTENDS WebService, TLC
CONSTANTS r1, r2, p1
MCRequests == {r1, r2}
\* The two requests are interchangeable
MCSymmetry == Permutations(MCRequests)
MCPasswords == {p1}
MCCallSigns == {"W1AW"}
MCUsedPorts == {8000, 8001, 8088, 8772}
\* The station form with a good and a malformed callsign, the RMS form with
\* and without its call, and Xara's port next to the web page's
MCUpdates == {[call |-> "W1AW"], [call |-> "W1-AW"],
              [rms |-> [on |-> TRUE, call |-> ""]],
              [rms |-> [on |-> TRUE, call |-> "W1AW"]], [port |-> 8087]}
\* The workflow and the saves have the event loop and the process in common
\* and no other state: what a workflow leaves behind is followed up before the
\* second save only
Apart == saves <= 1 \/ (step = "idle" /\ bridge /\ ~reboot /\ ~fault /\ root = home)
=============================================================================
