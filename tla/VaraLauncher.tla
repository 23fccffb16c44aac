---------------------------- MODULE VaraLauncher ----------------------------
(***************************************************************************)
(* The VARA launcher (src/vara_launcher.py): a client on the network asks  *)
(* for the Xara modem, the launcher switches the TNC from Dire Wolf to     *)
(* Xara for the session and back afterwards.  The operator switches, too,  *)
(* on the Services page (src/web/web_app.py, /api/xara/modem).  Both run   *)
(* `kp4pra-xara modem`, a script that takes no lock: two of them may be    *)
(* under way at once, step by step.  The units of the two modems conflict, *)
(* so that systemd stops one when it starts the other.                     *)
(***************************************************************************)
CONSTANTS
  Clients,     \* connections to the launcher
  Page         \* the operator's request from the Services page

VARIABLES
  dw,      \* direwolf.service is active
  xara,    \* xara@kp4pra.service is active
  failed,  \* Xara has failed for good and its OnFailure unit is yet to run
  chosen,  \* what the operator chose last
  busy,    \* Launcher.busy
  conn,    \* each connection: where its handler is, and its state
  late,    \* history: a script to start Xara outlived the 120 s it is given
  tool     \* how far the script of each caller is

launchVars == <<chosen, busy, conn, late>>
vars == <<dw, xara, failed, launchVars, tool>>

Callers == Clients \cup {Page}

\* "read": for a command; "switch", "ready": in a start command; "back":
\* switching back after the session.
Points == {"closed", "read", "switch", "ready", "end", "back"}

Closed == [at |-> "closed", session |-> FALSE, switched |-> FALSE]

Init ==
  /\ xara = FALSE /\ failed = FALSE /\ chosen = "packet"
  /\ busy = FALSE /\ late = FALSE /\ conn = [c \in Clients |-> Closed]
  /\ tool = [r \in Callers |-> "idle"]

-----------------------------------------------------------------------------
(* kp4pra-xara modem, and systemd                                          *)

At(r, p, q) == tool[r] = p /\ tool' = [tool EXCEPT ![r] = q]

DireWolfOnly == dw' = TRUE /\ xara' = FALSE

\* modem xara: Dire Wolf is stopped for it whether or not Xara comes up.
ToolStartsXara(r) ==
  /\ \/ At(r, "xara", "up") /\ xara' = TRUE
     \/ At(r, "xara", "undo") /\ xara' = FALSE
  /\ dw' = FALSE
  /\ UNCHANGED <<failed, launchVars>>

\* xara_up(): the port is open and the unit stays active, or not.
ToolSeesXara(r) ==
  /\ \/ At(r, "up", "ok") /\ xara
     \/ At(r, "up", "undo")
  /\ UNCHANGED <<dw, xara, failed, launchVars>>

\* modem packet, and the way back from a failed start: stop Xara ...
ToolStopsXara(r) ==
  /\ At(r, "packet", "startDw") \/ At(r, "undo", "restartDw")
  /\ xara' = FALSE
  /\ UNCHANGED <<dw, failed, launchVars>>

\* Faulty variant of ToolStartsDw: a failed start only stops Xara.
ToolStartsDwOnce(r) ==
  /\ \/ At(r, "startDw", "ok") /\ DireWolfOnly
     \/ At(r, "restartDw", "failed") /\ UNCHANGED <<dw, xara>>
  /\ UNCHANGED <<failed, launchVars>>

\* ... and start Dire Wolf.
ToolStartsDw(r) ==
  /\ At(r, "startDw", "ok") \/ At(r, "restartDw", "failed")
  /\ DireWolfOnly
  /\ UNCHANGED <<failed, launchVars>>

\* A script whose caller gave up on it, and the page's, just end.
ToolEnds(r) ==
  /\ At(r, "ok", "idle") \/ At(r, "failed", "idle")
  /\ (r \in Clients => conn[r].at \notin {"switch", "back"})
  /\ UNCHANGED <<dw, xara, failed, launchVars>>

\* Systemd gives up restarting Xara.
XaraFails ==
  /\ xara
  /\ xara' = FALSE /\ failed' = TRUE
  /\ UNCHANGED <<dw, launchVars, tool>>

\* kp4pra-xara-fallback.service
Fallback ==
  /\ failed
  /\ failed' = FALSE
  /\ DireWolfOnly
  /\ UNCHANGED <<launchVars, tool>>

PageSwitches ==
  /\ \E m \in {"xara", "packet"} : chosen' = m /\ At(Page, "idle", m)
  /\ UNCHANGED <<dw, xara, failed, busy, conn, late>>

-----------------------------------------------------------------------------
(* Launcher.handle() and command()                                         *)

Goto(c, p) == conn' = [conn EXCEPT ![c].at = p]

Opens(c) ==
  /\ conn[c].at = "closed" /\ tool[c] = "idle"
  /\ Goto(c, "read")
  /\ UNCHANGED <<dw, xara, failed, chosen, busy, late, tool>>

\* start: granted to one connection at a time, which switches if it has to
\* and if xara.auto_switch, which each connection reads anew, lets it.
Start(c) ==
  /\ conn[c].at = "read" /\ ~conn[c].session /\ ~busy
  /\ busy' = TRUE
  /\ \/ xara /\ conn' = [conn EXCEPT ![c].session = TRUE, ![c].at = "ready"] /\ UNCHANGED tool
     \/ /\ ~xara
        /\ conn' = [conn EXCEPT ![c].session = TRUE, ![c].at = "switch"]
        /\ At(c, "idle", "xara")
     \/ /\ ~xara
        /\ conn' = [conn EXCEPT ![c].session = TRUE, ![c].at = "end"]
        /\ UNCHANGED tool
  /\ UNCHANGED <<dw, xara, failed, chosen, late>>

\* switch("xara") returns; after its timeout the script goes on by itself.
Switched(c) ==
  /\ conn[c].at = "switch"
  /\ \/ At(c, "ok", "idle") /\ conn' = [conn EXCEPT ![c].switched = TRUE, ![c].at = "ready"]
     \/ At(c, "failed", "idle") /\ Goto(c, "end")
     \/ tool[c] \notin {"ok", "failed"} /\ Goto(c, "end") /\ UNCHANGED tool
  /\ late' = (late \/ tool[c] \notin {"ok", "failed"})
  /\ UNCHANGED <<dw, xara, failed, chosen, busy>>

\* wait_ready(): OK once Xara listens, or an error after 30 s.
Ready(c) ==
  /\ conn[c].at = "ready"
  /\ (xara /\ Goto(c, "read")) \/ Goto(c, "end")
  /\ UNCHANGED <<dw, xara, failed, chosen, busy, late, tool>>

\* stop, or the client closes the connection.
Leaves(c) ==
  /\ conn[c].at = "read"
  /\ Goto(c, "end")
  /\ UNCHANGED <<dw, xara, failed, chosen, busy, late, tool>>

\* Faulty variant of SwitchBack: the end of a session switches nothing.
NeverSwitchBack(c) == FALSE

\* if state["switched"]
SwitchBack(c) == conn[c].switched

\* The finally clause, up to the switch back.
Ends(c) ==
  /\ conn[c].at = "end"
  /\ busy' = (busy /\ ~conn[c].session)
  /\ \/ SwitchBack(c) /\ Goto(c, "back") /\ At(c, "idle", "packet")
     \/ ~SwitchBack(c) /\ conn' = [conn EXCEPT ![c] = Closed] /\ UNCHANGED tool
  /\ UNCHANGED <<dw, xara, failed, chosen, late>>

\* switch("packet") returns, at the end of the script or after 120 s.
Returned(c) ==
  /\ conn[c].at = "back"
  /\ conn' = [conn EXCEPT ![c] = Closed]
  /\ UNCHANGED <<dw, xara, failed, chosen, busy, late, tool>>

-----------------------------------------------------------------------------
ToolStep(r) ==
  ToolStartsXara(r) \/ ToolSeesXara(r) \/ ToolStopsXara(r) \/ ToolStartsDw(r) \/ ToolEnds(r)

HandlerStep(c) == Switched(c) \/ Ready(c) \/ Ends(c) \/ Returned(c)

Next ==
  \/ XaraFails \/ Fallback \/ PageSwitches
  \/ \E r \in Callers : ToolStep(r)
  \/ \E c \in Clients : Opens(c) \/ Start(c) \/ Leaves(c) \/ HandlerStep(c)

-----------------------------------------------------------------------------
(* Properties.                                                             *)

\* "Never leave the TNC without a modem": whatever switches, failures and
\* fallbacks cross each other, one of the two modems runs again.
ModemReturns == (~dw /\ ~xara) ~> (dw \/ xara)

\* When the session is over "the TNC goes back to Dire Wolf", unless the
\* operator has chosen Xara: without a session Xara does not stay on.  That
\* a script ends within its 120 s is needed: the launcher forgets a script
\* that takes longer, and nobody undoes what it still does.
BackToPacket ==
  (xara /\ ~busy /\ chosen = "packet" /\ ~late) ~> (dw \/ busy \/ chosen = "xara" \/ late)

=============================================================================
