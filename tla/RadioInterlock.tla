--------------------------- MODULE RadioInterlock ---------------------------
(***************************************************************************)
(* Who owns the radio: the inbound RMS listener (a systemd service), an    *)
(* APRS chat session (src/web/aprssession.py) or an outbound RF delivery   *)
(* or probe (src/web/rfsend.py).                                           *)
(*                                                                         *)
(* The chat and the deliveries run in the web service.  Their handlers     *)
(* interleave at awaits only, and systemctl is called with a blocking      *)
(* subprocess.run, so no handler runs while another waits for it.  The RMS *)
(* gateway is another process: it goes on taking calls all the time, and   *)
(* tells the web service of them through the 'rms' runtime status file.    *)
(***************************************************************************)
EXTENDS FiniteSets

CONSTANTS
  Chatters,   \* /api/aprs/start and stop requests that may be in progress at once
  Senders,    \* deliveries and probes over RF that may be in progress at once
  None        \* no transport

Requests == Chatters \cup Senders

ASSUME InterlockConstants ==
  /\ None \notin Requests
  /\ Chatters \cap Senders = {}

VARIABLES
  rms,        \* kp4pra-tnc-rms.service is active
  relaying,   \* the gateway has a session
  busy,       \* the status file says connecting_cms or connected
  pc,         \* where each request is
  active,     \* AprsSession.active
  was,        \* AprsSession._rms_was_running
  rf,         \* AprsSession.rf: the request that made the transport, or None
  aprsis,     \* AprsSession.aprsis is not None
  open,       \* transports with an open KISS connection
  stopped     \* the stopped flag of each delivery

chatVars == <<active, was, rf, aprsis, open>>
vars == <<rms, relaying, busy, pc, chatVars, stopped>>

\* "chatStop", "rfStop": about to run systemctl stop, having read the status.
\* "conn", "is": awaiting Dire Wolf, then APRS-IS.  "talk": on the air.
Points == {"idle", "chatStop", "conn", "is", "rfStop", "talk"}

\* The listener is enabled at boot.
Init ==
  /\ rms = TRUE /\ relaying = FALSE /\ busy = FALSE
  /\ pc = [r \in Requests |-> "idle"]
  /\ active = FALSE /\ was = FALSE /\ rf = None /\ aprsis = FALSE /\ open = {}
  /\ stopped = [r \in Requests |-> FALSE]

Goto(r, p) == pc' = [pc EXCEPT ![r] = p]

\* No handler is inside a blocking systemctl call.
LoopFree == \A r \in Requests : pc[r] \notin {"chatStop", "rfStop"}

At(r, p) == pc[r] = p /\ LoopFree

-----------------------------------------------------------------------------
(* The RMS gateway and systemd.                                            *)

SessionBegins ==
  /\ rms /\ ~relaying
  /\ relaying' = TRUE /\ busy' = TRUE
  /\ UNCHANGED <<rms, pc, chatVars, stopped>>

SessionEnds ==
  /\ relaying
  /\ relaying' = FALSE /\ busy' = FALSE
  /\ UNCHANGED <<rms, pc, chatVars, stopped>>

\* systemctl stop: SIGTERM ends the gateway, which leaves its status file.
SvcStop == rms' = FALSE /\ relaying' = FALSE /\ UNCHANGED busy

\* systemctl start: a gateway that was down writes 'starting'.
SvcStart ==
  \/ ~rms /\ rms' = TRUE /\ relaying' = FALSE /\ busy' = FALSE
  \/ rms /\ UNCHANGED <<rms, relaying, busy>>

-----------------------------------------------------------------------------
(* AprsSession.start()                                                     *)

\* _rms_busy()
RmsBusy == busy

\* Up to systemctl stop when the listener runs, else up to the connect.
ChatStart(r) ==
  /\ At(r, "idle") /\ ~active /\ ~RmsBusy
  /\ was' = rms
  /\ \/ rms /\ Goto(r, "chatStop") /\ UNCHANGED rf
     \/ ~rms /\ Goto(r, "conn") /\ rf' = r
  /\ UNCHANGED <<rms, relaying, busy, active, aprsis, open, stopped>>

\* systemctl stop worked, or start() returns its error.
ChatStopsRms(r) ==
  /\ pc[r] = "chatStop"
  /\ \/ SvcStop /\ Goto(r, "conn") /\ rf' = r
     \/ Goto(r, "idle") /\ UNCHANGED <<rms, relaying, busy, rf>>
  /\ UNCHANGED <<active, was, aprsis, open, stopped>>

\* Dire Wolf accepted: the session is up, unless aprsis is enabled and has to
\* be connected first.
ChatConnected(r) ==
  /\ At(r, "conn") /\ rf # None
  /\ open' = open \cup {r}
  /\ \/ Goto(r, "idle") /\ active' = TRUE /\ UNCHANGED aprsis
     \/ Goto(r, "is") /\ aprsis' = TRUE /\ UNCHANGED active
  /\ UNCHANGED <<rms, relaying, busy, was, rf, stopped>>

ChatIsConnected(r) ==
  /\ At(r, "is") /\ rf # None /\ aprsis
  /\ Goto(r, "idle") /\ active' = TRUE
  /\ UNCHANGED <<rms, relaying, busy, was, rf, aprsis, open, stopped>>

\* _teardown(): the tasks are cancelled, the transports closed (their close()
\* does not suspend) and forgotten.  conns are the connections open so far.
Teardown(conns) == rf' = None /\ aprsis' = FALSE /\ open' = conns \ {rf}

\* Faulty variant of RestoreRms: a start that failed leaves the listener down.
RestoreRmsAfterStop ==
  \/ was /\ active /\ SvcStart
  \/ ~(was /\ active) /\ UNCHANGED <<rms, relaying, busy>>

\* if self._rms_was_running: self._svc("start")
RestoreRms ==
  \/ was /\ SvcStart
  \/ ~was /\ UNCHANGED <<rms, relaying, busy>>

\* The except clause of start(): a connect raised or, after one that did not,
\* self.rf or self.aprsis turns out to be gone.
ChatFails(r) ==
  /\ \/ /\ At(r, "conn") \/ At(r, "is")
        /\ Teardown(open)
     \/ At(r, "conn") /\ rf = None /\ Teardown(open \cup {r})
  /\ RestoreRms
  /\ Goto(r, "idle")
  /\ UNCHANGED <<active, was, stopped>>

\* AprsSession.stop()
ChatStop(r) ==
  /\ At(r, "idle") /\ active
  /\ active' = FALSE
  /\ Teardown(open)
  /\ RestoreRms
  /\ UNCHANGED <<pc, was, stopped>>

-----------------------------------------------------------------------------
(* rfsend.send() and probe()                                               *)

RfStart(r) ==
  /\ At(r, "idle") /\ ~RmsBusy
  /\ stopped' = [stopped EXCEPT ![r] = FALSE]
  /\ \/ rms /\ Goto(r, "rfStop")
     \/ ~rms /\ Goto(r, "talk")
  /\ UNCHANGED <<rms, relaying, busy, chatVars>>

\* _stop_listener(): on to Dire Wolf and the air, or RfError.
RfStopsRms(r) ==
  /\ pc[r] = "rfStop"
  /\ \/ SvcStop /\ Goto(r, "talk") /\ stopped' = [stopped EXCEPT ![r] = TRUE]
     \/ Goto(r, "idle") /\ UNCHANGED <<rms, relaying, busy, stopped>>
  /\ UNCHANGED chatVars

\* if stopped and restart_listener: await _start_listener(log)
RestartListener(r) ==
  \/ stopped[r] /\ SvcStart
  \/ ~stopped[r] /\ UNCHANGED <<rms, relaying, busy>>

\* Faulty variant of RfEnds: it waits for the other deliveries.
RfEndsLast(r) ==
  /\ At(r, "talk") /\ \A s \in Senders \ {r} : pc[s] # "talk"
  /\ RestartListener(r)
  /\ Goto(r, "idle")
  /\ UNCHANGED <<chatVars, stopped>>

\* The finally clause, however the conversation went.
RfEnds(r) ==
  /\ At(r, "talk")
  /\ RestartListener(r)
  /\ Goto(r, "idle")
  /\ UNCHANGED <<chatVars, stopped>>

-----------------------------------------------------------------------------
ChatStep(r) ==
  ChatStopsRms(r) \/ ChatConnected(r) \/ ChatIsConnected(r) \/ ChatFails(r)

RfStep(r) == RfStopsRms(r) \/ RfEnds(r)

Next ==
  \/ SessionBegins \/ SessionEnds
  \/ \E r \in Chatters : ChatStart(r) \/ ChatStop(r) \/ ChatStep(r)
  \/ \E r \in Senders : RfStart(r) \/ RfStep(r)

Spec == Init /\ [][Next]_vars

\* The event loop runs every handler, and every delivery ends (RfLink shows
\* what that takes).  Nobody has to make a request.
FairSpec ==
  /\ Spec
  /\ \A r \in Chatters : SF_vars(ChatStep(r))
  /\ \A r \in Senders : SF_vars(RfStep(r))

-----------------------------------------------------------------------------
(* Properties.                                                             *)

TypeOK ==
  /\ rms \in BOOLEAN /\ relaying \in BOOLEAN /\ busy \in BOOLEAN
  /\ pc \in [Requests -> Points]
  /\ active \in BOOLEAN /\ was \in BOOLEAN
  /\ rf \in Chatters \cup {None} /\ aprsis \in BOOLEAN /\ open \subseteq Chatters
  /\ stopped \in [Requests -> BOOLEAN]

Quiet == \A r \in Requests : pc[r] = "idle"

\* A chat session and the RMS listener are never on the radio together
\* ("mutually exclusive with the RMS gateway").
ChatOwnsRadio == active => ~rms

\* Once the requests are done with, whichever of them failed on the way: the
\* listener that was stopped for them runs again unless a chat is running; a
\* chat that has ended, or has failed to start, holds no connection to Dire
\* Wolf, and a running one holds its own.
HandedBack ==
  Quiet => /\ active \/ rms
           /\ open = (IF active THEN {rf} ELSE {})

\* A listener stopped for a delivery, or for a chat that did not come up, is
\* started again.
RmsReturns == (~rms /\ ~active) ~> (rms \/ active)

=============================================================================
