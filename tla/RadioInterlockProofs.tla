------------------------ MODULE RadioInterlockProofs ------------------------
(***************************************************************************)
(* Proofs about the radio interlock: type correctness, and that the radio  *)
(* is handed back, for any number of requests of either kind as long as no *)
(* two starts of a chat overlap.                                           *)
(***************************************************************************)
EXTENDS RadioInterlock, TLAPS

\* No AprsSession.start() is called while another is being awaited.  With two
\* of them the second overwrites _rms_was_running and rf of the first.
OneStart == \A r, s \in Chatters : pc[r] # "idle" /\ pc[s] # "idle" => r = s

\* The listener is down only while somebody remembers to start it again: the
\* chat, up or coming up, with _rms_was_running, or a delivery with its
\* stopped flag.
Owed ==
  ~rms => \/ was /\ (active \/ \E r \in Chatters : pc[r] \in {"conn", "is"})
          \/ \E s \in Senders : pc[s] = "talk" /\ stopped[s]

\* A start in progress finds the session inactive, stops the listener if it
\* was running, and owns the transport from where it has made one.
Starting ==
  \A r \in Chatters :
    /\ pc[r] # "idle" => ~active
    /\ pc[r] = "chatStop" => was
    /\ pc[r] \in {"conn", "is"} => rf = r

\* The one open connection is that of the session, or of a start that goes on
\* to APRS-IS.
OneOpen ==
  open = IF active \/ \E r \in Chatters : pc[r] = "is" THEN {rf} ELSE {}

RadioInv == TypeOK /\ Owed /\ Starting /\ OneOpen

(***************************************************************************)
(* Type correctness.                                                       *)
(***************************************************************************)

\* The requests stay apart, and None is none of them.
LEMMA RequestKinds ==
  /\ Chatters \subseteq Requests /\ Senders \subseteq Requests
  /\ \A r \in Chatters : r \notin Senders /\ r # None
  BY InterlockConstants DEF Requests

\* A request that moves leaves the others where they are.
LEMMA GotoMoves ==
  ASSUME NEW r \in Requests, NEW p \in Points, pc \in [Requests -> Points], Goto(r, p)
  PROVE  /\ pc' \in [Requests -> Points] /\ pc'[r] = p
         /\ \A s \in Requests \ {r} : pc'[s] = pc[s]
  BY DEF Goto

\* What systemctl does to the gateway keeps the types.
LEMMA ServiceTypes ==
  ASSUME TypeOK, SvcStop \/ RestoreRms \/ (\E r \in Senders : RestartListener(r))
                 \/ UNCHANGED <<rms, relaying, busy>>
  PROVE  rms' \in BOOLEAN /\ relaying' \in BOOLEAN /\ busy' \in BOOLEAN
  BY Zenon DEF TypeOK, SvcStop, RestoreRms, RestartListener, SvcStart

\* Every step of a request, of systemd and of the gateway keeps the types.
LEMMA TypeStep == ASSUME TypeOK, [Next]_vars PROVE TypeOK'
<1> USE RequestKinds DEF chatVars, Points
<1>1. CASE SessionBegins \/ SessionEnds
  BY <1>1 DEF SessionBegins, SessionEnds, TypeOK
<1>2. ASSUME NEW r \in Chatters, ChatStart(r) PROVE TypeOK'
  BY <1>2, GotoMoves DEF ChatStart, TypeOK
<1>3. ASSUME NEW r \in Chatters, ChatStopsRms(r) PROVE TypeOK'
  BY <1>3, GotoMoves, ServiceTypes DEF ChatStopsRms, TypeOK
<1>4. ASSUME NEW r \in Chatters, ChatConnected(r) PROVE TypeOK'
  BY <1>4, GotoMoves DEF ChatConnected, TypeOK
<1>5. ASSUME NEW r \in Chatters, ChatIsConnected(r) PROVE TypeOK'
  BY <1>5, GotoMoves DEF ChatIsConnected, TypeOK
<1>6. ASSUME NEW r \in Chatters, ChatFails(r) PROVE TypeOK'
  BY <1>6, GotoMoves, ServiceTypes DEF ChatFails, Teardown, TypeOK
<1>7. ASSUME NEW r \in Chatters, ChatStop(r) PROVE TypeOK'
  BY <1>7, ServiceTypes DEF ChatStop, Teardown, TypeOK
<1>8. ASSUME NEW r \in Senders, RfStart(r) PROVE TypeOK'
  BY <1>8, GotoMoves DEF RfStart, TypeOK
<1>9. ASSUME NEW r \in Senders, RfStopsRms(r) PROVE TypeOK'
  BY <1>9, GotoMoves, ServiceTypes DEF RfStopsRms, TypeOK
<1>10. ASSUME NEW r \in Senders, RfEnds(r) PROVE TypeOK'
  BY <1>10, GotoMoves, ServiceTypes DEF RfEnds, TypeOK
<1>11. CASE UNCHANGED vars
  BY <1>11 DEF vars, TypeOK
<1>12. QED
  BY <1>1, <1>2, <1>3, <1>4, <1>5, <1>6, <1>7, <1>8, <1>9, <1>10, <1>11
  DEF Next, ChatStep, RfStep

\* TypeOK for any number of requests, overlapping starts included.
THEOREM TypeCorrect == Spec => []TypeOK
<1>1. Init => TypeOK
  BY DEF Init, TypeOK, Points
<1>2. QED
  BY <1>1, TypeStep, PTL DEF Spec

(***************************************************************************)
(* The radio is handed back.                                               *)
(***************************************************************************)

\* A step of the gateway is nothing to the interlock.
LEMMA GatewayKeeps ==
  ASSUME RadioInv, SessionBegins \/ SessionEnds PROVE Owed' /\ Starting' /\ OneOpen'
  BY DEF RadioInv, Owed, Starting, OneOpen, SessionBegins, SessionEnds, chatVars

\* AprsSession.start(), up to systemctl stop or the connect.
LEMMA ChatStartKeeps ==
  ASSUME RadioInv, OneStart', NEW r \in Chatters, ChatStart(r)
  PROVE  Owed' /\ Starting' /\ OneOpen'
<1> USE RequestKinds DEF RadioInv
<1>1. /\ pc[r] = "idle" /\ pc'[r] \in {"chatStop", "conn"}
      /\ \A s \in Requests \ {r} : pc'[s] = pc[s]
  BY GotoMoves DEF ChatStart, At, TypeOK, Points
<1>2. \A s \in Chatters \ {r} : pc[s] = "idle" /\ pc'[s] = "idle"
  BY <1>1 DEF OneStart
<1>3. /\ UNCHANGED <<rms, active, open, stopped>> /\ ~active /\ was' = rms
      /\ pc'[r] = "chatStop" => rms
      /\ pc'[r] = "conn" => rf' = r
  BY GotoMoves DEF ChatStart, TypeOK, Points
<1>4. Starting' /\ OneOpen'
  BY <1>1, <1>2, <1>3 DEF Starting, OneOpen
<1>5. Owed'
  BY <1>1, <1>2, <1>3 DEF Owed
<1>6. QED
  BY <1>4, <1>5

\* Its call of systemctl.
LEMMA ChatStopsKeeps ==
  ASSUME RadioInv, OneStart, NEW r \in Chatters, ChatStopsRms(r)
  PROVE  Owed' /\ Starting' /\ OneOpen'
<1> USE RequestKinds DEF RadioInv
<1>1. /\ pc[r] = "chatStop" /\ pc'[r] \in {"idle", "conn"}
      /\ \A s \in Requests \ {r} : pc'[s] = pc[s]
  BY GotoMoves DEF ChatStopsRms, TypeOK, Points
<1>2. \A s \in Chatters \ {r} : pc[s] = "idle" /\ pc'[s] = "idle"
  BY <1>1 DEF OneStart
<1>3. /\ UNCHANGED <<active, was, open, stopped>> /\ ~active /\ was
      /\ pc'[r] = "idle" => rms' = rms
      /\ pc'[r] = "conn" => rf' = r
  BY <1>1, GotoMoves DEF ChatStopsRms, TypeOK, Points, Starting
<1>4. Starting' /\ OneOpen'
  BY <1>1, <1>2, <1>3 DEF Starting, OneOpen
<1>5. Owed'
  BY <1>1, <1>2, <1>3 DEF Owed
<1>6. QED
  BY <1>4, <1>5

\* Dire Wolf, then APRS-IS, has accepted.
LEMMA ChatConnectsKeeps ==
  ASSUME RadioInv, OneStart, NEW r \in Chatters, ChatConnected(r) \/ ChatIsConnected(r)
  PROVE  Owed' /\ Starting' /\ OneOpen'
<1> USE RequestKinds DEF RadioInv
<1>1. /\ pc[r] \in {"conn", "is"} /\ pc'[r] \in {"idle", "is"}
      /\ \A s \in Requests \ {r} : pc'[s] = pc[s]
  BY GotoMoves DEF ChatConnected, ChatIsConnected, At, TypeOK, Points
<1>2. \A s \in Chatters \ {r} : pc[s] = "idle" /\ pc'[s] = "idle"
  BY <1>1 DEF OneStart
<1>3. /\ UNCHANGED <<rms, was, rf, stopped>> /\ ~active /\ rf = r
      /\ active' = (pc'[r] = "idle")
      /\ open' = {r}
  BY <1>1, <1>2, GotoMoves
  DEF ChatConnected, ChatIsConnected, At, TypeOK, Points, Starting, OneOpen
<1>4. Starting' /\ OneOpen'
  BY <1>1, <1>2, <1>3 DEF Starting, OneOpen
<1>5. Owed'
  BY <1>1, <1>2, <1>3 DEF Owed
<1>6. QED
  BY <1>4, <1>5

\* The except clause of start(), and stop(): everything is given back.
LEMMA ChatEndsKeeps ==
  ASSUME RadioInv, OneStart, NEW r \in Chatters, ChatFails(r) \/ ChatStop(r)
  PROVE  Owed' /\ Starting' /\ OneOpen'
<1> USE RequestKinds DEF RadioInv
<1>1. /\ pc'[r] = "idle" /\ \A s \in Requests \ {r} : pc'[s] = pc[s]
  BY GotoMoves DEF ChatFails, ChatStop, At, TypeOK, Points
<1>2. \A s \in Chatters : pc'[s] = "idle"
  BY <1>1 DEF OneStart, ChatFails, ChatStop, At, Starting
<1>3. ~active' /\ stopped' = stopped /\ was' = was /\ open' = {}
  <2>1. CASE ChatStop(r)
    BY <2>1, <1>2 DEF ChatStop, Teardown, OneOpen
  <2>2. CASE ChatFails(r)
    BY <2>2 DEF ChatFails, Teardown, OneOpen, Starting, At
  <2>3. QED
    BY <2>1, <2>2
<1>4. rms' \/ (~was /\ rms' = rms)
  BY DEF ChatFails, ChatStop, RestoreRms, SvcStart
<1>5. Starting' /\ OneOpen'
  BY <1>2, <1>3 DEF Starting, OneOpen
<1>6. Owed'
  BY <1>1, <1>3, <1>4 DEF Owed
<1>7. QED
  BY <1>5, <1>6

\* The deliveries touch the listener and their own flag.
LEMMA RfKeeps ==
  ASSUME RadioInv, NEW r \in Senders, RfStart(r) \/ RfStep(r)
  PROVE  Owed' /\ Starting' /\ OneOpen'
<1> USE RequestKinds DEF RadioInv
<1>1. \A s \in Requests \ {r} : pc'[s] = pc[s] /\ stopped'[s] = stopped[s]
  BY GotoMoves DEF RfStart, RfStep, RfStopsRms, RfEnds, TypeOK, Points
<1>2. UNCHANGED <<active, was, rf, open>>
  BY DEF RfStart, RfStep, RfStopsRms, RfEnds, chatVars
<1>3. \A s \in Chatters : pc'[s] = pc[s]
  BY <1>1
<1>4. Starting' /\ OneOpen'
  BY <1>2, <1>3 DEF Starting, OneOpen
<1>5. Owed'
  <2>1. CASE RfStart(r)
    <3>1. pc[r] = "idle" /\ rms' = rms
      BY <2>1 DEF RfStart, At
    <3>2. QED
      BY <1>1, <1>2, <1>3, <3>1 DEF Owed
  <2>2. CASE RfStopsRms(r)
    <3>1. CASE rms' = rms /\ pc'[r] = "idle"
      BY <1>1, <1>2, <1>3, <2>2, <3>1 DEF Owed, RfStopsRms
    <3>2. CASE pc'[r] = "talk" /\ stopped'[r]
      BY <3>2 DEF Owed
    <3>3. QED
      BY <2>2, <3>1, <3>2, GotoMoves DEF RfStopsRms, TypeOK, Points
  <2>3. CASE RfEnds(r)
    <3>1. rms' \/ (~stopped[r] /\ rms' = rms)
      BY <2>3 DEF RfEnds, RestartListener, SvcStart
    <3>2. QED
      BY <1>1, <1>2, <1>3, <3>1 DEF Owed
  <2>4. QED
    BY <2>1, <2>2, <2>3 DEF RfStep
<1>6. QED
  BY <1>4, <1>5

\* RadioInv holds as long as no two starts overlap.
THEOREM RadioInvariant == Spec /\ []OneStart => []RadioInv
<1>1. Init => RadioInv
  BY DEF Init, RadioInv, TypeOK, Owed, Starting, OneOpen, Points, Requests
<1>2. RadioInv /\ OneStart /\ OneStart' /\ [Next]_vars => RadioInv'
  <2> SUFFICES ASSUME RadioInv, OneStart, OneStart', [Next]_vars
               PROVE  Owed' /\ Starting' /\ OneOpen'
    BY TypeStep DEF RadioInv
  <2>1. CASE UNCHANGED vars
    BY <2>1 DEF vars, chatVars, RadioInv, Owed, Starting, OneOpen
  <2>2. CASE Next
    BY <2>2, GatewayKeeps, ChatStartKeeps, ChatStopsKeeps, ChatConnectsKeeps,
       ChatEndsKeeps, RfKeeps DEF Next, ChatStep
  <2>3. QED
    BY <2>1, <2>2
<1>3. QED
  BY <1>1, <1>2, PTL DEF Spec

\* HandedBack: once the requests are done with, whichever of them failed on the
\* way, the listener runs again or a chat does, and the chat holds no
\* connection but its own.
THEOREM HandsBack == Spec /\ []OneStart => []HandedBack
<1>1. RadioInv => HandedBack
  <2> SUFFICES ASSUME RadioInv, Quiet PROVE (active \/ rms) /\ open = IF active THEN {rf} ELSE {}
    BY DEF HandedBack
  <2>1. \A r \in Requests : pc[r] = "idle"
    BY DEF Quiet
  <2>2. QED
    BY <2>1, RequestKinds DEF RadioInv, Owed, OneOpen
<1>2. QED
  BY <1>1, RadioInvariant, PTL
=============================================================================
