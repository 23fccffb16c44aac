------------------------------ MODULE BleBridge ------------------------------
(***************************************************************************)
(* The BLE bridge (src/ble/ble_bridge.py, run_ble_bridge): a GATT server   *)
(* on one event loop.  D-Bus callbacks queue what the phone writes; the    *)
(* Dire Wolf loop gathers a receiving and a sending coroutine on one       *)
(* connection; a watchdog keeps the raw-HCI advertising alive where BlueZ  *)
(* refuses to advertise.                                                   *)
(***************************************************************************)
EXTENDS Integers, Sequences

CONSTANTS
  QueueSize,   \* maxsize of ble_to_dw (256)
  MaxWrites    \* bound: chunks the phone writes

VARIABLES
  dw,        \* Dire Wolf accepts connections
  mode,      \* "starting", or how it advertises: "mgmt", "legacy"; "exited"
  adv,       \* the controller is advertising
  phone,     \* "away", "linked", "subscribed"
  connected, \* ble_connected[0], and notify_enabled[0] with it
  loop,      \* direwolf_loop: "sleep" or "run" (both coroutines gathered)
  hearing,   \* recv_from_dw is running
  live,      \* Dire Wolf has its end of the connection
  queue,     \* ble_to_dw
  sending,   \* the chunk sendall() is writing, 0 for none
  wrote,     \* chunks the phone has written so far
  heard,     \* chunks Dire Wolf was handed whole
  cut        \* the chunk Dire Wolf was last handed a part of, 0 once it has
             \* been handed a whole one since

advVars == <<mode, adv, phone, connected>>
dwVars == <<loop, hearing, live>>
dataVars == <<queue, sending, wrote, heard, cut>>
vars == <<dw, advVars, dwVars, dataVars>>

Init(enabled) ==
  /\ mode = (IF enabled THEN "starting" ELSE "exited")
  /\ adv = FALSE /\ phone = "away" /\ connected = FALSE
  /\ loop = "sleep" /\ hearing = FALSE /\ live = FALSE
  /\ queue = <<>> /\ sending = 0 /\ wrote = 0 /\ heard = <<>> /\ cut = 0

Up == mode \in {"mgmt", "legacy"}

-----------------------------------------------------------------------------
(* Registration and advertising                                            *)

\* Registered with BlueZ, in full or minimally; else by raw HCI; else the
\* bridge exits cleanly.
Register ==
  /\ mode = "starting"
  /\ \/ mode' \in {"mgmt", "legacy"} /\ adv' = TRUE
     \/ mode' = "exited" /\ UNCHANGED adv
  /\ UNCHANGED <<dw, phone, connected, dwVars, dataVars>>

\* start_legacy_adv(): the helper may fail.
LegacyAdv == adv' \in {adv, TRUE}

\* The controller takes a connection and ends legacy advertising.
PhoneConnects ==
  /\ Up /\ adv /\ phone = "away"
  /\ phone' = "linked"
  /\ adv' = (mode = "mgmt")
  /\ UNCHANGED <<dw, mode, connected, dwVars, dataVars>>

StartNotify ==
  /\ Up /\ phone = "linked"
  /\ phone' = "subscribed" /\ connected' = TRUE
  /\ UNCHANGED <<dw, mode, adv, dwVars, dataVars>>

\* BlueZ calls StopNotify for a phone that had subscribed; legacy
\* advertising is asserted again.
StopNotify ==
  /\ Up /\ phone = "subscribed"
  /\ phone' = "away" /\ connected' = FALSE
  /\ IF mode = "legacy" THEN LegacyAdv ELSE UNCHANGED adv
  /\ UNCHANGED <<dw, mode, dwVars, dataVars>>

\* A phone that never subscribed leaves without a word to the bridge.
PhoneLeaves ==
  /\ Up /\ phone = "linked"
  /\ phone' = "away"
  /\ UNCHANGED <<dw, mode, adv, connected, dwVars, dataVars>>

\* Scans, classic Bluetooth and adapter changes end legacy advertising.
AdvLost ==
  /\ mode = "legacy" /\ adv
  /\ adv' = FALSE
  /\ UNCHANGED <<dw, mode, phone, connected, dwVars, dataVars>>

\* Faulty variant of AdvWatchdog: it only runs while a phone is there.
AdvWatchdogConnected ==
  /\ mode = "legacy" /\ connected
  /\ LegacyAdv
  /\ UNCHANGED <<dw, mode, phone, connected, dwVars, dataVars>>

\* adv_watchdog()
AdvWatchdog ==
  /\ mode = "legacy" /\ ~connected
  /\ LegacyAdv
  /\ UNCHANGED <<dw, mode, phone, connected, dwVars, dataVars>>

-----------------------------------------------------------------------------
(* From the phone to Dire Wolf                                             *)

\* WriteValue: a full queue drops the chunk.
WriteValue ==
  /\ Up /\ phone # "away" /\ wrote < MaxWrites
  /\ wrote' = wrote + 1
  /\ queue' = IF Len(queue) < QueueSize THEN Append(queue, wrote + 1) ELSE queue
  /\ UNCHANGED <<dw, advVars, dwVars, sending, heard, cut>>

\* create_connection(), at once or after RECONNECT_DELAY.  A receiver left
\* over from the last connection has ended by then (its timeout is shorter).
DwConnects ==
  /\ Up /\ loop = "sleep" /\ dw
  /\ loop' = "run" /\ hearing' = TRUE /\ live' = TRUE
  /\ UNCHANGED <<dw, advVars, dataVars>>

\* Dire Wolf ends: its end of the connection is closed.
DireWolfEnds == live' = FALSE /\ UNCHANGED <<advVars, loop, hearing, dataVars>>

\* recv_from_dw returns; gather() goes on waiting for send_to_dw.
RecvEof ==
  /\ Up /\ loop = "run" /\ hearing /\ ~live
  /\ hearing' = FALSE
  /\ UNCHANGED <<dw, advVars, loop, live, dataVars>>

\* send_to_dw takes the next chunk.
SendGets ==
  /\ Up /\ loop = "run" /\ sending = 0 /\ queue # <<>>
  /\ sending' = Head(queue) /\ queue' = Tail(queue)
  /\ UNCHANGED <<dw, advVars, dwVars, wrote, heard, cut>>

\* sendall() returns.  The first write behind a lost Dire Wolf does, too.
Sent ==
  /\ Up /\ sending # 0
  /\ IF live THEN heard' = Append(heard, sending) /\ cut' = 0 ELSE UNCHANGED <<heard, cut>>
  /\ sending' = 0
  /\ UNCHANGED <<dw, advVars, dwVars, queue, wrote>>

\* The write under way ends short of the whole chunk: Dire Wolf may have been
\* handed a part of it.
WriteCut == UNCHANGED cut \/ (live /\ sending # 0 /\ cut' = sending)

\* sendall() raises: gather() ends with it, the connection is closed and the
\* chunk is lost.
SendRaises ==
  /\ Up /\ sending # 0
  /\ WriteCut
  /\ sending' = 0
  /\ loop' = "sleep" /\ hearing' = FALSE /\ live' = FALSE
  /\ UNCHANGED <<dw, advVars, queue, wrote, heard>>

\* SIGTERM, or an exception: the process ends and with it every phone's link.
Exits ==
  /\ Up
  /\ mode' = "exited" /\ adv' = FALSE /\ phone' = "away" /\ connected' = FALSE
  /\ loop' = "sleep" /\ hearing' = FALSE /\ live' = FALSE
  /\ WriteCut
  /\ queue' = <<>> /\ sending' = 0
  /\ UNCHANGED <<dw, wrote, heard>>

-----------------------------------------------------------------------------
Next ==
  \/ Register \/ PhoneConnects \/ StartNotify \/ StopNotify \/ PhoneLeaves
  \/ AdvLost \/ AdvWatchdog \/ WriteValue \/ DwConnects \/ RecvEof
  \/ SendGets \/ Sent \/ SendRaises \/ Exits

-----------------------------------------------------------------------------
(* Properties.                                                             *)

\* The way to Dire Wolf as KissPipe sees it.
Pipe == INSTANCE KissPipe WITH
  Chunks <- 1..MaxWrites,
  pending <- (IF sending = 0 THEN <<>> ELSE <<sending>>) \o queue,
  delivered <- heard,
  torn <- cut

\* Where advertising depends on raw HCI, a bridge that no phone uses can be
\* found again, however advertising was lost and whether or not the phone
\* that ended it ever subscribed ("restores discoverability").
FoundAgain == (mode = "legacy" /\ ~connected) ~> (adv \/ connected \/ mode = "exited")

=============================================================================
