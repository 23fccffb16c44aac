------------------------------- MODULE Bridges -------------------------------
(***************************************************************************)
(* The two Bluetooth bridges and the VARA launcher beside each other.      *)
(* They are separate processes that have only Dire Wolf in common: the     *)
(* launcher stops and starts it, and when it ends (a switch to the VARA    *)
(* modem, a crash, a new configuration) both bridges lose their connection.*)
(***************************************************************************)
EXTENDS Integers, Sequences

CONSTANTS
  Sockets,   \* numbers for the RFCOMM bridge's connections to Dire Wolf
  MaxData,   \* bound: chunks written over RFCOMM
  QueueSize, \* maxsize of the BLE bridge's queue
  MaxWrites, \* bound: chunks written over BLE
  Clients, Page,   \* of the launcher
  Enabled    \* the sets of these services that may be enabled

ASSUME BridgeConstants ==
  /\ Sockets \subseteq Nat \ {0}
  /\ {MaxData, MaxWrites} \subseteq Nat
  /\ QueueSize \in Nat \ {0}
  /\ Enabled \subseteq SUBSET {"rfcomm", "ble", "launcher"}
  /\ Page \notin Clients

VARIABLES
  dw,
  main, running, client, stop, slow, holder, open, alive,
  rpc, rsock, rdata, dpc, dsock, written, got, torn,
  mode, adv, phone, connected, loop, hearing, live,
  queue, sending, wrote, heard, cut,
  xara, failed, chosen, busy, conn, late, tool,
  launcher    \* the launcher is enabled, and Xara installed

Rf == INSTANCE RfcommBridge
Ble == INSTANCE BleBridge
Vara == INSTANCE VaraLauncher

rfVars == <<main, running, client, stop, slow, holder, open, alive,
            rpc, rsock, rdata, dpc, dsock, written, got, torn>>
bleVars == <<mode, adv, phone, connected, loop, hearing, live,
             queue, sending, wrote, heard, cut>>
varaVars == <<xara, failed, chosen, busy, conn, late, tool>>
vars == <<dw, rfVars, bleVars, varaVars, launcher>>

\* The bridges write nothing that the others read, so a property of one can be
\* checked with the others disabled.
Init ==
  /\ dw = TRUE
  /\ \E e \in Enabled :
       /\ Rf!Init("rfcomm" \in e) /\ Ble!Init("ble" \in e)
       /\ launcher = ("launcher" \in e)
  /\ Vara!Init

\* A crash or an operator's restart; with the launcher, its switches are the
\* reason.
DireWolfRestarts ==
  /\ ~launcher /\ dw' = ~dw
  /\ UNCHANGED <<varaVars, launcher>>

DireWolfSeen ==
  \/ dw /\ ~dw' /\ Rf!DireWolfEnds /\ Ble!DireWolfEnds
  \/ (dw => dw') /\ UNCHANGED <<rfVars, bleVars>>

Next ==
  \/ DireWolfRestarts /\ DireWolfSeen
  \/ launcher /\ Vara!Next /\ UNCHANGED launcher /\ DireWolfSeen
  \/ Rf!Next /\ UNCHANGED <<bleVars, varaVars, launcher>>
  \/ Ble!Next /\ UNCHANGED <<rfVars, varaVars, launcher>>

Spec == Init /\ [][Next]_vars

\* Threads, coroutines and timers run, a write to a Dire Wolf that is up is
\* through after some retries, and the advertising helper works sooner or
\* later; scripts and handlers of the launcher go on.  Phones, clients, the
\* operator and Dire Wolf do what they like.
FairSpec ==
  /\ Spec
  /\ WF_vars(Rf!MainStep /\ UNCHANGED <<bleVars, varaVars, launcher>>)
  /\ WF_vars(Rf!R2dStep /\ UNCHANGED <<bleVars, varaVars, launcher>>)
  /\ SF_vars(Rf!R2dSent /\ UNCHANGED <<bleVars, varaVars, launcher>>)
  /\ WF_vars(Rf!D2rStep /\ UNCHANGED <<bleVars, varaVars, launcher>>)
  /\ SF_vars(Ble!AdvWatchdog  /\ adv' /\ UNCHANGED <<rfVars, varaVars, launcher>>)
  /\ WF_vars(launcher /\ Vara!Fallback /\ UNCHANGED launcher /\ DireWolfSeen)
  /\ \A r \in Clients \cup {Page} :
       WF_vars(launcher /\ Vara!ToolStep(r) /\ UNCHANGED launcher /\ DireWolfSeen)
  /\ \A c \in Clients :
       WF_vars(launcher /\ Vara!HandlerStep(c) /\ UNCHANGED launcher /\ DireWolfSeen)

-----------------------------------------------------------------------------
(* Properties.                                                             *)

\* Both bridges are KISS pipes to Dire Wolf: whole chunks in order and at most
\* once, and parts of failed writes only before the whole, through restarts of
\* Dire Wolf, full queues, retried writes and ended sessions.
Pipes == Rf!Pipe!Spec /\ Ble!Pipe!Spec

\* Between two phones, and at its end, the RFCOMM bridge holds no connection
\* to Dire Wolf.
NoSocketLeaked == Rf!NoSocketLeaked

\* A phone's RFCOMM session is ended by the phone, which leaves or is too slow,
\* or by SIGTERM, never by a restart of Dire Wolf.
OnlyClientEnds == Rf!OnlyClientEnds

\* When the phone has left or was too slow, or SIGTERM has come, the session is
\* taken down and the bridge listens for the next phone or ends, although the
\* main thread or both others may be waiting for Dire Wolf: it is enough that
\* Dire Wolf is back for good some time.
SessionEnds == <>[]dw => ((client = "gone" \/ (slow /\ client = "on")) ~> (client = "none"))

\* A BLE bridge that no phone uses advertises again.
FoundAgain == Ble!FoundAgain

\* The TNC is not left without a modem by the launcher's switches; without it
\* Dire Wolf's restarts are the operator's.
ModemReturns == launcher => Vara!ModemReturns

\* After the last VARA session the TNC goes back to Dire Wolf.
BackToPacket == Vara!BackToPacket

=============================================================================
