----------------------------- MODULE AprsClock -----------------------------
(***************************************************************************)
(* The APRS clock fallback (src/aprs_clock.py): AprsClockService steps the *)
(* board's clock to the time of day in a configured station's APRS packets *)
(* once NTP has been lost for several checks in a row.                     *)
(*                                                                         *)
(* Times are absolute and in one unit, a minute of the code's seconds      *)
(* scaled down; Day units make a day.  truth is the real time, which the   *)
(* station transmits, and board the system clock, which drifts from it     *)
(* while NTP is not synchronized.  ntp_synchronized() and set_system_time  *)
(* run in threads, so everything may change while they are awaited.        *)
(***************************************************************************)
EXTENDS Integers

CONSTANTS
  Day,        \* 86400 s
  Zone,       \* local time is UTC + Zone
  Threshold,  \* STEP_THRESHOLD_SECONDS
  Cooldown,   \* STEP_COOLDOWN_SECONDS
  Required,   \* NTP_FAILURES_REQUIRED
  Sources,    \* callsigns that station.clock may name
  None,       \* station.clock is blank
  Begins,     \* the times at which a behaviour may begin
  MaxTime     \* bound: the time at which it ends

ASSUME ClockConstants ==
  /\ Day \in Nat /\ Day > 1
  /\ Zone \in Int /\ Threshold \in Nat /\ Cooldown \in Nat
  /\ Required \in Nat \ {0}
  /\ None \notin Sources
  /\ Begins \subseteq Int /\ MaxTime \in Int

VARIABLES
  ntp,        \* timedatectl reports the clock as synchronized
  truth,      \* the real time, UTC
  board,      \* the system clock, UTC
  source,     \* station.clock in the configuration
  pc,         \* await point of run()
  lsrc,       \* the source listen_once() was called with
  failures,   \* gate.failures
  offline,    \* offline_confirmed
  since,      \* monotonic time since last_step_monotonic, up to Cooldown
  target,     \* the time set_system_time() was called with
  heard,      \* the real time when the frame in hand was received
  lost        \* history: checks since one found NTP synchronized, up to Required

gate == <<failures, offline, lost>>
svcVars == <<pc, lsrc, gate, since, target, heard>>
vars == <<ntp, truth, board, source, svcVars>>

Init ==
  /\ ntp \in BOOLEAN
  /\ truth \in Begins /\ board = truth
  /\ source \in Sources \cup {None}
  /\ pc = "top" /\ lsrc = None
  /\ failures = 0 /\ offline = FALSE
  /\ since = Cooldown /\ target = 0 /\ heard = 0 /\ lost = 0

-----------------------------------------------------------------------------
(* Time, NTP and the configuration page.                                   *)

\* NTP keeps the board on time; without it the clock runs fast or slow.
Tick ==
  /\ truth < MaxTime
  /\ truth' = truth + 1
  /\ \E d \in {0, 1, 2} : board' = IF ntp THEN truth' ELSE board + d
  /\ since' = IF since < Cooldown THEN since + 1 ELSE Cooldown
  /\ UNCHANGED <<ntp, source, pc, lsrc, gate, target, heard>>

NtpChanges ==
  /\ ntp' = ~ntp
  /\ board' = IF ntp' THEN truth ELSE board
  /\ UNCHANGED <<truth, source, svcVars>>

Configure ==
  /\ source' \in (Sources \cup {None}) \ {source}
  /\ UNCHANGED <<ntp, truth, board, svcVars>>

-----------------------------------------------------------------------------
(* The arithmetic.                                                         *)

\* circular_delta_seconds(current, target)
CircularDelta(current, tod) == ((tod - current + (Day \div 2)) % Day) - (Day \div 2)

Abs(n) == IF n < 0 THEN -n ELSE n

\* What _clock_values() compares with, for a UTC or a local timestamp.
CurrentTod(utc) == (IF utc THEN board ELSE board + Zone) % Day

\* Faulty variant of LocalTarget: a UTC time of day is taken for a local one.
LocalTargetUnconverted(utc, tod) == ((board + Zone) \div Day) * Day + tod

\* The local timestamp of _clock_values(): the time of day, converted to the
\* local zone, on the board's current local date.
LocalTarget(utc, tod) ==
  ((board + Zone) \div Day) * Day + (IF utc THEN (tod + Zone) % Day ELSE tod)

-----------------------------------------------------------------------------
(* NtpLossGate and run()                                                   *)

\* Faulty variant of Observe: a loss once confirmed is never forgotten.
ObserveSticky(synced) ==
  /\ failures' = IF failures = Required THEN Required
                 ELSE IF synced THEN 0 ELSE failures + 1
  /\ offline' = (failures' >= Required)

\* gate.observe()
Observe(synced) ==
  /\ failures' = IF synced THEN 0
                 ELSE IF failures < Required THEN failures + 1 ELSE Required
  /\ offline' = (~synced /\ failures' >= Required)

\* History: the result of a check.
Checked(synced) ==
  lost' = IF synced THEN 0 ELSE IF lost < Required THEN lost + 1 ELSE Required

\* The head of the loop in run(): station.clock is blank, or the NTP state is
\* checked and, once its loss is confirmed, the AGW port is called.
Run ==
  /\ pc = "top"
  /\ \/ /\ source = None /\ failures' = 0 /\ offline' = FALSE
        /\ UNCHANGED <<pc, lsrc, lost>>
     \/ /\ source # None /\ Observe(ntp) /\ Checked(ntp)
        /\ \/ offline' /\ pc' = "connect" /\ lsrc' = source
           \/ ~offline' /\ UNCHANGED <<pc, lsrc>>
  /\ UNCHANGED <<ntp, truth, board, source, since, target, heard>>

Connected ==
  /\ pc = "connect"
  /\ pc' = "listen"
  /\ UNCHANGED <<ntp, truth, board, source, lsrc, gate, since, target, heard>>

\* The AGW stream is refused, ends, or carries something malformed.
AgwLost ==
  /\ pc \in {"connect", "listen"}
  /\ pc' = "top"
  /\ UNCHANGED <<ntp, truth, board, source, lsrc, gate, since, target, heard>>

-----------------------------------------------------------------------------
(* listen_once()                                                           *)

\* Faulty variant of ControlCheck: NTP is only checked before listening.
ControlCheckSettingsOnly ==
  /\ pc = "listen" /\ source # lsrc
  /\ pc' = "top"
  /\ UNCHANGED <<ntp, truth, board, source, lsrc, gate, since, target, heard>>

\* Every NTP_CHECK_SECONDS, with or without traffic: stop listening when NTP is
\* back, or when the configuration has changed.
ControlCheck ==
  /\ pc = "listen"
  /\ Observe(ntp) /\ Checked(ntp)
  /\ \/ offline' /\ source = lsrc /\ UNCHANGED pc
     \/ ~(offline' /\ source = lsrc) /\ pc' = "top"
  /\ UNCHANGED <<ntp, truth, board, source, lsrc, since, target, heard>>

\* A timestamped UI frame of station lsrc has arrived: consider_frame() rechecks
\* NTP.  Any other frame is dropped.
FrameHeard ==
  /\ pc = "listen"
  /\ pc' = "recheck" /\ heard' = truth
  /\ UNCHANGED <<ntp, truth, board, source, lsrc, gate, since, target>>

\* NTP has recovered: the gate is reset, and listening goes on.
RecheckSynced ==
  /\ pc = "recheck" /\ ntp
  /\ Observe(TRUE) /\ Checked(TRUE)
  /\ pc' = "listen"
  /\ UNCHANGED <<ntp, truth, board, source, lsrc, since, target, heard>>

\* Neither "watching" nor "cooldown".
WorthStepping(delta) == Abs(delta) > Threshold /\ since >= Cooldown

\* The frame's time of day, compared with the board's: on to set_system_time(),
\* or nothing to do.
RecheckUnsynced ==
  /\ pc = "recheck" /\ ~ntp
  /\ \E utc \in BOOLEAN :
       LET tod == (IF utc THEN heard ELSE heard + Zone) % Day
       IN  \/ /\ WorthStepping(CircularDelta(CurrentTod(utc), tod))
              /\ target' = LocalTarget(utc, tod)
              /\ pc' = "stepping"
           \/ /\ ~WorthStepping(CircularDelta(CurrentTod(utc), tod))
              /\ pc' = "listen" /\ UNCHANGED target
  /\ UNCHANGED <<ntp, truth, board, source, lsrc, gate, since, heard>>

\* date --set took the local timestamp.
Stepped ==
  /\ pc = "stepping"
  /\ board' = target - Zone
  /\ since' = 0
  /\ pc' = "listen"
  /\ UNCHANGED <<ntp, truth, source, lsrc, gate, target, heard>>

StepFailed ==
  /\ pc = "stepping"
  /\ pc' = "listen"
  /\ UNCHANGED <<ntp, truth, board, source, lsrc, gate, since, target, heard>>

-----------------------------------------------------------------------------
Service ==
  \/ Connected \/ AgwLost \/ FrameHeard
  \/ RecheckSynced \/ RecheckUnsynced \/ Stepped \/ StepFailed

Next == Tick \/ NtpChanges \/ Configure \/ Run \/ ControlCheck \/ Service

Spec == Init /\ [][Next]_vars

\* run() never stops, what it awaits has a timeout, and the control check comes
\* round however much traffic there is.
FairSpec ==
  /\ Spec
  /\ WF_vars(Run) /\ SF_vars(ControlCheck)
  /\ WF_vars(Connected \/ AgwLost)
  /\ WF_vars(RecheckSynced \/ RecheckUnsynced) /\ WF_vars(Stepped \/ StepFailed)

-----------------------------------------------------------------------------
(* Properties.                                                             *)

TypeOK ==
  /\ ntp \in BOOLEAN /\ offline \in BOOLEAN
  /\ truth \in Int /\ board \in Int /\ target \in Int /\ heard \in Int
  /\ source \in Sources \cup {None} /\ lsrc \in Sources \cup {None}
  /\ pc \in {"top", "connect", "listen", "recheck", "stepping"}
  /\ failures \in 0 .. Required /\ lost \in 0 .. Required /\ since \in 0 .. Cooldown

\* A step puts the clock on the time of day of the frame it was taken from, in
\* every zone and for UTC and local timestamps alike, and comes a cooldown after
\* the last one, however many frames arrive between them and whatever fails.
StepOnTime ==
  [][Stepped => (board' - heard) % Day = 0 /\ since = Cooldown]_vars

\* The AGW port is called only after Required checks in a row, before and
\* during earlier listening, have found NTP unsynchronized.
ListenAfterLoss == [][pc = "top" /\ pc' = "connect" => lost' = Required]_vars

\* Once NTP is back for good the service stops listening for good.
NtpTakesOver == []<>(~ntp) \/ <>[](pc = "top")

=============================================================================
