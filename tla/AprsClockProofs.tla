--------------------------- MODULE AprsClockProofs ---------------------------
(***************************************************************************)
(* Proofs about the APRS clock fallback: type correctness, when the AGW    *)
(* port may be called, and that a step puts the clock on the station's time*)
(* of day, for every length of the day, zone, threshold, cooldown and      *)
(* number of required checks.                                              *)
(***************************************************************************)
EXTENDS AprsClock, TLAPS

(***************************************************************************)
(* Arithmetic modulo the day.                                              *)
(***************************************************************************)

\* A time of day differs from the time by whole days.
LEMMA TodWholeDays ==
  ASSUME NEW d \in Nat \ {0}, NEW a \in Int
  PROVE  a \div d \in Int /\ a % d \in Int /\ a = d * (a \div d) + (a % d)
  OBVIOUS

\* Whole days leave no time of day.
LEMMA WholeDaysTod ==
  ASSUME NEW d \in Nat \ {0}, NEW k \in Int
  PROVE  (d * k) % d = 0
  OBVIOUS

\* LocalTarget, made of the frame's time of day, is the time of the frame in
\* the local zone but for whole days: for UTC and for local timestamps.
LEMMA TargetWholeDays ==
  ASSUME board \in Int, heard \in Int, NEW utc \in BOOLEAN
  PROVE  LET tod == (IF utc THEN heard ELSE heard + Zone) % Day
         IN  \E k \in Int : LocalTarget(utc, tod) - Zone - heard = Day * k
<1> DEFINE tod == (IF utc THEN heard ELSE heard + Zone) % Day
           a == (board + Zone) \div Day
<1>1. Day \in Nat \ {0} /\ Zone \in Int
  BY ClockConstants
<1>2. a \in Int /\ a * Day = Day * a
  BY <1>1, TodWholeDays
<1>3. CASE utc
  <2> DEFINE b == heard \div Day
             c == (tod + Zone) \div Day
             r == (tod + Zone) % Day
  <2>1. b \in Int /\ tod \in Int /\ heard = Day * b + tod
    BY <1>1, <1>3, TodWholeDays
  <2>2. c \in Int /\ r \in Int /\ tod + Zone = Day * c + r
    BY <1>1, <2>1, TodWholeDays
  <2>3. LocalTarget(utc, tod) = a * Day + r
    BY <1>3 DEF LocalTarget
  <2> HIDE DEF a, b, c, r, tod
  <2>4. LocalTarget(utc, tod) - Zone - heard = Day * a - Day * c - Day * b
    BY <1>1, <1>2, <2>1, <2>2, <2>3
  <2>5. Day * a - Day * c - Day * b = Day * (a - c - b) /\ a - c - b \in Int
    BY <1>1, <1>2, <2>1, <2>2
  <2>6. QED
    BY <2>4, <2>5 DEF tod
<1>4. CASE ~utc
  <2> DEFINE b == (heard + Zone) \div Day
  <2>1. b \in Int /\ tod \in Int /\ heard + Zone = Day * b + tod
    BY <1>1, <1>4, TodWholeDays
  <2>2. LocalTarget(utc, tod) = a * Day + tod
    BY <1>4 DEF LocalTarget
  <2> HIDE DEF a, b, tod
  <2>3. LocalTarget(utc, tod) - Zone - heard = Day * a - Day * b
    BY <1>1, <1>2, <2>1, <2>2
  <2>4. Day * a - Day * b = Day * (a - b) /\ a - b \in Int
    BY <1>1, <1>2, <2>1
  <2>5. QED
    BY <2>3, <2>4 DEF tod
<1>5. QED
  BY <1>3, <1>4

\* Less than a day, and whole days, is none.
LEMMA WholeDayGap ==
  ASSUME NEW d \in Nat \ {0}, NEW k \in Int, -d < d * k, d * k < d
  PROVE  k = 0
  OBVIOUS

\* circular_delta_seconds() returns the shortest way from one time of day to
\* the other, across midnight where that is shorter: it is the difference but
\* for whole days, and no other such is nearer to zero.
THEOREM CircularDeltaShortest ==
  ASSUME NEW current \in Int, NEW tod \in Int
  PROVE  LET delta == CircularDelta(current, tod) IN
         /\ \E k \in Int : delta = tod - current - Day * k
         /\ \A j \in Int : Abs(delta) <= Abs(tod - current - Day * j)
<1> DEFINE h == Day \div 2
           k == (tod - current + h) \div Day
           r == (tod - current + h) % Day
<1>1. Day \in Nat \ {0} /\ h \in Int /\ 2 * h <= Day /\ Day <= 2 * h + 1
  BY ClockConstants
<1>2. k \in Int /\ r \in 0..(Day - 1) /\ tod - current + h = Day * k + r
  BY <1>1, TodWholeDays
<1>3. CircularDelta(current, tod) = r - h
  BY DEF CircularDelta
<1> DEFINE delta == r - h
<1> HIDE DEF h, k, r
<1>4. delta = tod - current - Day * k /\ -h <= delta /\ delta <= Day - 1 - h
  BY <1>1, <1>2
<1>5. ASSUME NEW j \in Int PROVE Abs(delta) <= Abs(tod - current - Day * j)
  <2> DEFINE e == tod - current - Day * j
  <2>1. e \in Int /\ delta \in Int /\ e - delta = Day * (k - j) /\ k - j \in Int
    BY <1>1, <1>2, <1>4
  <2>2. CASE k - j = 0
    BY <2>1, <2>2, <1>1 DEF Abs
  <2>3. CASE k - j # 0
    <3>1. ~(-Day < e - delta /\ e - delta < Day)
      BY <2>1, <2>3, <1>1, WholeDayGap
    <3> HIDE DEF e, delta
    <3>2. Abs(delta) <= Abs(e)
      BY <3>1, <2>1, <1>4, <1>1 DEF Abs
    <3>3. QED
      BY <3>2 DEF e
  <2>4. QED
    BY <2>2, <2>3
<1>6. QED
  BY <1>2, <1>3, <1>4, <1>5

(***************************************************************************)
(* The invariants.                                                         *)
(***************************************************************************)

\* The gate never counts more than the checks that went wrong in a row:
\* a blank station.clock resets it, nothing else but a check moves it.
GateInv == failures <= lost

\* While set_system_time() is awaited, its argument is still the time of the
\* frame in hand, and the cooldown has passed, however long the call takes and
\* whatever happens in the meantime.
SteppingInv ==
  pc = "stepping" =>
    /\ since = Cooldown
    /\ \E k \in Int : target - Zone - heard = Day * k

ClockInv == TypeOK /\ GateInv /\ SteppingInv

\* The results of a check keep the gate's invariant.
LEMMA CheckKeeps ==
  ASSUME TypeOK, GateInv, NEW synced \in BOOLEAN, Observe(synced), Checked(synced)
  PROVE  /\ offline' \in BOOLEAN /\ failures' \in 0..Required
         /\ lost' \in 0..Required /\ GateInv'
         /\ offline' => lost' = Required
<1>1. /\ failures' \in 0..Required /\ lost' \in 0..Required /\ failures' <= lost'
  BY ClockConstants DEF TypeOK, GateInv, Observe, Checked
<1>2. offline' \in BOOLEAN
  BY Zenon DEF Observe
<1>3. offline' => failures' >= Required
  BY Zenon DEF Observe
<1>4. failures' >= Required => lost' = Required
  BY <1>1, ClockConstants
<1>5. QED
  BY <1>1, <1>2, <1>3, <1>4 DEF GateInv

\* The inductive step, an action at a time.
LEMMA ClockStep == ASSUME ClockInv, [Next]_vars PROVE ClockInv'
<1> USE ClockConstants DEF ClockInv, GateInv, svcVars, gate
<1>1. CASE Tick
  <2>1. TypeOK'
    BY <1>1 DEF Tick, TypeOK
  <2>2. SteppingInv'
    BY <1>1 DEF Tick, TypeOK, SteppingInv
  <2>3. QED
    BY <1>1, <2>1, <2>2 DEF Tick
<1>2. CASE NtpChanges \/ Configure
  BY <1>2 DEF NtpChanges, Configure, TypeOK, SteppingInv
<1>3. CASE Run
  <2>1. CASE source = None /\ failures' = 0 /\ offline' = FALSE /\ UNCHANGED <<pc, lsrc, lost>>
    <3>1. offline' \in BOOLEAN
      BY <2>1, Zenon
    <3>2. QED
      BY <1>3, <2>1, <3>1 DEF Run, TypeOK, SteppingInv
  <2>2. CASE /\ Observe(ntp) /\ Checked(ntp)
             /\ \/ pc' = "connect" /\ lsrc' = source
                \/ UNCHANGED <<pc, lsrc>>
    BY <1>3, <2>2, CheckKeeps DEF Run, TypeOK, SteppingInv
  <2>3. QED
    BY <1>3, <2>1, <2>2 DEF Run
<1>4. CASE ControlCheck
  BY <1>4, CheckKeeps DEF ControlCheck, TypeOK, SteppingInv
<1>5. CASE Connected \/ AgwLost \/ FrameHeard \/ StepFailed
  BY <1>5 DEF Connected, AgwLost, FrameHeard, StepFailed, TypeOK, SteppingInv
<1>6. CASE RecheckSynced
  <2>1. ntp' = ntp /\ TRUE \in BOOLEAN
    BY <1>6 DEF RecheckSynced
  <2>2. QED
    BY <1>6, <2>1, CheckKeeps DEF RecheckSynced, TypeOK, SteppingInv
<1>7. CASE RecheckUnsynced
  <2> DEFINE Tod(utc) == (IF utc THEN heard ELSE heard + Zone) % Day
  <2>1. PICK utc \in BOOLEAN :
          \/ /\ WorthStepping(CircularDelta(CurrentTod(utc), Tod(utc)))
             /\ target' = LocalTarget(utc, Tod(utc)) /\ pc' = "stepping"
          \/ pc' = "listen" /\ UNCHANGED target
    BY <1>7 DEF RecheckUnsynced
  <2>2. UNCHANGED <<ntp, truth, board, source, lsrc, gate, since, heard>>
    BY <1>7 DEF RecheckUnsynced
  <2>3. CASE pc' = "listen" /\ UNCHANGED target
    BY <2>2, <2>3 DEF TypeOK, SteppingInv
  <2>4. CASE /\ WorthStepping(CircularDelta(CurrentTod(utc), Tod(utc)))
             /\ target' = LocalTarget(utc, Tod(utc)) /\ pc' = "stepping"
    <3>1. since' = Cooldown
      BY <2>2, <2>4 DEF TypeOK, WorthStepping
    <3>2. \E k \in Int : target' - Zone - heard' = Day * k
      BY <2>2, <2>4, TargetWholeDays DEF TypeOK
    <3>3. target' \in Int
      <4>1. Tod(utc) \in Int
        BY TodWholeDays DEF TypeOK
      <4> HIDE DEF Tod
      <4>2. (board + Zone) \div Day \in Int /\ (Tod(utc) + Zone) % Day \in Int
        BY <4>1, TodWholeDays DEF TypeOK
      <4>3. QED
        BY <2>4, <4>1, <4>2 DEF LocalTarget
    <3>4. TypeOK'
      BY <2>2, <2>4, <3>3 DEF TypeOK
    <3>5. QED
      BY <2>2, <3>1, <3>2, <3>4 DEF SteppingInv
  <2>5. QED
    BY <2>1, <2>3, <2>4
<1>8. CASE Stepped
  BY <1>8 DEF Stepped, TypeOK, SteppingInv
<1>9. CASE UNCHANGED vars
  BY <1>9 DEF vars, TypeOK, SteppingInv
<1>10. QED
  BY <1>1, <1>2, <1>3, <1>4, <1>5, <1>6, <1>7, <1>8, <1>9 DEF Next, Service

\* ClockInv holds in every reachable state.
THEOREM ClockInvariant == Spec => []ClockInv
<1>1. Init => ClockInv
  <2> SUFFICES ASSUME Init PROVE ClockInv
    OBVIOUS
  <2>1. ntp \in BOOLEAN /\ offline \in BOOLEAN
    BY Zenon DEF Init
  <2>2. truth \in Int /\ board \in Int
    BY ClockConstants DEF Init
  <2>3. QED
    BY <2>1, <2>2, ClockConstants DEF Init, ClockInv, TypeOK, GateInv, SteppingInv
<1>2. QED
  BY <1>1, ClockStep, PTL DEF Spec

\* TypeOK: the service's variables keep their types, the times among them
\* being integers of any size.
THEOREM TypeCorrect == Spec => []TypeOK
<1>1. ClockInv => TypeOK
  BY DEF ClockInv
<1>2. QED
  BY <1>1, ClockInvariant, PTL

\* ListenAfterLoss: run() calls the AGW port only after Required checks in a
\* row have found NTP unsynchronized.
THEOREM ListensAfterLoss == Spec => ListenAfterLoss
<1> DEFINE After == pc = "top" /\ pc' = "connect" => lost' = Required
<1>1. ASSUME ClockInv, Next PROVE After
  <2>1. CASE Run
    <3>1. ASSUME pc = "top", pc' = "connect" PROVE Observe(ntp) /\ Checked(ntp) /\ offline'
      BY <2>1, <3>1 DEF Run
    <3>2. ntp \in BOOLEAN
      BY <1>1 DEF ClockInv, TypeOK
    <3>3. QED
      BY <1>1, <3>1, <3>2, CheckKeeps DEF ClockInv
  <2>2. CASE ~Run
    BY <1>1, <2>2
    DEF Next, Service, Tick, NtpChanges, Configure, ControlCheck, Connected, AgwLost,
        FrameHeard, RecheckSynced, RecheckUnsynced, Stepped, StepFailed, svcVars
  <2>3. QED
    BY <2>1, <2>2
<1>2. ClockInv /\ [Next]_vars => [After]_vars
  BY <1>1
<1>3. QED
  BY <1>2, ClockInvariant, PTL DEF Spec, ListenAfterLoss

\* StepOnTime: the clock is put on the time of day of the frame, in every zone
\* and for UTC and local timestamps, a cooldown after the last step at least.
THEOREM StepsOnTime == Spec => StepOnTime
<1> DEFINE OnTime == Stepped => (board' - heard) % Day = 0 /\ since = Cooldown
<1>1. ASSUME ClockInv, Stepped PROVE (board' - heard) % Day = 0 /\ since = Cooldown
  <2>1. PICK k \in Int : target - Zone - heard = Day * k
    BY <1>1 DEF ClockInv, SteppingInv, Stepped
  <2>2. board' - heard = Day * k
    BY <1>1, <2>1 DEF Stepped
  <2>3. (Day * k) % Day = 0
    BY WholeDaysTod, ClockConstants
  <2>4. since = Cooldown
    BY <1>1 DEF ClockInv, SteppingInv, Stepped
  <2>5. QED
    BY <2>2, <2>3, <2>4
<1>2. ClockInv /\ [Next]_vars => [OnTime]_vars
  BY <1>1
<1>3. QED
  BY <1>2, ClockInvariant, PTL DEF Spec, StepOnTime
=============================================================================
