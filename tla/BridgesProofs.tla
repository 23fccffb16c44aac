---------------------------- MODULE BridgesProofs ----------------------------
(***************************************************************************)
(* Proofs about the two Bluetooth bridges and the VARA launcher: what the  *)
(* RFCOMM bridge's threads leave open, what ends a session, that both      *)
(* bridges implement KissPipe, and which modem the launcher still owes the *)
(* TNC, for any number of chunks, sockets, connections and restarts of     *)
(* Dire Wolf and whichever of the services are enabled.                    *)
(***************************************************************************)
EXTENDS Bridges, SequenceTheorems, TLAPS

(***************************************************************************)
(* The RFCOMM bridge's sockets.                                            *)
(***************************************************************************)

\* Which socket may be open depends on where d2r is, the only thread that
\* replaces the holder's while a session runs: the holder's own, none between
\* closing one and connecting again, then the new one that is not stored yet.
SocketInv ==
  /\ main \in {"listen", "connect", "run", "ended"}
  /\ dpc \in {"done", "top", "recv", "lost", "clear", "reconn", "store"}
  /\ main # "run" => open = {} /\ rpc = "done" /\ dpc = "done"
  /\ dpc \in {"recv", "lost", "clear"} => dsock = holder
  /\ dpc \in {"clear", "reconn"} => open = {}
  /\ open \subseteq (IF dpc = "store" THEN {dsock} ELSE {holder})

\* What ends a session, and where its threads are.
SessionInv == SocketInv /\ OnlyClientEnds

\* The steps of the main thread, and SIGTERM in the middle of them.
LEMMA MainKeeps ==
  ASSUME SessionInv, Rf!MainStep \/ Rf!Accept \/ Rf!SigTerm \/ Rf!ClientLeaves
  PROVE  SessionInv'
<1> USE DEF SessionInv, SocketInv, OnlyClientEnds, Rf!OnlyClientEnds,
            Rf!sockVars, Rf!r2dVars, Rf!d2rVars
<1>1. CASE Rf!FirstConnect
  BY <1>1 DEF Rf!FirstConnect, Rf!Connects
<1>2. CASE Rf!ConnectGivesUp \/ Rf!Ends
  BY <1>2 DEF Rf!ConnectGivesUp, Rf!Ends
<1>3. CASE Rf!Join
  BY <1>3 DEF Rf!Join, Rf!Close
<1>4. CASE Rf!Accept
  BY <1>4 DEF Rf!Accept
<1>5. CASE Rf!SigTerm
  BY <1>5 DEF Rf!SigTerm, Rf!Close
<1>6. CASE Rf!ClientLeaves
  BY <1>6 DEF Rf!ClientLeaves
<1>7. QED
  BY <1>1, <1>2, <1>3, <1>4, <1>5, <1>6 DEF Rf!MainStep

\* The steps of r2d.
LEMMA R2dKeeps == ASSUME SessionInv, Rf!R2dData \/ Rf!R2dStep PROVE SessionInv'
<1> USE DEF SessionInv, SocketInv, OnlyClientEnds, Rf!OnlyClientEnds,
            Rf!sockVars, Rf!r2dVars, Rf!d2rVars
<1>1. CASE Rf!R2dData
  BY <1>1 DEF Rf!R2dData
<1>2. CASE Rf!R2dEnds
  BY <1>2 DEF Rf!R2dEnds
<1>3. CASE Rf!R2dPicks \/ Rf!R2dSent \/ Rf!R2dRetries
  BY <1>3 DEF Rf!R2dPicks, Rf!R2dSent, Rf!R2dRetries
<1>4. QED
  BY <1>1, <1>2, <1>3 DEF Rf!R2dStep

\* The steps of d2r.
LEMMA D2rKeeps == ASSUME SessionInv, Rf!D2rStep PROVE SessionInv'
<1> USE DEF SessionInv, SocketInv, OnlyClientEnds, Rf!OnlyClientEnds,
            Rf!sockVars, Rf!r2dVars, Rf!d2rVars
<1>1. CASE Rf!D2rTop
  BY <1>1 DEF Rf!D2rTop
<1>2. CASE Rf!D2rPasses
  <2>1. SocketInv'
    BY <1>2 DEF Rf!D2rPasses
  <2>2. UNCHANGED <<main, client, running>> /\ (UNCHANGED <<stop, slow>> \/ client = "gone" \/ slow')
    <3>1. CASE client = "on" /\ slow' = (client = "on")
      BY <1>2, <3>1, Zenon DEF Rf!D2rPasses
    <3>2. QED
      BY <1>2, <3>1 DEF Rf!D2rPasses
  <2>3. QED
    BY <2>1, <2>2
<1>3. CASE Rf!D2rEof
  BY <1>3 DEF Rf!D2rEof
<1>4. CASE Rf!D2rCloses
  BY <1>4 DEF Rf!D2rCloses, Rf!Close
<1>5. CASE Rf!D2rClears
  BY <1>5 DEF Rf!D2rClears
<1>6. CASE Rf!D2rReconnects
  BY <1>6 DEF Rf!D2rReconnects, Rf!Connects
<1>7. CASE Rf!D2rGivesUp
  BY <1>7 DEF Rf!D2rGivesUp
<1>8. CASE Rf!D2rStores
  BY <1>8 DEF Rf!D2rStores
<1>9. QED
  BY <1>1, <1>2, <1>3, <1>4, <1>5, <1>6, <1>7, <1>8 DEF Rf!D2rStep

\* SessionInv holds in every reachable state.
THEOREM SessionInvariant == Spec => []SessionInv
<1>1. Init => SessionInv
  BY DEF Init, Rf!Init, SessionInv, SocketInv, OnlyClientEnds, Rf!OnlyClientEnds
<1>2. SessionInv /\ [Next]_vars => SessionInv'
  <2> SUFFICES ASSUME SessionInv, [Next]_vars PROVE SessionInv'
    OBVIOUS
  <2>1. CASE Rf!Next
    BY <2>1, MainKeeps, R2dKeeps, D2rKeeps DEF Rf!Next
  <2>2. CASE Rf!DireWolfEnds \/ UNCHANGED rfVars
    BY <2>2 DEF Rf!DireWolfEnds, rfVars, SessionInv, SocketInv, OnlyClientEnds,
                Rf!OnlyClientEnds, Rf!r2dVars, Rf!d2rVars
  <2>3. QED
    BY <2>1, <2>2 DEF Next, DireWolfSeen, vars
<1>3. QED
  BY <1>1, <1>2, PTL DEF Spec

\* NoSocketLeaked: between two phones, and at its end, the bridge holds no
\* connection to Dire Wolf, whatever _handle_client()'s threads were doing.
THEOREM NoSocketLeft == Spec => []NoSocketLeaked
<1>1. SessionInv => NoSocketLeaked
  BY DEF SessionInv, SocketInv, NoSocketLeaked, Rf!NoSocketLeaked
<1>2. QED
  BY SessionInvariant, <1>1, PTL

\* OnlyClientEnds: stop_event is set for the phone, gone or too slow, or for
\* SIGTERM only.
THEOREM ClientEnds == Spec => []OnlyClientEnds
<1>1. SessionInv => OnlyClientEnds
  BY DEF SessionInv
<1>2. QED
  BY SessionInvariant, <1>1, PTL

(***************************************************************************)
(* The RFCOMM bridge implements KissPipe.                                  *)
(***************************************************************************)

\* s is in the order the phone wrote, each chunk once, and none after `last`.
InOrderUpTo(s, last) ==
  /\ s \in Seq(Nat)
  /\ \A i \in 1..Len(s) : s[i] <= last
  /\ \A i, j \in 1..Len(s) : i < j => s[i] < s[j]

\* r2d has a chunk while it tries to send it, the last one written; everything
\* Dire Wolf was handed whole is older, and older than the chunk it was handed
\* a part of since.
RfData ==
  /\ rpc \in {"done", "recv", "hold", "send"}
  /\ written \in Nat /\ written <= MaxData /\ rdata \in {0, written}
  /\ rpc \in {"hold", "send"} <=> rdata # 0
  /\ InOrderUpTo(got, IF rdata = 0 THEN written ELSE written - 1)
  /\ torn \in 0..written
  /\ torn # 0 => \A i \in 1..Len(got) : got[i] < torn

\* A chunk that is newer than all before it may be appended.
LEMMA AppendNewer ==
  ASSUME NEW s, NEW last \in Nat, NEW c \in Nat, InOrderUpTo(s, last), last < c
  PROVE  InOrderUpTo(Append(s, c), c)
  BY DEF InOrderUpTo

\* What is in order up to a chunk is so up to a later one.
LEMMA LaterBound ==
  ASSUME NEW s, NEW last \in Nat, NEW c \in Nat, InOrderUpTo(s, last), last <= c
  PROVE  InOrderUpTo(s, c)
  BY DEF InOrderUpTo

\* The state of r2d as KissPipe sees it, step by step.
LEMMA RfStepKeeps ==
  ASSUME RfData, SocketInv, Rf!Next
  PROVE  /\ RfData'
         /\ \/ Rf!Pipe!Next
            \/ UNCHANGED <<IF rdata = 0 THEN <<>> ELSE <<rdata>>, got, torn>>
<1> DEFINE Still == UNCHANGED <<rdata, got, torn>>
           Good == RfData' /\ (Rf!Pipe!Next \/ Still)
<1> SUFFICES Good
  OBVIOUS
<1> USE BridgeConstants
<1>1. ASSUME UNCHANGED <<rpc, written, rdata, got, torn>> PROVE Good
  BY <1>1 DEF RfData
<1>2. CASE Rf!FirstConnect
  BY <1>2 DEF RfData, SocketInv, Rf!FirstConnect
<1>3. CASE Rf!R2dData
  <2>1. rdata = 0 /\ rdata' = written + 1 /\ written' = written + 1 /\ got' = got /\ torn' = torn
    BY <1>3 DEF RfData, Rf!R2dData
  <2>2. written + 1 \in 1..MaxData /\ \A i \in 1..Len(got) : got[i] < written + 1
    BY <1>3, <2>1 DEF RfData, Rf!R2dData, InOrderUpTo
  <2>3. Rf!Pipe!Accept
    BY <2>1, <2>2 DEF RfData, Rf!Pipe!Accept, Rf!Pipe!Newer
  <2>4. RfData'
    BY <1>3, <2>1 DEF RfData, Rf!R2dData
  <2>5. QED
    BY <2>3, <2>4 DEF Rf!Pipe!Next
<1>4. CASE Rf!R2dEnds
  <2>1. RfData'
    BY <1>4, LaterBound DEF RfData, Rf!R2dEnds
  <2>2. rdata' = 0 /\ got' = got /\ torn' = torn
    BY <1>4 DEF Rf!R2dEnds
  <2>3. CASE rdata = 0
    BY <2>1, <2>2, <2>3
  <2>4. CASE rdata # 0
    <3>1. Rf!Pipe!Lose
      BY <2>2, <2>4 DEF RfData, Rf!Pipe!Lose
    <3>2. QED
      BY <2>1, <3>1 DEF Rf!Pipe!Next
  <2>5. QED
    BY <2>3, <2>4
<1>5. CASE Rf!R2dSent
  <2>1. rdata # 0 /\ rdata' = 0 /\ rdata = written /\ written' = written
    BY <1>5 DEF RfData, Rf!R2dSent
  <2>2. CASE got' = got /\ torn' = torn
    <3>1. Rf!Pipe!Lose
      BY <2>1, <2>2 DEF RfData, Rf!Pipe!Lose
    <3>2. RfData'
      BY <1>5, <2>1, <2>2, LaterBound DEF RfData, Rf!R2dSent
    <3>3. QED
      BY <3>1, <3>2 DEF Rf!Pipe!Next
  <2>3. CASE got' = Append(got, rdata) /\ torn' = 0
    <3>1. Rf!Pipe!Deliver
      BY <2>1, <2>3 DEF RfData, Rf!Pipe!Deliver
    <3>2. RfData'
      BY <1>5, <2>1, <2>3, AppendNewer DEF RfData, Rf!R2dSent
    <3>3. QED
      BY <3>1, <3>2 DEF Rf!Pipe!Next
  <2>4. QED
    BY <1>5, <2>2, <2>3 DEF Rf!R2dSent
<1>6. CASE Rf!R2dPicks
  BY <1>6 DEF RfData, Rf!R2dPicks
<1>7. CASE Rf!R2dRetries
  <2>1. rdata # 0 /\ rdata = written /\ rpc' = "hold" /\ UNCHANGED <<rdata, written, got>>
    BY <1>7 DEF RfData, Rf!R2dRetries
  <2>2. CASE torn' = torn
    BY <2>1, <2>2 DEF RfData
  <2>3. CASE torn' = rdata
    <3>1. Rf!Pipe!Tear
      BY <2>1, <2>3 DEF Rf!Pipe!Tear
    <3>2. \A i \in 1..Len(got) : got[i] < rdata
      BY <2>1 DEF RfData, InOrderUpTo
    <3>3. RfData'
      BY <2>1, <2>3, <3>2 DEF RfData
    <3>4. QED
      BY <3>1, <3>3 DEF Rf!Pipe!Next
  <2>4. QED
    BY <1>7, <2>2, <2>3 DEF Rf!R2dRetries
<1>8. QED
  BY <1>1, <1>2, <1>3, <1>4, <1>5, <1>6, <1>7
  DEF Rf!Next, Rf!MainStep, Rf!R2dStep, Rf!D2rStep, Rf!r2dVars, Rf!ClientLeaves, Rf!Accept,
      Rf!SigTerm, Rf!ConnectGivesUp, Rf!Join, Rf!Ends, Rf!D2rTop, Rf!D2rPasses, Rf!D2rEof,
      Rf!D2rCloses, Rf!D2rClears, Rf!D2rReconnects, Rf!D2rGivesUp, Rf!D2rStores

\* RfData holds in every reachable state.
LEMMA RfDataInvariant == Spec => []RfData
<1>1. Init => RfData
  BY BridgeConstants DEF Init, Rf!Init, RfData, InOrderUpTo
<1>2. RfData /\ SessionInv /\ [Next]_vars => RfData'
  <2>1. ASSUME RfData, UNCHANGED <<rpc, written, rdata, got, torn>> PROVE RfData'
    BY <2>1 DEF RfData
  <2>2. QED
    BY <2>1, RfStepKeeps
    DEF Next, DireWolfSeen, SessionInv, Rf!DireWolfEnds, Rf!r2dVars, vars, rfVars
<1>3. QED
  BY <1>1, <1>2, SessionInvariant, PTL DEF Spec

\* Every step of the composition is one of KissPipe or leaves it alone.
LEMMA RfRefines ==
  ASSUME RfData, SessionInv, [Next]_vars
  PROVE  [Rf!Pipe!Next]_<<IF rdata = 0 THEN <<>> ELSE <<rdata>>, got, torn>>
<1>1. CASE Rf!Next
  BY <1>1, RfStepKeeps DEF SessionInv
<1>2. CASE Rf!DireWolfEnds \/ UNCHANGED rfVars
  BY <1>2 DEF Rf!DireWolfEnds, Rf!r2dVars, rfVars
<1>3. QED
  BY <1>1, <1>2 DEF Next, DireWolfSeen, vars

(***************************************************************************)
(* The BLE bridge implements KissPipe.                                     *)
(***************************************************************************)

\* What the bridge has of the phone's chunks, the one being written first.
BlePending == (IF sending = 0 THEN <<>> ELSE <<sending>>) \o queue

\* The queue holds chunks written so far, and Dire Wolf was handed such.
BleData ==
  /\ wrote \in Nat /\ wrote <= MaxWrites
  /\ sending \in 0..wrote
  /\ queue \in Seq(1..wrote)
  /\ heard \in Seq(1..wrote)
  /\ cut \in 0..wrote

\* A sequence of chunks up to a is one of chunks up to a larger b.
LEMMA MoreChunks ==
  ASSUME NEW a \in Nat, NEW b \in Nat, a <= b, NEW s \in Seq(1..a)
  PROVE  s \in Seq(1..b)
  OBVIOUS

\* WriteValue is an Accept, or drops the chunk.
LEMMA BleWrites ==
  ASSUME BleData, Ble!WriteValue
  PROVE  BleData' /\ (Ble!Pipe!Next \/ UNCHANGED <<BlePending, heard, cut>>)
<1>1. /\ wrote + 1 \in 1..MaxWrites /\ wrote' = wrote + 1
      /\ UNCHANGED <<sending, heard, cut>>
  BY BridgeConstants DEF BleData, Ble!WriteValue
<1>2. CASE queue' = queue
  BY <1>1, <1>2, MoreChunks DEF BleData, BlePending
<1>3. CASE queue' = Append(queue, wrote + 1)
  <2>1. BleData'
    BY <1>1, <1>3, MoreChunks DEF BleData
  <2>2. BlePending' = Append(BlePending, wrote + 1)
    BY <1>1, <1>3 DEF BleData, BlePending
  <2>3. /\ \A i \in 1..Len(BlePending) : BlePending[i] < wrote + 1
        /\ \A i \in 1..Len(heard) : heard[i] < wrote + 1
        /\ cut < wrote + 1
    BY DEF BleData, BlePending
  <2>4. Ble!Pipe!Accept
    BY <1>1, <2>2, <2>3 DEF Ble!Pipe!Accept, Ble!Pipe!Newer, BlePending
  <2>5. QED
    BY <2>1, <2>4 DEF Ble!Pipe!Next
<1>4. QED
  BY <1>2, <1>3 DEF Ble!WriteValue

\* send_to_dw taking a chunk from the queue is nothing to KissPipe.
LEMMA BleTakes ==
  ASSUME BleData, Ble!SendGets
  PROVE  BleData' /\ UNCHANGED <<BlePending, heard, cut>>
<1>1. /\ queue # <<>> /\ sending = 0 /\ sending' = Head(queue)
      /\ queue' = Tail(queue) /\ UNCHANGED <<wrote, heard, cut>>
  BY DEF Ble!SendGets
<1>2. /\ Head(queue) \in 1..wrote /\ Head(queue) # 0
      /\ Tail(queue) \in Seq(1..wrote)
  BY <1>1 DEF BleData
<1>3. <<Head(queue)>> \o Tail(queue) = queue
  BY <1>1, HeadTailProperties DEF BleData
<1>4. BlePending = queue
  BY <1>1 DEF BleData, BlePending
<1>5. BlePending' = queue
  <2>1. sending' # 0 /\ BlePending' = <<Head(queue)>> \o Tail(queue)
    BY <1>1, <1>2 DEF BlePending
  <2>2. QED
    BY <2>1, <1>3
<1>6. BleData'
  BY <1>1, <1>2 DEF BleData
<1>7. QED
  BY <1>1, <1>4, <1>5, <1>6

\* The end of sendall(): the chunk is handed over or lost.
LEMMA BleSends ==
  ASSUME BleData, Ble!Sent \/ Ble!SendRaises
  PROVE  BleData' /\ Ble!Pipe!Next
<1>1. /\ sending # 0 /\ sending' = 0 /\ UNCHANGED <<queue, wrote>>
      /\ \/ heard' = heard /\ cut' \in {cut, sending}
         \/ heard' = Append(heard, sending) /\ cut' = 0
  BY DEF Ble!Sent, Ble!SendRaises, Ble!WriteCut
<1>2. BleData'
  <2>1. sending \in 1..wrote
    BY <1>1 DEF BleData
  <2>2. heard' \in Seq(1..wrote)
    <3>1. Append(heard, sending) \in Seq(1..wrote)
      BY <2>1 DEF BleData
    <3>2. QED
      BY <1>1, <3>1 DEF BleData
  <2>3. cut' \in 0..wrote
    BY <1>1, <2>1 DEF BleData
  <2>4. QED
    BY <1>1, <2>2, <2>3 DEF BleData
<1>3. /\ BlePending # <<>> /\ Head(BlePending) = sending
      /\ Tail(BlePending) = queue /\ Len(BlePending) \in Nat \ {0}
      /\ SubSeq(BlePending, 2, Len(BlePending)) = queue
  BY <1>1 DEF BlePending, BleData
<1>4. BlePending' = queue
  BY <1>1 DEF BlePending, BleData
<1>5. CASE heard' = heard /\ cut' \in {cut, sending}
  <2> DEFINE n == Len(BlePending)
  <2>1. 1 \in 1..n /\ SubSeq(BlePending, 1 + 1, n) = queue
    BY <1>3
  <2>2. Ble!Pipe!Lose
    BY <1>3, <1>4, <1>5, <2>1 DEF Ble!Pipe!Lose, BlePending
  <2>3. QED
    BY <1>2, <2>2 DEF Ble!Pipe!Next
<1>6. CASE heard' = Append(heard, sending) /\ cut' = 0
  <2>1. Ble!Pipe!Deliver
    BY <1>3, <1>4, <1>6 DEF Ble!Pipe!Deliver, BlePending
  <2>2. QED
    BY <1>2, <2>1 DEF Ble!Pipe!Next
<1>7. QED
  BY <1>1, <1>5, <1>6

\* The end of the bridge loses all it has.
LEMMA BleEnds ==
  ASSUME BleData, Ble!Exits
  PROVE  BleData' /\ (Ble!Pipe!Next \/ UNCHANGED <<BlePending, heard, cut>>)
<1>1. /\ queue' = <<>> /\ sending' = 0 /\ UNCHANGED <<wrote, heard>>
      /\ cut' = cut \/ (sending # 0 /\ cut' = sending)
  BY DEF Ble!Exits, Ble!WriteCut
<1>2. BleData' /\ BlePending' = <<>>
  BY <1>1 DEF BleData, BlePending
<1>3. CASE BlePending = <<>>
  <2>1. sending = 0
    BY <1>3 DEF BleData, BlePending
  <2>2. QED
    BY <1>1, <1>2, <1>3, <2>1
<1>4. CASE BlePending # <<>>
  <2> DEFINE n == Len(BlePending)
  <2>1. n \in Nat \ {0} /\ SubSeq(BlePending, n + 1, n) = <<>>
    BY <1>4 DEF BleData, BlePending
  <2>2. cut' \in {cut, Head(BlePending)}
    BY <1>1 DEF BleData, BlePending
  <2>3. Ble!Pipe!Lose
    BY <1>1, <1>2, <2>1, <2>2 DEF Ble!Pipe!Lose, BlePending
  <2>4. QED
    BY <1>2, <2>3 DEF Ble!Pipe!Next
<1>5. QED
  BY <1>3, <1>4

\* Every step of the composition keeps BleData, and is one of KissPipe or
\* leaves it alone.
LEMMA BleStepKeeps ==
  ASSUME BleData, [Next]_vars
  PROVE  BleData' /\ [Ble!Pipe!Next]_<<BlePending, heard, cut>>
<1>1. CASE Ble!WriteValue \/ Ble!SendGets \/ Ble!Sent \/ Ble!SendRaises \/ Ble!Exits
  BY <1>1, BleWrites, BleTakes, BleSends, BleEnds
<1>2. CASE UNCHANGED <<queue, sending, wrote, heard, cut>>
  BY <1>2 DEF BleData, BlePending
<1>3. QED
  BY <1>1, <1>2
  DEF Next, DireWolfSeen, vars, bleVars, Ble!Next, Ble!dataVars, Ble!DireWolfEnds,
      Ble!Register, Ble!PhoneConnects, Ble!StartNotify, Ble!StopNotify,
      Ble!PhoneLeaves, Ble!AdvLost, Ble!AdvWatchdog, Ble!DwConnects, Ble!RecvEof

\* Pipes: both bridges implement KissPipe.
THEOREM PipesImplemented == Spec => Pipes
<1>1. Init => Rf!Pipe!Init
  BY DEF Init, Rf!Init, Rf!Pipe!Init
<1>2. Init => BleData /\ Ble!Pipe!Init
  BY BridgeConstants DEF Init, Ble!Init, BleData, Ble!Pipe!Init
<1>3. BleData /\ [Next]_vars => BleData' /\ [Ble!Pipe!Next]_<<BlePending, heard, cut>>
  BY BleStepKeeps
<1>4. RfData /\ SessionInv /\ [Next]_vars
        => [Rf!Pipe!Next]_<<IF rdata = 0 THEN <<>> ELSE <<rdata>>, got, torn>>
  BY RfRefines
<1>5. Spec => Rf!Pipe!Spec
  BY <1>1, <1>4, RfDataInvariant, SessionInvariant, PTL DEF Spec, Rf!Pipe!Spec
<1>6. Spec => Ble!Pipe!Spec
  BY <1>2, <1>3, PTL DEF Spec, Ble!Pipe!Spec, BlePending
<1>7. QED
  BY <1>5, <1>6 DEF Pipes

\* The whole chunks Dire Wolf is handed over RFCOMM are in the order the phone
\* wrote them, each at most once, and a part that a failed sendall() wrote is
\* always of a newer chunk than those: a retry repeats the beginning of its own
\* chunk and no other, and never after the whole.
THEOREM RfcommInOrder ==
  Spec => [](InOrderUpTo(got, written) /\ (torn # 0 => \A i \in 1..Len(got) : got[i] < torn))
<1>1. RfData => /\ InOrderUpTo(got, written)
                /\ torn # 0 => \A i \in 1..Len(got) : got[i] < torn
  BY LaterBound DEF RfData
<1>2. QED
  BY <1>1, RfDataInvariant, PTL

\* What KissPipe promises of its two queues: both are in the order of writing,
\* and what was delivered is older than what is pending.
PipeOrder(p, d) ==
  /\ p \in Seq(Nat) /\ d \in Seq(Nat)
  /\ \A i, j \in 1..Len(p) : i < j => p[i] < p[j]
  /\ \A i, j \in 1..Len(d) : i < j => d[i] < d[j]
  /\ \A i \in 1..Len(d), j \in 1..Len(p) : d[i] < p[j]

\* Each action of KissPipe keeps it: Accept,
LEMMA PipeAccepts ==
  ASSUME NEW p, NEW d, PipeOrder(p, d), NEW c \in Nat,
         \A i \in 1..Len(p) : p[i] < c, \A i \in 1..Len(d) : d[i] < c
  PROVE  PipeOrder(Append(p, c), d)
<1> DEFINE a == Append(p, c)
<1>1. p \in Seq(Nat) /\ d \in Seq(Nat) /\ Len(p) \in Nat
  BY DEF PipeOrder
<1>2. /\ a \in Seq(Nat) /\ Len(a) = Len(p) + 1 /\ a[Len(p) + 1] = c
      /\ \A i \in 1..Len(p) : a[i] = p[i]
  BY <1>1
<1> HIDE DEF a
<1>3. ASSUME NEW i \in 1..Len(a), NEW j \in 1..Len(a), i < j PROVE a[i] < a[j]
  <2>1. i \in 1..Len(p)
    BY <1>1, <1>2, <1>3
  <2>2. CASE j \in 1..Len(p)
    BY <1>2, <1>3, <2>1, <2>2 DEF PipeOrder
  <2>3. CASE j = Len(p) + 1
    BY <1>2, <2>1, <2>3
  <2>4. QED
    BY <1>1, <1>2, <2>2, <2>3
<1>4. ASSUME NEW i \in 1..Len(d), NEW j \in 1..Len(a) PROVE d[i] < a[j]
  <2>1. CASE j \in 1..Len(p)
    BY <1>2, <2>1 DEF PipeOrder
  <2>2. CASE j = Len(p) + 1
    BY <1>2, <2>2
  <2>3. QED
    BY <1>1, <1>2, <2>1, <2>2
<1>5. PipeOrder(a, d)
  BY <1>1, <1>2, <1>3, <1>4 DEF PipeOrder
<1>6. QED
  BY <1>5 DEF a

\* Deliver,
LEMMA PipeDelivers ==
  ASSUME NEW p, NEW d, PipeOrder(p, d), p # <<>>
  PROVE  PipeOrder(Tail(p), Append(d, Head(p)))
<1> DEFINE t == Tail(p)
           a == Append(d, Head(p))
<1>1. /\ p \in Seq(Nat) /\ d \in Seq(Nat) /\ Len(p) > 0
  BY DEF PipeOrder
<1>2. /\ t \in Seq(Nat) /\ Len(t) = Len(p) - 1
      /\ \A i \in 1..Len(t) : t[i] = p[i + 1]
  BY <1>1
<1>3. /\ a \in Seq(Nat) /\ Len(a) = Len(d) + 1 /\ a[Len(d) + 1] = p[1]
      /\ \A i \in 1..Len(d) : a[i] = d[i]
  BY <1>1
<1> HIDE DEF t, a
<1>4. ASSUME NEW i \in 1..Len(t), NEW j \in 1..Len(t), i < j PROVE t[i] < t[j]
  <2>1. i + 1 \in 1..Len(p) /\ j + 1 \in 1..Len(p) /\ i + 1 < j + 1
    BY <1>1, <1>2, <1>4
  <2>2. p[i + 1] < p[j + 1]
    BY <2>1 DEF PipeOrder
  <2>3. QED
    BY <1>2, <2>2
<1>5. ASSUME NEW i \in 1..Len(a), NEW j \in 1..Len(a), i < j PROVE a[i] < a[j]
  <2>1. Len(d) \in Nat /\ 1 \in 1..Len(p)
    BY <1>1
  <2>2. i \in 1..Len(d)
    BY <1>3, <1>5, <2>1
  <2>3. CASE j \in 1..Len(d)
    BY <1>3, <1>5, <2>2, <2>3 DEF PipeOrder
  <2>4. CASE j = Len(d) + 1
    <3>1. d[i] < p[1]
      BY <2>1, <2>2 DEF PipeOrder
    <3>2. QED
      BY <1>3, <2>2, <2>4, <3>1
  <2>5. QED
    BY <1>3, <2>1, <2>3, <2>4
<1>6. ASSUME NEW i \in 1..Len(a), NEW j \in 1..Len(t) PROVE a[i] < t[j]
  <2>1. Len(d) \in Nat /\ 1 \in 1..Len(p) /\ j + 1 \in 1..Len(p) /\ 1 < j + 1
    BY <1>1, <1>2
  <2>2. t[j] = p[j + 1]
    BY <1>2
  <2>3. CASE i \in 1..Len(d)
    <3>1. d[i] < p[j + 1]
      BY <2>1, <2>3 DEF PipeOrder
    <3>2. QED
      BY <1>3, <2>2, <2>3, <3>1
  <2>4. CASE i = Len(d) + 1
    <3>1. p[1] < p[j + 1]
      BY <2>1 DEF PipeOrder
    <3>2. QED
      BY <1>3, <2>2, <2>4, <3>1
  <2>5. QED
    BY <1>3, <2>1, <2>3, <2>4
<1>7. PipeOrder(t, a)
  BY <1>2, <1>3, <1>4, <1>5, <1>6 DEF PipeOrder
<1>8. QED
  BY <1>7 DEF t, a

\* and Lose.
LEMMA PipeLoses ==
  ASSUME NEW p, NEW d, PipeOrder(p, d), NEW k \in 1..Len(p)
  PROVE  PipeOrder(SubSeq(p, k + 1, Len(p)), d)
<1> DEFINE t == SubSeq(p, k + 1, Len(p))
<1>1. p \in Seq(Nat) /\ d \in Seq(Nat) /\ Len(p) \in Nat
  BY DEF PipeOrder
<1>2. /\ t \in Seq(Nat) /\ Len(t) = Len(p) - k
      /\ \A i \in 1..Len(t) : t[i] = p[i + k]
  BY <1>1
<1> HIDE DEF t
<1>3. ASSUME NEW i \in 1..Len(t) PROVE i + k \in 1..Len(p) /\ t[i] = p[i + k]
  BY <1>1, <1>2
<1>4. ASSUME NEW i \in 1..Len(t), NEW j \in 1..Len(t), i < j PROVE t[i] < t[j]
  <2>1. i + k < j + k
    BY <1>4
  <2>2. p[i + k] < p[j + k]
    BY <1>3, <2>1 DEF PipeOrder
  <2>3. QED
    BY <1>3, <2>2
<1>5. ASSUME NEW i \in 1..Len(d), NEW j \in 1..Len(t) PROVE d[i] < t[j]
  BY <1>3 DEF PipeOrder
<1>6. PipeOrder(t, d)
  BY <1>1, <1>2, <1>4, <1>5 DEF PipeOrder
<1>7. QED
  BY <1>6 DEF t

\* A part that was handed over since is of a chunk newer than what was delivered
\* and no newer than what is pending.
PartOrder(p, d, t) ==
  /\ t \in Nat
  /\ t # 0 => \A i \in 1..Len(d) : d[i] < t
  /\ \A j \in 1..Len(p) : t <= p[j]

\* Each action of KissPipe keeps this, too: Accept,
LEMMA PartAccepts ==
  ASSUME NEW p \in Seq(Nat), NEW d, NEW t, PartOrder(p, d, t), NEW c \in Nat, t < c
  PROVE  PartOrder(Append(p, c), d, t)
  BY DEF PartOrder

\* Deliver,
LEMMA PartDelivers ==
  ASSUME NEW p \in Seq(Nat), NEW d, p # <<>>
  PROVE  PartOrder(Tail(p), Append(d, Head(p)), 0)
<1>1. Tail(p) \in Seq(Nat)
  OBVIOUS
<1>2. \A j \in 1..Len(Tail(p)) : Tail(p)[j] \in Nat
  BY <1>1
<1>3. QED
  BY <1>2 DEF PartOrder

\* Lose,
LEMMA PartLoses ==
  ASSUME NEW p, NEW d, NEW t, PipeOrder(p, d), PartOrder(p, d, t),
         NEW k \in 1..Len(p), NEW u \in {t, Head(p)}
  PROVE  PartOrder(SubSeq(p, k + 1, Len(p)), d, u)
<1> DEFINE q == SubSeq(p, k + 1, Len(p))
<1>1. p \in Seq(Nat) /\ d \in Seq(Nat) /\ Len(p) \in Nat /\ 1 \in 1..Len(p) /\ Head(p) = p[1]
  BY DEF PipeOrder
<1>2. Len(q) = Len(p) - k /\ \A i \in 1..Len(q) : q[i] = p[i + k]
  BY <1>1
<1> SUFFICES PartOrder(q, d, u)
  OBVIOUS
<1> HIDE DEF q
<1>3. ASSUME NEW j \in 1..Len(q) PROVE j + k \in 1..Len(p) /\ 1 < j + k /\ q[j] = p[j + k]
  BY <1>1, <1>2
<1>4. CASE u = t
  BY <1>3, <1>4 DEF PartOrder
<1>5. CASE u = p[1]
  <2>1. \A i \in 1..Len(d) : d[i] < p[1]
    BY <1>1 DEF PipeOrder
  <2>2. \A j \in 1..Len(q) : p[1] <= q[j]
    <3>1. ASSUME NEW j \in 1..Len(q) PROVE p[1] <= q[j]
      <4>1. p[1] < p[j + k] /\ p[1] \in Nat /\ p[j + k] \in Nat
        BY <1>1, <1>3 DEF PipeOrder
      <4>2. QED
        BY <1>3, <4>1
    <3>2. QED
      BY <3>1
  <2>3. QED
    BY <1>1, <1>5, <2>1, <2>2 DEF PartOrder
<1>6. QED
  BY <1>1, <1>4, <1>5

\* and Tear.
LEMMA PartTears ==
  ASSUME NEW p, NEW d, PipeOrder(p, d), p # <<>>
  PROVE  PartOrder(p, d, Head(p))
<1>1. p \in Seq(Nat) /\ d \in Seq(Nat) /\ Len(p) \in Nat /\ 1 \in 1..Len(p) /\ Head(p) = p[1]
  BY DEF PipeOrder
<1>2. \A i \in 1..Len(d) : d[i] < p[1]
  BY <1>1 DEF PipeOrder
<1>3. ASSUME NEW j \in 1..Len(p) PROVE p[1] <= p[j]
  <2>1. CASE j = 1
    BY <1>1, <2>1
  <2>2. CASE 1 < j
    BY <1>1, <2>2 DEF PipeOrder
  <2>3. QED
    BY <2>1, <2>2
<1>4. QED
  BY <1>1, <1>2, <1>3 DEF PartOrder

\* The BLE bridge inherits both.
LEMMA BlePipeOrder ==
  ASSUME PipeOrder(BlePending, heard), PartOrder(BlePending, heard, cut),
         Ble!Pipe!Next \/ UNCHANGED <<BlePending, heard, cut>>
  PROVE  PipeOrder(BlePending, heard)' /\ PartOrder(BlePending, heard, cut)'
<1>0. BlePending \in Seq(Nat)
  BY DEF PipeOrder
<1>1. CASE Ble!Pipe!Accept
  <2>1. PICK c \in 1..MaxWrites :
          /\ \A i \in 1..Len(BlePending) : BlePending[i] < c
          /\ \A i \in 1..Len(heard) : heard[i] < c
          /\ cut < c
          /\ BlePending' = Append(BlePending, c) /\ UNCHANGED <<heard, cut>>
    BY <1>1, Zenon DEF Ble!Pipe!Accept, Ble!Pipe!Newer, BlePending
  <2>2. c \in Nat
    OBVIOUS
  <2>3. QED
    BY <1>0, <2>1, <2>2, PipeAccepts, PartAccepts
<1>2. CASE Ble!Pipe!Deliver
  <2>1. /\ BlePending # <<>> /\ heard' = Append(heard, Head(BlePending))
        /\ BlePending' = Tail(BlePending) /\ cut' = 0
    BY <1>2, Zenon DEF Ble!Pipe!Deliver, BlePending
  <2>2. QED
    BY <1>0, <2>1, PipeDelivers, PartDelivers
<1>3. CASE Ble!Pipe!Lose
  <2>1. PICK k \in 1..Len(BlePending) :
          /\ BlePending' = SubSeq(BlePending, k + 1, Len(BlePending)) /\ UNCHANGED heard
          /\ cut' \in {cut, Head(BlePending)}
    BY <1>3, Zenon DEF Ble!Pipe!Lose, BlePending
  <2>2. QED
    BY <2>1, PipeLoses, PartLoses
<1>4. CASE Ble!Pipe!Tear
  <2>1. BlePending # <<>> /\ cut' = Head(BlePending) /\ UNCHANGED <<BlePending, heard>>
    BY <1>4, Zenon DEF Ble!Pipe!Tear, BlePending
  <2>2. QED
    BY <2>1, PartTears
<1>5. CASE UNCHANGED <<BlePending, heard, cut>>
  BY <1>5
<1>6. QED
  BY <1>1, <1>2, <1>3, <1>4, <1>5 DEF Ble!Pipe!Next

\* The whole chunks Dire Wolf is handed over BLE are in the order the phone
\* wrote them, each at most once, and older than all the bridge still has; the
\* part of a chunk whose write failed comes after older chunks and before newer
\* ones.  A full queue, a restarted sender and a failed write lose chunks and
\* reorder or repeat none.
THEOREM BleInOrder ==
  Spec => [](PipeOrder(BlePending, heard) /\ PartOrder(BlePending, heard, cut))
<1> DEFINE I == BleData /\ PipeOrder(BlePending, heard) /\ PartOrder(BlePending, heard, cut)
<1>1. Init => I
  BY BridgeConstants DEF Init, Ble!Init, BleData, BlePending, PipeOrder, PartOrder
<1>2. I /\ [Next]_vars => I'
  <2> SUFFICES ASSUME I, [Next]_vars PROVE I'
    OBVIOUS
  <2>1. BleData' /\ (Ble!Pipe!Next \/ UNCHANGED <<BlePending, heard, cut>>)
    BY BleStepKeeps
  <2>2. QED
    BY <2>1, BlePipeOrder
<1>3. QED
  BY <1>1, <1>2, PTL DEF Spec

(***************************************************************************)
(* The VARA launcher.  That the scripts and handlers go on is fairness and *)
(* stays with TLC; what they owe the TNC in the meantime is safety.        *)
(***************************************************************************)

Scripts == {"idle", "xara", "up", "undo", "packet", "startDw", "restartDw", "ok", "failed"}

Handlers == [at : Vara!Points, session : BOOLEAN, switched : BOOLEAN]

LaunchTypes == tool \in [Vara!Callers -> Scripts] /\ conn \in [Clients -> Handlers]

\* A script that moves leaves the others where they are.
LEMMA ToolMoves ==
  ASSUME LaunchTypes, NEW r \in Vara!Callers, NEW p, NEW q \in Scripts, Vara!At(r, p, q)
  PROVE  /\ tool' \in [Vara!Callers -> Scripts] /\ tool[r] = p /\ tool'[r] = q
         /\ \A s \in Vara!Callers : s # r => tool'[s] = tool[s]
  BY DEF LaunchTypes, Vara!At

\* So does a handler.
LEMMA ConnMoves ==
  ASSUME LaunchTypes, NEW c \in Clients, NEW h \in Handlers, conn' = [conn EXCEPT ![c] = h]
  PROVE  /\ conn' \in [Clients -> Handlers] /\ conn'[c] = h
         /\ \A d \in Clients : d # c => conn'[d] = conn[d]
  BY DEF LaunchTypes

\* Goto() keeps whether there is a session and whether it switched.
LEMMA GotoMoves ==
  ASSUME LaunchTypes, NEW c \in Clients, NEW p \in Vara!Points, Vara!Goto(c, p)
  PROVE  /\ conn' \in [Clients -> Handlers]
         /\ conn'[c].at = p /\ conn'[c].session = conn[c].session
         /\ conn'[c].switched = conn[c].switched
         /\ \A d \in Clients : d # c => conn'[d] = conn[d]
  BY DEF LaunchTypes, Vara!Goto, Handlers

\* A start is granted.
LEMMA GrantMoves ==
  ASSUME LaunchTypes, NEW c \in Clients, NEW p \in Vara!Points,
         conn' = [conn EXCEPT ![c].session = TRUE, ![c].at = p]
  PROVE  /\ conn' \in [Clients -> Handlers]
         /\ conn'[c].at = p /\ conn'[c].session /\ conn'[c].switched = conn[c].switched
         /\ \A d \in Clients : d # c => conn'[d] = conn[d]
  BY DEF LaunchTypes, Handlers

\* switch("xara") has worked.
LEMMA SwitchMoves ==
  ASSUME LaunchTypes, NEW c \in Clients, NEW p \in Vara!Points,
         conn' = [conn EXCEPT ![c].switched = TRUE, ![c].at = p]
  PROVE  /\ conn' \in [Clients -> Handlers]
         /\ conn'[c].at = p /\ conn'[c].switched /\ conn'[c].session = conn[c].session
         /\ \A d \in Clients : d # c => conn'[d] = conn[d]
  BY DEF LaunchTypes, Handlers

\* The types.
LEMMA LaunchStep == ASSUME LaunchTypes, Vara!Next PROVE LaunchTypes'
<1>1. ASSUME NEW r \in Vara!Callers, Vara!ToolStep(r) PROVE LaunchTypes'
  <2>1. \E p \in Scripts, q \in Scripts : Vara!At(r, p, q)
    BY <1>1 DEF Vara!ToolStep, Vara!ToolStartsXara, Vara!ToolSeesXara, Vara!ToolStopsXara,
                Vara!ToolStartsDw, Vara!ToolEnds, Scripts
  <2>2. conn' = conn
    BY <1>1 DEF Vara!ToolStep, Vara!ToolStartsXara, Vara!ToolSeesXara, Vara!ToolStopsXara,
                Vara!ToolStartsDw, Vara!ToolEnds, Vara!launchVars
  <2>3. QED
    BY <2>1, <2>2, ToolMoves DEF LaunchTypes
<1>2. CASE Vara!PageSwitches
  BY <1>2 DEF Vara!PageSwitches, Vara!At, LaunchTypes, Scripts, Vara!Callers
<1>3. CASE Vara!XaraFails \/ Vara!Fallback
  BY <1>3 DEF Vara!XaraFails, Vara!Fallback, Vara!launchVars, LaunchTypes
<1>4. ASSUME NEW c \in Clients,
             Vara!Opens(c) \/ Vara!Start(c) \/ Vara!Leaves(c) \/ Vara!HandlerStep(c)
      PROVE  LaunchTypes'
  <2>1. tool' \in [Vara!Callers -> Scripts]
    <3>1. UNCHANGED tool \/ \E p \in Scripts, q \in Scripts : Vara!At(c, p, q)
      BY <1>4 DEF Vara!Opens, Vara!Start, Vara!Leaves, Vara!HandlerStep, Vara!Switched,
                  Vara!Ready, Vara!Ends, Vara!Returned, Scripts
    <3>2. c \in Vara!Callers
      BY DEF Vara!Callers
    <3>3. QED
      BY <3>1, <3>2, ToolMoves DEF LaunchTypes
  <2>2. \/ \E p \in Vara!Points : Vara!Goto(c, p)
        \/ \E h \in Handlers : conn' = [conn EXCEPT ![c] = h]
        \/ \E p \in Vara!Points : conn' = [conn EXCEPT ![c].session = TRUE, ![c].at = p]
        \/ \E p \in Vara!Points : conn' = [conn EXCEPT ![c].switched = TRUE, ![c].at = p]
    BY <1>4 DEF Vara!Opens, Vara!Start, Vara!Leaves, Vara!HandlerStep, Vara!Switched,
                Vara!Ready, Vara!Ends, Vara!Returned, Vara!Closed, Vara!Points, Handlers
  <2>3. conn' \in [Clients -> Handlers]
    BY <2>2, GotoMoves, ConnMoves, GrantMoves, SwitchMoves
  <2>4. QED
    BY <2>1, <2>3 DEF LaunchTypes
<1>5. QED
  BY <1>1, <1>2, <1>3, <1>4 DEF Vara!Next

\* The TNC is without a modem only while a script is on its way to start one
\* or to find out whether it has, or Xara's OnFailure unit is yet to run.
ModemOwed ==
  launcher /\ ~dw /\ ~xara =>
    failed \/ \E r \in Vara!Callers : tool[r] \in {"up", "undo", "startDw", "restartDw"}

\* No step of the launcher, the page, a script or systemd leaves it so.
LEMMA ModemStep == ASSUME LaunchTypes, ModemOwed, launcher, Vara!Next PROVE ModemOwed'
<1> USE DEF ModemOwed
<1> DEFINE Owing == {"up", "undo", "startDw", "restartDw"}
<1>1. ASSUME NEW r \in Vara!Callers, NEW p \in Scripts \ Owing, NEW q \in Scripts,
             Vara!At(r, p, q), UNCHANGED <<dw, xara, failed>>
      PROVE  ModemOwed'
  BY <1>1, ToolMoves
<1>2. ASSUME NEW r \in Vara!Callers, NEW p, NEW q \in Owing, Vara!At(r, p, q) PROVE ModemOwed'
  <2>1. q \in Scripts
    BY DEF Scripts
  <2>2. tool'[r] = q
    BY <1>2, <2>1, ToolMoves
  <2>3. QED
    BY <2>2
<1>3. CASE dw' \/ xara' \/ failed'
  BY <1>3
<1>4. CASE UNCHANGED <<dw, xara, failed, tool>>
  BY <1>4
<1>5. ASSUME NEW r \in Vara!Callers, Vara!ToolStep(r) PROVE ModemOwed'
  <2>1. CASE Vara!ToolStartsXara(r)
    BY <2>1, <1>2 DEF Vara!ToolStartsXara
  <2>2. CASE Vara!ToolSeesXara(r)
    BY <2>2, <1>2, <1>3 DEF Vara!ToolSeesXara
  <2>3. CASE Vara!ToolStopsXara(r)
    BY <2>3, <1>2 DEF Vara!ToolStopsXara
  <2>4. CASE Vara!ToolStartsDw(r)
    BY <2>4, <1>3 DEF Vara!ToolStartsDw, Vara!DireWolfOnly
  <2>5. CASE Vara!ToolEnds(r)
    BY <2>5, <1>1 DEF Vara!ToolEnds, Scripts
  <2>6. QED
    BY <1>5, <2>1, <2>2, <2>3, <2>4, <2>5 DEF Vara!ToolStep
<1>6. CASE Vara!XaraFails \/ Vara!Fallback
  BY <1>6, <1>3 DEF Vara!XaraFails, Vara!Fallback, Vara!DireWolfOnly
<1>7. CASE Vara!PageSwitches
  <2>1. Page \in Vara!Callers
    BY DEF Vara!Callers
  <2>2. QED
    BY <1>7, <2>1, <1>1 DEF Vara!PageSwitches, Scripts
<1>8. ASSUME NEW c \in Clients,
             Vara!Opens(c) \/ Vara!Start(c) \/ Vara!Leaves(c) \/ Vara!HandlerStep(c)
      PROVE  ModemOwed'
  <2>1. c \in Vara!Callers
    BY DEF Vara!Callers
  <2>2. UNCHANGED <<dw, xara, failed>>
    BY <1>8 DEF Vara!Opens, Vara!Start, Vara!Leaves, Vara!HandlerStep, Vara!Switched,
                Vara!Ready, Vara!Ends, Vara!Returned
  <2>3. UNCHANGED tool \/ \E p \in Scripts \ Owing, q \in Scripts : Vara!At(c, p, q)
    BY <1>8 DEF Vara!Opens, Vara!Start, Vara!Leaves, Vara!HandlerStep, Vara!Switched,
                Vara!Ready, Vara!Ends, Vara!Returned, Scripts
  <2>4. QED
    BY <2>1, <2>2, <2>3, <1>1, <1>4
<1>9. QED
  BY <1>5, <1>6, <1>7, <1>8 DEF Vara!Next

\* A connection has the session: until its finally clause gives it up.
Granted(c) == conn[c].session /\ conn[c].at # "back"

\* busy is that of the one connection that has it.
OneGranted ==
  /\ \A c \in Clients : Granted(c) => busy
  /\ \A c, d \in Clients : Granted(c) /\ Granted(d) => c = d

\* A script about to start Xara is the operator's choice, or that of a start
\* command that waits for it.
ScriptOwned ==
  /\ tool[Page] = "xara" => chosen = "xara"
  /\ \A c \in Clients :
       ~late /\ tool[c] = "xara" => conn[c].at = "switch" /\ conn[c].session

\* A connection that has switched, or may have, and will switch back.
Owes(c) ==
  Granted(c) /\ (conn[c].switched \/ (conn[c].at = "switch" /\ tool[c] # "failed"))

\* Xara runs for the operator, for a session that owes the way back, or until
\* a script under way stops it.
XaraOwed ==
  xara /\ ~late =>
    \/ chosen = "xara"
    \/ \E r \in Vara!Callers : tool[r] = "packet"
    \/ \E c \in Clients : Owes(c)

LaunchInv == LaunchTypes /\ OneGranted /\ ScriptOwned /\ XaraOwed

\* What one handler does concerns no other.
LEMMA HandlerAlone ==
  ASSUME LaunchTypes, NEW c \in Clients,
         Vara!Opens(c) \/ Vara!Start(c) \/ Vara!Leaves(c) \/ Vara!HandlerStep(c)
  PROVE  /\ \A d \in Clients : d # c => conn'[d] = conn[d]
         /\ \A s \in Vara!Callers : s # c => tool'[s] = tool[s]
         /\ UNCHANGED <<xara, chosen>>
<1>1. UNCHANGED <<xara, chosen>>
  BY DEF Vara!Opens, Vara!Start, Vara!Leaves, Vara!HandlerStep, Vara!Switched, Vara!Ready,
         Vara!Ends, Vara!Returned
<1>2. UNCHANGED tool \/ \E p, q \in Scripts : Vara!At(c, p, q)
  BY DEF Vara!Opens, Vara!Start, Vara!Leaves, Vara!HandlerStep, Vara!Switched, Vara!Ready,
         Vara!Ends, Vara!Returned, Scripts
<1>3. \A d \in Clients : d # c => conn'[d] = conn[d]
  BY DEF Vara!Opens, Vara!Start, Vara!Leaves, Vara!HandlerStep, Vara!Switched, Vara!Ready,
         Vara!Ends, Vara!Returned, Vara!Goto, LaunchTypes
<1>4. c \in Vara!Callers
  BY DEF Vara!Callers
<1>5. QED
  BY <1>1, <1>2, <1>3, <1>4, ToolMoves

\* What each step of a handler does to its connection and its script.
LEMMA HandlerMoves ==
  ASSUME LaunchTypes, NEW c \in Clients,
         Vara!Opens(c) \/ Vara!Start(c) \/ Vara!Leaves(c) \/ Vara!HandlerStep(c)
  PROVE  \/ /\ conn[c].at \in {"closed", "read", "ready"} /\ conn'[c].at \in {"read", "end"}
            /\ conn'[c].session = conn[c].session /\ conn'[c].switched = conn[c].switched
            /\ tool'[c] = tool[c] /\ UNCHANGED <<busy, late>>
         \/ /\ conn[c].at = "read" /\ ~conn[c].session /\ ~busy
            /\ conn'[c].session /\ conn'[c].at # "back" /\ busy'
            /\ \/ tool'[c] = "xara" /\ conn'[c].at = "switch"
               \/ tool'[c] = tool[c]
            /\ tool[c] # "packet" \/ tool'[c] = tool[c]
            /\ UNCHANGED late
         \/ /\ conn[c].at = "switch" /\ conn'[c].at \in {"ready", "end"}
            /\ conn'[c].session = conn[c].session /\ UNCHANGED busy
            /\ \/ /\ tool[c] \in {"ok", "failed"} /\ tool'[c] = "idle" /\ (late => late')
                  /\ conn[c].switched \/ tool[c] = "ok" => conn'[c].switched
               \/ late' /\ tool'[c] = tool[c]
         \/ /\ conn[c].at = "end" /\ busy' = (busy /\ ~conn[c].session) /\ UNCHANGED late
            /\ \/ conn'[c].at = "back" /\ tool[c] = "idle" /\ tool'[c] = "packet"
               \/ ~conn[c].switched /\ ~conn'[c].session /\ tool'[c] = tool[c]
         \/ /\ conn[c].at = "back" /\ ~conn'[c].session /\ tool'[c] = tool[c]
            /\ UNCHANGED <<busy, late>>
<1>0. c \in Vara!Callers /\ Vara!Closed \in Handlers
  BY DEF Vara!Callers, Vara!Closed, Handlers, Vara!Points
<1>1. CASE Vara!Opens(c) \/ Vara!Leaves(c) \/ Vara!Ready(c)
  <2>1. Vara!Goto(c, "read") \/ Vara!Goto(c, "end")
    BY <1>1 DEF Vara!Opens, Vara!Leaves, Vara!Ready
  <2>2. /\ conn'[c].at \in {"read", "end"}
        /\ conn'[c].session = conn[c].session /\ conn'[c].switched = conn[c].switched
    BY <2>1, GotoMoves DEF Vara!Points
  <2>3. QED
    BY <1>1, <2>2 DEF Vara!Opens, Vara!Leaves, Vara!Ready
<1>2. CASE Vara!Start(c)
  <2>1. \E p \in {"ready", "switch", "end"} :
          /\ conn' = [conn EXCEPT ![c].session = TRUE, ![c].at = p]
          /\ UNCHANGED tool \/ (p = "switch" /\ Vara!At(c, "idle", "xara"))
    BY <1>2 DEF Vara!Start
  <2>2. PICK p \in {"ready", "switch", "end"} :
          /\ conn'[c].session /\ conn'[c].at = p
          /\ tool' = tool \/ (p = "switch" /\ tool[c] = "idle" /\ tool'[c] = "xara")
    BY <1>0, <2>1, GrantMoves, ToolMoves DEF Vara!Points, Scripts
  <2>3. /\ conn[c].at = "read" /\ ~conn[c].session /\ ~busy /\ busy' /\ UNCHANGED late
    BY <1>2 DEF Vara!Start
  <2>4. QED
    BY <2>2, <2>3
<1>3. CASE Vara!Switched(c)
  <2>1. CASE /\ Vara!At(c, "ok", "idle")
             /\ conn' = [conn EXCEPT ![c].switched = TRUE, ![c].at = "ready"]
    <3>1. /\ conn'[c].at = "ready" /\ conn'[c].switched /\ conn'[c].session = conn[c].session
      BY <2>1, SwitchMoves DEF Vara!Points
    <3>2. tool[c] = "ok" /\ tool'[c] = "idle"
      BY <1>0, <2>1, ToolMoves DEF Scripts
    <3>3. conn[c].at = "switch" /\ UNCHANGED busy
      BY <1>3 DEF Vara!Switched
    <3>4. late => late'
      BY <1>3 DEF Vara!Switched
    <3>5. QED
      BY <3>1, <3>2, <3>3, <3>4
  <2>2. CASE Vara!At(c, "failed", "idle") /\ Vara!Goto(c, "end")
    <3>1. /\ conn'[c].at = "end" /\ conn'[c].session = conn[c].session
          /\ conn'[c].switched = conn[c].switched
      BY <2>2, GotoMoves DEF Vara!Points
    <3>2. tool[c] = "failed" /\ tool'[c] = "idle"
      BY <1>0, <2>2, ToolMoves DEF Scripts
    <3>3. conn[c].at = "switch" /\ UNCHANGED busy
      BY <1>3 DEF Vara!Switched
    <3>4. late => late'
      BY <1>3 DEF Vara!Switched
    <3>5. QED
      BY <3>1, <3>2, <3>3, <3>4
  <2>3. CASE tool[c] \notin {"ok", "failed"} /\ Vara!Goto(c, "end") /\ UNCHANGED tool
    <3>1. conn'[c].at = "end" /\ conn'[c].session = conn[c].session
      BY <2>3, GotoMoves DEF Vara!Points
    <3>2. conn[c].at = "switch" /\ UNCHANGED busy /\ late'
      BY <1>3, <2>3 DEF Vara!Switched
    <3>3. QED
      BY <2>3, <3>1, <3>2
  <2>4. QED
    BY <1>3, <2>1, <2>2, <2>3 DEF Vara!Switched
<1>4. CASE Vara!Ends(c)
  <2>1. conn[c].at = "end" /\ busy' = (busy /\ ~conn[c].session) /\ UNCHANGED late
    BY <1>4 DEF Vara!Ends
  <2>2. CASE Vara!Goto(c, "back") /\ Vara!At(c, "idle", "packet")
    <3>1. conn'[c].at = "back"
      BY <2>2, GotoMoves DEF Vara!Points
    <3>2. tool[c] = "idle" /\ tool'[c] = "packet"
      BY <1>0, <2>2, ToolMoves DEF Scripts
    <3>3. QED
      BY <2>1, <3>1, <3>2
  <2>3. CASE ~conn[c].switched /\ conn' = [conn EXCEPT ![c] = Vara!Closed] /\ UNCHANGED tool
    <3>1. ~conn'[c].session
      BY <1>0, <2>3, ConnMoves DEF Vara!Closed
    <3>2. QED
      BY <2>1, <2>3, <3>1
  <2>4. QED
    BY <1>4, <2>2, <2>3 DEF Vara!Ends, Vara!SwitchBack
<1>5. CASE Vara!Returned(c)
  <2>1. ~conn'[c].session
    BY <1>0, <1>5, ConnMoves DEF Vara!Returned, Vara!Closed
  <2>2. QED
    BY <1>5, <2>1 DEF Vara!Returned
<1>6. QED
  BY <1>1, <1>2, <1>3, <1>4, <1>5 DEF Vara!HandlerStep

\* The handlers keep what is owed.
LEMMA HandlerKeeps ==
  ASSUME LaunchInv, NEW c \in Clients,
         Vara!Opens(c) \/ Vara!Start(c) \/ Vara!Leaves(c) \/ Vara!HandlerStep(c)
  PROVE  OneGranted' /\ ScriptOwned' /\ XaraOwed'
<1>0. /\ \A d \in Clients : d # c => conn'[d] = conn[d]
      /\ \A s \in Vara!Callers : s # c => tool'[s] = tool[s]
      /\ UNCHANGED <<xara, chosen>>
  BY HandlerAlone DEF LaunchInv
<1>1. \A d \in Clients : d # c =>
        (Granted(d)' <=> Granted(d)) /\ (Owes(d)' <=> Owes(d)) /\ tool'[d] = tool[d]
  BY <1>0 DEF Granted, Owes, Vara!Callers
<1>2. c \in Vara!Callers /\ Page \in Vara!Callers /\ Page # c
  BY BridgeConstants DEF Vara!Callers
<1> HIDE DEF LaunchInv
<1>3. OneGranted'
  <2>1. CASE busy' = (busy /\ ~conn[c].session) /\ conn[c].at = "end" /\ ~Granted(c)'
    BY <1>1, <2>1 DEF OneGranted, LaunchInv, Granted
  <2>2. CASE ~busy /\ busy'
    BY <1>1, <2>2 DEF OneGranted, LaunchInv
  <2>3. CASE busy' = busy /\ (Granted(c)' => Granted(c))
    BY <1>1, <2>3 DEF OneGranted, LaunchInv
  <2>4. QED
    BY <2>1, <2>2, <2>3, HandlerMoves DEF Granted, LaunchInv
<1>4. ScriptOwned'
  <2>1. tool'[Page] = "xara" => chosen' = "xara"
    BY <1>0, <1>2 DEF ScriptOwned, LaunchInv
  <2>2. late => late'
    BY HandlerMoves DEF LaunchInv
  <2>3. ~late' /\ tool'[c] = "xara" => conn'[c].at = "switch" /\ conn'[c].session
    BY <2>2, HandlerMoves DEF ScriptOwned, LaunchInv
  <2>4. QED
    BY <1>0, <1>1, <2>1, <2>2, <2>3 DEF ScriptOwned, LaunchInv
<1>5. XaraOwed'
  <2>1. SUFFICES ASSUME xara, ~late', chosen # "xara"
        PROVE  (\E r \in Vara!Callers : tool'[r] = "packet") \/ \E d \in Clients : Owes(d)'
    BY <1>0 DEF XaraOwed
  <2>2. ~late
    BY <2>1, HandlerMoves DEF LaunchInv
  <2>3. CASE \E r \in Vara!Callers : tool[r] = "packet"
    <3>1. tool[c] = "packet" => tool'[c] = "packet"
      BY HandlerMoves DEF LaunchInv
    <3>2. QED
      BY <1>0, <2>3, <3>1
  <2>4. CASE \E d \in Clients : Owes(d)
    <3>1. Owes(c) => Owes(c)' \/ tool'[c] = "packet"
      BY <2>1, HandlerMoves DEF Owes, Granted, LaunchInv
    <3>2. QED
      BY <1>1, <1>2, <2>4, <3>1
  <2>5. QED
    BY <2>1, <2>2, <2>3, <2>4 DEF XaraOwed, LaunchInv
<1>6. QED
  BY <1>3, <1>4, <1>5

\* So do the scripts.
LEMMA ScriptKeeps ==
  ASSUME LaunchInv, NEW r \in Vara!Callers, Vara!ToolStep(r)
  PROVE  OneGranted' /\ ScriptOwned' /\ XaraOwed'
<1>1. UNCHANGED <<conn, busy, late, chosen>>
  BY DEF Vara!ToolStep, Vara!ToolStartsXara, Vara!ToolSeesXara, Vara!ToolStopsXara,
         Vara!ToolStartsDw, Vara!ToolEnds, Vara!launchVars
<1>2. PICK p \in Scripts, q \in Scripts \ {"xara", "packet"} : Vara!At(r, p, q)
  BY DEF Vara!ToolStep, Vara!ToolStartsXara, Vara!ToolSeesXara, Vara!ToolStopsXara,
         Vara!ToolStartsDw, Vara!ToolEnds, Scripts
<1>3. /\ tool[r] = p /\ tool'[r] = q
      /\ \A s \in Vara!Callers : s # r => tool'[s] = tool[s]
  BY <1>2, ToolMoves DEF LaunchInv
<1>4. OneGranted'
  BY <1>1 DEF OneGranted, Granted, LaunchInv
<1>5. ScriptOwned'
  BY <1>1, <1>3 DEF ScriptOwned, LaunchInv, Vara!Callers
<1>6. XaraOwed'
  <2>1. CASE Vara!ToolStartsXara(r)
    <3>1. tool[r] = "xara" /\ tool'[r] # "failed"
      BY <1>3, <2>1, ToolMoves DEF Vara!ToolStartsXara, LaunchInv, Scripts
    <3>2. CASE r = Page
      BY <1>1, <3>1, <3>2 DEF XaraOwed, LaunchInv, ScriptOwned
    <3>3. CASE r \in Clients
      BY <1>1, <3>1, <3>3 DEF XaraOwed, LaunchInv, ScriptOwned, Owes, Granted
    <3>4. QED
      BY <3>2, <3>3 DEF Vara!Callers
  <2>2. CASE Vara!ToolSeesXara(r) \/ Vara!ToolEnds(r)
    <3>1. xara' = xara /\ tool[r] # "packet" /\ tool'[r] # "failed"
      BY <1>3, <2>2, ToolMoves
      DEF Vara!ToolSeesXara, Vara!ToolEnds, Vara!At, LaunchInv, LaunchTypes
    <3>2. \A c \in Clients : Owes(c) => Owes(c)'
      BY <1>1, <1>3, <3>1 DEF Owes, Granted, Vara!Callers
    <3>3. QED
      BY <1>1, <1>3, <3>1, <3>2 DEF XaraOwed, LaunchInv
  <2>3. CASE Vara!ToolStopsXara(r) \/ Vara!ToolStartsDw(r)
    BY <2>3 DEF Vara!ToolStopsXara, Vara!ToolStartsDw, Vara!DireWolfOnly, XaraOwed
  <2>4. QED
    BY <2>1, <2>2, <2>3 DEF Vara!ToolStep
<1>7. QED
  BY <1>4, <1>5, <1>6

\* And the page and systemd.
LEMMA LaunchKeeps == ASSUME LaunchInv, Vara!Next PROVE LaunchInv'
<1>1. LaunchTypes'
  BY LaunchStep DEF LaunchInv
<1>2. CASE Vara!XaraFails \/ Vara!Fallback
  BY <1>1, <1>2 DEF Vara!XaraFails, Vara!Fallback, Vara!DireWolfOnly, Vara!launchVars,
                    LaunchInv, OneGranted, Granted, ScriptOwned, XaraOwed
<1>3. CASE Vara!PageSwitches
  <2>1. Page \in Vara!Callers /\ \A c \in Clients : c \in Vara!Callers /\ c # Page
    BY BridgeConstants DEF Vara!Callers
  <2>2. PICK m \in {"xara", "packet"} : chosen' = m /\ Vara!At(Page, "idle", m)
    BY <1>3 DEF Vara!PageSwitches
  <2>3. tool'[Page] = m /\ \A s \in Vara!Callers : s # Page => tool'[s] = tool[s]
    BY <2>1, <2>2, ToolMoves DEF LaunchInv, Scripts
  <2>4. UNCHANGED <<xara, busy, conn, late>>
    BY <1>3 DEF Vara!PageSwitches
  <2>5. OneGranted' /\ ScriptOwned'
    BY <2>1, <2>2, <2>3, <2>4 DEF LaunchInv, OneGranted, Granted, ScriptOwned
  <2>6. XaraOwed'
    BY <2>1, <2>2, <2>3 DEF XaraOwed
  <2>7. QED
    BY <1>1, <2>5, <2>6 DEF LaunchInv
<1>4. QED
  BY <1>1, <1>2, <1>3, HandlerKeeps, ScriptKeeps DEF Vara!Next, LaunchInv

\* The bridges leave the launcher and Dire Wolf alone.
LEMMA BridgesApart ==
  ASSUME [Next]_vars
  PROVE  \/ launcher /\ Vara!Next /\ UNCHANGED launcher
         \/ ~launcher /\ UNCHANGED <<varaVars, launcher>>
         \/ UNCHANGED <<dw, varaVars, launcher>>
<1>1. CASE Rf!Next /\ UNCHANGED <<bleVars, varaVars, launcher>>
  <2>1. UNCHANGED dw
    BY <1>1 DEF Rf!Next, Rf!ClientLeaves, Rf!Accept, Rf!SigTerm, Rf!MainStep, Rf!R2dData,
                Rf!R2dStep, Rf!D2rStep, Rf!FirstConnect, Rf!ConnectGivesUp, Rf!Join, Rf!Ends,
                Rf!R2dPicks, Rf!R2dSent, Rf!R2dRetries, Rf!R2dEnds, Rf!D2rTop, Rf!D2rPasses,
                Rf!D2rEof, Rf!D2rCloses, Rf!D2rClears, Rf!D2rReconnects, Rf!D2rGivesUp,
                Rf!D2rStores
  <2>2. QED
    BY <1>1, <2>1
<1>2. CASE Ble!Next /\ UNCHANGED <<rfVars, varaVars, launcher>>
  <2>1. UNCHANGED dw
    BY <1>2 DEF Ble!Next, Ble!Register, Ble!PhoneConnects, Ble!StartNotify, Ble!StopNotify,
                Ble!PhoneLeaves, Ble!AdvLost, Ble!AdvWatchdog, Ble!WriteValue, Ble!DwConnects,
                Ble!RecvEof, Ble!SendGets, Ble!Sent, Ble!SendRaises, Ble!Exits
  <2>2. QED
    BY <1>2, <2>1
<1>3. CASE UNCHANGED vars
  BY <1>3 DEF vars
<1>4. QED
  BY <1>1, <1>2, <1>3 DEF Next, DireWolfRestarts

\* Never without a modem: whatever switches of the page and of the launcher,
\* failed starts, failures of Xara and timeouts cross each other, a TNC with
\* neither modem has a script under way, or the fallback, that starts one.
\* This is the safety that ModemReturns rests on.
THEOREM ModemIsOwed == Spec => []ModemOwed
<1> DEFINE I == LaunchTypes /\ ModemOwed
<1>1. Init => I
  BY DEF Init, Vara!Init, Vara!Closed, Vara!Points, LaunchTypes, Handlers, Scripts, ModemOwed
<1>2. I /\ [Next]_vars => I'
  <2> SUFFICES ASSUME I, [Next]_vars PROVE I'
    OBVIOUS
  <2>1. CASE launcher /\ Vara!Next
    BY <2>1, LaunchStep, ModemStep
  <2>2. CASE (~launcher \/ UNCHANGED dw) /\ UNCHANGED <<varaVars, launcher>>
    BY <2>2 DEF varaVars, LaunchTypes, ModemOwed
  <2>3. QED
    BY <2>1, <2>2, BridgesApart
<1>3. QED
  BY <1>1, <1>2, PTL DEF Spec

\* After the last VARA session: when Xara is on although no connection has a
\* session and the operator's choice is packet, a script under way stops it,
\* unless a script was forgotten after its 120 s.  This is the safety that
\* BackToPacket rests on.
PacketOwed ==
  xara /\ ~busy /\ chosen = "packet" /\ ~late => \E r \in Vara!Callers : tool[r] = "packet"

\* PacketOwed holds in every reachable state.
THEOREM PacketIsOwed == Spec => []PacketOwed
<1>1. Init => LaunchInv
  <2>1. Init => LaunchTypes
    BY DEF Init, Vara!Init, Vara!Closed, Vara!Points, LaunchTypes, Handlers, Scripts
  <2>2. Init => OneGranted /\ ScriptOwned /\ XaraOwed
    BY DEF Init, Vara!Init, Vara!Closed, Vara!Callers, OneGranted, Granted, ScriptOwned,
           XaraOwed
  <2>3. QED
    BY <2>1, <2>2 DEF LaunchInv
<1>2. LaunchInv /\ [Next]_vars => LaunchInv'
  <2> SUFFICES ASSUME LaunchInv, [Next]_vars PROVE LaunchInv'
    OBVIOUS
  <2>1. CASE Vara!Next
    BY <2>1, LaunchKeeps
  <2>2. CASE UNCHANGED varaVars
    BY <2>2 DEF varaVars, LaunchInv, LaunchTypes, OneGranted, Granted, ScriptOwned, XaraOwed,
                Owes
  <2>3. QED
    BY <2>1, <2>2, BridgesApart
<1>3. LaunchInv => PacketOwed
  BY DEF LaunchInv, OneGranted, XaraOwed, Owes, PacketOwed
<1>4. QED
  BY <1>1, <1>2, <1>3, PTL DEF Spec
=============================================================================
