------------------------------- MODULE RfLink -------------------------------
(***************************************************************************)
(* The AX.25 link of an outbound RF delivery: AX25Stream of                *)
(* src/web/rfsend.py, which calls a remote RMS, sends it numbered chunks   *)
(* with go-back-N retransmission and closes the link, against the RMS side *)
(* of the same protocol as src/rms/gateway.py implements it in handle().   *)
(*                                                                         *)
(* The two radios are FIFO channels that lose frames.  A timeout of        *)
(* _read_frame may happen at any time a frame is awaited, since at 1200    *)
(* baud an answer is often still on its way.  Losing a frame also stands   *)
(* for the frames _read_frame drops, which follow another in one KISS      *)
(* read.  Faults says whether a frame may be heard once more through a     *)
(* digipeater ("echo"), whether the RMS may end the session ("drop"), and  *)
(* whether it talks to other stations meanwhile ("others"): _read_frame    *)
(* looks at the source of a frame and not at its destination.              *)
(***************************************************************************)
EXTENDS Integers, Sequences, FiniteSets

CONSTANTS
  Modulus,    \* sequence numbers are modulo this; WINDOW = Modulus - 1 (8, 7)
  Retries,    \* connect_retries (3)
  Total,      \* bound: chunks handed to send() in one behaviour
  RevTotal,   \* bound: chunks the RMS sends back
  ChanMax,    \* bound: frames in flight in one direction
  Faults      \* what else may go wrong: "echo", "drop", "others"

ASSUME RfLinkConstants ==
  /\ Modulus \in Nat /\ Modulus > 1
  /\ Retries \in Nat \ {0}
  /\ Total \in Nat /\ RevTotal \in Nat /\ ChanMax \in Nat
  /\ Faults \subseteq {"echo", "drop", "others"}

VARIABLES
  pc,         \* where the caller of the stream is
  attempt,    \* SABMs sent by connect()
  tries,      \* retransmissions counted by _drain_window(), else 0
  vs, va, vr, \* self.vs, self.va, self.vr
  unacked,    \* self._unacked: N(S) -> chunk, 0 for no entry
  left,       \* chunks of the current send() still to be transmitted
  nsent,      \* chunks transmitted so far: chunk k is the k-th
  rxbuf,      \* self._rxbuf: chunks received from the RMS
  result,     \* "none" so far, "ok" or "error" once the delivery is over
  toRms,      \* frames on the air to the RMS
  toUs,       \* frames on the air from the RMS
  plink,      \* the RMS has a LinkState for us
  pvr, pva,   \* its vr and va
  pvs,        \* how many chunks it has sent back in this session, its vs going round
  delivered,  \* the chunks the RMS has passed on in this session, in order
  echoed,     \* history: a digipeater has repeated a frame
  recalled,   \* history: the RMS began anew when chunks had gone either way
  misled      \* history: an RR or I frame to another station was processed

airVars == <<echoed, recalled, misled>>
rmsVars == <<plink, pvr, pva, pvs, delivered, airVars>>
linkVars == <<vs, va, vr, unacked, rxbuf>>
vars == <<pc, attempt, tries, linkVars, left, nsent, result, toRms, toUs, rmsVars>>

Seqs == 0 .. Modulus - 1

\* (n + 1) & 7
NextSeq(n) == (n + 1) % Modulus

Sabm == [t |-> "SABM"]
Disc == [t |-> "DISC"]
Ua == [t |-> "UA"]
Dm == [t |-> "DM"]
Rr(n, poll) == [t |-> "RR", nr |-> n, pf |-> poll]
I(n, r, chunk) == [t |-> "I", ns |-> n, nr |-> r, data |-> chunk]

Init ==
  /\ pc = "start" /\ attempt = 0 /\ tries = 0
  /\ vs = 0 /\ va = 0 /\ vr = 0
  /\ unacked = [n \in Seqs |-> 0]
  /\ left = 0 /\ nsent = 0 /\ rxbuf = <<>> /\ result = "none"
  /\ toRms = <<>> /\ toUs = <<>>
  /\ plink = FALSE /\ pvr = 0 /\ pva = 0 /\ pvs = 0 /\ delivered = <<>>
  /\ echoed = FALSE /\ recalled = FALSE /\ misled = FALSE

\* Frames put on the air; those that find the channel full are lost.
OnAir(chan, frames) ==
  SubSeq(chan \o frames, 1, IF Len(chan) + Len(frames) < ChanMax
                            THEN Len(chan) + Len(frames) ELSE ChanMax)

Append1(chan, frame) == OnAir(chan, <<frame>>)

\* _tx()
Transmit(frames) == toRms' = OnAir(toRms, frames)

\* _read_frame() returns a frame the RMS sent to us.
Heard == Len(toUs) > 0 /\ toUs' = Tail(toUs)

-----------------------------------------------------------------------------
(* connect()                                                               *)

\* The next round of connect()'s loop, or RfError after the last one.
SabmRound ==
  \/ /\ attempt < Retries
     /\ Transmit(<<Sabm>>)
     /\ attempt' = attempt + 1 /\ pc' = "sabm"
     /\ UNCHANGED result
  \/ /\ attempt = Retries
     /\ pc' = "close" /\ result' = "error"
     /\ UNCHANGED <<attempt, toRms>>

Connect ==
  /\ pc = "start"
  /\ SabmRound
  /\ UNCHANGED <<tries, linkVars, left, nsent, toUs, rmsVars>>

ConnectTimeout ==
  /\ pc = "sabm"
  /\ SabmRound
  /\ UNCHANGED <<tries, linkVars, left, nsent, toUs, rmsVars>>

\* UA: connected.  DM: refused.  Any other frame uses up the attempt.
Answered(f) ==
  /\ pc = "sabm"
  /\ \/ /\ f = Ua
        /\ pc' = "ready" /\ vs' = 0 /\ va' = 0 /\ vr' = 0
        /\ UNCHANGED <<attempt, result, toRms>>
     \/ /\ f = Dm
        /\ pc' = "close" /\ result' = "error"
        /\ UNCHANGED <<attempt, vs, va, vr, toRms>>
     \/ /\ f.t \in {"RR", "I"}
        /\ SabmRound
        /\ UNCHANGED <<vs, va, vr>>
  /\ UNCHANGED <<tries, unacked, rxbuf, left, nsent>>

ConnectReply == Heard /\ Answered(Head(toUs)) /\ UNCHANGED rmsVars

-----------------------------------------------------------------------------
(* send() and the receive path                                             *)

\* Faulty variant of WindowFull: any number of frames may be outstanding.
WindowFullLate == FALSE

\* ((self.vs - self.va) & 7) >= WINDOW
WindowFull == (vs - va) % Modulus >= Modulus - 1

\* The caller hands over n chunks.
Send ==
  /\ pc = "ready"
  /\ \E n \in 1 .. Total - nsent : left' = n
  /\ pc' = "chunk"
  /\ UNCHANGED <<attempt, tries, linkVars, nsent, result, toRms, toUs, rmsVars>>

\* _send_chunk() once the window is open; after the last chunk of this
\* send(), _drain_window() starts.
SendChunk ==
  /\ pc = "chunk" /\ ~WindowFull
  /\ Transmit(<<I(vs, vr, nsent + 1)>>)
  /\ unacked' = [unacked EXCEPT ![vs] = nsent + 1]
  /\ vs' = NextSeq(vs)
  /\ nsent' = nsent + 1 /\ left' = left - 1
  /\ pc' = IF left = 1 THEN "drain" ELSE "chunk"
  /\ UNCHANGED <<attempt, tries, va, vr, rxbuf, result, toUs, rmsVars>>

\* The sequence numbers from a up to, not including, b, going round.
Ring(a, b) == {(a + i) % Modulus : i \in 0 .. ((b - a) % Modulus) - 1}

\* Faulty variant of AckUpto: entries are dropped one too early.
AckUptoInclusive(nr) ==
  /\ va' = nr
  /\ unacked' = [n \in Seqs |-> IF n \in Ring(va, nr) \cup {nr} THEN 0 ELSE unacked[n]]

\* _ack_upto(peer_nr): walks va round the ring until it meets peer_nr.
AckUpto(nr) ==
  /\ va' = nr
  /\ unacked' = [n \in Seqs |-> IF n \in Ring(va, nr) THEN 0 ELSE unacked[n]]

\* _accept_iframe(): in sequence it is buffered, else re-requested.
AcceptIframe(f) ==
  \/ /\ f.ns = vr
     /\ vr' = NextSeq(vr) /\ rxbuf' = Append(rxbuf, f.data)
     /\ toRms' = Append1(toRms, Rr(NextSeq(vr), FALSE))
  \/ /\ f.ns # vr
     /\ toRms' = Append1(toRms, Rr(vr, TRUE))
     /\ UNCHANGED <<vr, rxbuf>>

\* A frame read by _pump_once() or _flush_acks().  Only the former answers
\* a poll.
Process(f, answer) ==
  \/ f.t = "I" /\ AckUpto(f.nr) /\ AcceptIframe(f)
  \/ /\ f.t = "RR" /\ AckUpto(f.nr)
     /\ toRms' = IF f.pf /\ answer THEN Append1(toRms, Rr(vr, TRUE)) ELSE toRms
     /\ UNCHANGED <<vr, rxbuf>>
  \/ /\ f.t \in {"UA", "DM"}
     /\ UNCHANGED <<va, unacked, vr, rxbuf, toRms>>

\* Who reads a frame: _send_chunk() with a full window, _drain_window()
\* while something is outstanding, or recv() between two send() calls.
Pumping ==
  \/ pc = "chunk" /\ WindowFull
  \/ pc = "drain" /\ va # vs
  \/ pc = "ready"

Pump ==
  /\ Pumping /\ Heard
  /\ Process(Head(toUs), TRUE)
  /\ UNCHANGED <<pc, attempt, tries, vs, left, nsent, result, rmsVars>>

\* Faulty variant of Retransmit: nothing is sent again.
RetransmitNone == Transmit(<<>>)

\* _retransmit(): from va up to vs, what is still kept, in this order.
Retransmit ==
  LET At(i) == (va + i) % Modulus
      kept == {i \in 0 .. ((vs - va) % Modulus) - 1 : unacked[At(i)] # 0}
      n == Cardinality(kept)
  IN  \E s \in [1 .. n -> kept] :
        /\ \A i, j \in 1 .. n : i < j => s[i] < s[j]
        /\ Transmit([i \in 1 .. n |-> I(At(s[i]), vr, unacked[At(s[i])])])

\* _pump_once() timed out in _send_chunk(): retransmit, for as long as the
\* window stays full.
WindowTimeout ==
  /\ pc = "chunk" /\ WindowFull
  /\ Retransmit
  /\ UNCHANGED <<pc, attempt, tries, linkVars, left, nsent, result, toUs, rmsVars>>

\* _pump_once() timed out in _drain_window(): retransmit, and give up after
\* connect_retries * (WINDOW + 1) of them.
DrainTimeout ==
  /\ pc = "drain" /\ va # vs
  /\ Retransmit
  /\ \/ /\ tries + 1 > Retries * Modulus
        /\ pc' = "close" /\ result' = "error" /\ tries' = 0
     \/ /\ tries + 1 <= Retries * Modulus
        /\ tries' = tries + 1 /\ UNCHANGED <<pc, result>>
  /\ UNCHANGED <<attempt, linkVars, left, nsent, toUs, rmsVars>>

\* va has caught up with vs
Drained == va = vs

SendReturns ==
  /\ pc = "drain" /\ Drained
  /\ pc' = "ready" /\ tries' = 0
  /\ UNCHANGED <<attempt, linkVars, left, nsent, result, toRms, toUs, rmsVars>>

-----------------------------------------------------------------------------
(* close()                                                                 *)

\* The B2F exchange is over, or recv() returned nothing and it is abandoned.
Finish ==
  /\ pc = "ready"
  /\ result' \in {"ok", "error"}
  /\ pc' = "close"
  /\ UNCHANGED <<attempt, tries, linkVars, left, nsent, toRms, toUs, rmsVars>>

FlushAcks ==
  /\ pc = "close" /\ Heard
  /\ Process(Head(toUs), FALSE)
  /\ UNCHANGED <<pc, attempt, tries, vs, left, nsent, result, rmsVars>>

SendDisc ==
  /\ pc = "close"
  /\ Transmit(<<Disc>>)
  /\ pc' = "disc"
  /\ UNCHANGED <<attempt, tries, linkVars, left, nsent, result, toUs, rmsVars>>

\* One frame, whatever it is, or the timeout ends close().
Closed ==
  /\ pc = "disc"
  /\ Heard \/ UNCHANGED toUs
  /\ pc' = "closed"
  /\ UNCHANGED <<attempt, tries, linkVars, left, nsent, result, toRms, rmsVars>>

\* The KISS stream to Dire Wolf ended: _read_frame() or _tx() raises, and the
\* caller closes the stream; close() swallows the exception.
KissLost ==
  /\ \/ pc \in {"sabm", "ready", "chunk", "drain"} /\ pc' = "close" /\ result' = "error"
     \/ pc = "close" /\ pc' = "closed" /\ UNCHANGED result
  /\ tries' = 0 /\ left' = 0
  /\ UNCHANGED <<attempt, linkVars, nsent, toRms, toUs, rmsVars>>

-----------------------------------------------------------------------------
(* The RMS talks to another station: _read_frame() compares the source of  *)
(* a frame, not its destination, so that its frames are taken for ours.    *)

\* An RR that polls is left out: what is done with it is also done with an I
\* frame out of sequence.
ToOthers ==
  {Ua, Dm} \cup {Rr(n, FALSE) : n \in Seqs} \cup {I(n, r, 0) : n, r \in Seqs}

\* Bound: one of them is taken for an acknowledgement or a chunk, and then no
\* frame is repeated.
Overhear ==
  /\ "others" \in Faults /\ ~echoed /\ ~misled
  /\ \E f \in ToOthers :
       \/ Answered(f) /\ UNCHANGED misled
       \/ /\ \/ Pumping /\ Process(f, TRUE)
             \/ pc = "close" /\ Process(f, FALSE)
          /\ misled' = (f.t \in {"RR", "I"})
          /\ UNCHANGED <<pc, attempt, tries, vs, left, nsent, result>>
  /\ UNCHANGED <<toUs, plink, pvr, pva, pvs, delivered, echoed, recalled>>

-----------------------------------------------------------------------------
(* The RMS: the AX.25 part of Gateway.handle() and cms_to_rf().            *)

usVars == <<pc, attempt, tries, linkVars, left, nsent, result>>

\* Faulty variant of RmsTakes: the expected number is not compared.
RmsTakesAny(f) == TRUE

\* ns(ctrl) == self.link.vr
RmsTakes(f) == f.ns = pvr

RmsHandle ==
  /\ Len(toRms) > 0 /\ toRms' = Tail(toRms)
  /\ LET f == Head(toRms) IN
     \/ /\ f = Sabm
        /\ plink' = TRUE /\ pvr' = 0 /\ pva' = 0 /\ pvs' = 0
        /\ delivered' = <<>> /\ recalled' = (recalled \/ delivered # <<>> \/ pvs > 0)
        /\ toUs' = Append1(toUs, Ua)
        /\ UNCHANGED <<echoed, misled>>
     \/ /\ f = Sabm /\ ~plink                            \* busy with another
        /\ toUs' = Append1(toUs, Dm)
        /\ UNCHANGED rmsVars
     \/ /\ f = Disc /\ plink
        /\ plink' = FALSE
        /\ toUs' = Append1(toUs, Ua)
        /\ UNCHANGED <<pvr, pva, pvs, delivered, airVars>>
     \/ /\ f.t = "I" /\ plink /\ RmsTakes(f)
        /\ pvr' = NextSeq(pvr) /\ pva' = f.nr
        /\ delivered' = Append(delivered, f.data)
        /\ toUs' = Append1(toUs, Rr(NextSeq(pvr), FALSE))
        /\ UNCHANGED <<plink, pvs, airVars>>
     \/ /\ f.t = "I" /\ plink /\ ~RmsTakes(f)
        /\ pva' = f.nr
        /\ toUs' = Append1(toUs, Rr(pvr, TRUE))
        /\ UNCHANGED <<plink, pvr, pvs, delivered, airVars>>
     \/ /\ f.t = "RR" /\ plink
        /\ pva' = f.nr
        /\ UNCHANGED <<toUs, plink, pvr, pvs, delivered, airVars>>
     \/ /\ ~plink /\ f # Sabm
        /\ UNCHANGED <<toUs, rmsVars>>
  /\ UNCHANGED usVars

\* ((self.link.vs-self.link.va)&7)>=7
RmsFull == (pvs - pva) % Modulus >= Modulus - 1

\* cms_to_rf() relays a chunk when its window is open; it is sent once.
RmsSends ==
  /\ plink /\ ~RmsFull /\ pvs < RevTotal /\ Len(toUs) < ChanMax
  /\ pvs' = pvs + 1
  /\ toUs' = Append(toUs, I(pvs % Modulus, pvr, pvs + 1))
  /\ UNCHANGED <<usVars, toRms, plink, pvr, pva, delivered, airVars>>

\* The RMS ends the session: with DM when its CMS login failed, silently when
\* its CMS stream ended (close_session()).
RmsDrops ==
  /\ "drop" \in Faults /\ plink
  /\ plink' = FALSE
  /\ toUs' = Append1(toUs, Dm) \/ UNCHANGED toUs
  /\ UNCHANGED <<usVars, toRms, pvr, pva, pvs, delivered, airVars>>

(* The air.                                                                *)

LoseToRms ==
  /\ Len(toRms) > 0 /\ toRms' = Tail(toRms)
  /\ UNCHANGED <<usVars, toUs, rmsVars>>

LoseToUs ==
  /\ Len(toUs) > 0 /\ toUs' = Tail(toUs)
  /\ UNCHANGED <<usVars, toRms, rmsVars>>

\* A digipeater repeats a frame that was also heard directly: the copy
\* arrives behind what was sent in the meantime.  Bound: one frame.
Echo ==
  /\ "echo" \in Faults /\ ~echoed /\ ~misled
  /\ \/ /\ Len(toUs) \in 1 .. ChanMax - 1
        /\ toUs' = Append(toUs, Head(toUs)) /\ UNCHANGED toRms
     \/ /\ Len(toRms) \in 1 .. ChanMax - 1
        /\ toRms' = Append(toRms, Head(toRms)) /\ UNCHANGED toUs
  /\ echoed' = TRUE
  /\ UNCHANGED <<usVars, plink, pvr, pva, pvs, delivered, recalled, misled>>

-----------------------------------------------------------------------------
Driver ==
  \/ Connect \/ ConnectTimeout \/ ConnectReply
  \/ Send \/ SendChunk \/ Pump \/ WindowTimeout \/ DrainTimeout \/ SendReturns
  \/ Finish \/ FlushAcks \/ SendDisc \/ Closed \/ KissLost \/ Overhear

Done == pc = "closed" /\ UNCHANGED vars

Next ==
  \/ Driver \/ RmsHandle \/ RmsSends \/ RmsDrops
  \/ LoseToRms \/ LoseToUs \/ Echo \/ Done

Spec == Init /\ [][Next]_vars

\* asyncio runs the delivery and no frame stays on the air for ever; the RMS
\* may have vanished.
FairSpec ==
  /\ Spec
  /\ WF_vars(SendChunk \/ SendReturns \/ WindowTimeout \/ DrainTimeout) /\ WF_vars(Pump)
  /\ WF_vars(RmsHandle \/ LoseToRms)

\* Moreover the RMS is there, and neither the chunk it expects nor a new
\* acknowledgement is lost every time it is sent.
RmsAlive ==
  /\ SF_vars(RmsHandle /\ delivered' # delivered)
  /\ SF_vars(RmsHandle /\ toUs' # toUs)
  /\ SF_vars(Pump /\ va' # va)

LiveSpec == FairSpec /\ RmsAlive

-----------------------------------------------------------------------------
Frames ==
  {Sabm, Disc, Ua, Dm} \cup {Rr(n, b) : n \in Seqs, b \in BOOLEAN}
    \cup {I(n, r, k) : n \in Seqs, r \in Seqs, k \in 1 .. Total + RevTotal}

TypeOK ==
  /\ pc \in {"start", "sabm", "ready", "chunk", "drain", "close", "disc", "closed"}
  /\ attempt \in 0 .. Retries
  /\ tries \in 0 .. Retries * Modulus + 1
  /\ vs \in Seqs /\ va \in Seqs /\ vr \in Seqs
  /\ unacked \in [Seqs -> 0 .. Total]
  /\ left \in 0 .. Total /\ nsent \in 0 .. Total
  /\ result \in {"none", "ok", "error"}
  /\ toRms \in Seq(Frames) /\ toUs \in Seq(Frames)
  /\ plink \in BOOLEAN /\ pvr \in Seqs /\ pva \in Seqs /\ pvs \in 0 .. RevTotal
  /\ echoed \in BOOLEAN /\ recalled \in BOOLEAN /\ misled \in BOOLEAN

\* A frame heard again through a digipeater can be taken for a later one of
\* the same number, once more chunks are sent than fit in the window.  A SABM
\* heard late makes the RMS begin anew.  A frame to another station can be
\* taken for an acknowledgement, or for a chunk.
Unambiguous == (echoed => nsent < Modulus /\ ~recalled) /\ ~misled
UnambiguousBack == (echoed => RevTotal < Modulus) /\ ~recalled /\ ~misled

\* Both directions keep their order: the RMS passes on the chunks in the order
\* they were given to send(), and recv() returns what the RMS relayed, none
\* twice and none left out, whatever is lost, retransmitted or repeated,
\* unless the session began anew or a frame to another station was processed.
LinkInOrder ==
  /\ Unambiguous => \A k \in 1 .. Len(delivered) : delivered[k] = k
  /\ UnambiguousBack => \A k \in 1 .. Len(rxbuf) : rxbuf[k] = k

\* When send() returns without an error the RMS has every chunk, so a delivery
\* reported "ok" is one, unless a frame to another station was processed.
SendMeansDelivered ==
  Unambiguous /\ (pc = "ready" \/ result = "ok") => Len(delivered) = nsent

\* A chunk the RMS has not taken can still be retransmitted: _ack_upto() never
\* drops from _unacked what the peer has not acknowledged, unless an old
\* acknowledgement is repeated or that of another station counted.
Recoverable ==
  ~echoed /\ ~misled =>
    \A k \in Len(delivered) + 1 .. nsent : \E n \in Seqs : unacked[n] = k

\* send() comes to an end, with every chunk acknowledged or with RfError, so
\* that the listener that was stopped for the delivery is started again,
\* unless the RMS has ended the session, when a full window is retransmitted
\* for ever, a digipeater repeats frames, or a frame to another station was
\* processed.
SendEnds ==
  (pc = "chunk") ~> (pc \in {"ready", "close"} \/ ~plink \/ echoed \/ misled)

=============================================================================
