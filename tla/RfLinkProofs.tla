---------------------------- MODULE RfLinkProofs ----------------------------
(***************************************************************************)
(* Proofs about the AX.25 link of an RF delivery: type correctness, that   *)
(* both directions keep their order, that send() returns only once the RMS *)
(* has every chunk, and that what it has not can be sent again, for every  *)
(* modulus, number of chunks, retries and frames on the air.               *)
(*                                                                         *)
(* Sequence numbers are read as counts: Latest(top, n) is the largest      *)
(* count up to top that n can stand for.  The argument for a direction of  *)
(* the link is the same either way round and is made once, about Dir.      *)
(***************************************************************************)
EXTENDS RfLink, FiniteSetTheorems, TLAPS

Latest(top, n) == top - ((top - n) % Modulus)

HasNr(f) == f.t \in {"RR", "I"}

\* A chunk that is behind another in a channel is at most a window older.
Spread(c) ==
  \A i, j \in 1..Len(c) :
    i < j /\ c[i].t = "I" /\ c[j].t = "I" => c[i].data <= c[j].data + Modulus - 2

\* Acknowledgements are under way in the order they were sent in.
Rising(a, top) ==
  \A i, j \in 1..Len(a) :
    i < j /\ HasNr(a[i]) /\ HasNr(a[j]) => Latest(top, a[i].nr) <= Latest(top, a[j].nr)

\* One direction of the link: chunks in channel c, of which `sent` were sent and
\* rcvd taken; acknowledgements in channel a, the last one n.
Dir(c, a, sent, rcvd, n) ==
  LET base == Latest(rcvd, n) IN
  /\ base >= 0 /\ sent <= base + Modulus - 1 /\ rcvd <= sent + Modulus - 1
  /\ \A i \in 1..Len(c) : c[i].t = "I" =>
       /\ c[i].data <= base + Modulus - 1
       /\ c[i].data <= sent + Modulus - 1
       /\ rcvd <= c[i].data + Modulus - 2
  /\ Spread(c)
  /\ \A i \in 1..Len(a) : HasNr(a[i]) => base <= Latest(rcvd, a[i].nr)
  /\ Rising(a, rcvd)

(***************************************************************************)
(* The invariants.                                                         *)
(***************************************************************************)

\* The numbers on both sides are the counts, going round.
Numbers ==
  /\ vs = nsent % Modulus /\ vr = Len(rxbuf) % Modulus
  /\ pvr = Len(delivered) % Modulus

\* The frames of either channel, and the chunks kept for retransmission, carry
\* the number of their chunk.
OutFrames(k) ==
  {f \in Frames : /\ f.t \in {"SABM", "DISC", "RR", "I"}
                  /\ f.t = "I" => f.data \in 1..k /\ f.ns = (f.data - 1) % Modulus}

InFrames ==
  {f \in Frames : /\ f.t \in {"UA", "DM", "RR", "I"}
                  /\ f.t = "I" => f.data \in 1..RevTotal /\ f.ns = (f.data - 1) % Modulus}

Shapes ==
  /\ toRms \in Seq(OutFrames(nsent)) /\ toUs \in Seq(InFrames)
  /\ delivered \in Seq(Nat) /\ rxbuf \in Seq(Nat)
  /\ \A n \in Seqs : unacked[n] # 0 => /\ unacked[n] \in 1..nsent
                                       /\ (unacked[n] - 1) % Modulus = n

Calling == pc \in {"start", "sabm"}

HasCall(c) == \E i \in 1..Len(c) : c[i].t = "SABM"

CallsFirst(c) == \A i \in 1..Len(c) : c[i].t = "SABM" => \A j \in 1..i : c[j].t = "SABM"

\* Nothing but SABMs is sent before the link is up.
Calls ==
  /\ Calling => nsent = 0 /\ va = 0 /\ rxbuf = <<>> /\ toRms \in Seq({Sabm})
  /\ nsent = 0 => delivered = <<>>
  /\ pc = "chunk" => left >= 1 /\ nsent + left <= Total
  /\ result = "ok" => pc \in {"close", "disc", "closed"}

\* So a second call finds the RMS without a chunk or an acknowledgement of
\* ours, unless a digipeater repeats it.
Early == CallsFirst(toRms) /\ (HasCall(toRms) => delivered = <<>>)

\* The RMS may still start anew.
Fresh == Calling \/ HasCall(toRms)

\* What the RMS has sent by then is less than a window, and nothing of it was
\* acknowledged.
FirstWindow ==
  Fresh => /\ pva = 0 /\ pvs <= Modulus - 1 /\ Len(rxbuf) <= Modulus - 1
           /\ \A i \in 1..Len(toUs) : toUs[i].t = "I" => toUs[i].data <= Modulus - 1

\* The chunks from the last acknowledgement on are kept.
Kept ==
  \A k \in Latest(Len(delivered), va) + 1 .. nsent : unacked[(k - 1) % Modulus] = k

InOrder(s) == \A k \in 1..Len(s) : s[k] = k

Complete == pc = "ready" \/ result = "ok" => Len(delivered) = nsent

\* From us to the RMS, while every frame is heard once and was sent to us.
Forth ==
  /\ Early
  /\ Dir(toRms, toUs, nsent, Len(delivered), va)
  /\ Len(delivered) <= nsent /\ Kept /\ InOrder(delivered) /\ Complete

\* The same while the numbers have not gone round, whatever is repeated.
ForthSmall ==
  /\ Len(delivered) <= nsent /\ va <= Len(delivered)
  /\ \A i \in 1..Len(toUs) : HasNr(toUs[i]) => toUs[i].nr <= Len(delivered)
  /\ InOrder(delivered) /\ Complete

\* From the RMS to us, while every frame is heard once and was sent to us, and
\* while the numbers cannot go round.
Back ==
  /\ Dir(toUs, toRms, pvs, Len(rxbuf), pva)
  /\ FirstWindow /\ InOrder(rxbuf)

BackSmall == Len(rxbuf) <= RevTotal /\ InOrder(rxbuf)

Clean == ~echoed /\ ~misled
Small == nsent < Modulus /\ ~recalled /\ ~misled

LinkInv ==
  /\ TypeOK /\ Numbers /\ Shapes /\ Calls
  /\ Clean => Forth /\ Back
  /\ Small => ForthSmall
  /\ RevTotal < Modulus /\ ~misled => BackSmall


(***************************************************************************)
(* Sequence numbers and counts.                                            *)
(***************************************************************************)

\* A count is its number and whole rounds.
LEMMA Rounds ==
  ASSUME NEW a \in Int
  PROVE  /\ Modulus \in Nat /\ Modulus > 1
         /\ a \div Modulus \in Int /\ a % Modulus \in Seqs
         /\ a = Modulus * (a \div Modulus) + (a % Modulus)
<1>1. Modulus \in Nat /\ Modulus > 1
  BY RfLinkConstants
<1>2. QED
  BY <1>1 DEF Seqs

\* Whole rounds leave the number alone.
LEMMA Number ==
  ASSUME NEW q \in Int, NEW r \in Seqs
  PROVE  (Modulus * q + r) % Modulus = r
<1>1. Modulus \in Nat /\ Modulus > 1 /\ r \in 0..Modulus-1
  BY RfLinkConstants DEF Seqs
<1> DEFINE a == Modulus * q + r
<1>2. a \in Int /\ a \div Modulus \in Int /\ a % Modulus \in 0..Modulus-1
      /\ a = Modulus * (a \div Modulus) + (a % Modulus)
  BY <1>1
<1> DEFINE p == a \div Modulus
           s == a % Modulus
<1> HIDE DEF p, s
<1>3. Modulus * (q - p) = s - r
  BY <1>1, <1>2 DEF p, s
<1>4. q - p \in Int /\ -Modulus < Modulus * (q - p) /\ Modulus * (q - p) < Modulus
  BY <1>1, <1>2, <1>3 DEF p, s
<1>5. q - p = 0
  <2> DEFINE k == q - p
  <2> HIDE DEF k
  <2>1. k \in Int /\ -Modulus < Modulus * k /\ Modulus * k < Modulus
    BY <1>4 DEF k
  <2>2. k = 0
    BY <2>1, <1>1
  <2>3. QED
    BY <2>2 DEF k
<1>6. s = r
  BY <1>1, <1>2, <1>3, <1>5 DEF p, s
<1>7. QED
  BY <1>6 DEF s

\* Two counts less than a round apart with one number are the same.
LEMMA SameCount ==
  ASSUME NEW a \in Int, NEW b \in Int, a % Modulus = b % Modulus,
         a - b < Modulus, b - a < Modulus
  PROVE  a = b
<1> DEFINE p == a \div Modulus
           q == b \div Modulus
           r == a % Modulus
<1>1. /\ Modulus \in Nat /\ Modulus > 1 /\ p \in Int /\ q \in Int /\ r \in Int
      /\ a = Modulus * p + r /\ b = Modulus * q + r
  BY Rounds DEF Seqs
<1> HIDE DEF p, q, r
<1> DEFINE k == p - q
<1>2. k \in Int /\ Modulus * k = a - b
  BY <1>1
<1> HIDE DEF k
<1>3. k = 0
  BY <1>1, <1>2
<1>4. QED
  BY <1>1, <1>2, <1>3

\* A count below the modulus is its own number.
LEMMA SmallCount ==
  ASSUME NEW a \in Seqs
  PROVE  a % Modulus = a
  BY RfLinkConstants DEF Seqs

\* Numbers may be added and subtracted for their counts.
LEMMA SumNumber ==
  ASSUME NEW a \in Int, NEW b \in Int
  PROVE  /\ ((a % Modulus) + b) % Modulus = (a + b) % Modulus
         /\ (b - (a % Modulus)) % Modulus = (b - a) % Modulus
<1> DEFINE p == a \div Modulus
           r == a % Modulus
           q == (a + b) \div Modulus
           s == (a + b) % Modulus
           u == (b - a) \div Modulus
           v == (b - a) % Modulus
<1>1. /\ Modulus \in Nat /\ p \in Int /\ r \in Int
      /\ a = Modulus * p + r
  BY Rounds DEF Seqs
<1>2. q \in Int /\ s \in Seqs /\ s \in Int /\ a + b = Modulus * q + s
  BY Rounds DEF Seqs
<1>3. u \in Int /\ v \in Seqs /\ v \in Int /\ b - a = Modulus * u + v
  BY Rounds DEF Seqs
<1> HIDE DEF p, r, q, s, u, v
<1>4. r + b = Modulus * (q - p) + s /\ q - p \in Int
  BY <1>1, <1>2
<1>5. b - r = Modulus * (u + p) + v /\ u + p \in Int
  BY <1>1, <1>3
<1>6. (r + b) % Modulus = s
  BY <1>4, <1>2, Number
<1>7. (b - r) % Modulus = v
  BY <1>5, <1>3, Number
<1>8. QED
  BY <1>6, <1>7 DEF r, s, v

\* NextSeq() follows the count.
LEMMA NextNumber ==
  ASSUME NEW a \in Int
  PROVE  NextSeq(a % Modulus) = (a + 1) % Modulus
  BY SumNumber DEF NextSeq

\* Latest() is a count with that number in the round up to top.
LEMMA LatestCount ==
  ASSUME NEW top \in Int, NEW n \in Seqs
  PROVE  /\ Latest(top, n) \in Int
         /\ Latest(top, n) <= top /\ top < Latest(top, n) + Modulus
         /\ Latest(top, n) % Modulus = n
<1> DEFINE q == (top - n) \div Modulus
           r == (top - n) % Modulus
<1>1. n \in Int /\ top - n \in Int /\ n \in 0..Modulus-1
  BY RfLinkConstants DEF Seqs
<1>2. /\ Modulus \in Nat /\ q \in Int /\ r \in 0..Modulus-1
      /\ top - n = Modulus * q + r
  BY <1>1, Rounds DEF Seqs
<1>3. Latest(top, n) = top - r
  BY DEF Latest
<1> HIDE DEF q, r
<1>4. top - r = Modulus * q + n /\ top - r \in Int /\ top - r <= top /\ top < top - r + Modulus
  BY <1>1, <1>2
<1>5. (top - r) % Modulus = n
  BY <1>2, <1>4, Number
<1>6. QED
  BY <1>3, <1>4, <1>5

\* It is the only one.
LEMMA LatestIs ==
  ASSUME NEW top \in Int, NEW r \in Int, r <= top, top < r + Modulus
  PROVE  Latest(top, r % Modulus) = r
<1>1. r % Modulus \in Seqs /\ Modulus \in Nat
  BY Rounds
<1> DEFINE l == Latest(top, r % Modulus)
<1>2. l \in Int /\ l <= top /\ top < l + Modulus
  BY <1>1, LatestCount
<1>3. l % Modulus = r % Modulus
  BY <1>1, LatestCount
<1>4. Modulus \in Nat
  BY <1>1
<1> HIDE DEF l
<1>5. l - r < Modulus /\ r - l < Modulus
  BY <1>2, <1>4
<1>6. l = r
  BY <1>2, <1>3, <1>5, SameCount, Zenon
<1>7. QED
  BY <1>6 DEF l

\* A number stands for the same count as long as that is in the round.
LEMMA LatestStays ==
  ASSUME NEW top \in Int, NEW up \in Int, NEW n \in Seqs,
         Latest(top, n) <= up, up < Latest(top, n) + Modulus
  PROVE  Latest(up, n) = Latest(top, n)
  BY LatestCount, LatestIs

(***************************************************************************)
(* Frames put on the air and taken from it.                                *)
(***************************************************************************)

\* Frames fs were put behind channel c, as far as they fit: now it is d.
Behind(d, c, fs) ==
  /\ d \in Seq(Frames)
  /\ Len(d) <= Len(c) + Len(fs)
  /\ \A i \in 1..Len(d) : /\ i <= Len(c) => d[i] = c[i]
                          /\ i > Len(c) => d[i] = fs[i - Len(c)]

\* OnAir() puts frames behind those in the channel.
LEMMA OnAirBehind ==
  ASSUME NEW c \in Seq(Frames), NEW fs \in Seq(Frames)
  PROVE  Behind(OnAir(c, fs), c, fs)
<1> DEFINE e == c \o fs
           m == IF Len(c) + Len(fs) < ChanMax THEN Len(c) + Len(fs) ELSE ChanMax
<1>1. e \in Seq(Frames) /\ Len(e) = Len(c) + Len(fs) /\ m \in 0..Len(e)
  BY RfLinkConstants
<1>2. \A i \in 1..Len(e) : /\ i <= Len(c) => e[i] = c[i]
                           /\ i > Len(c) => e[i] = fs[i - Len(c)]
  OBVIOUS
<1> HIDE DEF e, m
<1>3. /\ SubSeq(e, 1, m) \in Seq(Frames) /\ Len(SubSeq(e, 1, m)) = m
      /\ \A i \in 1..m : SubSeq(e, 1, m)[i] = e[i]
  BY <1>1
<1>4. OnAir(c, fs) = SubSeq(e, 1, m)
  BY DEF OnAir, e, m
<1>5. QED
  BY <1>1, <1>2, <1>3, <1>4 DEF Behind

\* So does Append1(), and Append() where there is room.
LEMMA OneBehind ==
  ASSUME NEW c \in Seq(Frames), NEW f \in Frames
  PROVE  /\ Behind(Append1(c, f), c, <<f>>)
         /\ Behind(Append(c, f), c, <<f>>)
<1>1. Behind(Append1(c, f), c, <<f>>)
  <2>1. <<f>> \in Seq(Frames)
    OBVIOUS
  <2>2. QED
    BY <2>1, OnAirBehind DEF Append1
<1>2. Behind(Append(c, f), c, <<f>>)
  BY DEF Behind
<1>3. QED
  BY <1>1, <1>2

\* The rest of a channel.
LEMMA Rest ==
  ASSUME NEW c \in Seq(Frames), Len(c) > 0
  PROVE  /\ Head(c) = c[1] /\ Head(c) \in Frames
         /\ Tail(c) \in Seq(Frames) /\ Len(Tail(c)) = Len(c) - 1
         /\ \A i \in 1..Len(c) - 1 : Tail(c)[i] = c[i + 1] /\ i + 1 \in 1..Len(c)
  OBVIOUS

\* What frames carry.
LEMMA FrameFields ==
  ASSUME NEW f \in Frames
  PROVE  /\ f.t \in {"SABM", "DISC", "UA", "DM", "RR", "I"}
         /\ HasNr(f) => f.nr \in Seqs
         /\ f.t = "RR" => f.pf \in BOOLEAN
         /\ f.t = "I" => f.ns \in Seqs /\ f.data \in 1..Total + RevTotal
         /\ f.t = "SABM" <=> f = Sabm
         /\ f.t = "DISC" <=> f = Disc
         /\ f.t = "UA" <=> f = Ua
         /\ f.t = "DM" <=> f = Dm
  BY DEF Frames, Sabm, Disc, Ua, Dm, Rr, I, HasNr

\* The frames there are.
LEMMA FrameKinds ==
  /\ Sabm \in Frames /\ Disc \in Frames /\ Ua \in Frames /\ Dm \in Frames
  /\ Sabm.t = "SABM" /\ Disc.t = "DISC" /\ Ua.t = "UA" /\ Dm.t = "DM"
  /\ \A n \in Seqs, b \in BOOLEAN :
       Rr(n, b) \in Frames /\ Rr(n, b).t = "RR" /\ Rr(n, b).nr = n
  /\ \A n \in Seqs, r \in Seqs, k \in 1..Total + RevTotal :
       /\ I(n, r, k) \in Frames /\ I(n, r, k).t = "I"
       /\ I(n, r, k).ns = n /\ I(n, r, k).nr = r /\ I(n, r, k).data = k
<1>1. /\ Sabm \in Frames /\ Disc \in Frames /\ Ua \in Frames /\ Dm \in Frames
      /\ Sabm.t = "SABM" /\ Disc.t = "DISC" /\ Ua.t = "UA" /\ Dm.t = "DM"
  BY DEF Frames, Sabm, Disc, Ua, Dm
<1>2. ASSUME NEW n \in Seqs, NEW b \in BOOLEAN
      PROVE  Rr(n, b) \in Frames /\ Rr(n, b).t = "RR" /\ Rr(n, b).nr = n
  <2>1. Rr(n, b) \in Frames
    BY DEF Frames
  <2>2. QED
    BY <2>1 DEF Rr
<1>3. ASSUME NEW n \in Seqs, NEW r \in Seqs, NEW k \in 1..Total + RevTotal
      PROVE  /\ I(n, r, k) \in Frames /\ I(n, r, k).t = "I"
             /\ I(n, r, k).ns = n /\ I(n, r, k).nr = r /\ I(n, r, k).data = k
  <2>1. I(n, r, k) \in Frames
    BY DEF Frames
  <2>2. QED
    BY <2>1 DEF I
<1>4. QED
  BY <1>1, <1>2, <1>3

(***************************************************************************)
(* One direction of the link.                                              *)
(***************************************************************************)

\* A chunk or another frame is lost, or is not taken.
LEMMA DirRest ==
  ASSUME NEW c \in Seq(Frames), NEW a, NEW sent, NEW rcvd, NEW n,
         Dir(c, a, sent, rcvd, n), Len(c) > 0
  PROVE  Dir(Tail(c), a, sent, rcvd, n)
<1> DEFINE base == Latest(rcvd, n)
<1>1. /\ Tail(c) \in Seq(Frames) /\ Len(Tail(c)) = Len(c) - 1
      /\ \A i \in 1..Len(Tail(c)) : Tail(c)[i] = c[i + 1] /\ i + 1 \in 1..Len(c)
  BY Rest
<1>2. Spread(Tail(c))
  BY <1>1 DEF Dir, Spread
<1> HIDE DEF base
<1>3. \A i \in 1..Len(Tail(c)) : Tail(c)[i].t = "I" =>
        /\ Tail(c)[i].data <= base + Modulus - 1
        /\ Tail(c)[i].data <= sent + Modulus - 1
        /\ rcvd <= Tail(c)[i].data + Modulus - 2
  BY <1>1 DEF Dir, base
<1>4. QED
  BY <1>2, <1>3 DEF Dir, base

\* An acknowledgement or another frame is lost, or is not heeded.
LEMMA DirRestAck ==
  ASSUME NEW c, NEW a \in Seq(Frames), NEW sent, NEW rcvd, NEW n,
         Dir(c, a, sent, rcvd, n), Len(a) > 0
  PROVE  Dir(c, Tail(a), sent, rcvd, n)
<1> DEFINE base == Latest(rcvd, n)
<1>1. /\ Tail(a) \in Seq(Frames) /\ Len(Tail(a)) = Len(a) - 1
      /\ \A i \in 1..Len(Tail(a)) : Tail(a)[i] = a[i + 1] /\ i + 1 \in 1..Len(a)
  BY Rest
<1>2. Rising(Tail(a), rcvd)
  BY <1>1 DEF Dir, Rising
<1> HIDE DEF base
<1>3. \A i \in 1..Len(Tail(a)) : HasNr(Tail(a)[i]) => base <= Latest(rcvd, Tail(a)[i].nr)
  BY <1>1 DEF Dir, base
<1>4. QED
  BY <1>2, <1>3 DEF Dir, base

\* The acknowledgement at the head is heeded.
LEMMA DirAck ==
  ASSUME NEW c \in Seq(Frames), NEW a \in Seq(Frames),
         NEW sent \in Nat, NEW rcvd \in Nat, NEW n \in Seqs,
         Dir(c, a, sent, rcvd, n), Len(a) > 0, HasNr(Head(a))
  PROVE  /\ Dir(c, Tail(a), sent, rcvd, Head(a).nr)
         /\ Latest(rcvd, n) <= Latest(rcvd, Head(a).nr)
<1> DEFINE base == Latest(rcvd, n)
           m == Head(a).nr
           next == Latest(rcvd, m)
<1>1. /\ Tail(a) \in Seq(Frames) /\ Len(Tail(a)) = Len(a) - 1 /\ Head(a) = a[1]
      /\ \A i \in 1..Len(Tail(a)) : Tail(a)[i] = a[i + 1] /\ i + 1 \in 1..Len(a)
      /\ m \in Seqs
  BY Rest, FrameFields
<1>2. base \in Int /\ next \in Int /\ Modulus \in Nat
  BY <1>1, LatestCount, RfLinkConstants
<1>3. base <= next
  BY <1>1 DEF Dir
<1>4. Dir(c, Tail(a), sent, rcvd, n)
  BY DirRestAck
<1>5. \A i \in 1..Len(Tail(a)) : HasNr(Tail(a)[i]) => next <= Latest(rcvd, Tail(a)[i].nr)
  BY <1>1 DEF Dir, Rising
<1>6. \A i \in 1..Len(c) : c[i].t = "I" => c[i].data \in Int
  BY FrameFields
<1> HIDE DEF base, next
<1>7. \A i \in 1..Len(c) : c[i].t = "I" => c[i].data <= next + Modulus - 1
  BY <1>2, <1>3, <1>6 DEF Dir, base
<1>8. next >= 0 /\ sent <= next + Modulus - 1
  BY <1>2, <1>3 DEF Dir, base
<1>9. Dir(c, Tail(a), sent, rcvd, m)
  BY <1>4, <1>5, <1>7, <1>8 DEF Dir, next
<1>10. QED
  BY <1>3, <1>9 DEF base, next

\* Acknowledgements of what was taken, and other frames, are sent back.
LEMMA DirAnswer ==
  ASSUME NEW c, NEW a \in Seq(Frames), NEW b, NEW fs \in Seq(Frames),
         NEW sent, NEW rcvd \in Nat, NEW n \in Seqs,
         Dir(c, a, sent, rcvd, n), Behind(b, a, fs),
         \A i \in 1..Len(fs) : HasNr(fs[i]) => fs[i].nr = rcvd % Modulus
  PROVE  Dir(c, b, sent, rcvd, n)
<1> DEFINE base == Latest(rcvd, n)
<1>1. Latest(rcvd, rcvd % Modulus) = rcvd /\ Modulus \in Nat
  BY LatestIs, RfLinkConstants
<1>2. base \in Int /\ base <= rcvd
  BY LatestCount
<1>3. \A i \in 1..Len(a) : HasNr(a[i]) =>
        Latest(rcvd, a[i].nr) \in Int /\ Latest(rcvd, a[i].nr) <= rcvd
  BY FrameFields, LatestCount
<1>4. b \in Seq(Frames) /\ Len(b) \in Nat /\ Len(a) \in Nat /\ Len(fs) \in Nat
      /\ Len(b) <= Len(a) + Len(fs)
  BY DEF Behind
<1>5. ASSUME NEW i \in 1..Len(b), HasNr(b[i])
      PROVE  \/ i <= Len(a) /\ i \in 1..Len(a) /\ b[i] = a[i]
             \/ i > Len(a) /\ Latest(rcvd, b[i].nr) = rcvd
  <2>1. CASE i <= Len(a)
    BY <2>1, <1>4 DEF Behind
  <2>2. CASE i > Len(a)
    <3>1. i - Len(a) \in 1..Len(fs) /\ b[i] = fs[i - Len(a)]
      BY <2>2, <1>4 DEF Behind
    <3>2. b[i].nr = rcvd % Modulus
      BY <3>1, <1>5
    <3>3. QED
      BY <3>2, <2>2, <1>1
  <2>3. QED
    BY <2>1, <2>2, <1>4
<1> HIDE DEF base
<1>6. \A i \in 1..Len(b) : HasNr(b[i]) => base <= Latest(rcvd, b[i].nr)
  BY <1>2, <1>5 DEF Dir, base
<1>7. ASSUME NEW i \in 1..Len(b), NEW j \in 1..Len(b), i < j, HasNr(b[i]), HasNr(b[j])
      PROVE  Latest(rcvd, b[i].nr) <= Latest(rcvd, b[j].nr)
  <2>1. CASE j <= Len(a)
    <3>1. i \in 1..Len(a) /\ j \in 1..Len(a) /\ b[i] = a[i] /\ b[j] = a[j]
      BY <1>4, <1>7, <2>1 DEF Behind
    <3>2. QED
      BY <3>1, <1>7 DEF Dir, Rising
  <2>2. CASE j > Len(a)
    <3>1. Latest(rcvd, b[j].nr) = rcvd
      BY <1>4, <1>5, <1>7, <2>2
    <3>2. QED
      BY <3>1, <1>3, <1>5, <1>7
  <2>3. QED
    BY <2>1, <2>2, <1>4
<1>8. Rising(b, rcvd)
  BY <1>7 DEF Rising
<1>9. QED
  BY <1>6, <1>8 DEF Dir, base

\* Chunks, and other frames, are sent: none outside the window.
LEMMA DirSend ==
  ASSUME NEW c \in Seq(Frames), NEW a, NEW d, NEW fs \in Seq(Frames),
         NEW sent \in Nat, NEW more \in {sent, sent + 1}, NEW rcvd \in Nat, NEW n \in Seqs,
         Dir(c, a, sent, rcvd, n), Behind(d, c, fs), Spread(fs),
         more <= Latest(rcvd, n) + Modulus - 1,
         \A i \in 1..Len(fs) : fs[i].t = "I" =>
           /\ fs[i].data <= Latest(rcvd, n) + Modulus - 1
           /\ fs[i].data <= more + Modulus - 1
           /\ rcvd <= fs[i].data + Modulus - 2
           /\ \A j \in 1..Len(c) : c[j].t = "I" => c[j].data <= fs[i].data + Modulus - 2
  PROVE  Dir(d, a, more, rcvd, n)
<1> DEFINE base == Latest(rcvd, n)
<1>1. base \in Int /\ Modulus \in Nat
  BY LatestCount, RfLinkConstants
<1>2. d \in Seq(Frames) /\ Len(d) \in Nat /\ Len(c) \in Nat /\ Len(fs) \in Nat
      /\ Len(d) <= Len(c) + Len(fs)
  BY DEF Behind
<1>3. ASSUME NEW i \in 1..Len(d)
      PROVE  \/ i \in 1..Len(c) /\ d[i] = c[i]
             \/ i > Len(c) /\ i - Len(c) \in 1..Len(fs) /\ d[i] = fs[i - Len(c)]
  BY <1>2 DEF Behind
<1>4. \A i \in 1..Len(d) : d[i].t = "I" => d[i].data \in Int
  BY <1>2, FrameFields
<1> HIDE DEF base
<1>5. ASSUME NEW i \in 1..Len(d), d[i].t = "I"
      PROVE  /\ d[i].data <= base + Modulus - 1
             /\ d[i].data <= more + Modulus - 1
             /\ rcvd <= d[i].data + Modulus - 2
  <2>1. CASE i \in 1..Len(c) /\ d[i] = c[i]
    BY <2>1, <1>1, <1>4, <1>5 DEF Dir, base
  <2>2. CASE i - Len(c) \in 1..Len(fs) /\ d[i] = fs[i - Len(c)]
    BY <2>2, <1>5 DEF base
  <2>3. QED
    BY <2>1, <2>2, <1>3
<1>6. ASSUME NEW i \in 1..Len(d), NEW j \in 1..Len(d), i < j, d[i].t = "I", d[j].t = "I"
      PROVE  d[i].data <= d[j].data + Modulus - 2
  <2>1. CASE j \in 1..Len(c) /\ d[j] = c[j]
    <3>1. i \in 1..Len(c) /\ d[i] = c[i]
      BY <2>1, <1>2, <1>6 DEF Behind
    <3>2. QED
      BY <3>1, <2>1, <1>6 DEF Dir, Spread
  <2>2. CASE j - Len(c) \in 1..Len(fs) /\ d[j] = fs[j - Len(c)]
    <3>1. CASE i \in 1..Len(c) /\ d[i] = c[i]
      BY <3>1, <2>2, <1>6, SMTT(30)
    <3>2. CASE i > Len(c) /\ i - Len(c) \in 1..Len(fs) /\ d[i] = fs[i - Len(c)]
      BY <3>2, <2>2, <1>2, <1>6 DEF Spread
    <3>3. QED
      BY <3>1, <3>2, <1>3
  <2>3. QED
    BY <2>1, <2>2, <1>3
<1>7. Spread(d)
  BY <1>6 DEF Spread
<1>8. rcvd <= more + Modulus - 1
  BY <1>1 DEF Dir
<1>9. QED
  BY <1>5, <1>7, <1>8 DEF Dir, base

\* The chunk with the expected number is the expected chunk, and is taken.
LEMMA DirTake ==
  ASSUME NEW c \in Seq(Frames), NEW a \in Seq(Frames),
         NEW sent \in Nat, NEW rcvd \in Nat, NEW n \in Seqs,
         Dir(c, a, sent, rcvd, n), Len(c) > 0, Head(c).t = "I",
         Head(c).ns = (Head(c).data - 1) % Modulus,
         Head(c).ns = rcvd % Modulus
  PROVE  /\ Head(c).data = rcvd + 1
         /\ Dir(Tail(c), a, sent, rcvd + 1, n)
         /\ Latest(rcvd + 1, n) = Latest(rcvd, n)
<1> DEFINE base == Latest(rcvd, n)
           k == Head(c).data
<1>1. /\ Tail(c) \in Seq(Frames) /\ Len(Tail(c)) = Len(c) - 1 /\ Head(c) = c[1]
      /\ \A i \in 1..Len(Tail(c)) : Tail(c)[i] = c[i + 1] /\ i + 1 \in 1..Len(c)
      /\ 1 \in 1..Len(c) /\ k \in Int
  BY Rest, FrameFields
<1>2. base \in Int /\ Modulus \in Nat /\ base <= rcvd /\ rcvd < base + Modulus
  BY LatestCount, RfLinkConstants
<1>3. k <= base + Modulus - 1 /\ k <= sent + Modulus - 1 /\ rcvd <= k + Modulus - 2
  BY <1>1 DEF Dir
<1> HIDE DEF k, base
<1>4. k = rcvd + 1
  <2>1. (k - 1) % Modulus = rcvd % Modulus
    BY DEF k
  <2>2. k - 1 \in Int /\ (k - 1) - rcvd < Modulus /\ rcvd - (k - 1) < Modulus
    BY <1>1, <1>2, <1>3
  <2>3. k - 1 = rcvd
    BY <2>1, <2>2, SameCount
  <2>4. QED
    BY <2>3, <1>1
<1>5. Latest(rcvd + 1, n) = base
  <2>1. base <= rcvd + 1 /\ rcvd + 1 < base + Modulus
    BY <1>2, <1>3, <1>4
  <2>2. QED
    BY <2>1, LatestStays DEF base
<1>6. ASSUME NEW i \in 1..Len(a), HasNr(a[i])
      PROVE  Latest(rcvd + 1, a[i].nr) = Latest(rcvd, a[i].nr) /\ base <= Latest(rcvd, a[i].nr)
  <2> DEFINE m == a[i].nr
             l == Latest(rcvd, m)
  <2>1. m \in Seqs /\ base <= l
    BY <1>6, FrameFields DEF Dir, base
  <2>2. l \in Int /\ l <= rcvd
    BY <2>1, LatestCount
  <2> HIDE DEF m
  <2>3. l <= rcvd + 1 /\ rcvd + 1 < l + Modulus
    <3> HIDE DEF l
    <3>1. QED
      BY <1>2, <1>3, <1>4, <2>1, <2>2
  <2>4. Latest(rcvd + 1, m) = l
    BY <2>1, <2>3, LatestStays
  <2>5. QED
    BY <2>1, <2>4 DEF m
<1>7. Rising(a, rcvd + 1)
  BY <1>6 DEF Dir, Rising
<1>8. Dir(Tail(c), a, sent, rcvd, n)
  BY DirRest
<1>9. \A i \in 1..Len(Tail(c)) : Tail(c)[i].t = "I" => rcvd + 1 <= Tail(c)[i].data + Modulus - 2
  BY <1>1, <1>4 DEF Dir, Spread, k
<1>10. \A i \in 1..Len(Tail(c)) : Tail(c)[i].t = "I" =>
         /\ Tail(c)[i].data <= base + Modulus - 1
         /\ Tail(c)[i].data <= sent + Modulus - 1
  BY <1>8 DEF Dir, base
<1>11. base >= 0 /\ sent <= base + Modulus - 1 /\ rcvd + 1 <= sent + Modulus - 1 /\ Spread(Tail(c))
  BY <1>3, <1>4, <1>8 DEF Dir, base
<1>12. \A i \in 1..Len(a) : HasNr(a[i]) => base <= Latest(rcvd + 1, a[i].nr)
  BY <1>6
<1>13. Dir(Tail(c), a, sent, rcvd + 1, n)
  BY <1>5, <1>7, <1>9, <1>10, <1>11, <1>12 DEF Dir
<1>14. QED
  BY <1>4, <1>5, <1>13 DEF base, k

\* Frames that carry no chunk do not change the direction they are sent in.
LEMMA DirNoChunk ==
  ASSUME NEW c \in Seq(Frames), NEW a, NEW d, NEW fs \in Seq(Frames),
         NEW sent \in Nat, NEW rcvd \in Nat, NEW n \in Seqs,
         Dir(c, a, sent, rcvd, n), Behind(d, c, fs),
         \A i \in 1..Len(fs) : fs[i].t # "I"
  PROVE  Dir(d, a, sent, rcvd, n)
<1>1. Spread(fs) /\ sent <= Latest(rcvd, n) + Modulus - 1
  BY DEF Spread, Dir
<1>2. QED
  BY <1>1, DirSend

\* SABMs stay in front.
LEMMA CallRest ==
  ASSUME NEW c \in Seq(Frames), Len(c) > 0, CallsFirst(c)
  PROVE  /\ CallsFirst(Tail(c)) /\ (HasCall(Tail(c)) => HasCall(c))
         /\ HasCall(c) => Head(c) = Sabm
<1>1. /\ Tail(c) \in Seq(Frames) /\ Len(Tail(c)) = Len(c) - 1
      /\ Head(c) = c[1] /\ Head(c) \in Frames
      /\ \A i \in 1..Len(Tail(c)) : Tail(c)[i] = c[i + 1] /\ i + 1 \in 1..Len(c)
  BY Rest
<1>2. HasCall(c) => Head(c).t = "SABM"
  BY <1>1 DEF HasCall, CallsFirst
<1>3. HasCall(Tail(c)) => HasCall(c)
  BY <1>1 DEF HasCall
<1>4. CallsFirst(Tail(c))
  <2> SUFFICES ASSUME NEW i \in 1..Len(Tail(c)), Tail(c)[i].t = "SABM", NEW j \in 1..i
               PROVE  Tail(c)[j].t = "SABM"
    BY DEF CallsFirst
  <2>1. c[i + 1].t = "SABM" /\ j + 1 \in 1..i+1 /\ j \in 1..Len(Tail(c)) /\ i + 1 \in 1..Len(c)
    BY <1>1
  <2>2. c[j + 1].t = "SABM"
    BY <2>1 DEF CallsFirst
  <2>3. QED
    BY <2>1, <2>2, <1>1
<1>5. QED
  BY <1>1, <1>2, <1>3, <1>4, FrameFields

\* No SABM comes behind another frame.
LEMMA CallBehind ==
  ASSUME NEW c \in Seq(Frames), NEW d, NEW fs \in Seq(Frames), CallsFirst(c), Behind(d, c, fs),
         \A i \in 1..Len(fs) : fs[i].t # "SABM"
  PROVE  CallsFirst(d) /\ (HasCall(d) => HasCall(c))
<1>1. /\ d \in Seq(Frames) /\ Len(d) \in Nat /\ Len(c) \in Nat /\ Len(fs) \in Nat
      /\ Len(d) <= Len(c) + Len(fs)
  BY DEF Behind
<1>2. ASSUME NEW i \in 1..Len(d), d[i].t = "SABM"
      PROVE  i \in 1..Len(c) /\ c[i].t = "SABM"
  <2>1. i <= Len(c)
    <3> SUFFICES ASSUME i > Len(c) PROVE FALSE
      BY <1>1
    <3>1. i - Len(c) \in 1..Len(fs)
      BY <1>1
    <3>2. d[i] = fs[i - Len(c)]
      BY DEF Behind
    <3>3. QED
      BY <3>1, <3>2, <1>2
  <2>2. QED
    BY <2>1, <1>1, <1>2 DEF Behind
<1>3. HasCall(d) => HasCall(c)
  BY <1>2 DEF HasCall
<1>4. ASSUME NEW i \in 1..Len(d), d[i].t = "SABM", NEW j \in 1..i
      PROVE  d[j].t = "SABM"
  <2>1. i \in 1..Len(c) /\ c[i].t = "SABM"
    BY <1>2, <1>4
  <2>2. j \in 1..Len(d) /\ j <= Len(c) /\ c[j].t = "SABM"
    BY <2>1, <1>1 DEF CallsFirst
  <2>3. QED
    BY <2>2 DEF Behind
<1>5. QED
  BY <1>3, <1>4 DEF CallsFirst

\* What goes on the air stays among the frames it is of.
LEMMA OnAirIn ==
  ASSUME NEW S, NEW c \in Seq(S), NEW fs \in Seq(S)
  PROVE  OnAir(c, fs) \in Seq(S)
<1> DEFINE e == c \o fs
           m == IF Len(c) + Len(fs) < ChanMax THEN Len(c) + Len(fs) ELSE ChanMax
<1>1. e \in Seq(S) /\ Len(e) = Len(c) + Len(fs) /\ m \in 0..Len(e)
  BY RfLinkConstants
<1> HIDE DEF e, m
<1>2. SubSeq(e, 1, m) \in Seq(S)
  BY <1>1
<1>3. QED
  BY <1>2 DEF OnAir, e, m

\* What is left of a channel is of the same frames.
LEMMA RestIn ==
  ASSUME NEW S, NEW c \in Seq(S), Len(c) > 0
  PROVE  Tail(c) \in Seq(S)
  OBVIOUS

\* A larger set of frames.
LEMMA SeqIn ==
  ASSUME NEW S, NEW T, S \subseteq T, NEW c \in Seq(S)
  PROVE  c \in Seq(T)
  OBVIOUS

\* Which frames go out and come in; more chunks sent allow more frames.
LEMMA OutMore ==
  ASSUME NEW k \in Nat
  PROVE  /\ OutFrames(k) \subseteq Frames /\ OutFrames(k) \subseteq OutFrames(k + 1)
         /\ Sabm \in OutFrames(k) /\ Disc \in OutFrames(k)
         /\ \A n \in Seqs, b \in BOOLEAN : Rr(n, b) \in OutFrames(k)
         /\ InFrames \subseteq Frames /\ Ua \in InFrames /\ Dm \in InFrames
         /\ \A n \in Seqs, b \in BOOLEAN : Rr(n, b) \in InFrames
<1>1. Sabm \in OutFrames(k) /\ Disc \in OutFrames(k) /\ Ua \in InFrames /\ Dm \in InFrames
  BY FrameKinds DEF OutFrames, InFrames
<1>2. \A n \in Seqs, b \in BOOLEAN : Rr(n, b) \in OutFrames(k) /\ Rr(n, b) \in InFrames
  BY FrameKinds DEF OutFrames, InFrames
<1>3. OutFrames(k) \subseteq Frames /\ InFrames \subseteq Frames
  BY DEF OutFrames, InFrames
<1>4. OutFrames(k) \subseteq OutFrames(k + 1)
  BY DEF OutFrames
<1>5. QED
  BY <1>1, <1>2, <1>3, <1>4

(***************************************************************************)
(* The invariants are kept.                                                *)
(***************************************************************************)

\* The types the lemmas about counts and channels ask for.
LEMMA Types ==
  ASSUME TypeOK, Shapes
  PROVE  /\ nsent \in Nat /\ pvs \in Nat /\ Len(delivered) \in Nat /\ Len(rxbuf) \in Nat
         /\ Modulus \in Nat /\ Modulus > 1 /\ Total \in Nat /\ RevTotal \in Nat
         /\ toRms \in Seq(Frames) /\ toUs \in Seq(Frames)
         /\ vs \in Seqs /\ va \in Seqs /\ vr \in Seqs /\ pvr \in Seqs /\ pva \in Seqs
         /\ 0 \in Seqs /\ 0 % Modulus = 0
<1>1. nsent \in Nat /\ pvs \in Nat /\ Modulus \in Nat /\ Modulus > 1 /\ Total \in Nat /\ RevTotal \in Nat
  BY RfLinkConstants DEF TypeOK
<1>2. Len(delivered) \in Nat /\ Len(rxbuf) \in Nat
  BY DEF Shapes
<1>3. toRms \in Seq(Frames) /\ toUs \in Seq(Frames)
  BY <1>1, OutMore, SeqIn DEF Shapes
<1>4. vs \in Seqs /\ va \in Seqs /\ vr \in Seqs /\ pvr \in Seqs /\ pva \in Seqs
  BY DEF TypeOK
<1>5. 0 \in Seqs /\ 0 % Modulus = 0
  BY <1>1, SmallCount DEF Seqs
<1>6. QED
  BY <1>1, <1>2, <1>3, <1>4, <1>5

\* A stream before its first call.
LEMMA InitInv ==
  ASSUME Init
  PROVE  LinkInv
<1>1. Modulus \in Nat /\ Modulus > 1 /\ Retries \in Nat /\ Total \in Nat /\ RevTotal \in Nat
      /\ 0 \in Seqs /\ 0 % Modulus = 0
  BY RfLinkConstants, SmallCount DEF Seqs
<1>2. Retries * Modulus \in Nat
  BY <1>1, RfLinkConstants
<1>3. plink \in BOOLEAN /\ echoed \in BOOLEAN /\ recalled \in BOOLEAN /\ misled \in BOOLEAN
  BY Zenon DEF Init
<1>4. TypeOK
  <2> DEFINE m == Retries * Modulus + 1
  <2>1. 0 \in 0..m
    BY <1>2
  <2> HIDE DEF m
  <2>2. tries \in 0..m
    BY <2>1 DEF Init
  <2>3. attempt \in 0..Retries /\ left \in 0..Total /\ nsent \in 0..Total /\ pvs \in 0..RevTotal
    BY <1>1 DEF Init
  <2>4. unacked \in [Seqs -> 0..Total]
    BY <1>1 DEF Init
  <2>5. toRms \in Seq(Frames)
    BY DEF Init
  <2>6. toUs \in Seq(Frames)
    BY DEF Init
  <2>7. QED
    BY <1>1, <1>3, <2>2, <2>3, <2>4, <2>5, <2>6 DEF Init, TypeOK, m
<1>5. Numbers
  BY <1>1 DEF Init, Numbers
<1>6. Shapes
  BY <1>1 DEF Init, Shapes
<1>7. Calls
  BY DEF Init, Calls
<1>8. Latest(0, 0) = 0
  BY <1>1 DEF Latest
<1>9. Dir(<<>>, <<>>, 0, 0, 0)
  BY <1>1, <1>8 DEF Dir, Spread, Rising
<1>10. Forth
  <2>1. Kept
    BY <1>8 DEF Kept, Init
  <2>2. Early
    BY DEF Early, CallsFirst, HasCall, Init
  <2>3. QED
    BY <1>9, <2>1, <2>2 DEF Forth, Init, InOrder, Complete
<1>11. Back
  BY <1>1, <1>9 DEF Back, Init, InOrder, FirstWindow
<1>12. ForthSmall
  BY DEF ForthSmall, Init, InOrder, Complete
<1>13. BackSmall
  BY <1>1 DEF BackSmall, Init, InOrder
<1>14. QED
  BY <1>4, <1>5, <1>6, <1>7, <1>10, <1>11, <1>12, <1>13 DEF LinkInv

\* The part of the type invariant that is not about the link's data.
CtlOK ==
  /\ pc \in {"start", "sabm", "ready", "chunk", "drain", "close", "disc", "closed"}
  /\ attempt \in 0..Retries
  /\ tries \in 0..Retries * Modulus + 1
  /\ left \in 0..Total
  /\ result \in {"none", "ok", "error"}
  /\ plink \in BOOLEAN /\ echoed \in BOOLEAN /\ recalled \in BOOLEAN /\ misled \in BOOLEAN

\* Steps that take no chunk and heed no acknowledgement: frames are lost or
\* ignored, or one without a chunk is sent.
LEMMA AirKeeps ==
  ASSUME LinkInv, UNCHANGED <<linkVars, nsent, pvr, pva, pvs, delivered, airVars>>,
         \/ toUs' = toUs
         \/ Heard
         \/ toUs' = Append1(toUs, Dm),
         \/ toRms' = toRms
         \/ Len(toRms) > 0 /\ toRms' = Tail(toRms)
         \/ toRms' = OnAir(toRms, <<Sabm>>)
         \/ toRms' = OnAir(toRms, <<Disc>>),
         CtlOK', Calls', Clean /\ Forth => Early' /\ (Fresh' => Fresh),
         (Clean /\ Forth) \/ (Small /\ ForthSmall) => Complete'
  PROVE  LinkInv'
<1> USE DEF linkVars, airVars
<1>1. TypeOK /\ Numbers /\ Shapes /\ Calls
  BY DEF LinkInv
<1>2. /\ nsent \in Nat /\ pvs \in Nat /\ Len(delivered) \in Nat /\ Len(rxbuf) \in Nat
      /\ toRms \in Seq(Frames) /\ toUs \in Seq(Frames) /\ va \in Seqs /\ pva \in Seqs
      /\ Modulus \in Nat
  BY <1>1, Types
<1>3. /\ Sabm \in OutFrames(nsent) /\ Disc \in OutFrames(nsent) /\ Dm \in InFrames
      /\ Sabm \in Frames /\ Disc \in Frames /\ Dm \in Frames
      /\ OutFrames(nsent) \subseteq Frames /\ InFrames \subseteq Frames
      /\ Sabm.t = "SABM" /\ Disc.t = "DISC" /\ Dm.t = "DM"
  BY <1>2, OutMore, FrameKinds
<1>4. toRms' \in Seq(OutFrames(nsent))
  <2>1. <<Sabm>> \in Seq(OutFrames(nsent)) /\ <<Disc>> \in Seq(OutFrames(nsent))
    BY <1>3
  <2>2. toRms \in Seq(OutFrames(nsent))
    BY <1>1 DEF Shapes
  <2>3. /\ OnAir(toRms, <<Sabm>>) \in Seq(OutFrames(nsent))
        /\ OnAir(toRms, <<Disc>>) \in Seq(OutFrames(nsent))
    BY <2>1, <2>2, OnAirIn
  <2>4. Len(toRms) > 0 => Tail(toRms) \in Seq(OutFrames(nsent))
    BY <2>2, RestIn
  <2>5. QED
    BY <2>2, <2>3, <2>4
<1>5. toUs' \in Seq(InFrames)
  <2>1. <<Dm>> \in Seq(InFrames) /\ toUs \in Seq(InFrames)
    BY <1>1, <1>3 DEF Shapes
  <2>2. OnAir(toUs, <<Dm>>) \in Seq(InFrames)
    BY <2>1, OnAirIn
  <2>3. Len(toUs) > 0 => Tail(toUs) \in Seq(InFrames)
    BY <2>1, RestIn
  <2>4. QED
    BY <2>1, <2>2, <2>3 DEF Heard, Append1
<1>6. toRms' \in Seq(Frames) /\ toUs' \in Seq(Frames)
  BY <1>3, <1>4, <1>5, SeqIn
<1>7. TypeOK'
  BY <1>1, <1>6 DEF TypeOK, CtlOK
<1>8. Numbers' /\ Shapes'
  BY <1>1, <1>4, <1>5 DEF Numbers, Shapes
<1>9. ASSUME NEW sent \in Nat, NEW rcvd \in Nat, NEW n \in Seqs, Dir(toRms, toUs, sent, rcvd, n)
      PROVE  Dir(toRms', toUs', sent, rcvd, n)
  <2>1. Dir(toRms, toUs', sent, rcvd, n)
    <3>1. CASE toUs' = Append1(toUs, Dm)
      <4>1. Behind(toUs', toUs, <<Dm>>)
        BY <3>1, <1>2, <1>3, OneBehind
      <4>2. <<Dm>> \in Seq(Frames) /\ \A i \in 1..Len(<<Dm>>) : ~HasNr(<<Dm>>[i])
        BY <1>3 DEF HasNr
      <4>3. QED
        BY <4>1, <4>2, <1>2, <1>9, DirAnswer
    <3>2. CASE Heard
      BY <3>2, <1>2, <1>9, DirRestAck DEF Heard
    <3>3. QED
      BY <3>1, <3>2, <1>9
  <2>2. ASSUME NEW f \in {Sabm, Disc}, toRms' = OnAir(toRms, <<f>>)
        PROVE  Dir(toRms', toUs', sent, rcvd, n)
    <3>1. f \in Frames /\ <<f>> \in Seq(Frames) /\ \A i \in 1..Len(<<f>>) : <<f>>[i].t # "I"
      BY <1>3
    <3>2. Behind(toRms', toRms, <<f>>)
      BY <3>1, <2>2, <1>2, OnAirBehind
    <3>3. QED
      BY <3>1, <3>2, <2>1, <1>2, DirNoChunk
  <2>3. CASE Len(toRms) > 0 /\ toRms' = Tail(toRms)
    BY <2>1, <2>3, <1>2, DirRest
  <2>4. QED
    BY <2>1, <2>2, <2>3
<1>10. ASSUME NEW sent \in Nat, NEW rcvd \in Nat, NEW n \in Seqs, Dir(toUs, toRms, sent, rcvd, n)
       PROVE  Dir(toUs', toRms', sent, rcvd, n)
  <2>1. Dir(toUs', toRms, sent, rcvd, n)
    <3>1. CASE toUs' = Append1(toUs, Dm)
      <4>1. Behind(toUs', toUs, <<Dm>>)
        BY <3>1, <1>2, <1>3, OneBehind
      <4>2. <<Dm>> \in Seq(Frames) /\ \A i \in 1..Len(<<Dm>>) : <<Dm>>[i].t # "I"
        BY <1>3
      <4>3. QED
        BY <4>1, <4>2, <1>2, <1>10, DirNoChunk
    <3>2. CASE Heard
      BY <3>2, <1>2, <1>10, DirRest DEF Heard
    <3>3. QED
      BY <3>1, <3>2, <1>10
  <2>2. ASSUME NEW f \in {Sabm, Disc}, toRms' = OnAir(toRms, <<f>>)
        PROVE  Dir(toUs', toRms', sent, rcvd, n)
    <3>1. f \in Frames /\ <<f>> \in Seq(Frames) /\ \A i \in 1..Len(<<f>>) : ~HasNr(<<f>>[i])
      BY <1>3 DEF HasNr
    <3>2. Behind(toRms', toRms, <<f>>)
      BY <3>1, <2>2, <1>2, OnAirBehind
    <3>3. QED
      BY <3>1, <3>2, <2>1, <1>2, DirAnswer
  <2>3. CASE Len(toRms) > 0 /\ toRms' = Tail(toRms)
    BY <2>1, <2>3, <1>2, DirRestAck
  <2>4. QED
    BY <2>1, <2>2, <2>3
<1>11. ASSUME NEW i \in 1..Len(toUs'), HasNr(toUs'[i])
       PROVE  \E j \in 1..Len(toUs) : toUs'[i] = toUs[j]
  <2>1. CASE toUs' = Append1(toUs, Dm)
    <3>1. Behind(toUs', toUs, <<Dm>>)
      BY <2>1, <1>2, <1>3, OneBehind
    <3>2. i \in 1..Len(toUs) \/ toUs'[i] = Dm
      BY <3>1, <1>2, <1>6 DEF Behind
    <3>3. i \in 1..Len(toUs)
      BY <3>2, <1>3, <1>11 DEF HasNr
    <3>4. QED
      BY <3>1, <3>3, <1>2 DEF Behind
  <2>2. CASE Heard
    <3>1. i + 1 \in 1..Len(toUs) /\ toUs'[i] = toUs[i + 1]
      BY <2>2, <1>2, Rest DEF Heard
    <3>2. QED
      BY <3>1
  <2>3. QED
    BY <2>1, <2>2
<1>12. ASSUME Clean, Forth, Back
       PROVE  Forth' /\ Back'
  <2>1. Dir(toRms', toUs', nsent, Len(delivered), va)
    BY <1>2, <1>9, <1>12 DEF Forth
  <2>2. Dir(toUs', toRms', pvs, Len(rxbuf), pva)
    BY <1>2, <1>10, <1>12 DEF Back
  <2>3. Complete'
    BY <1>12
  <2>4. Forth'
    BY <2>1, <2>3, <1>12 DEF Forth, Kept, InOrder
  <2>5. FirstWindow'
    <3>1. ASSUME NEW i \in 1..Len(toUs'), toUs'[i].t = "I", Fresh
          PROVE  toUs'[i].data <= Modulus - 1
      BY <3>1, <1>11, <1>12 DEF Back, FirstWindow, HasNr
    <3>2. QED
      BY <3>1, <1>12 DEF Back, FirstWindow
  <2>6. Back'
    BY <2>2, <2>5, <1>12 DEF Back, InOrder
  <2>7. QED
    BY <2>4, <2>6
<1>13. ASSUME Small, ForthSmall
       PROVE  ForthSmall'
  <2>1. Complete'
    BY <1>13
  <2>2. \A i \in 1..Len(toUs') : HasNr(toUs'[i]) => toUs'[i].nr <= Len(delivered)
    BY <1>11, <1>13 DEF ForthSmall
  <2>3. QED
    BY <2>1, <2>2, <1>13 DEF ForthSmall, InOrder
<1>14. BackSmall => BackSmall'
  BY DEF BackSmall, InOrder
<1>15. QED
  BY <1>7, <1>8, <1>12, <1>13, <1>14 DEF LinkInv, Clean, Small

\* A round of connect(), with a frame read before it or not.
LEMMA SabmKeeps ==
  ASSUME LinkInv, Calling, SabmRound, toUs' = toUs \/ Heard,
         UNCHANGED <<tries, linkVars, left, nsent, rmsVars>>
  PROVE  LinkInv'
<1> USE DEF rmsVars, airVars, linkVars
<1>1. TypeOK /\ Shapes /\ Calls
  BY DEF LinkInv
<1>2. nsent = 0 /\ delivered = <<>> /\ toRms \in Seq({Sabm}) /\ result # "ok"
  BY <1>1 DEF Calls, Calling
<1>3. Retries \in Nat /\ attempt \in 0..Retries
  BY <1>1, RfLinkConstants DEF TypeOK
<1>4. CtlOK'
  <2>1. plink' \in BOOLEAN /\ echoed' \in BOOLEAN /\ recalled' \in BOOLEAN /\ misled' \in BOOLEAN
    BY <1>1, Zenon DEF TypeOK
  <2>2. attempt' \in 0..Retries
    BY <1>3 DEF SabmRound
  <2>3. /\ pc' \in {"start", "sabm", "ready", "chunk", "drain", "close", "disc", "closed"}
        /\ result' \in {"none", "ok", "error"}
    BY <1>1 DEF SabmRound, TypeOK
  <2>4. QED
    BY <1>1, <2>1, <2>2, <2>3 DEF TypeOK, CtlOK
<1>5. toRms' \in Seq({Sabm}) /\ (toRms' = toRms \/ toRms' = OnAir(toRms, <<Sabm>>))
  <2>1. <<Sabm>> \in Seq({Sabm})
    OBVIOUS
  <2>2. OnAir(toRms, <<Sabm>>) \in Seq({Sabm})
    BY <2>1, <1>2, OnAirIn
  <2>3. QED
    BY <2>2, <1>2 DEF SabmRound, Transmit
<1>6. Calls' /\ Early'
  <2>1. \A i \in 1..Len(toRms') : toRms'[i].t = "SABM"
    BY <1>5, FrameKinds
  <2>2. CallsFirst(toRms') /\ delivered' = <<>>
    BY <2>1, <1>2, <1>5 DEF CallsFirst
  <2>3. pc' # "chunk" /\ result' # "ok"
    BY <1>2 DEF SabmRound
  <2>4. QED
    BY <2>2, <2>3, <1>1, <1>2, <1>5 DEF Calls, Calling, Early
<1>7. Complete'
  BY <1>2 DEF SabmRound, Complete
<1>8. Fresh
  BY DEF Fresh
<1>9. QED
  BY <1>4, <1>5, <1>6, <1>7, <1>8, AirKeeps

\* An answer read by connect(), whoever it was sent to.
LEMMA AnswerKeeps ==
  ASSUME LinkInv, NEW f, Answered(f), toUs' = toUs \/ Heard, UNCHANGED rmsVars
  PROVE  LinkInv'
<1> USE DEF rmsVars, airVars, linkVars
<1>1. Calling /\ TypeOK /\ Shapes /\ Calls /\ Numbers
  BY DEF Answered, Calling, LinkInv
<1>2. UNCHANGED <<tries, unacked, rxbuf, left, nsent>>
  BY DEF Answered
<1>3. CASE SabmRound /\ UNCHANGED <<vs, va, vr>>
  BY <1>1, <1>2, <1>3, SabmKeeps
<1>4. CASE pc' = "ready" /\ vs' = 0 /\ va' = 0 /\ vr' = 0
           /\ UNCHANGED <<attempt, result, toRms>>
  <2>1. nsent = 0 /\ va = 0 /\ rxbuf = <<>> /\ delivered = <<>>
    BY <1>1 DEF Calls
  <2>2. vs = 0 /\ vr = 0
    BY <2>1, <1>1, Types DEF Numbers
  <2>3. UNCHANGED <<linkVars, nsent, pvr, pva, pvs, delivered, airVars, attempt, tries, left, result, toRms, plink>>
    BY <2>1, <2>2, <1>2, <1>4
  <2>4. CtlOK'
    <3>1. plink' \in BOOLEAN /\ echoed' \in BOOLEAN /\ recalled' \in BOOLEAN /\ misled' \in BOOLEAN
      BY <1>1, <2>3, Zenon DEF TypeOK
    <3>2. QED
      BY <1>1, <1>4, <2>3, <3>1 DEF CtlOK, TypeOK
  <2>5. Calls' /\ Complete'
    BY <1>1, <1>4, <2>1, <2>3 DEF Calls, Calling, Complete
  <2>6. Fresh /\ (Forth => Early')
    BY <1>1, <2>3 DEF Fresh, Forth, Early
  <2>7. QED
    BY <2>3, <2>4, <2>5, <2>6, AirKeeps
<1>5. CASE pc' = "close" /\ result' = "error" /\ UNCHANGED <<attempt, vs, va, vr, toRms>>
  <2>1. UNCHANGED <<linkVars, nsent, pvr, pva, pvs, delivered, airVars, attempt, tries, left, toRms, plink>>
    BY <1>2, <1>5
  <2>2. CtlOK'
    <3>1. plink' \in BOOLEAN /\ echoed' \in BOOLEAN /\ recalled' \in BOOLEAN /\ misled' \in BOOLEAN
      BY <1>1, <2>1, Zenon DEF TypeOK
    <3>2. QED
      BY <1>1, <1>5, <2>1, <3>1 DEF CtlOK, TypeOK
  <2>3. Calls' /\ Complete'
    BY <1>1, <1>5, <2>1 DEF Calls, Calling, Complete
  <2>4. Fresh /\ (Forth => Early')
    BY <1>1, <2>1 DEF Fresh, Forth, Early
  <2>5. QED
    BY <2>1, <2>2, <2>3, <2>4, AirKeeps
<1>6. QED
  BY <1>3, <1>4, <1>5 DEF Answered

\* connect(): its calls, and every answer of the RMS to us.
LEMMA ConnectKeeps ==
  ASSUME LinkInv, Connect \/ ConnectTimeout \/ ConnectReply
  PROVE  LinkInv'
<1>1. CASE Connect \/ ConnectTimeout
  BY <1>1, SabmKeeps DEF Connect, ConnectTimeout, Calling
<1>2. CASE ConnectReply
  BY <1>2, AnswerKeeps DEF ConnectReply
<1>3. QED
  BY <1>1, <1>2

\* When everything sent is acknowledged, the RMS has it.
LEMMA DrainedComplete ==
  ASSUME LinkInv, Drained, (Clean /\ Forth) \/ (Small /\ ForthSmall)
  PROVE  Len(delivered) = nsent
<1>1. TypeOK /\ Shapes /\ Numbers
  BY DEF LinkInv
<1>2. nsent \in Nat /\ Len(delivered) \in Nat /\ Modulus \in Nat /\ va \in Seqs
  BY <1>1, Types
<1>3. va = nsent % Modulus
  BY <1>1 DEF Numbers, Drained
<1>4. CASE Forth
  <2> DEFINE base == Latest(Len(delivered), va)
  <2>1. /\ base \in Int /\ base <= Len(delivered) /\ Len(delivered) < base + Modulus
        /\ base % Modulus = va
    BY <1>2, LatestCount
  <2>2. nsent <= base + Modulus - 1 /\ Len(delivered) <= nsent
    BY <1>4 DEF Forth, Dir
  <2> HIDE DEF base
  <2>3. base = nsent
    <3>1. base - nsent < Modulus /\ nsent - base < Modulus
      BY <2>1, <2>2, <1>2
    <3>2. base % Modulus = nsent % Modulus
      BY <2>1, <1>3
    <3>3. nsent \in Int
      BY <1>2
    <3>4. QED
      BY <3>1, <3>2, <3>3, <2>1, SameCount
  <2>4. QED
    BY <2>1, <2>2, <2>3, <1>2
<1>5. CASE Small /\ ForthSmall
  <2>1. nsent \in Seqs
    BY <1>2, <1>5 DEF Seqs, Small
  <2>2. va = nsent
    BY <2>1, <1>3, SmallCount
  <2>3. QED
    BY <2>2, <1>2, <1>5 DEF ForthSmall
<1>6. QED
  BY <1>4, <1>5

\* The steps of the caller that send nothing.
LEMMA CallerKeeps ==
  ASSUME LinkInv, Send \/ SendReturns \/ Finish \/ KissLost
  PROVE  LinkInv'
<1> USE DEF rmsVars, airVars, linkVars
<1>1. TypeOK /\ Shapes /\ Calls
  BY DEF LinkInv
<1>2. UNCHANGED <<attempt, vs, va, vr, unacked, rxbuf, nsent, pvr, pva, pvs, delivered, airVars, plink, toRms, toUs>>
  BY DEF Send, SendReturns, Finish, KissLost
<1>3. Retries \in Nat /\ Modulus \in Nat /\ Total \in Nat /\ nsent \in 0..Total
  BY <1>1, RfLinkConstants DEF TypeOK
<1>4. CtlOK'
  <2>1. plink' \in BOOLEAN /\ echoed' \in BOOLEAN /\ recalled' \in BOOLEAN /\ misled' \in BOOLEAN
    BY <1>1, <1>2, Zenon DEF TypeOK
  <2>2. tries' \in 0..Retries * Modulus + 1
    <3> DEFINE m == Retries * Modulus + 1
    <3>1. m \in Nat
      BY <1>3
    <3>2. tries \in 0..m
      BY <1>1 DEF TypeOK
    <3> HIDE DEF m
    <3>3. tries' \in 0..m
      BY <3>1, <3>2 DEF Send, SendReturns, Finish, KissLost
    <3>4. QED
      BY <3>3 DEF m
  <2>3. left' \in 0..Total
    BY <1>1, <1>3 DEF Send, SendReturns, Finish, KissLost, TypeOK
  <2>4. /\ pc' \in {"start", "sabm", "ready", "chunk", "drain", "close", "disc", "closed"}
        /\ result' \in {"none", "ok", "error"}
    BY <1>1 DEF Send, SendReturns, Finish, KissLost, TypeOK
  <2>5. QED
    BY <1>1, <1>2, <2>1, <2>2, <2>3, <2>4 DEF CtlOK, TypeOK
<1>5. ~Calling'
  BY DEF Send, SendReturns, Finish, KissLost, Calling
<1>6. pc' = "chunk" => left' >= 1 /\ nsent + left' <= Total
  BY <1>1, <1>3 DEF Send, SendReturns, Finish, KissLost, Calls
<1>7. result' = "ok" => pc' \in {"close", "disc", "closed"}
  BY <1>1 DEF Send, SendReturns, Finish, KissLost, Calls
<1>8. Calls'
  BY <1>1, <1>2, <1>5, <1>6, <1>7 DEF Calls
<1>9. (Fresh' => Fresh) /\ (Forth => Early')
  BY <1>2, <1>5 DEF Fresh, Forth, Early
<1>10. ASSUME (Clean /\ Forth) \/ (Small /\ ForthSmall)
       PROVE  Complete'
  <2>1. Complete
    BY <1>10 DEF Forth, ForthSmall
  <2>2. CASE SendReturns
    BY <2>2, <1>2, <1>10, DrainedComplete DEF SendReturns, Complete
  <2>3. CASE Send \/ Finish \/ KissLost
    BY <2>1, <2>3, <1>2 DEF Send, Finish, KissLost, Complete
  <2>4. QED
    BY <2>2, <2>3
<1>11. QED
  BY <1>2, <1>4, <1>8, <1>9, <1>10, AirKeeps

\* Frames are lost, close() sends DISC and reads a last frame, and the RMS ends
\* the session.
LEMMA LossKeeps ==
  ASSUME LinkInv, SendDisc \/ Closed \/ LoseToRms \/ LoseToUs \/ RmsDrops \/ UNCHANGED vars
  PROVE  LinkInv'
<1> USE DEF rmsVars, airVars, linkVars, usVars, vars
<1>1. TypeOK /\ Shapes /\ Calls
  BY DEF LinkInv
<1>2. UNCHANGED <<attempt, tries, vs, va, vr, unacked, rxbuf, left, nsent, result, pvr, pva, pvs, delivered, airVars>>
  BY DEF SendDisc, Closed, LoseToRms, LoseToUs, RmsDrops
<1>3. CtlOK'
  <2>1. echoed' \in BOOLEAN /\ recalled' \in BOOLEAN /\ misled' \in BOOLEAN
    BY <1>1, <1>2, Zenon DEF TypeOK
  <2>2. plink' \in BOOLEAN
    <3>1. plink' = plink \/ plink' = FALSE
      BY DEF SendDisc, Closed, LoseToRms, LoseToUs, RmsDrops
    <3>2. QED
      BY <3>1, <1>1, Zenon DEF TypeOK
  <2>3. pc' \in {"start", "sabm", "ready", "chunk", "drain", "close", "disc", "closed"}
    BY <1>1 DEF SendDisc, Closed, LoseToRms, LoseToUs, RmsDrops, TypeOK
  <2>4. QED
    BY <1>1, <1>2, <2>1, <2>2, <2>3 DEF CtlOK, TypeOK
<1>4. toUs' = toUs \/ Heard \/ toUs' = Append1(toUs, Dm)
  BY DEF SendDisc, Closed, LoseToRms, LoseToUs, RmsDrops, Heard
<1>5. \/ toRms' = toRms
      \/ Len(toRms) > 0 /\ toRms' = Tail(toRms)
      \/ toRms' = OnAir(toRms, <<Disc>>) /\ pc = "close"
  BY DEF SendDisc, Closed, LoseToRms, LoseToUs, RmsDrops, Transmit
<1>6. pc' = pc \/ (pc' \in {"disc", "closed"} /\ pc \in {"close", "disc"})
  BY DEF SendDisc, Closed, LoseToRms, LoseToUs, RmsDrops
<1>7. toRms \in Seq(Frames)
  BY <1>1, Types
<1>8. ASSUME CallsFirst(toRms)
      PROVE  CallsFirst(toRms') /\ (HasCall(toRms') => HasCall(toRms))
  <2>1. CASE Len(toRms) > 0 /\ toRms' = Tail(toRms)
    BY <2>1, <1>7, <1>8, CallRest
  <2>2. CASE toRms' = OnAir(toRms, <<Disc>>)
    <3>1. <<Disc>> \in Seq(Frames) /\ \A i \in 1..Len(<<Disc>>) : <<Disc>>[i].t # "SABM"
      BY FrameKinds
    <3>2. Behind(toRms', toRms, <<Disc>>)
      BY <3>1, <2>2, <1>7, OnAirBehind
    <3>3. QED
      BY <3>1, <3>2, <1>7, <1>8, CallBehind
  <2>3. QED
    BY <2>1, <2>2, <1>5, <1>8
<1>9. Calling' => Calling /\ toRms' \in Seq({Sabm})
  <2>1. CASE Calling'
    <3>1. Calling /\ pc # "close"
      BY <2>1, <1>6 DEF Calling
    <3>2. toRms \in Seq({Sabm})
      BY <3>1, <1>1 DEF Calls
    <3>3. QED
      BY <3>1, <3>2, <1>5, RestIn
  <2>2. QED
    BY <2>1
<1>10. Calls'
  BY <1>1, <1>2, <1>6, <1>9 DEF Calls
<1>11. Forth => Early' /\ (Fresh' => Fresh)
  BY <1>2, <1>8, <1>9 DEF Fresh, Forth, Early
<1>12. ASSUME (Clean /\ Forth) \/ (Small /\ ForthSmall)
       PROVE  Complete'
  <2>1. Complete
    BY <1>12 DEF Forth, ForthSmall
  <2>2. QED
    BY <2>1, <1>2, <1>6 DEF Complete
<1>13. QED
  BY <1>2, <1>3, <1>4, <1>5, <1>10, <1>11, <1>12, AirKeeps

\* The difference of two numbers is that of their counts.
LEMMA Gap ==
  ASSUME NEW a \in Int, NEW b \in Int, a - b \in Seqs
  PROVE  ((a % Modulus) - (b % Modulus)) % Modulus = a - b
<1>1. (b % Modulus) \in Int
  BY Rounds DEF Seqs
<1> DEFINE n == b % Modulus
<1> HIDE DEF n
<1>2. ((a % Modulus) + (-n)) % Modulus = (a + (-n)) % Modulus
  BY <1>1, SumNumber DEF n
<1>3. (a - n) % Modulus = (a - b) % Modulus
  BY SumNumber DEF n
<1>4. (a - b) % Modulus = a - b
  BY SmallCount
<1>5. a + (-n) = a - n /\ (a % Modulus) + (-n) = (a % Modulus) - n
  BY <1>1, Rounds DEF n, Seqs
<1>6. QED
  BY <1>2, <1>3, <1>4, <1>5 DEF n

\* Our window, in counts: base is what the RMS is known to have.
LEMMA Window ==
  ASSUME LinkInv, Forth
  PROVE  LET base == Latest(Len(delivered), va) IN
         /\ base \in Nat /\ base % Modulus = va
         /\ base <= Len(delivered) /\ Len(delivered) < base + Modulus
         /\ Len(delivered) <= nsent /\ nsent <= base + Modulus - 1
         /\ (vs - va) % Modulus = nsent - base
<1> DEFINE base == Latest(Len(delivered), va)
<1>1. TypeOK /\ Shapes /\ Numbers
  BY DEF LinkInv
<1>2. nsent \in Nat /\ Len(delivered) \in Nat /\ Modulus \in Nat /\ va \in Seqs
  BY <1>1, Types
<1>3. /\ base \in Int /\ base <= Len(delivered) /\ Len(delivered) < base + Modulus
      /\ base % Modulus = va
  BY <1>2, LatestCount
<1>4. base >= 0 /\ nsent <= base + Modulus - 1 /\ Len(delivered) <= nsent
  BY DEF Forth, Dir
<1> HIDE DEF base
<1>5. nsent - base \in Seqs /\ nsent \in Int
  BY <1>2, <1>3, <1>4 DEF Seqs
<1>6. (vs - va) % Modulus = nsent - base
  <2>1. ((nsent % Modulus) - (base % Modulus)) % Modulus = nsent - base
    BY <1>3, <1>5, Gap
  <2>2. QED
    BY <2>1, <1>1, <1>3 DEF Numbers
<1>7. QED
  BY <1>2, <1>3, <1>4, <1>6 DEF base

\* What is sent with our N(R) is an answer for the other direction, and leaves
\* the rest of what the RMS sends alone.
LEMMA OutBack ==
  ASSUME LinkInv, Early, Back, ~Calling', NEW fs \in Seq(Frames), Behind(toRms', toRms, fs),
         \A i \in 1..Len(fs) : fs[i].t # "SABM" /\ (HasNr(fs[i]) => fs[i].nr = vr),
         UNCHANGED <<toUs, pvs, rxbuf, pva>>
  PROVE  Back'
<1>1. TypeOK /\ Shapes /\ Numbers
  BY DEF LinkInv
<1>2. toRms \in Seq(Frames) /\ Len(rxbuf) \in Nat /\ pva \in Seqs /\ vr = Len(rxbuf) % Modulus
  BY <1>1, Types DEF Numbers
<1>3. Dir(toUs, toRms', pvs, Len(rxbuf), pva)
  BY <1>2, DirAnswer DEF Back
<1>4. HasCall(toRms') => HasCall(toRms)
  BY <1>2, CallBehind DEF Early
<1>5. FirstWindow'
  BY <1>4 DEF Back, FirstWindow, Fresh
<1>6. QED
  BY <1>3, <1>5 DEF Back, InOrder

\* _send_chunk() within the window.
LEMMA SendChunkKeeps ==
  ASSUME LinkInv, SendChunk
  PROVE  LinkInv'
<1> USE DEF rmsVars, airVars, linkVars
<1> DEFINE f == I(vs, vr, nsent + 1)
<1>1. TypeOK /\ Numbers /\ Shapes /\ Calls
  BY DEF LinkInv
<1>2. /\ nsent \in Nat /\ Len(delivered) \in Nat /\ Len(rxbuf) \in Nat /\ Modulus \in Nat /\ Modulus > 1
      /\ toRms \in Seq(Frames) /\ vs \in Seqs /\ va \in Seqs /\ vr \in Seqs /\ Total \in Nat /\ RevTotal \in Nat
  BY <1>1, Types
<1>3. left >= 1 /\ nsent + left <= Total /\ left \in Nat /\ result # "ok"
  BY <1>1 DEF Calls, TypeOK, SendChunk
<1>4. nsent + 1 \in 1..Total /\ nsent + 1 \in 1..Total + RevTotal /\ nsent' = nsent + 1
  BY <1>2, <1>3 DEF SendChunk
<1>5. /\ f \in Frames /\ f.t = "I" /\ f.ns = vs /\ f.nr = vr /\ f.data = nsent + 1
  BY <1>2, <1>4, FrameKinds
<1> HIDE DEF f
<1>6. toRms' = OnAir(toRms, <<f>>) /\ <<f>> \in Seq(Frames)
  BY <1>5 DEF SendChunk, Transmit, f
<1>7. Behind(toRms', toRms, <<f>>)
  BY <1>2, <1>6, OnAirBehind
<1>8. toRms' \in Seq(OutFrames(nsent + 1))
  <2>1. (nsent + 1) - 1 = nsent
    BY <1>2
  <2>2. f \in OutFrames(nsent + 1)
    BY <1>1, <1>4, <1>5, <2>1 DEF OutFrames, Numbers
  <2>3. <<f>> \in Seq(OutFrames(nsent + 1))
    BY <2>2
  <2>4. toRms \in Seq(OutFrames(nsent + 1))
    BY <1>1, <1>2, OutMore, SeqIn DEF Shapes
  <2>5. QED
    BY <2>3, <2>4, <1>6, OnAirIn
<1>9. vs' = (nsent + 1) % Modulus /\ vs' \in Seqs
  <2>1. vs = nsent % Modulus /\ vs' = NextSeq(vs)
    BY <1>1 DEF SendChunk, Numbers
  <2>2. nsent \in Int /\ nsent + 1 \in Int
    BY <1>2
  <2>3. NextSeq(nsent % Modulus) = (nsent + 1) % Modulus
    BY <2>2, NextNumber
  <2>4. (nsent + 1) % Modulus \in Seqs
    BY <2>2, Rounds
  <2>5. QED
    BY <2>1, <2>3, <2>4
<1>10. unacked' \in [Seqs -> 0..Total] /\ unacked'[vs] = nsent + 1
       /\ \A n \in Seqs : n # vs => unacked'[n] = unacked[n]
  BY <1>1, <1>2, <1>4 DEF SendChunk, TypeOK
<1>11. TypeOK'
  <2>1. plink' \in BOOLEAN /\ echoed' \in BOOLEAN /\ recalled' \in BOOLEAN /\ misled' \in BOOLEAN
    BY <1>1, Zenon DEF TypeOK, SendChunk
  <2>2. left' \in 0..Total /\ nsent' \in 0..Total
    BY <1>2, <1>3, <1>4 DEF SendChunk
  <2>3. pc' \in {"drain", "chunk"}
    BY DEF SendChunk
  <2>4. toRms' \in Seq(Frames)
    BY <1>7 DEF Behind
  <2>5. QED
    BY <1>1, <1>9, <1>10, <2>1, <2>2, <2>3, <2>4 DEF TypeOK, SendChunk
<1>12. Numbers'
  BY <1>1, <1>4, <1>9 DEF Numbers, SendChunk
<1>13. Shapes'
  <2>1. ASSUME NEW n \in Seqs, unacked'[n] # 0
        PROVE  unacked'[n] \in 1..nsent + 1 /\ (unacked'[n] - 1) % Modulus = n
    <3>1. CASE n = vs
      <4>1. (nsent + 1) - 1 = nsent
        BY <1>2
      <4>2. QED
        BY <3>1, <4>1, <1>1, <1>2, <1>10 DEF Numbers
    <3>2. CASE n # vs
      <4>1. unacked'[n] = unacked[n]
        BY <3>2, <1>10
      <4>2. unacked[n] \in 1..nsent /\ (unacked[n] - 1) % Modulus = n
        BY <4>1, <2>1, <1>1 DEF Shapes
      <4>3. 1..nsent \subseteq 1..nsent + 1
        BY <1>2
      <4>4. QED
        BY <4>1, <4>2, <4>3
    <3>3. QED
      BY <3>1, <3>2
  <2>2. QED
    BY <2>1, <1>1, <1>4, <1>8 DEF Shapes, SendChunk
<1>14. Early => Early'
  <2>1. \A i \in 1..Len(<<f>>) : <<f>>[i].t # "SABM"
    BY <1>5
  <2>2. CallsFirst(toRms) => CallsFirst(toRms') /\ (HasCall(toRms') => HasCall(toRms))
    BY <2>1, <1>2, <1>6, <1>7, CallBehind
  <2>3. QED
    BY <2>2 DEF Early, SendChunk
<1>15. ~Calling' /\ pc' \notin {"ready"} /\ result' # "ok"
  BY <1>3 DEF Calling, SendChunk
<1>16. Calls'
  <2>1. pc' = "chunk" => left' >= 1 /\ nsent' + left' <= Total
    BY <1>2, <1>3 DEF SendChunk
  <2>2. nsent' # 0 /\ delivered' = delivered
    BY <1>2, <1>4 DEF SendChunk
  <2>3. QED
    BY <2>1, <2>2, <1>1, <1>15 DEF Calls
<1>17. ASSUME Forth PROVE Forth'
  <2> DEFINE base == Latest(Len(delivered), va)
  <2>1. /\ base \in Nat /\ base <= Len(delivered) /\ Len(delivered) < base + Modulus
        /\ Len(delivered) <= nsent /\ nsent <= base + Modulus - 1
        /\ (vs - va) % Modulus = nsent - base
    BY <1>17, Window
  <2> HIDE DEF base
  <2>2. nsent + 1 <= base + Modulus - 1
    <3>1. ~(nsent - base >= Modulus - 1)
      BY <2>1 DEF SendChunk, WindowFull
    <3>2. QED
      BY <3>1, <2>1, <1>2
  <2>3. Dir(toRms', toUs, nsent + 1, Len(delivered), va)
    <3>1. Spread(<<f>>)
      BY DEF Spread
    <3>2. \A j \in 1..Len(toRms) : toRms[j].t = "I" => toRms[j].data \in 1..nsent
      BY <1>1 DEF Shapes, OutFrames
    <3>3. ASSUME NEW i \in 1..Len(<<f>>)
          PROVE  /\ <<f>>[i].data <= base + Modulus - 1
                 /\ <<f>>[i].data <= (nsent + 1) + Modulus - 1
                 /\ Len(delivered) <= <<f>>[i].data + Modulus - 2
                 /\ \A j \in 1..Len(toRms) : toRms[j].t = "I" =>
                      toRms[j].data <= <<f>>[i].data + Modulus - 2
      <4>1. <<f>>[i].data = nsent + 1
        BY <1>5
      <4>2. /\ nsent + 1 <= base + Modulus - 1
            /\ nsent + 1 <= (nsent + 1) + Modulus - 1
            /\ Len(delivered) <= (nsent + 1) + Modulus - 2
        BY <2>1, <2>2, <1>2
      <4>3. ASSUME NEW k \in 1..nsent PROVE k <= (nsent + 1) + Modulus - 2
        BY <1>2
      <4>4. \A j \in 1..Len(toRms) : toRms[j].t = "I" =>
              toRms[j].data <= (nsent + 1) + Modulus - 2
        BY <3>2, <4>3
      <4>5. QED
        BY <4>1, <4>2, <4>4
    <3>4. Dir(toRms, toUs, nsent, Len(delivered), va) /\ nsent + 1 \in {nsent, nsent + 1}
      BY <1>17 DEF Forth
    <3>5. QED
      BY <3>1, <3>3, <3>4, <2>2, <1>2, <1>6, <1>7, DirSend DEF base
  <2>4. Kept'
    <3>1. ASSUME NEW k \in base + 1 .. nsent + 1
          PROVE  unacked'[(k - 1) % Modulus] = k
      <4>1. k \in Int /\ (k - 1) % Modulus \in Seqs
        <5>1. k \in Int /\ k - 1 \in Int
          BY <2>1, <1>2
        <5>2. QED
          BY <5>1, Rounds
      <4>2. CASE k = nsent + 1
        <5>1. k - 1 = nsent
          BY <4>2, <1>2
        <5>2. QED
          BY <4>2, <5>1, <1>1, <1>10 DEF Numbers
      <4>3. CASE k # nsent + 1
        <5>1. k \in base + 1 .. nsent
          BY <4>3, <2>1, <1>2
        <5>2. unacked[(k - 1) % Modulus] = k
          BY <5>1, <1>17 DEF Forth, Kept, base
        <5>3. (k - 1) % Modulus # vs
          <6>1. k - 1 \in Int /\ nsent \in Int /\ k - 1 # nsent
                /\ (k - 1) - nsent < Modulus /\ nsent - (k - 1) < Modulus
            BY <5>1, <2>1, <1>2
          <6>2. (k - 1) % Modulus # nsent % Modulus
            BY <6>1, SameCount
          <6>3. QED
            BY <6>2, <1>1 DEF Numbers
        <5>4. QED
          BY <5>2, <5>3, <4>1, <1>10
      <4>4. QED
        BY <4>2, <4>3
    <3>2. QED
      BY <3>1, <1>4 DEF Kept, base, SendChunk
  <2>5. Complete' /\ InOrder(delivered')
    BY <1>15, <1>17 DEF Complete, Forth, SendChunk
  <2>6. Len(delivered') <= nsent'
    BY <2>1, <1>2, <1>4 DEF SendChunk
  <2>7. QED
    BY <2>3, <2>4, <2>5, <2>6, <1>4, <1>14, <1>17 DEF Forth, SendChunk
<1>18. ASSUME Early, Back PROVE Back'
  <2>1. \A i \in 1..Len(<<f>>) : <<f>>[i].t # "SABM" /\ <<f>>[i].nr = vr
    BY <1>5
  <2>2. UNCHANGED <<toUs, pvs, rxbuf, pva>>
    BY DEF SendChunk
  <2>3. QED
    BY <2>1, <2>2, <1>6, <1>7, <1>15, <1>18, OutBack
<1>19. ASSUME nsent + 1 < Modulus, ForthSmall PROVE ForthSmall'
  BY <1>2, <1>4, <1>15, <1>19 DEF ForthSmall, Complete, InOrder, SendChunk
<1>20. nsent + 1 < Modulus => nsent < Modulus
  BY <1>2
<1>21. BackSmall => BackSmall'
  BY DEF BackSmall, InOrder, SendChunk
<1>22. UNCHANGED airVars /\ (Forth => Early)
  BY DEF SendChunk, Forth
<1>23. QED
  BY <1>4, <1>11, <1>12, <1>13, <1>16, <1>17, <1>18, <1>19, <1>20, <1>21, <1>22 DEF LinkInv, Clean, Small

\* _retransmit() sends chunks that are kept, each with its number and our N(R);
\* while no frame was repeated, those from the last acknowledgement on, in order.
LEMMA Resent ==
  ASSUME LinkInv, Retransmit
  PROVE  \E fs \in Seq(OutFrames(nsent)) :
           /\ toRms' = OnAir(toRms, fs)
           /\ \A i \in 1..Len(fs) : fs[i].t = "I" /\ fs[i].nr = vr
           /\ Forth => /\ \A i \in 1..Len(fs) : fs[i].data > Latest(Len(delivered), va)
                       /\ \A i, j \in 1..Len(fs) : i < j => fs[i].data < fs[j].data
<1> DEFINE g == (vs - va) % Modulus
           At(i) == (va + i) % Modulus
           kept == {i \in 0 .. g - 1 : unacked[At(i)] # 0}
           n == Cardinality(kept)
<1>1. TypeOK /\ Numbers /\ Shapes
  BY DEF LinkInv
<1>2. /\ nsent \in Nat /\ Len(delivered) \in Nat /\ Modulus \in Nat /\ Modulus > 1
      /\ vs \in Seqs /\ va \in Seqs /\ vr \in Seqs /\ Total \in Nat /\ RevTotal \in Nat
  BY <1>1, Types
<1>3. va \in Int /\ vs \in Int /\ vs - va \in Int
  BY <1>2 DEF Seqs
<1>4. g \in Seqs
  BY <1>3, Rounds
<1>5. g \in Int
  BY <1>2, <1>4 DEF Seqs
<1>6. \A i \in Int : At(i) \in Seqs
  <2>1. \A i \in Int : va + i \in Int
    BY <1>3
  <2>2. QED
    BY <2>1, Rounds
<1>7. PICK s \in [1..n -> kept] :
        /\ \A i, j \in 1..n : i < j => s[i] < s[j]
        /\ toRms' = OnAir(toRms, [i \in 1..n |-> I(At(s[i]), vr, unacked[At(s[i])])])
  BY DEF Retransmit, Transmit
<1> HIDE DEF g, At
<1>8. n \in Nat
  <2>1. IsFiniteSet(0 .. g - 1)
    BY <1>5, FS_Interval
  <2>2. kept \subseteq 0 .. g - 1
    OBVIOUS
  <2>3. IsFiniteSet(kept)
    BY <2>1, <2>2, FS_Subset
  <2>4. QED
    BY <2>3, FS_CardinalityType
<1> HIDE DEF n
<1> DEFINE fs == [i \in 1..n |-> I(At(s[i]), vr, unacked[At(s[i])])]
<1>9. ASSUME NEW i \in 1..n
      PROVE  /\ s[i] \in 0 .. g - 1 /\ s[i] \in Int /\ At(s[i]) \in Seqs
             /\ unacked[At(s[i])] # 0
  BY <1>5, <1>6
<1>10. ASSUME NEW i \in 1..n
       PROVE  /\ fs[i] \in OutFrames(nsent) /\ fs[i].t = "I" /\ fs[i].nr = vr
              /\ fs[i].data = unacked[At(s[i])]
  <2> DEFINE m == At(s[i])
             k == unacked[m]
  <2>1. m \in Seqs /\ k # 0
    BY <1>9
  <2>2. fs[i] = I(m, vr, k)
    OBVIOUS
  <2> HIDE DEF m, k, fs
  <2>3. k \in 1..nsent /\ (k - 1) % Modulus = m
    BY <2>1, <1>1 DEF Shapes, k
  <2>4. k \in 1..Total + RevTotal
    <3>1. nsent <= Total
      BY <1>1 DEF TypeOK
    <3>2. k \in 1..nsent
      BY <2>3
    <3>3. QED
      BY <3>1, <3>2, <1>2
  <2>5. /\ I(m, vr, k) \in Frames /\ I(m, vr, k).t = "I"
        /\ I(m, vr, k).ns = m /\ I(m, vr, k).nr = vr /\ I(m, vr, k).data = k
    BY <2>1, <2>4, <1>2, FrameKinds
  <2>6. fs[i] \in OutFrames(nsent)
    BY <2>2, <2>3, <2>5 DEF OutFrames
  <2>7. QED
    BY <2>2, <2>5, <2>6 DEF k, m
<1>11. fs \in Seq(OutFrames(nsent)) /\ Len(fs) = n
  <2>1. fs \in [1..n -> OutFrames(nsent)]
    BY <1>10
  <2> HIDE DEF fs
  <2>2. QED
    BY <2>1, <1>8
<1>12. ASSUME Forth
       PROVE  /\ \A i \in 1..n : fs[i].data > Latest(Len(delivered), va)
              /\ \A i, j \in 1..n : i < j => fs[i].data < fs[j].data
  <2> DEFINE base == Latest(Len(delivered), va)
  <2>1. base \in Nat /\ base % Modulus = va /\ base <= nsent /\ g = nsent - base
    <3>1. /\ base \in Nat /\ base % Modulus = va /\ base <= Len(delivered)
          /\ Len(delivered) <= nsent /\ (vs - va) % Modulus = nsent - base
      BY <1>12, Window
    <3> HIDE DEF base
    <3>2. QED
      BY <3>1, <1>2 DEF g
  <2> HIDE DEF base
  <2>2. ASSUME NEW i \in 1..n PROVE fs[i].data = base + s[i] + 1
    <3> DEFINE k == base + s[i] + 1
    <3>1. s[i] \in 0 .. g - 1 /\ s[i] \in Int
      BY <1>9
    <3>2. k \in base + 1 .. nsent /\ k - 1 = base + s[i] /\ base \in Int
      BY <3>1, <2>1, <1>2
    <3>3. ((base % Modulus) + s[i]) % Modulus = (base + s[i]) % Modulus
      BY <3>1, <3>2, SumNumber
    <3>4. At(s[i]) = (k - 1) % Modulus
      BY <3>2, <3>3, <2>1 DEF At
    <3> HIDE DEF k
    <3>5. unacked[(k - 1) % Modulus] = k
      BY <3>2, <1>12 DEF Forth, Kept, base
    <3>6. QED
      BY <3>4, <3>5, <1>10 DEF k
  <2>3. ASSUME NEW i \in 1..n PROVE fs[i].data > base
    BY <2>1, <2>2, <1>9, <1>5
  <2>4. ASSUME NEW i \in 1..n, NEW j \in 1..n, i < j PROVE fs[i].data < fs[j].data
    <3>1. s[i] < s[j] /\ s[i] \in Int /\ s[j] \in Int
      BY <2>4, <1>7, <1>9
    <3>2. fs[i].data = base + s[i] + 1 /\ fs[j].data = base + s[j] + 1
      BY <2>2
    <3> HIDE DEF fs
    <3>3. QED
      BY <3>1, <3>2, <2>1
  <2>5. QED
    BY <2>3, <2>4 DEF base
<1>13. toRms' = OnAir(toRms, fs)
  BY <1>7
<1> HIDE DEF fs
<1>14. QED
  BY <1>10, <1>11, <1>12, <1>13

\* A timeout with a full window, or while the window drains.
LEMMA TimeoutKeeps ==
  ASSUME LinkInv, WindowTimeout \/ DrainTimeout
  PROVE  LinkInv'
<1> USE DEF rmsVars, airVars, linkVars
<1>1. TypeOK /\ Numbers /\ Shapes /\ Calls
  BY DEF LinkInv
<1>2. /\ nsent \in Nat /\ Len(delivered) \in Nat /\ Modulus \in Nat /\ Modulus > 1
      /\ toRms \in Seq(Frames) /\ va \in Seqs /\ OutFrames(nsent) \subseteq Frames
  BY <1>1, Types, OutMore
<1>3. Retransmit /\ UNCHANGED <<attempt, vs, va, vr, unacked, rxbuf, left, nsent, toUs,
                                plink, pvr, pva, pvs, delivered, airVars>>
  BY DEF WindowTimeout, DrainTimeout
<1>4. PICK fs \in Seq(OutFrames(nsent)) :
           /\ toRms' = OnAir(toRms, fs)
           /\ \A i \in 1..Len(fs) : fs[i].t = "I" /\ fs[i].nr = vr
           /\ Forth => /\ \A i \in 1..Len(fs) : fs[i].data > Latest(Len(delivered), va)
                       /\ \A i, j \in 1..Len(fs) : i < j => fs[i].data < fs[j].data
  BY <1>3, Resent
<1>5. fs \in Seq(Frames) /\ toRms' \in Seq(OutFrames(nsent)) /\ Behind(toRms', toRms, fs)
  <2>1. fs \in Seq(Frames)
    BY <1>2, SeqIn
  <2>2. toRms \in Seq(OutFrames(nsent))
    BY <1>1 DEF Shapes
  <2>3. QED
    BY <2>1, <2>2, <1>2, <1>4, OnAirIn, OnAirBehind
<1>6. toRms' \in Seq(Frames)
  BY <1>5 DEF Behind
<1>7. /\ pc \in {"chunk", "drain"} /\ pc' \in {pc, "close"} /\ ~Calling /\ ~Calling'
      /\ result' \in {result, "error"} /\ result # "ok"
  BY <1>1 DEF WindowTimeout, DrainTimeout, Calling, Calls
<1>8. TypeOK'
  <2>1. plink' \in BOOLEAN /\ echoed' \in BOOLEAN /\ recalled' \in BOOLEAN /\ misled' \in BOOLEAN
    BY <1>1, <1>3, Zenon DEF TypeOK
  <2>2. tries' \in 0..Retries * Modulus + 1
    <3> DEFINE m == Retries * Modulus
    <3>1. m \in Nat
      BY <1>2, RfLinkConstants
    <3>2. tries \in 0..m + 1
      BY <1>1 DEF TypeOK
    <3>3. \/ tries' \in {tries, 0}
          \/ tries + 1 <= m /\ tries' = tries + 1
      BY DEF WindowTimeout, DrainTimeout
    <3> HIDE DEF m
    <3>4. tries' \in 0..m + 1
      BY <3>1, <3>2, <3>3
    <3>5. QED
      BY <3>4 DEF m
  <2>3. QED
    BY <1>1, <1>3, <1>6, <1>7, <2>1, <2>2 DEF TypeOK
<1>9. Numbers' /\ Shapes'
  BY <1>1, <1>3, <1>5 DEF Numbers, Shapes
<1>10. Early => Early'
  <2>1. CallsFirst(toRms) => CallsFirst(toRms') /\ (HasCall(toRms') => HasCall(toRms))
    BY <1>2, <1>4, <1>5, CallBehind
  <2>2. QED
    BY <2>1, <1>3 DEF Early
<1>11. Calls'
  BY <1>1, <1>3, <1>7 DEF Calls
<1>12. ASSUME Forth PROVE Forth'
  <2> DEFINE base == Latest(Len(delivered), va)
  <2>1. /\ base \in Nat /\ base <= Len(delivered) /\ Len(delivered) < base + Modulus
        /\ Len(delivered) <= nsent /\ nsent <= base + Modulus - 1
    BY <1>12, Window
  <2>2. /\ \A i \in 1..Len(fs) : fs[i].data > base
        /\ \A i, j \in 1..Len(fs) : i < j => fs[i].data < fs[j].data
    BY <1>4, <1>12
  <2> HIDE DEF base
  <2>3. \A i \in 1..Len(fs) : fs[i].data \in 1..nsent
    BY <1>4 DEF OutFrames
  <2>4. \A j \in 1..Len(toRms) : toRms[j].t = "I" => toRms[j].data \in 1..nsent
    BY <1>1 DEF Shapes, OutFrames
  <2>5. Spread(fs)
    <3>1. ASSUME NEW i \in 1..Len(fs), NEW j \in 1..Len(fs), i < j
          PROVE  fs[i].data <= fs[j].data + Modulus - 2
      <4>1. fs[i].data < fs[j].data /\ fs[i].data \in Int /\ fs[j].data \in Int
        BY <3>1, <2>2, <2>3
      <4>2. QED
        BY <4>1, <1>2
    <3>2. QED
      BY <3>1 DEF Spread
  <2>6. ASSUME NEW i \in 1..Len(fs)
        PROVE  /\ fs[i].data <= base + Modulus - 1
               /\ fs[i].data <= nsent + Modulus - 1
               /\ Len(delivered) <= fs[i].data + Modulus - 2
               /\ \A j \in 1..Len(toRms) : toRms[j].t = "I" =>
                    toRms[j].data <= fs[i].data + Modulus - 2
    <3> DEFINE k == fs[i].data
    <3>1. k \in 1..nsent /\ k > base
      BY <2>2, <2>3
    <3> HIDE DEF k
    <3>2. /\ k <= base + Modulus - 1 /\ k <= nsent + Modulus - 1
          /\ Len(delivered) <= k + Modulus - 2
      BY <3>1, <2>1, <1>2
    <3>3. ASSUME NEW l \in 1..nsent PROVE l <= k + Modulus - 2
      BY <3>1, <2>1, <1>2
    <3>4. QED
      BY <3>2, <3>3, <2>4 DEF k
  <2>7. Dir(toRms, toUs, nsent, Len(delivered), va) /\ nsent \in {nsent, nsent + 1}
    BY <1>12 DEF Forth
  <2>8. Dir(toRms', toUs, nsent, Len(delivered), va)
    BY <2>1, <2>5, <2>6, <2>7, <1>2, <1>5, DirSend DEF base
  <2>9. Complete'
    BY <1>7 DEF Complete
  <2>10. QED
    BY <2>8, <2>9, <1>3, <1>10, <1>12 DEF Forth, Kept, InOrder
<1>13. ASSUME Early, Back PROVE Back'
  <2>1. \A i \in 1..Len(fs) : fs[i].t # "SABM" /\ fs[i].nr = vr
    BY <1>4
  <2>2. QED
    BY <2>1, <1>3, <1>5, <1>7, <1>13, OutBack
<1>14. ForthSmall => ForthSmall'
  BY <1>3, <1>7 DEF ForthSmall, Complete, InOrder
<1>15. Forth => Early
  BY DEF Forth
<1>16. BackSmall => BackSmall'
  BY <1>3 DEF BackSmall, InOrder
<1>17. QED
  BY <1>3, <1>8, <1>9, <1>11, <1>12, <1>13, <1>14, <1>15, <1>16 DEF LinkInv, Clean, Small

\* The next chunk goes on in order.
LEMMA InOrderMore ==
  ASSUME NEW s \in Seq(Nat), InOrder(s)
  PROVE  /\ InOrder(Append(s, Len(s) + 1)) /\ Append(s, Len(s) + 1) \in Seq(Nat)
         /\ Len(Append(s, Len(s) + 1)) = Len(s) + 1
  BY DEF InOrder

\* _ack_upto() drops entries, and none that is not acknowledged.
LEMMA AckDrops ==
  ASSUME LinkInv, NEW nr \in Seqs, AckUpto(nr)
  PROVE  /\ unacked' \in [Seqs -> 0..Total]
         /\ \A n \in Seqs : unacked'[n] # 0 => unacked'[n] = unacked[n]
  BY RfLinkConstants DEF LinkInv, TypeOK, AckUpto

\* While no frame was repeated, what lies behind the acknowledgement is kept.
LEMMA AckKeepsRest ==
  ASSUME LinkInv, Forth, NEW nr \in Seqs, AckUpto(nr),
         Latest(Len(delivered), va) <= Latest(Len(delivered), nr)
  PROVE  \A k \in Latest(Len(delivered), nr) + 1 .. nsent : unacked'[(k - 1) % Modulus] = k
<1> DEFINE base == Latest(Len(delivered), va)
           next == Latest(Len(delivered), nr)
<1>1. TypeOK /\ Shapes
  BY DEF LinkInv
<1>2. nsent \in Nat /\ Len(delivered) \in Nat /\ Modulus \in Nat /\ va \in Seqs
  BY <1>1, Types
<1>3. /\ base \in Int /\ base % Modulus = va
      /\ base <= Len(delivered) /\ Len(delivered) < base + Modulus
      /\ nsent <= base + Modulus - 1
  BY Window
<1>4. next \in Int /\ next % Modulus = nr /\ next <= Len(delivered)
  BY <1>2, LatestCount
<1>5. base <= next
  OBVIOUS
<1> SUFFICES ASSUME NEW k \in next + 1 .. nsent
             PROVE  unacked'[(k - 1) % Modulus] = k
  OBVIOUS
<1>6. k \in base + 1 .. nsent => unacked[(k - 1) % Modulus] = k
  BY DEF Forth, Kept
<1> HIDE DEF base, next
<1>7. next - base \in Seqs
  BY <1>2, <1>3, <1>4, <1>5 DEF Seqs
<1>8. (nr - va) % Modulus = next - base
  <2>1. ((next % Modulus) - (base % Modulus)) % Modulus = next - base
    BY <1>3, <1>4, <1>7, Gap
  <2>2. QED
    BY <2>1, <1>3, <1>4
<1>9. k \in Int /\ k - 1 \in Int /\ k \in base + 1 .. nsent
  BY <1>2, <1>3, <1>4, <1>5
<1>10. (k - 1) % Modulus \in Seqs
  BY <1>9, Rounds
<1>11. (k - 1) % Modulus \notin Ring(va, nr)
  <2> SUFFICES ASSUME (k - 1) % Modulus \in Ring(va, nr) PROVE FALSE
    OBVIOUS
  <2>1. PICK i \in 0 .. (next - base) - 1 : (k - 1) % Modulus = (va + i) % Modulus
    BY <1>8 DEF Ring
  <2>2. i \in Int /\ base + i \in Int /\ (k - 1) - (base + i) < Modulus
        /\ (base + i) - (k - 1) < Modulus /\ k - 1 # base + i
    BY <1>2, <1>3, <1>4, <1>5, <1>9
  <2>3. ((base % Modulus) + i) % Modulus = (base + i) % Modulus
    BY <2>2, <1>3, SumNumber
  <2>4. (k - 1) % Modulus = (base + i) % Modulus
    BY <2>1, <2>3, <1>3
  <2>5. QED
    BY <2>2, <2>4, <1>9, SameCount
<1>12. unacked'[(k - 1) % Modulus] = unacked[(k - 1) % Modulus]
  <2> DEFINE m == (k - 1) % Modulus
  <2>1. m \in Seqs /\ m \notin Ring(va, nr)
    BY <1>10, <1>11
  <2> HIDE DEF m
  <2>2. unacked'[m] = unacked[m]
    BY <2>1 DEF AckUpto
  <2>3. QED
    BY <2>2 DEF m
<1>13. QED
  BY <1>6, <1>9, <1>12

\* What a frame read by _pump_once() or _flush_acks() does, whoever it was
\* sent to.
LEMMA Processed ==
  ASSUME LinkInv, ~Calling, NEW f, NEW answer \in BOOLEAN, Process(f, answer),
         HasNr(f) => f.nr \in Seqs, f.t = "I" => f.data \in Nat, toUs' \in Seq(InFrames),
         UNCHANGED <<pc, attempt, tries, vs, left, nsent, result, plink, pvr, pva, pvs, delivered,
                     echoed, recalled>>,
         misled' \in BOOLEAN
  PROVE  /\ TypeOK' /\ Numbers' /\ Shapes' /\ Calls' /\ (Early => Early')
         /\ \/ HasNr(f) /\ AckUpto(f.nr) /\ va' = f.nr
            \/ ~HasNr(f) /\ va' = va /\ unacked' = unacked
         /\ \/ /\ f.t = "I" /\ f.ns = vr /\ vr' = NextSeq(vr)
               /\ rxbuf' = Append(rxbuf, f.data) /\ Len(rxbuf') = Len(rxbuf) + 1
            \/ UNCHANGED <<vr, rxbuf>>
         /\ \E fs \in Seq(Frames) :
              /\ Behind(toRms', toRms, fs)
              /\ \A i \in 1..Len(fs) : fs[i].t = "RR" /\ fs[i].nr = vr'
<1>1. TypeOK /\ Numbers /\ Shapes /\ Calls
  BY DEF LinkInv
<1>2. /\ nsent \in Nat /\ Len(rxbuf) \in Nat /\ toRms \in Seq(Frames) /\ rxbuf \in Seq(Nat)
      /\ va \in Seqs /\ vr \in Seqs
  BY <1>1, Types DEF Shapes
<1>3. toUs' \in Seq(Frames)
  BY <1>2, OutMore, SeqIn
<1>6. \/ HasNr(f) /\ AckUpto(f.nr) /\ va' = f.nr
      \/ ~HasNr(f) /\ va' = va /\ unacked' = unacked
  BY DEF Process, HasNr, AckUpto
<1> DEFINE take == f.t = "I" /\ f.ns = vr /\ vr' = NextSeq(vr) /\ rxbuf' = Append(rxbuf, f.data)
<1>7. take \/ UNCHANGED <<vr, rxbuf>>
  BY DEF Process, AcceptIframe
<1>8. \/ toRms' = toRms
      \/ \E b \in BOOLEAN : toRms' = Append1(toRms, Rr(vr', b))
  BY DEF Process, AcceptIframe
<1>10. rxbuf' \in Seq(Nat) /\ vr' = Len(rxbuf') % Modulus /\ vr' \in Seqs
       /\ (take => Len(rxbuf') = Len(rxbuf) + 1)
  <2>1. CASE take
    <3>1. rxbuf' \in Seq(Nat) /\ Len(rxbuf') = Len(rxbuf) + 1
      BY <2>1, <1>2
    <3>2. Len(rxbuf) \in Int /\ Len(rxbuf) + 1 \in Int
      BY <1>2
    <3>3. NextSeq(Len(rxbuf) % Modulus) = (Len(rxbuf) + 1) % Modulus /\ (Len(rxbuf) + 1) % Modulus \in Seqs
      BY <3>2, NextNumber, Rounds
    <3>4. vr' = NextSeq(Len(rxbuf) % Modulus)
      BY <2>1, <1>1 DEF Numbers
    <3>5. QED
      BY <3>1, <3>3, <3>4
  <2>2. CASE ~take
    BY <2>2, <1>1, <1>2, <1>7 DEF Numbers
  <2>3. QED
    BY <2>1, <2>2
<1>11. PICK fs \in Seq(Frames) :
         /\ Behind(toRms', toRms, fs)
         /\ \A i \in 1..Len(fs) : fs[i].t = "RR" /\ fs[i].nr = vr'
  <2>1. CASE toRms' = toRms
    <3>1. Behind(toRms', toRms, <<>>) /\ <<>> \in Seq(Frames)
      BY <2>1, <1>2 DEF Behind
    <3>2. \A i \in 1..Len(<<>>) : <<>>[i].t = "RR" /\ <<>>[i].nr = vr'
      OBVIOUS
    <3>3. QED
      BY <3>1, <3>2
  <2>2. ASSUME NEW b \in BOOLEAN, toRms' = Append1(toRms, Rr(vr', b))
        PROVE  \E gs \in Seq(Frames) :
                 /\ Behind(toRms', toRms, gs)
                 /\ \A i \in 1..Len(gs) : gs[i].t = "RR" /\ gs[i].nr = vr'
    <3> DEFINE r == Rr(vr', b)
    <3>1. r \in Frames /\ r.t = "RR" /\ r.nr = vr'
      BY <1>10, FrameKinds
    <3> HIDE DEF r
    <3>2. Behind(toRms', toRms, <<r>>)
      BY <3>1, <2>2, <1>2, OneBehind DEF r
    <3>3. <<r>> \in Seq(Frames) /\ \A i \in 1..Len(<<r>>) : <<r>>[i].t = "RR" /\ <<r>>[i].nr = vr'
      BY <3>1
    <3>4. QED
      BY <3>2, <3>3
  <2>3. QED
    BY <2>1, <2>2, <1>8
<1>12. toRms' \in Seq(OutFrames(nsent)) /\ toRms' \in Seq(Frames)
  <2>1. toRms \in Seq(OutFrames(nsent))
    BY <1>1 DEF Shapes
  <2>2. ASSUME NEW b \in BOOLEAN PROVE Append1(toRms, Rr(vr', b)) \in Seq(OutFrames(nsent))
    <3>1. Rr(vr', b) \in OutFrames(nsent)
      BY <1>2, <1>10, OutMore
    <3>2. <<Rr(vr', b)>> \in Seq(OutFrames(nsent))
      BY <3>1
    <3>3. QED
      BY <3>2, <2>1, OnAirIn DEF Append1
  <2>3. toRms' \in Seq(OutFrames(nsent))
    BY <2>1, <2>2, <1>8
  <2>4. QED
    BY <2>3, <1>11 DEF Behind
<1>13. unacked' \in [Seqs -> 0..Total] /\ va' \in Seqs
       /\ \A n \in Seqs : unacked'[n] # 0 => unacked'[n] = unacked[n]
  BY <1>1, <1>6, AckDrops DEF TypeOK
<1>14. TypeOK'
  <2>1. plink' \in BOOLEAN /\ echoed' \in BOOLEAN /\ recalled' \in BOOLEAN
    BY <1>1, Zenon DEF TypeOK
  <2>2. QED
    BY <1>1, <1>3, <1>10, <1>12, <1>13, <2>1 DEF TypeOK
<1>15. Numbers'
  BY <1>1, <1>10 DEF Numbers
<1>16. Shapes'
  BY <1>1, <1>10, <1>12, <1>13 DEF Shapes
<1>17. Early => Early'
  <2>1. CallsFirst(toRms) => CallsFirst(toRms') /\ (HasCall(toRms') => HasCall(toRms))
    BY <1>2, <1>11, CallBehind
  <2>2. QED
    BY <2>1 DEF Early
<1>18. Calls'
  BY <1>1 DEF Calls, Calling
<1>19. QED
  BY <1>6, <1>7, <1>10, <1>11, <1>14, <1>15, <1>16, <1>17, <1>18

\* A frame of the RMS to us is read by _pump_once() or _flush_acks().
LEMMA HearKeeps ==
  ASSUME LinkInv, ~Calling, Heard, NEW answer \in BOOLEAN, Process(Head(toUs), answer),
         UNCHANGED <<pc, attempt, tries, vs, left, nsent, result, rmsVars>>
  PROVE  LinkInv'
<1> USE DEF rmsVars, airVars
<1> DEFINE f == Head(toUs)
<1>1. TypeOK /\ Numbers /\ Shapes /\ Calls
  BY DEF LinkInv
<1>2. /\ nsent \in Nat /\ pvs \in Nat /\ Len(delivered) \in Nat /\ Len(rxbuf) \in Nat
      /\ Modulus \in Nat /\ Modulus > 1 /\ RevTotal \in Nat
      /\ toRms \in Seq(Frames) /\ toUs \in Seq(Frames) /\ rxbuf \in Seq(Nat)
      /\ va \in Seqs /\ vr \in Seqs /\ pva \in Seqs
  BY <1>1, Types DEF Shapes
<1>3. Len(toUs) > 0 /\ toUs' = Tail(toUs) /\ toUs' \in Seq(InFrames) /\ toUs' \in Seq(Frames)
  BY <1>1, <1>2, RestIn DEF Heard, Shapes
<1>4. f \in InFrames /\ f \in Frames /\ f = toUs[1] /\ 1 \in 1..Len(toUs)
  <2>1. toUs \in Seq(InFrames)
    BY <1>1 DEF Shapes
  <2>2. InFrames \subseteq Frames
    BY <1>2, OutMore
  <2>3. f \in InFrames /\ f = toUs[1] /\ 1 \in 1..Len(toUs)
    BY <2>1, <1>3
  <2>4. QED
    BY <2>2, <2>3
<1>5. /\ \A i \in 1..Len(toUs') : toUs'[i] = toUs[i + 1] /\ i + 1 \in 1..Len(toUs)
      /\ HasNr(f) => f.nr \in Seqs
  BY <1>2, <1>3, <1>4, Rest, FrameFields
<1> HIDE DEF f
<1> DEFINE take == f.t = "I" /\ f.ns = vr /\ vr' = NextSeq(vr) /\ rxbuf' = Append(rxbuf, f.data)
<1>6. misled' \in BOOLEAN
  BY <1>1, Zenon DEF TypeOK
<1>7. f.t = "I" => f.data \in Nat
  <2>1. f.t = "I" => f.data \in 1..RevTotal
    BY <1>4 DEF InFrames
  <2>2. QED
    BY <2>1, <1>2
<1>8. /\ TypeOK' /\ Numbers' /\ Shapes' /\ Calls' /\ (Early => Early')
      /\ \/ HasNr(f) /\ AckUpto(f.nr) /\ va' = f.nr
         \/ ~HasNr(f) /\ va' = va /\ unacked' = unacked
      /\ (take /\ Len(rxbuf') = Len(rxbuf) + 1) \/ UNCHANGED <<vr, rxbuf>>
      /\ \E gs \in Seq(Frames) :
           /\ Behind(toRms', toRms, gs)
           /\ \A i \in 1..Len(gs) : gs[i].t = "RR" /\ gs[i].nr = vr'
  <2>1. Process(f, answer)
    BY DEF f
  <2>2. QED
    BY <2>1, <1>3, <1>5, <1>6, <1>7, Processed
<1>9. take => /\ f.data \in 1..RevTotal /\ f.data \in Nat
              /\ f.ns = (f.data - 1) % Modulus /\ f.ns = Len(rxbuf) % Modulus
  <2>1. f.t = "I" => f.data \in 1..RevTotal /\ f.ns = (f.data - 1) % Modulus
    BY <1>4 DEF InFrames
  <2>2. vr = Len(rxbuf) % Modulus
    BY <1>1 DEF Numbers
  <2>3. QED
    BY <2>1, <2>2, <1>7, Zenon
<1>10. rxbuf' \in Seq(Nat) /\ vr' = Len(rxbuf') % Modulus /\ va' \in Seqs
  BY <1>8 DEF Numbers, Shapes, TypeOK
<1>11. PICK fs \in Seq(Frames) :
         /\ Behind(toRms', toRms, fs)
         /\ \A i \in 1..Len(fs) : fs[i].t = "RR" /\ fs[i].nr = vr'
  BY <1>8
<1>12. take => Len(rxbuf') = Len(rxbuf) + 1
  BY <1>2
<1>19. ASSUME Forth PROVE Forth'
  <2>1. Dir(toRms, toUs, nsent, Len(delivered), va)
    BY <1>19 DEF Forth
  <2>2. Dir(toRms, toUs', nsent, Len(delivered), va') /\ Kept'
    <3>1. CASE HasNr(f) /\ AckUpto(f.nr) /\ va' = f.nr
      <4>1. /\ Dir(toRms, toUs', nsent, Len(delivered), va')
            /\ Latest(Len(delivered), va) <= Latest(Len(delivered), f.nr)
        BY <3>1, <2>1, <1>2, <1>3, DirAck DEF f
      <4>2. \A k \in Latest(Len(delivered), f.nr) + 1 .. nsent : unacked'[(k - 1) % Modulus] = k
        BY <3>1, <4>1, <1>5, <1>19, AckKeepsRest
      <4>3. QED
        BY <3>1, <4>1, <4>2 DEF Kept
    <3>2. CASE va' = va /\ unacked' = unacked
      BY <3>2, <2>1, <1>2, <1>3, <1>19, DirRestAck DEF Forth, Kept
    <3>3. QED
      BY <3>1, <3>2, <1>8
  <2>3. \A i \in 1..Len(fs) : fs[i].t # "I"
    BY <1>11
  <2>4. Dir(toRms', toUs', nsent, Len(delivered), va')
    BY <2>2, <2>3, <1>2, <1>10, <1>11, DirNoChunk
  <2>5. QED
    BY <2>2, <2>4, <1>8, <1>19 DEF Forth, Complete
<1>20. ASSUME Forth, Back PROVE Back'
  <2>1. Dir(toUs, toRms, pvs, Len(rxbuf), pva) /\ InOrder(rxbuf) /\ FirstWindow
    BY <1>20 DEF Back
  <2>2. /\ Dir(toUs', toRms, pvs, Len(rxbuf'), pva) /\ InOrder(rxbuf')
        /\ take => f.data = Len(rxbuf) + 1
    <3>1. CASE take
      <4>1. f.data = Len(rxbuf) + 1 /\ Dir(toUs', toRms, pvs, Len(rxbuf) + 1, pva)
        <5>1. /\ Len(toUs) > 0 /\ Head(toUs).t = "I"
              /\ Head(toUs).ns = (Head(toUs).data - 1) % Modulus
              /\ Head(toUs).ns = Len(rxbuf) % Modulus
          BY <3>1, <1>3, <1>9, Zenon DEF f
        <5>2. /\ Head(toUs).data = Len(rxbuf) + 1
              /\ Dir(Tail(toUs), toRms, pvs, Len(rxbuf) + 1, pva)
          BY <5>1, <2>1, <1>2, DirTake
        <5>3. QED
          BY <5>2, <1>3 DEF f
      <4>2. InOrder(rxbuf')
        BY <3>1, <4>1, <2>1, <1>2, InOrderMore
      <4>3. QED
        BY <3>1, <4>1, <4>2, <1>12
    <3>2. CASE ~take
      BY <3>2, <2>1, <1>2, <1>3, <1>8, DirRest
    <3>3. QED
      BY <3>1, <3>2
  <2>3. \A i \in 1..Len(fs) : HasNr(fs[i]) => fs[i].nr = Len(rxbuf') % Modulus
    BY <1>10, <1>11
  <2>4. Len(rxbuf') \in Nat
    BY <1>10
  <2>5. Dir(toUs', toRms', pvs, Len(rxbuf'), pva)
    BY <2>2, <2>3, <2>4, <1>2, <1>11, DirAnswer
  <2>6. FirstWindow'
    <3> SUFFICES ASSUME Fresh'
                 PROVE  /\ pva = 0 /\ pvs <= Modulus - 1 /\ Len(rxbuf') <= Modulus - 1
                        /\ \A i \in 1..Len(toUs') : toUs'[i].t = "I" => toUs'[i].data <= Modulus - 1
      BY DEF FirstWindow
    <3>1. Fresh
      <4>1. HasCall(toRms') => HasCall(toRms)
        BY <1>2, <1>11, <1>20, CallBehind DEF Forth, Early
      <4>2. QED
        BY <4>1 DEF Fresh, Calling
    <3>2. /\ pva = 0 /\ pvs <= Modulus - 1 /\ Len(rxbuf) <= Modulus - 1
          /\ \A i \in 1..Len(toUs) : toUs[i].t = "I" => toUs[i].data <= Modulus - 1
      BY <3>1, <2>1 DEF FirstWindow
    <3>3. Len(rxbuf') <= Modulus - 1
      BY <3>2, <2>2, <1>4, <1>8
    <3>4. QED
      BY <3>2, <3>3, <1>5
  <2>7. QED
    BY <2>2, <2>5, <2>6 DEF Back
<1>21. ForthSmall => ForthSmall'
  <2> SUFFICES ASSUME ForthSmall PROVE ForthSmall'
    OBVIOUS
  <2>1. va' <= Len(delivered)
    BY <1>4, <1>8 DEF ForthSmall
  <2>2. \A i \in 1..Len(toUs') : HasNr(toUs'[i]) => toUs'[i].nr <= Len(delivered)
    BY <1>5 DEF ForthSmall
  <2>3. QED
    BY <2>1, <2>2 DEF ForthSmall, Complete
<1>22. ASSUME RevTotal < Modulus, BackSmall PROVE BackSmall'
  <2>1. CASE take
    <3>1. f.data = Len(rxbuf) + 1
      <4> DEFINE k == f.data
      <4>1. k \in 1..RevTotal /\ (k - 1) % Modulus = Len(rxbuf) % Modulus
        BY <2>1, <1>9
      <4> HIDE DEF k
      <4>2. k - 1 \in Seqs /\ Len(rxbuf) \in Seqs
        <5>1. k \in 1..RevTotal
          BY <4>1
        <5>2. QED
          BY <5>1, <1>2, <1>22 DEF BackSmall, Seqs
      <4>3. (k - 1) % Modulus = k - 1 /\ Len(rxbuf) % Modulus = Len(rxbuf)
        BY <4>2, SmallCount
      <4>4. k - 1 = Len(rxbuf) /\ k \in Int
        <5>1. k \in 1..RevTotal
          BY <4>1
        <5>2. QED
          BY <4>1, <4>3, <5>1
      <4>5. QED
        BY <4>4, <1>2 DEF k
    <3>2. InOrder(rxbuf')
      BY <2>1, <3>1, <1>2, <1>22, InOrderMore DEF BackSmall
    <3>3. Len(rxbuf') <= RevTotal
      BY <2>1, <3>1, <1>2, <1>9, <1>12
    <3>4. QED
      BY <3>2, <3>3 DEF BackSmall
  <2>2. CASE ~take
    BY <2>2, <1>8, <1>22 DEF BackSmall
  <2>3. QED
    BY <2>1, <2>2
<1>23. QED
  BY <1>8, <1>19, <1>20, <1>21, <1>22 DEF LinkInv, Clean, Small

\* A new call: the RMS counts from zero again, before anything was acknowledged.
LEMMA DirReset ==
  ASSUME NEW c, NEW a, NEW sent, NEW rcvd \in Nat, NEW n \in Seqs, Dir(c, a, sent, rcvd, n),
         rcvd <= Modulus - 1, \A i \in 1..Len(c) : c[i].t = "I" => c[i].data <= Modulus - 1
  PROVE  Dir(c, a, 0, rcvd, n)
<1> DEFINE base == Latest(rcvd, n)
<1>1. base \in Int /\ Modulus \in Nat /\ Modulus > 1 /\ 0 + Modulus = Modulus
  <2>1. base \in Int
    BY LatestCount
  <2>2. QED
    BY <2>1, RfLinkConstants
<1>2. base >= 0
  BY DEF Dir
<1> HIDE DEF base
<1>3. 0 <= base + Modulus - 1 /\ rcvd <= 0 + Modulus - 1
  BY <1>1, <1>2
<1>4. \A i \in 1..Len(c) : c[i].t = "I" =>
        /\ c[i].data <= base + Modulus - 1
        /\ c[i].data <= 0 + Modulus - 1
        /\ rcvd <= c[i].data + Modulus - 2
  BY <1>1 DEF Dir, base
<1>5. QED
  BY <1>2, <1>3, <1>4 DEF Dir, base

\* The RMS hears a frame of ours.
LEMMA RmsHandleKeeps ==
  ASSUME LinkInv, RmsHandle
  PROVE  LinkInv'
<1> USE DEF rmsVars, airVars, usVars, linkVars
<1> DEFINE f == Head(toRms)
<1>1. TypeOK /\ Numbers /\ Shapes /\ Calls
  BY DEF LinkInv
<1>2. /\ nsent \in Nat /\ pvs \in Nat /\ Len(delivered) \in Nat /\ Len(rxbuf) \in Nat
      /\ Modulus \in Nat /\ Modulus > 1 /\ RevTotal \in Nat
      /\ toRms \in Seq(Frames) /\ toUs \in Seq(Frames) /\ delivered \in Seq(Nat)
      /\ va \in Seqs /\ pvr \in Seqs /\ pva \in Seqs /\ 0 \in Seqs /\ 0 % Modulus = 0
  BY <1>1, Types DEF Shapes
<1>3. /\ Len(toRms) > 0 /\ toRms' = Tail(toRms)
      /\ UNCHANGED <<pc, attempt, tries, vs, va, vr, unacked, rxbuf, left, nsent, result, echoed, misled>>
  BY DEF RmsHandle
<1>4. toRms' \in Seq(OutFrames(nsent)) /\ toRms' \in Seq(Frames)
  BY <1>1, <1>2, <1>3, RestIn DEF Shapes
<1>5. f \in OutFrames(nsent) /\ f \in Frames
  <2>1. toRms \in Seq(OutFrames(nsent))
    BY <1>1 DEF Shapes
  <2>2. OutFrames(nsent) \subseteq Frames
    BY <1>2, OutMore
  <2>3. f \in OutFrames(nsent)
    BY <2>1, <1>3
  <2>4. QED
    BY <2>2, <2>3
<1>6. /\ HasNr(f) => f.nr \in Seqs /\ f # Sabm
      /\ f.t = "I" => f # Sabm
  BY <1>5, FrameFields, FrameKinds DEF HasNr
<1> DEFINE take == /\ f.t = "I" /\ f.ns = pvr /\ pvr' = NextSeq(pvr)
                   /\ delivered' = Append(delivered, f.data)
           reset == /\ f = Sabm /\ pvr' = 0 /\ pva' = 0 /\ pvs' = 0 /\ delivered' = <<>>
                    /\ recalled' = (recalled \/ delivered # <<>> \/ pvs > 0)
           acked == HasNr(f) /\ pva' = f.nr /\ pvs' = pvs
<1>7. /\ take \/ reset \/ UNCHANGED <<pvr, delivered>>
      /\ reset \/ recalled' = recalled
      /\ reset \/ acked \/ UNCHANGED <<pva, pvs>>
      /\ acked => ~reset
  BY <1>6 DEF RmsHandle, RmsTakes, HasNr
<1>8. \/ toUs' = toUs
      \/ toUs' = Append1(toUs, Ua)
      \/ toUs' = Append1(toUs, Dm)
      \/ \E b \in BOOLEAN : toUs' = Append1(toUs, Rr(pvr', b))
  BY DEF RmsHandle
<1>9. plink' \in BOOLEAN /\ recalled' \in BOOLEAN
  <2>1. plink' = plink \/ plink' = TRUE \/ plink' = FALSE
    BY DEF RmsHandle
  <2>2. recalled' = recalled \/ recalled' = (recalled \/ delivered # <<>> \/ pvs > 0)
    BY DEF RmsHandle
  <2>3. QED
    BY <2>1, <2>2, <1>1, Zenon DEF TypeOK
<1> HIDE DEF f
<1>10. take => /\ f.data \in 1..nsent /\ f.data \in Nat /\ f # Sabm
               /\ f.ns = (f.data - 1) % Modulus /\ f.ns = Len(delivered) % Modulus
  <2>1. f.t = "I" => f.data \in 1..nsent /\ f.ns = (f.data - 1) % Modulus
    BY <1>5 DEF OutFrames
  <2>2. pvr = Len(delivered) % Modulus
    BY <1>1 DEF Numbers
  <2>3. f.data \in 1..nsent => f.data \in Nat
    BY <1>2
  <2>4. QED
    BY <2>1, <2>2, <2>3, <1>6, Zenon
<1>11. ASSUME Early
       PROVE  /\ CallsFirst(toRms') /\ (HasCall(toRms') => HasCall(toRms))
              /\ HasCall(toRms) => f = Sabm /\ delivered = <<>>
              /\ f = Sabm => HasCall(toRms)
              /\ take \/ delivered' = delivered
  <2>1. CallsFirst(toRms) /\ (HasCall(toRms) => delivered = <<>>)
    BY <1>11 DEF Early
  <2>2. f = toRms[1] /\ 1 \in 1..Len(toRms)
    BY <1>2, <1>3 DEF f
  <2>3. f = Sabm => HasCall(toRms)
    BY <2>2, FrameKinds DEF HasCall
  <2>4. QED
    BY <2>1, <2>3, <1>2, <1>3, <1>7, CallRest DEF f
<1>12. /\ delivered' \in Seq(Nat) /\ pvr' = Len(delivered') % Modulus /\ pvr' \in Seqs
       /\ take => Len(delivered') = Len(delivered) + 1
  <2>1. CASE take
    <3>1. delivered' \in Seq(Nat) /\ Len(delivered') = Len(delivered) + 1
      BY <2>1, <1>2, <1>10
    <3>2. Len(delivered) \in Int /\ Len(delivered) + 1 \in Int
      BY <1>2
    <3>3. /\ NextSeq(Len(delivered) % Modulus) = (Len(delivered) + 1) % Modulus
          /\ (Len(delivered) + 1) % Modulus \in Seqs
      BY <3>2, NextNumber, Rounds
    <3>4. pvr' = NextSeq(Len(delivered) % Modulus)
      BY <2>1, <1>1 DEF Numbers
    <3>5. QED
      BY <3>1, <3>3, <3>4
  <2>2. CASE ~take /\ reset
    <3>1. delivered' = <<>> /\ pvr' = 0
      BY <2>2
    <3>2. Len(delivered') = 0 /\ delivered' \in Seq(Nat)
      BY <3>1
    <3>3. QED
      BY <2>2, <3>1, <3>2, <1>2
  <2>3. CASE ~take /\ ~reset
    BY <2>3, <1>1, <1>2, <1>7 DEF Numbers
  <2>4. QED
    BY <2>1, <2>2, <2>3
<1>13. PICK fs \in Seq(Frames) :
         /\ Behind(toUs', toUs, fs)
         /\ \A i \in 1..Len(fs) : fs[i].t # "I" /\ (HasNr(fs[i]) => fs[i].nr = pvr')
  <2>1. CASE toUs' = toUs
    <3>1. Behind(toUs', toUs, <<>>) /\ <<>> \in Seq(Frames)
      BY <2>1, <1>2 DEF Behind
    <3>2. \A i \in 1..Len(<<>>) : <<>>[i].t # "I" /\ (HasNr(<<>>[i]) => <<>>[i].nr = pvr')
      OBVIOUS
    <3>3. QED
      BY <3>1, <3>2
  <2>2. ASSUME NEW r \in Frames, r.t # "I", HasNr(r) => r.nr = pvr', toUs' = Append1(toUs, r)
        PROVE  \E gs \in Seq(Frames) :
                 /\ Behind(toUs', toUs, gs)
                 /\ \A i \in 1..Len(gs) : gs[i].t # "I" /\ (HasNr(gs[i]) => gs[i].nr = pvr')
    <3>1. Behind(toUs', toUs, <<r>>)
      BY <2>2, <1>2, OneBehind
    <3>2. /\ <<r>> \in Seq(Frames)
          /\ \A i \in 1..Len(<<r>>) : <<r>>[i].t # "I" /\ (HasNr(<<r>>[i]) => <<r>>[i].nr = pvr')
      BY <2>2
    <3>3. QED
      BY <3>1, <3>2
  <2>3. CASE toUs' = Append1(toUs, Ua) \/ toUs' = Append1(toUs, Dm)
    <3>1. Ua \in Frames /\ Ua.t = "UA" /\ Dm \in Frames /\ Dm.t = "DM"
      BY FrameKinds
    <3>2. ~HasNr(Ua) /\ ~HasNr(Dm) /\ Ua.t # "I" /\ Dm.t # "I"
      BY <3>1 DEF HasNr
    <3>3. QED
      BY <2>2, <2>3, <3>1, <3>2
  <2>4. ASSUME NEW b \in BOOLEAN, toUs' = Append1(toUs, Rr(pvr', b))
        PROVE  \E gs \in Seq(Frames) :
                 /\ Behind(toUs', toUs, gs)
                 /\ \A i \in 1..Len(gs) : gs[i].t # "I" /\ (HasNr(gs[i]) => gs[i].nr = pvr')
    <3>1. Rr(pvr', b) \in Frames /\ Rr(pvr', b).t = "RR" /\ Rr(pvr', b).nr = pvr'
      BY <1>12, FrameKinds
    <3>2. QED
      BY <2>2, <2>4, <3>1
  <2>5. QED
    BY <2>1, <2>3, <2>4, <1>8
<1>14. toUs' \in Seq(InFrames) /\ toUs' \in Seq(Frames)
  <2>1. toUs \in Seq(InFrames)
    BY <1>1 DEF Shapes
  <2>2. ASSUME NEW r \in InFrames PROVE Append1(toUs, r) \in Seq(InFrames)
    <3>1. <<r>> \in Seq(InFrames)
      OBVIOUS
    <3>2. QED
      BY <3>1, <2>1, OnAirIn DEF Append1
  <2>3. Ua \in InFrames /\ Dm \in InFrames /\ \A b \in BOOLEAN : Rr(pvr', b) \in InFrames
    BY <1>2, <1>12, OutMore
  <2>4. toUs' \in Seq(InFrames)
    BY <2>1, <2>2, <2>3, <1>8
  <2>5. QED
    BY <2>4, <1>13 DEF Behind
<1>15. pva' \in Seqs /\ pvs' \in 0..RevTotal
  <2>1. pva \in Seqs /\ pvs \in 0..RevTotal /\ 0 \in 0..RevTotal
    BY <1>1, <1>2 DEF TypeOK
  <2>2. CASE reset
    BY <2>1, <2>2, <1>2
  <2>3. CASE acked
    BY <2>1, <2>3, <1>6
  <2>4. CASE UNCHANGED <<pva, pvs>>
    BY <2>1, <2>4
  <2>5. QED
    BY <2>2, <2>3, <2>4, <1>7
<1>16. TypeOK'
  <2>1. echoed' \in BOOLEAN
    BY <1>1, <1>3, Zenon DEF TypeOK
  <2>2. QED
    BY <1>1, <1>3, <1>4, <1>9, <1>12, <1>14, <1>15, <2>1 DEF TypeOK
<1>17. Numbers'
  BY <1>1, <1>3, <1>12 DEF Numbers
<1>18. Shapes'
  BY <1>1, <1>3, <1>4, <1>12, <1>14 DEF Shapes
<1>19. Calls'
  <2>1. nsent = 0 => ~take
    BY <1>2, <1>10
  <2>2. Calling' => toRms' \in Seq({Sabm})
    BY <1>1, <1>3, RestIn DEF Calls, Calling
  <2>3. QED
    BY <2>1, <2>2, <1>1, <1>3, <1>7 DEF Calls, Calling
<1>20. ASSUME Forth PROVE Forth'
  <2>1. /\ Dir(toRms, toUs, nsent, Len(delivered), va)
        /\ InOrder(delivered) /\ Len(delivered) <= nsent /\ Kept /\ Complete
        /\ Early
    BY <1>20 DEF Forth
  <2>5. Early'
    <3>1. HasCall(toRms') => ~take
      BY <2>1, <1>10, <1>11
    <3>2. QED
      BY <2>1, <3>1, <1>11 DEF Early
  <2>2. CASE take
    <3>1. /\ f.data = Len(delivered) + 1 /\ Dir(toRms', toUs, nsent, Len(delivered) + 1, va)
          /\ Latest(Len(delivered) + 1, va) = Latest(Len(delivered), va)
      <4>1. /\ Len(toRms) > 0 /\ Head(toRms).t = "I"
            /\ Head(toRms).ns = (Head(toRms).data - 1) % Modulus
            /\ Head(toRms).ns = Len(delivered) % Modulus
        BY <2>2, <1>3, <1>10, Zenon DEF f
      <4>2. /\ Head(toRms).data = Len(delivered) + 1
            /\ Dir(Tail(toRms), toUs, nsent, Len(delivered) + 1, va)
            /\ Latest(Len(delivered) + 1, va) = Latest(Len(delivered), va)
        BY <4>1, <2>1, <1>2, DirTake
      <4>3. QED
        BY <4>2, <1>3 DEF f
    <3>2. InOrder(delivered') /\ Len(delivered') = Len(delivered) + 1
      BY <2>1, <2>2, <3>1, <1>2, InOrderMore
    <3>3. Len(delivered) + 1 <= nsent
      BY <2>2, <3>1, <1>2, <1>10
    <3>4. Kept'
      BY <2>1, <3>1, <3>2, <1>3 DEF Kept
    <3>5. Complete'
      BY <2>1, <3>3, <1>2, <1>3 DEF Complete
    <3>6. Len(delivered') \in Nat /\ \A i \in 1..Len(fs) : HasNr(fs[i]) => fs[i].nr = Len(delivered') % Modulus
      BY <1>12, <1>13
    <3>7. Dir(toRms', toUs', nsent, Len(delivered'), va)
      BY <3>1, <3>2, <3>6, <1>2, <1>13, DirAnswer
    <3>8. QED
      BY <2>5, <3>2, <3>3, <3>4, <3>5, <3>7, <1>3 DEF Forth
  <2>3. CASE ~take
    <3>1. delivered' = delivered
      BY <2>1, <2>3, <1>11
    <3>2. Dir(toRms', toUs, nsent, Len(delivered'), va)
      BY <2>1, <3>1, <1>2, <1>3, DirRest
    <3>3. Len(delivered') \in Nat /\ \A i \in 1..Len(fs) : HasNr(fs[i]) => fs[i].nr = Len(delivered') % Modulus
      BY <1>12, <1>13
    <3>4. Dir(toRms', toUs', nsent, Len(delivered'), va)
      BY <3>2, <3>3, <1>2, <1>13, DirAnswer
    <3>5. QED
      BY <2>1, <2>5, <3>1, <3>4, <1>3 DEF Forth, Kept, Complete
  <2>4. QED
    BY <2>2, <2>3
<1>21. ASSUME NEW i \in 1..Len(toUs')
       PROVE  (i \in 1..Len(toUs) /\ toUs'[i] = toUs[i]) \/ (i - Len(toUs) \in 1..Len(fs) /\ toUs'[i] = fs[i - Len(toUs)])
  <2>1. Len(toUs') \in Nat /\ Len(toUs) \in Nat /\ Len(fs) \in Nat /\ Len(toUs') <= Len(toUs) + Len(fs)
    BY <1>2, <1>13, <1>14 DEF Behind
  <2>2. CASE i <= Len(toUs)
    BY <2>1, <2>2, <1>13 DEF Behind
  <2>3. CASE i > Len(toUs)
    BY <2>1, <2>3, <1>13 DEF Behind
  <2>4. QED
    BY <2>1, <2>2, <2>3
<1>22. ASSUME Early, Back PROVE Back'
  <2>1. Dir(toUs, toRms, pvs, Len(rxbuf), pva) /\ InOrder(rxbuf) /\ FirstWindow
    BY <1>22 DEF Back
  <2>2. Dir(toUs, toRms', pvs', Len(rxbuf), pva') /\ pvs' \in Nat
    <3>1. CASE acked
      BY <2>1, <3>1, <1>2, <1>3, DirAck DEF f
    <3>2. CASE UNCHANGED <<pva, pvs>>
      BY <2>1, <3>2, <1>2, <1>3, DirRestAck
    <3>3. CASE reset
      <4>1. Fresh
        BY <3>3, <1>11, <1>22 DEF Fresh
      <4>2. /\ pva = 0 /\ Len(rxbuf) <= Modulus - 1
            /\ \A i \in 1..Len(toUs) : toUs[i].t = "I" => toUs[i].data <= Modulus - 1
        BY <2>1, <4>1 DEF FirstWindow
      <4>3. Dir(toUs, toRms', pvs, Len(rxbuf), pva)
        BY <2>1, <1>2, <1>3, DirRestAck
      <4>4. Dir(toUs, toRms', 0, Len(rxbuf), pva)
        BY <4>2, <4>3, <1>2, DirReset
      <4>5. QED
        BY <3>3, <4>2, <4>4
    <3>4. QED
      BY <3>1, <3>2, <3>3, <1>7
  <2>3. Dir(toUs', toRms', pvs', Len(rxbuf), pva')
    BY <2>2, <1>2, <1>13, <1>15, DirNoChunk
  <2>4. FirstWindow'
    <3> SUFFICES ASSUME Fresh'
                 PROVE  /\ pva' = 0 /\ pvs' <= Modulus - 1 /\ Len(rxbuf) <= Modulus - 1
                        /\ \A i \in 1..Len(toUs') : toUs'[i].t = "I" => toUs'[i].data <= Modulus - 1
      BY <1>3 DEF FirstWindow
    <3>1. Fresh
      BY <1>3, <1>11, <1>22 DEF Fresh, Calling
    <3>2. /\ pva = 0 /\ pvs <= Modulus - 1 /\ Len(rxbuf) <= Modulus - 1
          /\ \A i \in 1..Len(toUs) : toUs[i].t = "I" => toUs[i].data <= Modulus - 1
      BY <2>1, <3>1 DEF FirstWindow
    <3>3. f = Sabm
      <4>1. CASE Calling
        <5>1. toRms \in Seq({Sabm})
          BY <4>1, <1>1 DEF Calls
        <5>2. QED
          BY <5>1, <1>3 DEF f
      <4>2. CASE HasCall(toRms)
        BY <4>2, <1>11, <1>22
      <4>3. QED
        BY <3>1, <4>1, <4>2 DEF Fresh
    <3>4. ~acked
      BY <3>3, <1>6
    <3>5. pva' = 0 /\ pvs' <= Modulus - 1
      BY <3>2, <3>4, <1>2, <1>7
    <3>6. \A i \in 1..Len(toUs') : toUs'[i].t = "I" => toUs'[i].data <= Modulus - 1
      BY <3>2, <1>13, <1>21
    <3>7. QED
      BY <3>2, <3>5, <3>6
  <2>5. QED
    BY <2>1, <2>3, <2>4, <1>3 DEF Back
<1>23. ASSUME Small', ForthSmall PROVE ForthSmall'
  <2>1. /\ Len(delivered) <= nsent /\ va <= Len(delivered) /\ InOrder(delivered) /\ Complete
        /\ \A i \in 1..Len(toUs) : HasNr(toUs[i]) => toUs[i].nr <= Len(delivered)
    BY <1>23 DEF ForthSmall
  <2>9. nsent < Modulus /\ (take \/ delivered' = delivered)
    BY <1>3, <1>7, <1>23 DEF Small
  <2>2. take => f.data = Len(delivered) + 1
    <3> SUFFICES ASSUME take PROVE f.data = Len(delivered) + 1
      OBVIOUS
    <3> DEFINE k == f.data
    <3>1. (k - 1) % Modulus = Len(delivered) % Modulus
      BY <1>10
    <3>2. k \in 1..nsent
      BY <1>10
    <3> HIDE DEF k
    <3>3. k - 1 \in Seqs /\ Len(delivered) \in Seqs
      BY <2>1, <2>9, <3>2, <1>2 DEF Seqs
    <3>4. (k - 1) % Modulus = k - 1 /\ Len(delivered) % Modulus = Len(delivered)
      BY <3>3, SmallCount
    <3>5. k - 1 = Len(delivered)
      BY <3>1, <3>4
    <3>6. QED
      BY <3>2, <3>5, <1>2 DEF k
  <2>3. /\ Len(delivered') <= nsent /\ Len(delivered) <= Len(delivered') /\ Len(delivered') \in Nat
        /\ InOrder(delivered')
    <3>1. CASE take
      <4>1. InOrder(delivered') /\ Len(delivered') = Len(delivered) + 1
        BY <2>1, <2>2, <3>1, <1>2, InOrderMore
      <4>2. QED
        BY <2>2, <3>1, <4>1, <1>2, <1>10
    <3>2. CASE ~take
      BY <2>1, <2>9, <3>2, <1>2
    <3>3. QED
      BY <3>1, <3>2
  <2>4. pvr' = Len(delivered')
    <3>1. Len(delivered') \in Seqs
      BY <2>3, <2>9, <1>2 DEF Seqs
    <3>2. Len(delivered') % Modulus = Len(delivered')
      BY <3>1, SmallCount
    <3>3. QED
      BY <3>2, <1>12
  <2>5. ASSUME NEW i \in 1..Len(toUs'), HasNr(toUs'[i]) PROVE toUs'[i].nr <= Len(delivered')
    <3>1. CASE i \in 1..Len(toUs) /\ toUs'[i] = toUs[i]
      <4>1. toUs[i].nr <= Len(delivered) /\ toUs[i].nr \in Int
        <5>1. toUs[i] \in Frames /\ HasNr(toUs[i])
          BY <2>5, <3>1, <1>2
        <5>2. toUs[i].nr \in Seqs
          BY <5>1, FrameFields
        <5>3. QED
          BY <2>1, <3>1, <5>1, <5>2 DEF Seqs
      <4>2. QED
        BY <3>1, <4>1, <2>3, <1>2
    <3>2. CASE i - Len(toUs) \in 1..Len(fs) /\ toUs'[i] = fs[i - Len(toUs)]
      <4>1. toUs'[i].nr = Len(delivered')
        BY <2>4, <2>5, <3>2, <1>13
      <4>2. QED
        BY <4>1, <2>3
    <3>3. QED
      BY <3>1, <3>2, <1>21
  <2>6. va' <= Len(delivered')
    <3>1. va \in Int
      BY <1>2 DEF Seqs
    <3>2. QED
      BY <2>1, <2>3, <3>1, <1>2, <1>3
  <2>7. Complete'
    BY <2>1, <2>3, <1>2, <1>3 DEF Complete
  <2>8. QED
    BY <2>3, <2>5, <2>6, <2>7, <1>3 DEF ForthSmall
<1>24. BackSmall => BackSmall'
  BY <1>3 DEF BackSmall
<1>25. (Small' => Small) /\ (Clean' => Clean) /\ (Forth => Early)
  <2>1. recalled => recalled'
    BY <1>7
  <2>2. QED
    BY <2>1, <1>3 DEF Small, Clean, Forth
<1>26. QED
  BY <1>3, <1>16, <1>17, <1>18, <1>19, <1>20, <1>22, <1>23, <1>24, <1>25 DEF LinkInv

\* cms_to_rf() sends a chunk: the window holds what is not acknowledged.
LEMMA RmsSendsKeeps ==
  ASSUME LinkInv, RmsSends
  PROVE  LinkInv'
<1> USE DEF rmsVars, airVars, usVars, linkVars
<1> DEFINE f == I(pvs % Modulus, pvr, pvs + 1)
<1>1. TypeOK /\ Numbers /\ Shapes /\ Calls
  BY DEF LinkInv
<1>2. /\ nsent \in Nat /\ pvs \in Nat /\ Len(delivered) \in Nat /\ Len(rxbuf) \in Nat
      /\ Modulus \in Nat /\ Modulus > 1 /\ RevTotal \in Nat /\ Total \in Nat
      /\ toRms \in Seq(Frames) /\ toUs \in Seq(Frames)
      /\ va \in Seqs /\ pvr \in Seqs /\ pva \in Seqs
  BY <1>1, Types
<1>3. /\ pvs < RevTotal /\ pvs' = pvs + 1 /\ toUs' = Append(toUs, f)
      /\ UNCHANGED <<pc, attempt, tries, vs, va, vr, unacked, rxbuf, left, nsent, result,
                     toRms, plink, pvr, pva, delivered, airVars>>
  BY DEF RmsSends
<1>4. /\ f \in Frames /\ f.t = "I" /\ f.ns = pvs % Modulus /\ f.nr = pvr /\ f.data = pvs + 1
  <2>1. pvs \in Int /\ pvs + 1 \in 1..Total + RevTotal
    BY <1>2, <1>3
  <2>2. pvs % Modulus \in Seqs
    BY <2>1, Rounds
  <2>3. QED
    BY <2>1, <2>2, <1>2, FrameKinds
<1> HIDE DEF f
<1>5. f \in InFrames
  <2>1. pvs + 1 \in 1..RevTotal /\ (pvs + 1) - 1 = pvs
    BY <1>2, <1>3
  <2>2. QED
    BY <2>1, <1>4 DEF InFrames
<1>6. toUs' \in Seq(InFrames) /\ Behind(toUs', toUs, <<f>>) /\ <<f>> \in Seq(Frames)
  <2>1. toUs \in Seq(InFrames)
    BY <1>1 DEF Shapes
  <2>2. toUs' \in Seq(InFrames) /\ <<f>> \in Seq(Frames)
    BY <2>1, <1>3, <1>4, <1>5
  <2>3. Behind(toUs', toUs, <<f>>)
    BY <1>2, <1>3, <1>4, OneBehind
  <2>4. QED
    BY <2>2, <2>3
<1>7. ASSUME NEW i \in 1..Len(toUs')
      PROVE  (i \in 1..Len(toUs) /\ toUs'[i] = toUs[i]) \/ toUs'[i] = f
  BY <1>2, <1>3, <1>4
<1>8. TypeOK'
  <2>1. plink' \in BOOLEAN /\ echoed' \in BOOLEAN /\ recalled' \in BOOLEAN /\ misled' \in BOOLEAN
    BY <1>1, <1>3, Zenon DEF TypeOK
  <2>2. pvs' \in 0..RevTotal
    BY <1>2, <1>3
  <2>3. toUs' \in Seq(Frames)
    BY <1>6 DEF Behind
  <2>4. QED
    BY <1>1, <1>3, <2>1, <2>2, <2>3 DEF TypeOK
<1>9. Numbers' /\ Shapes' /\ Calls'
  BY <1>1, <1>3, <1>6 DEF Numbers, Shapes, Calls, Calling
<1>10. pvr = Len(delivered) % Modulus
  BY <1>1 DEF Numbers
<1>11. ASSUME Forth PROVE Forth'
  <2>1. \A i \in 1..Len(<<f>>) : HasNr(<<f>>[i]) => <<f>>[i].nr = Len(delivered) % Modulus
    BY <1>4, <1>10
  <2>2. Dir(toRms, toUs', nsent, Len(delivered), va)
    BY <2>1, <1>2, <1>6, <1>11, DirAnswer DEF Forth
  <2>3. QED
    BY <2>2, <1>3, <1>11 DEF Forth, Early, Kept, InOrder, Complete
<1>12. ASSUME Back PROVE Back'
  <2> DEFINE base == Latest(Len(rxbuf), pva)
  <2>1. Dir(toUs, toRms, pvs, Len(rxbuf), pva) /\ InOrder(rxbuf) /\ FirstWindow
    BY <1>12 DEF Back
  <2>2. base \in Int /\ base % Modulus = pva
    BY <1>2, LatestCount
  <2>3. /\ base >= 0 /\ pvs <= base + Modulus - 1 /\ Len(rxbuf) <= pvs + Modulus - 1
        /\ \A i \in 1..Len(toUs) : toUs[i].t = "I" => toUs[i].data <= pvs + Modulus - 1
    BY <2>1 DEF Dir
  <2> HIDE DEF base
  <2>4. ~((pvs - pva) % Modulus >= Modulus - 1)
    BY DEF RmsSends, RmsFull
  <2>5. pvs + 1 <= base + Modulus - 1
    <3>1. CASE base > pvs
      BY <3>1, <2>2, <1>2
    <3>2. CASE base <= pvs
      <4>1. pvs - base \in Seqs /\ pvs \in Int
        BY <3>2, <2>2, <2>3, <1>2 DEF Seqs
      <4>2. (pvs - (base % Modulus)) % Modulus = (pvs - base) % Modulus
        BY <4>1, <2>2, SumNumber
      <4>3. (pvs - base) % Modulus = pvs - base
        BY <4>1, SmallCount
      <4>4. (pvs - pva) % Modulus = pvs - base
        BY <4>2, <4>3, <2>2
      <4>5. ~(pvs - base >= Modulus - 1)
        BY <4>4, <2>4
      <4>6. QED
        BY <4>5, <2>2, <1>2
    <3>3. QED
      BY <3>1, <3>2, <2>2, <1>2
  <2>6. Dir(toUs', toRms, pvs + 1, Len(rxbuf), pva)
    <3>1. Spread(<<f>>)
      BY DEF Spread
    <3>2. \A j \in 1..Len(toUs) : toUs[j].t = "I" => toUs[j].data \in Int
      BY <1>2, FrameFields
    <3>3. ASSUME NEW i \in 1..Len(<<f>>)
          PROVE  /\ <<f>>[i].data <= base + Modulus - 1
                 /\ <<f>>[i].data <= (pvs + 1) + Modulus - 1
                 /\ Len(rxbuf) <= <<f>>[i].data + Modulus - 2
                 /\ \A j \in 1..Len(toUs) : toUs[j].t = "I" =>
                      toUs[j].data <= <<f>>[i].data + Modulus - 2
      <4>1. <<f>>[i].data = pvs + 1
        BY <1>4
      <4>2. /\ pvs + 1 <= base + Modulus - 1
            /\ pvs + 1 <= (pvs + 1) + Modulus - 1
            /\ Len(rxbuf) <= (pvs + 1) + Modulus - 2
            /\ pvs + Modulus - 1 = (pvs + 1) + Modulus - 2
        BY <2>2, <2>3, <2>5, <1>2
      <4>3. \A j \in 1..Len(toUs) : toUs[j].t = "I" =>
              toUs[j].data <= (pvs + 1) + Modulus - 2
        BY <2>3, <4>2
      <4>4. QED
        BY <4>1, <4>2, <4>3
    <3>4. pvs + 1 \in {pvs, pvs + 1}
      OBVIOUS
    <3>5. QED
      BY <3>1, <3>3, <3>4, <2>1, <2>5, <1>2, <1>6, DirSend DEF base
  <2>7. FirstWindow'
    <3> SUFFICES ASSUME Fresh
                 PROVE  /\ pva = 0 /\ pvs + 1 <= Modulus - 1 /\ Len(rxbuf) <= Modulus - 1
                        /\ \A i \in 1..Len(toUs') : toUs'[i].t = "I" => toUs'[i].data <= Modulus - 1
      BY <1>3 DEF FirstWindow, Fresh, Calling
    <3>1. /\ pva = 0 /\ pvs <= Modulus - 1 /\ Len(rxbuf) <= Modulus - 1
          /\ \A i \in 1..Len(toUs) : toUs[i].t = "I" => toUs[i].data <= Modulus - 1
      BY <2>1 DEF FirstWindow
    <3>2. pvs + 1 <= Modulus - 1
      <4>1. pvs \in Seqs /\ pvs - 0 = pvs
        BY <3>1, <1>2 DEF Seqs
      <4>2. pvs % Modulus = pvs
        BY <4>1, SmallCount
      <4>3. ~(pvs >= Modulus - 1)
        BY <4>1, <4>2, <3>1, <2>4
      <4>4. QED
        BY <4>3, <1>2
    <3>3. \A i \in 1..Len(toUs') : toUs'[i].t = "I" => toUs'[i].data <= Modulus - 1
      BY <3>1, <3>2, <1>4, <1>7
    <3>4. QED
      BY <3>1, <3>2, <3>3
  <2>8. QED
    BY <2>1, <2>6, <2>7, <1>3 DEF Back
<1>13. ASSUME Small, ForthSmall PROVE ForthSmall'
  <2>1. /\ Len(delivered) <= nsent
        /\ \A i \in 1..Len(toUs) : HasNr(toUs[i]) => toUs[i].nr <= Len(delivered)
    BY <1>13 DEF ForthSmall
  <2>2. pvr = Len(delivered)
    <3>1. Len(delivered) \in Seqs
      BY <2>1, <1>2, <1>13 DEF Seqs, Small
    <3>2. QED
      BY <3>1, <1>10, SmallCount
  <2>3. \A i \in 1..Len(toUs') : HasNr(toUs'[i]) => toUs'[i].nr <= Len(delivered)
    <3> SUFFICES ASSUME NEW i \in 1..Len(toUs'), HasNr(toUs'[i])
                 PROVE  toUs'[i].nr <= Len(delivered)
      OBVIOUS
    <3>1. CASE i \in 1..Len(toUs) /\ toUs'[i] = toUs[i]
      BY <3>1, <2>1
    <3>2. CASE toUs'[i] = f
      <4>1. f.nr = Len(delivered)
        BY <2>2, <1>4
      <4>2. QED
        BY <3>2, <4>1, <1>2
    <3>3. QED
      BY <3>1, <3>2, <1>7
  <2>4. QED
    BY <2>3, <1>3, <1>13 DEF ForthSmall, Complete
<1>14. BackSmall => BackSmall'
  BY <1>3 DEF BackSmall
<1>15. QED
  BY <1>3, <1>8, <1>9, <1>11, <1>12, <1>13, <1>14 DEF LinkInv, Clean, Small

\* A channel in which the first frame is heard once more.
LEMMA Repeated ==
  ASSUME NEW S, NEW c \in Seq(S), Len(c) > 0
  PROVE  /\ Append(c, Head(c)) \in Seq(S)
         /\ \A i \in 1..Len(Append(c, Head(c))) : \E j \in 1..Len(c) : Append(c, Head(c))[i] = c[j]
<1>1. Head(c) = c[1] /\ 1 \in 1..Len(c) /\ Head(c) \in S
  OBVIOUS
<1>2. Append(c, Head(c)) \in Seq(S)
  BY <1>1
<1>3. \A i \in 1..Len(Append(c, Head(c))) :
        (i \in 1..Len(c) /\ Append(c, Head(c))[i] = c[i]) \/ Append(c, Head(c))[i] = c[1]
  BY <1>1
<1>4. QED
  BY <1>1, <1>2, <1>3

\* A digipeater repeats a frame: what is left is said by ForthSmall, BackSmall.
LEMMA EchoKeeps ==
  ASSUME LinkInv, Echo
  PROVE  LinkInv'
<1> USE DEF rmsVars, airVars, usVars, linkVars
<1>1. TypeOK /\ Numbers /\ Shapes /\ Calls
  BY DEF LinkInv
<1>2. /\ echoed' = TRUE
      /\ UNCHANGED <<pc, attempt, tries, vs, va, vr, unacked, rxbuf, left, nsent, result,
                     plink, pvr, pva, pvs, delivered, recalled, misled>>
  BY DEF Echo
<1>3. /\ toUs' = toUs \/ (Len(toUs) > 0 /\ toUs' = Append(toUs, Head(toUs)))
      /\ toRms' = toRms \/ (Len(toRms) > 0 /\ toRms' = Append(toRms, Head(toRms)))
  BY RfLinkConstants DEF Echo
<1>4. /\ toUs' \in Seq(InFrames) /\ toUs' \in Seq(Frames)
      /\ \A i \in 1..Len(toUs') : \E j \in 1..Len(toUs) : toUs'[i] = toUs[j]
  <2>1. toUs \in Seq(InFrames) /\ toUs \in Seq(Frames)
    BY <1>1, Types DEF Shapes
  <2>2. CASE toUs' = toUs
    BY <2>1, <2>2
  <2>3. CASE Len(toUs) > 0 /\ toUs' = Append(toUs, Head(toUs))
    <3>1. /\ toUs' \in Seq(InFrames)
          /\ \A i \in 1..Len(toUs') : \E j \in 1..Len(toUs) : toUs'[i] = toUs[j]
      BY <2>1, <2>3, Repeated
    <3>2. toUs' \in Seq(Frames)
      BY <2>1, <2>3, Repeated
    <3>3. QED
      BY <3>1, <3>2
  <2>4. QED
    BY <2>2, <2>3, <1>3
<1>5. toRms' \in Seq(OutFrames(nsent)) /\ toRms' \in Seq(Frames)
  <2>1. toRms \in Seq(OutFrames(nsent)) /\ toRms \in Seq(Frames)
    BY <1>1, Types DEF Shapes
  <2>2. QED
    BY <2>1, <1>3, Repeated
<1>6. TypeOK'
  <2>1. plink' \in BOOLEAN /\ echoed' \in BOOLEAN /\ recalled' \in BOOLEAN /\ misled' \in BOOLEAN
    BY <1>1, <1>2, Zenon DEF TypeOK
  <2>2. QED
    BY <1>1, <1>2, <1>4, <1>5, <2>1 DEF TypeOK
<1>7. Numbers' /\ Shapes'
  BY <1>1, <1>2, <1>4, <1>5 DEF Numbers, Shapes
<1>8. Calls'
  <2>1. toRms \in Seq({Sabm}) => toRms' \in Seq({Sabm})
    BY <1>3, Repeated
  <2>2. QED
    BY <2>1, <1>1, <1>2 DEF Calls, Calling
<1>9. ForthSmall => ForthSmall'
  BY <1>2, <1>4 DEF ForthSmall, Complete
<1>10. BackSmall => BackSmall'
  BY <1>2 DEF BackSmall
<1>11. QED
  BY <1>2, <1>6, <1>7, <1>8, <1>9, <1>10 DEF LinkInv, Clean, Small

\* A frame to another station is read: if it counts as an acknowledgement or a
\* chunk, nothing is claimed of the order any more.
LEMMA OverhearKeeps ==
  ASSUME LinkInv, Overhear
  PROVE  LinkInv'
<1> USE DEF rmsVars, airVars, linkVars
<1>1. TypeOK /\ Shapes /\ UNCHANGED <<toUs, plink, pvr, pva, pvs, delivered, echoed, recalled>>
  BY DEF LinkInv, Overhear
<1>2. PICK f \in ToOthers :
        \/ Answered(f) /\ UNCHANGED misled
        \/ /\ (Pumping /\ Process(f, TRUE)) \/ (pc = "close" /\ Process(f, FALSE))
           /\ misled' = (f.t \in {"RR", "I"})
           /\ UNCHANGED <<pc, attempt, tries, vs, left, nsent, result>>
  BY DEF Overhear
<1>3. /\ f.t \in {"UA", "DM", "RR", "I"}
      /\ HasNr(f) => f.nr \in Seqs
      /\ f.t = "I" => f.data \in Nat
  BY DEF ToOthers, Ua, Dm, Rr, I, HasNr
<1>4. CASE Answered(f) /\ UNCHANGED misled
  BY <1>1, <1>4, AnswerKeeps
<1>5. ASSUME NEW answer \in BOOLEAN, Process(f, answer), Pumping \/ pc = "close",
             misled' = (f.t \in {"RR", "I"}),
             UNCHANGED <<pc, attempt, tries, vs, left, nsent, result>>
      PROVE  LinkInv'
  <2>1. ~Calling /\ toUs' \in Seq(InFrames)
    BY <1>1, <1>5 DEF Calling, Pumping, Shapes
  <2>2. misled' \in BOOLEAN
    BY <1>5
  <2>3. /\ TypeOK' /\ Numbers' /\ Shapes' /\ Calls' /\ (Early => Early')
    BY <2>1, <2>2, <1>1, <1>3, <1>5, Processed
  <2>4. CASE f.t \in {"RR", "I"}
    BY <2>3, <2>4, <1>5 DEF LinkInv, Clean, Small
  <2>5. CASE f.t \in {"UA", "DM"}
    <3>1. UNCHANGED <<va, unacked, vr, rxbuf, toRms>> /\ ~misled /\ ~misled'
      <4>1. f.t # "RR" /\ f.t # "I" /\ f.t \notin {"RR", "I"}
        BY <2>5
      <4>2. UNCHANGED <<va, unacked, vr, rxbuf, toRms>>
        BY <4>1, <1>5 DEF Process
      <4>3. ~misled /\ ~misled'
        BY <4>1, <1>5 DEF Overhear
      <4>4. QED
        BY <4>2, <4>3
    <3>2. UNCHANGED <<linkVars, nsent, delivered, toRms, toUs, pc, result, pva, pvs>>
      BY <3>1, <1>1, <1>5
    <3>3. (Forth => Forth') /\ (Back => Back')
      BY <3>2 DEF Forth, Back, Early, Kept, InOrder, Complete, FirstWindow, Fresh, Calling
    <3>4. (ForthSmall => ForthSmall') /\ (BackSmall => BackSmall')
      BY <3>2 DEF ForthSmall, BackSmall, InOrder, Complete
    <3>5. QED
      BY <2>3, <3>1, <3>2, <3>3, <3>4, <1>1 DEF LinkInv, Clean, Small
  <2>6. QED
    BY <2>4, <2>5, <1>3
<1>6. QED
  BY <1>2, <1>4, <1>5

\* Every step keeps the invariant.
LEMMA NextKeeps ==
  ASSUME LinkInv, [Next]_vars
  PROVE  LinkInv'
<1>1. CASE Connect \/ ConnectTimeout \/ ConnectReply
  BY <1>1, ConnectKeeps
<1>2. CASE Send \/ SendReturns \/ Finish \/ KissLost
  BY <1>2, CallerKeeps
<1>3. CASE SendChunk
  BY <1>3, SendChunkKeeps
<1>4. CASE WindowTimeout \/ DrainTimeout
  BY <1>4, TimeoutKeeps
<1>5. CASE Pump
  <2>1. ~Calling
    BY <1>5 DEF Pump, Pumping, Calling
  <2>2. QED
    BY <1>5, <2>1, HearKeeps DEF Pump
<1>6. CASE FlushAcks
  <2>1. ~Calling
    BY <1>6 DEF FlushAcks, Calling
  <2>2. QED
    BY <1>6, <2>1, HearKeeps DEF FlushAcks
<1>7. CASE SendDisc \/ Closed \/ LoseToRms \/ LoseToUs \/ RmsDrops \/ Done \/ UNCHANGED vars
  BY <1>7, LossKeeps DEF Done
<1>8. CASE RmsHandle
  BY <1>8, RmsHandleKeeps
<1>9. CASE RmsSends
  BY <1>9, RmsSendsKeeps
<1>10. CASE Echo
  BY <1>10, EchoKeeps
<1>11. CASE Overhear
  BY <1>11, OverhearKeeps
<1>12. QED
  BY <1>1, <1>2, <1>3, <1>4, <1>5, <1>6, <1>7, <1>8, <1>9, <1>10, <1>11 DEF Next, Driver

(***************************************************************************)
(* The theorems.                                                           *)
(***************************************************************************)

\* The link's invariant: sequence numbers are read as the counts they stand
\* for, whatever is lost, retransmitted, answered late, called anew or repeated,
\* until an RR or I frame to another station is processed.
THEOREM LinkInvariant == Spec => []LinkInv
<1>1. Init => LinkInv
  BY InitInv
<1>2. LinkInv /\ [Next]_vars => LinkInv'
  BY NextKeeps
<1>3. QED
  BY <1>1, <1>2, PTL DEF Spec

\* AX25Stream and the RMS keep to their types.
THEOREM TypeCorrect == Spec => []TypeOK
<1>1. LinkInv => TypeOK
  BY DEF LinkInv
<1>2. QED
  BY <1>1, LinkInvariant, PTL

\* Both directions keep their order: the RMS passes on, and recv() returns,
\* every chunk once and in its place, as long as AX25Stream has processed no RR
\* or I frame of the RMS to another station.
THEOREM KeepsOrder == Spec => []LinkInOrder
<1>1. LinkInv => LinkInOrder
  <2> SUFFICES ASSUME LinkInv PROVE LinkInOrder
    OBVIOUS
  <2>1. Unambiguous => InOrder(delivered)
    BY DEF LinkInv, Unambiguous, Clean, Small, Forth, ForthSmall
  <2>2. UnambiguousBack => InOrder(rxbuf)
    BY DEF LinkInv, UnambiguousBack, Clean, Back, BackSmall
  <2>3. QED
    BY <2>1, <2>2 DEF LinkInOrder, InOrder
<1>2. QED
  BY <1>1, LinkInvariant, PTL

\* send() returns without an error, and a delivery is reported "ok", only once
\* the RMS has every chunk, as long as AX25Stream has processed no RR or I frame
\* of the RMS to another station.
THEOREM SendDelivers == Spec => []SendMeansDelivered
<1>1. LinkInv => SendMeansDelivered
  BY DEF LinkInv, SendMeansDelivered, Unambiguous, Clean, Small, Forth, ForthSmall, Complete
<1>2. QED
  BY <1>1, LinkInvariant, PTL

\* _ack_upto() leaves in _unacked every chunk the RMS has not taken, as long as
\* no frame was repeated and no RR or I frame to another station processed.
THEOREM StaysRecoverable == Spec => []Recoverable
<1>1. ASSUME LinkInv PROVE Recoverable
  <2> SUFFICES ASSUME Clean, NEW k \in Len(delivered) + 1 .. nsent
               PROVE  \E n \in Seqs : unacked[n] = k
    BY DEF Recoverable, Clean
  <2> DEFINE base == Latest(Len(delivered), va)
  <2>1. TypeOK /\ Shapes /\ Forth
    BY <1>1 DEF LinkInv
  <2>2. base \in Nat /\ base <= Len(delivered) /\ Len(delivered) \in Nat /\ nsent \in Nat
    BY <2>1, <1>1, Window, Types
  <2> HIDE DEF base
  <2>3. k \in base + 1 .. nsent /\ k - 1 \in Int
    BY <2>2
  <2>4. unacked[(k - 1) % Modulus] = k
    BY <2>1, <2>3 DEF Forth, Kept, base
  <2>5. (k - 1) % Modulus \in Seqs
    BY <2>3, Rounds
  <2>6. QED
    BY <2>4, <2>5
<1>2. LinkInv => Recoverable
  BY <1>1
<1>3. QED
  BY <1>2, LinkInvariant, PTL
=============================================================================
