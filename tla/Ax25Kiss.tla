------------------------------ MODULE Ax25Kiss ------------------------------
(***************************************************************************)
(* AX.25 frames over KISS (src/rms/ax25.py): frames are made, escaped and  *)
(* sent to Dire Wolf's port one after the other; a receiver that joins     *)
(* anywhere in the stream (it reconnects, or its peer was cut off) decodes *)
(* what it reads in pieces of any size and takes the frames apart.         *)
(***************************************************************************)
EXTENDS Integers, Sequences, SequencesExt

CONSTANTS
  Frames,   \* the frames to try, as records of their fields
  Reads     \* sizes of the pieces read

VARIABLES
  sent,     \* the frames sent
  joined,   \* bytes the receiver missed at the beginning
  stream,   \* bytes still to be read
  decoder,  \* KissDecoder: buf and esc
  heard     \* frames decoded

vars == <<sent, joined, stream, decoder, heard>>

FEND == 192
FESC == 219
TFEND == 220
TFESC == 221

-----------------------------------------------------------------------------
(* Frames.  A call is its characters and its SSID.                         *)

Pad(base) == [k \in 1..6 |-> IF k <= Len(base) THEN base[k] ELSE 32]

\* encode_call() and decode_call(); the flags are the highest and lowest bit.
EncodeCall(call, last, command) ==
  Append([k \in 1..6 |-> 2 * Pad(call.base)[k]],
         96 + 2 * call.ssid + (IF command THEN 128 ELSE 0) + (IF last THEN 1 ELSE 0))

DecodeCall(a) ==
  [base |-> SelectSeq([k \in 1..6 |-> a[k] \div 2], LAMBDA c : c # 32),
   ssid |-> (a[7] \div 2) % 16]

MakeFrame(f) ==
  LET d == Len(f.digis) IN
  EncodeCall(f.dest, FALSE, ~f.response)
    \o EncodeCall(f.src, d = 0, f.response)
    \o FlattenSeq([k \in 1..d |-> EncodeCall(f.digis[k], k = d, FALSE)])
    \o <<f.ctrl>> \o (IF f.pid >= 0 THEN <<f.pid>> ELSE <<>>) \o f.payload

\* split_frame(): the addresses end with the one whose last bit is set, no
\* later than the eleventh; NoFrame where the code raises ValueError.
NoFrame == [error |-> TRUE]

RECURSIVE Addresses(_)
Addresses(bytes) ==
  IF Len(bytes) < 7 \/ bytes[7] % 2 = 1 THEN 1
  ELSE 1 + Addresses(SubSeq(bytes, 8, Len(bytes)))

SplitFrame(bytes) ==
  LET n == Addresses(bytes)
      call(k) == DecodeCall(SubSeq(bytes, 7 * k - 6, 7 * k))
      ctrl == bytes[7 * n + 1]
      pid == ctrl % 2 = 0 \/ ctrl = 3
      start == 7 * n + (IF pid THEN 3 ELSE 2)
  IN  IF Len(bytes) < 15 \/ n \notin 2..11 \/ 7 * n >= Len(bytes) THEN NoFrame
      ELSE IF pid /\ Len(bytes) < 7 * n + 2 THEN NoFrame
      ELSE [dest |-> call(1), src |-> call(2), digis |-> [k \in 1..(n - 2) |-> call(k + 2)],
            ctrl |-> ctrl, pid |-> IF pid THEN bytes[7 * n + 2] ELSE -1,
            payload |-> SubSeq(bytes, start, Len(bytes))]

-----------------------------------------------------------------------------
(* KISS                                                                    *)

\* kiss_encode(), for port 0.  Faulty variant: FEND is escaped first.
KissEncodeSwapped(bytes) ==
  LET esc(from, to, s) == FlattenSeq([k \in DOMAIN s |-> IF s[k] = from THEN <<FESC, to>> ELSE <<s[k]>>])
  IN  <<FEND>> \o esc(FESC, TFESC, esc(FEND, TFEND, <<0>> \o bytes)) \o <<FEND>>

\* kiss_encode(), for port 0
KissEncode(bytes) ==
  LET esc(from, to, s) == FlattenSeq([k \in DOMAIN s |-> IF s[k] = from THEN <<FESC, to>> ELSE <<s[k]>>])
  IN  <<FEND>> \o esc(FEND, TFEND, esc(FESC, TFESC, <<0>> \o bytes)) \o <<FEND>>

Stream(fs) == FlattenSeq([k \in DOMAIN fs |-> KissEncode(MakeFrame(fs[k]))])

\* KissDecoder.feed(), for one byte
FeedByte(d, b) ==
  IF b = FEND
  THEN [buf |-> <<>>, esc |-> FALSE,
        out |-> IF d.buf # <<>> /\ d.buf[1] % 16 = 0 THEN Append(d.out, Tail(d.buf)) ELSE d.out]
  ELSE IF d.esc
  THEN [d EXCEPT !.esc = FALSE,
                 !.buf = Append(@, IF b = TFEND THEN FEND ELSE IF b = TFESC THEN FESC ELSE b)]
  ELSE IF b = FESC THEN [d EXCEPT !.esc = TRUE]
  ELSE [d EXCEPT !.buf = Append(@, b)]

Quiet ==
  /\ sent = <<>> /\ joined = 0 /\ stream = <<>> /\ heard = <<>>
  /\ decoder = [buf |-> <<>>, esc |-> FALSE]

\* The receiver joins somewhere in the first frame.
Init ==
  /\ \E f, g \in Frames :
       /\ sent = <<f, g>>
       /\ joined \in 0..Len(Stream(<<f>>))
  /\ stream = SubSeq(Stream(sent), joined + 1, Len(Stream(sent)))
  /\ decoder = [buf |-> <<>>, esc |-> FALSE]
  /\ heard = <<>>

\* A read returns what there is, and the frames it completes are split.
Feed ==
  /\ stream # <<>>
  /\ \E n \in Reads :
       LET data == SubSeq(stream, 1, n)
           d == FoldLeft(FeedByte, [buf |-> decoder.buf, esc |-> decoder.esc, out |-> <<>>], data)
       IN  /\ n <= Len(stream)
           /\ stream' = SubSeq(stream, n + 1, Len(stream))
           /\ decoder' = [buf |-> d.buf, esc |-> d.esc]
           /\ heard' = heard \o [k \in DOMAIN d.out |-> SplitFrame(d.out[k])]
  /\ UNCHANGED <<sent, joined>>

-----------------------------------------------------------------------------
(* Properties.                                                             *)

Fields(f) == [k \in DOMAIN f \ {"response"} |-> f[k]]

\* Every frame that begins after the receiver has joined is heard as it was
\* made, in order and once, whatever bytes it holds and however the stream is
\* read; a receiver that joins in the middle of a frame hears at most one
\* fragment before.
FramesThrough ==
  stream = <<>> /\ sent # <<>> =>
    LET whole == IF joined = 0 THEN sent ELSE Tail(sent)
    IN  /\ IsSuffix([k \in DOMAIN whole |-> Fields(whole[k])], heard)
        /\ Len(heard) <= Len(whole) + (IF joined = 0 THEN 0 ELSE 1)

=============================================================================
