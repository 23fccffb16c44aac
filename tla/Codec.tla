-------------------------------- MODULE Codec --------------------------------
(***************************************************************************)
(* The codecs of the mail path. One message is compressed by               *)
(* src/web/lzhuf.py, framed for the B2 transfer by src/web/b2f.py, one     *)
(* byte perhaps damaged on the way, unframed, checked and decompressed.    *)
(* Each step of the encoder and of the decoder is one round of their       *)
(* loops, a character or a match.                                          *)
(***************************************************************************)
EXTENDS Integers, Sequences, SequencesExt, FiniteSetsExt, Bitwise

CONSTANTS
  N, F, THRESHOLD, Chars, Space, MAX_FREQ,   \* as in Lzhuf
  Messages,    \* the messages to try, sequences of characters
  Positions,   \* the match positions to try alone
  ChunkSize,   \* bytes in an STX block (250)
  Damage,      \* what may be added, bit by bit, to one byte
  Frames, Reads   \* as in Ax25Kiss

ASSUME CodecConstants ==
  /\ {N, F, THRESHOLD, Chars, MAX_FREQ} \subseteq Nat
  /\ \E k \in 1..11 : N = 2^k
  /\ THRESHOLD < F /\ 2 * F <= N   \* the first F strings lie in the window
  /\ Space \in 0..(Chars - 1)
  /\ Chars - THRESHOLD + F < MAX_FREQ
  /\ Messages \subseteq Seq(0..(Chars - 1))
  /\ Positions \subseteq 0..4095
  /\ ChunkSize \in 1..255 /\ Damage \subseteq 1..255

VARIABLES
  phase,    \* "encode", "encoded", "received", "decode", "decoded", "rejected"
  message,  \* the message; for a position alone, that position
  huff,     \* the encoder's Huffman tree
  window,   \* the encoder's window
  bits,     \* the bit stream
  blob,     \* the B2 stream
  damaged,  \* a byte of it has been damaged
  dec,      \* the decoder
  sent, joined, stream, decoder, heard   \* as in Ax25Kiss

mailVars == <<phase, message, huff, window, bits, blob, damaged, dec>>

Lz == INSTANCE Lzhuf
Kiss == INSTANCE Ax25Kiss

kissVars == <<sent, joined, stream, decoder, heard>>
vars == <<mailVars, kissVars>>

-----------------------------------------------------------------------------
(* b2f.py                                                                  *)

SOH == 1
STX == 2
EOT == 4

\* frame_binary(), with the title "t"
Frame(bytes) ==
  LET block(k) == SubSeq(bytes, 1 + (k - 1) * ChunkSize, Min({k * ChunkSize, Len(bytes)}))
      blocks == [k \in 1..((Len(bytes) + ChunkSize - 1) \div ChunkSize) |->
                   <<STX, Len(block(k))>> \o block(k)]
      sum == FoldLeft(LAMBDA x, b : x + b, 0, bytes)
  IN  <<SOH, 4, 116, 0, 48, 0>> \o FlattenSeq(blocks) \o <<EOT, (256 - (sum % 256)) % 256>>

\* unframe_binary()
RECURSIVE Unframe(_)
Unframe(s) ==
  IF s = <<>> \/ s[1] = EOT THEN <<>>
  ELSE LET rest == SubSeq(s, 3 + s[2], Len(s))
       IN  IF s[1] = SOH THEN Unframe(rest)
           ELSE SubSeq(s, 3, Min({2 + s[2], Len(s)})) \o Unframe(rest)

-----------------------------------------------------------------------------
Init ==
  /\ bits = <<>> /\ blob = <<>> /\ damaged = FALSE
  /\ huff = Lz!Start /\ dec = Lz!Decoder
  /\ \/ message \in Messages /\ phase = "encode" /\ window = Lz!Window(message)
     \/ message \in Positions /\ phase = "position" /\ window = Lz!Window(<<>>)
     \/ message = <<>> /\ phase = "frames" /\ window = Lz!Window(<<>>)
  /\ IF phase = "frames" THEN Kiss!Init ELSE Kiss!Quiet

\* One round of _lzss_encode().  A code of more than 16 bits cannot be put.
Encode ==
  LET c == Lz!Symbol(window)
      code == Lz!Code(huff, c)
      match == Lz!Match(window)
      pos == IF match = 1 THEN <<>> ELSE Lz!EncodePosition(window.mpos)
  IN  /\ phase = "encode" /\ window.len > 0
      /\ Len(code) <= Lz!CodeWidth
      /\ bits' = bits \o code \o pos
      /\ huff' = Lz!Update(huff, c)
      /\ window' = Lz!AdvanceBy(window, message, match)
      /\ UNCHANGED <<phase, message, blob, damaged, dec>>

Compress ==
  /\ phase = "encode" /\ window.len = 0
  /\ blob' = Lz!Blob(Len(message), bits)
  /\ phase' = "encoded"
  /\ UNCHANGED <<message, huff, window, bits, damaged, dec>>

\* The stream is transferred as it is, or with one byte damaged.
Transfer ==
  /\ phase = "encoded"
  /\ phase' = "received"
  /\ \/ blob' = Unframe(Frame(blob)) /\ UNCHANGED damaged
     \/ /\ \E k \in DOMAIN blob, e \in Damage :
             blob' = Unframe(Frame([blob EXCEPT ![k] = @ ^^ e]))
        /\ damaged' = TRUE
  /\ UNCHANGED <<message, huff, window, bits, dec>>

\* decompress(), up to the decoding
Decompress ==
  /\ phase = "received"
  /\ \/ ~Lz!Accepts(blob) /\ phase' = "rejected"
     \/ Lz!Accepts(blob) /\ phase' = "decode"
  /\ UNCHANGED <<message, huff, window, bits, blob, damaged, dec>>

\* One round of _lzss_decode()
Decode ==
  /\ phase = "decode" /\ Len(dec.out) < Lz!SizeOf(blob)
  /\ dec' = Lz!DecodeOne(dec, Lz!BodyBits(blob), Lz!SizeOf(blob))
  /\ UNCHANGED <<phase, message, huff, window, bits, blob, damaged>>

Decoded ==
  /\ phase = "decode" /\ Len(dec.out) >= Lz!SizeOf(blob)
  /\ phase' = "decoded"
  /\ UNCHANGED <<message, huff, window, bits, blob, damaged, dec>>

\* A position alone
CodePosition ==
  /\ phase = "position"
  /\ bits' = Lz!EncodePosition(message)
  /\ phase' = "positioned"
  /\ UNCHANGED <<message, huff, window, blob, damaged, dec>>

Next ==
  \/ /\ Encode \/ Compress \/ Transfer \/ Decompress \/ Decode \/ Decoded \/ CodePosition
     /\ UNCHANGED kissVars
  \/ Kiss!Feed /\ UNCHANGED mailVars

Spec == Init /\ [][Next]_vars

-----------------------------------------------------------------------------
(* Properties.                                                             *)

\* What comes out is what went in: the decoder follows the encoder's tree
\* and window through rebuilt trees, wrapped windows and overlapping matches,
\* and every position is read back with the bits it was written with.
RoundTrip ==
  /\ phase = "decoded" => dec.out = message
  /\ phase = "decode" => IsPrefix(dec.out, message)
  /\ phase = "positioned" => Lz!DecodePosition(bits, 0) = [pos |-> message, at |-> Len(bits)]

\* "tamper -> CRC error" (src/web/test_lzhuf_b2_reference.py): a damaged byte,
\* of the data, the length or the CRC itself, is never decoded.
DamageSeen == phase \in {"decode", "decoded"} => ~damaged

\* Every KISS frame sent after the receiver joined is heard as it was made.
FramesThrough == Kiss!FramesThrough

\* "d_len (number of bits the code occupies)", of "Okumura's canonical LZHUF
\* tables" (src/web/lzhuf.py): every byte the decoder can look up begins with
\* the code of the value it is looked up as.
LookaheadCoded ==
  phase = "positioned" =>
    LET v == message \div 64 IN
    \A b \in 0..255 : Lz!d_code[b + 1] = v =>
      Lz!Bits(b, 8, Lz!d_len[b + 1]) = Lz!Bits(Lz!p_code[v + 1], 8, Lz!p_len[v + 1])

\* The nodes of the Huffman tree are sorted by frequency, each is the sum of
\* its sons, and parents come behind their sons: the order codes depend on.
SiblingProperty(h) ==
  /\ \A n \in 0..(Lz!R - 1) : h.freq[n] <= h.freq[n + 1]
  /\ \A n \in 0..Lz!R : h.son[n] < Lz!T =>
       /\ h.son[n] + 1 < n
       /\ h.freq[n] = h.freq[h.son[n]] + h.freq[h.son[n] + 1]
       /\ h.prnt[h.son[n]] = n /\ h.prnt[h.son[n] + 1] = n
  /\ \A c \in 0..(Lz!N_CHAR - 1) : h.son[h.prnt[c + Lz!T]] = c + Lz!T

\* The match found is the longest there is in the window.
LongestMatch(w) ==
  LET behind == {(w.r - k + N) % N : k \in 1..Min({N - F, F + w.next - 1 - w.len})}
      best == Max({0} \cup {Lz!Agree(w, w.r, p) : p \in {q \in behind : w.text[q] = w.text[w.r]}})
  IN  w.mlen = IF best > THRESHOLD THEN best ELSE 0

\* The trees of the compressor stay sound: the Huffman trees of the encoder and
\* the decoder keep the sibling property through every update and rebuilding,
\* and the search trees find the longest match whatever strings have been
\* inserted, replaced and deleted before.
TreesSound ==
  /\ SiblingProperty(huff) /\ SiblingProperty(dec.huff)
  /\ (phase = "encode" /\ window.len > 0) => LongestMatch(window)

=============================================================================
