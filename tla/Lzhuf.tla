-------------------------------- MODULE Lzhuf --------------------------------
(***************************************************************************)
(* The LZHUF codec of outgoing Winlink mail (src/web/lzhuf.py) as operators*)
(* on its data structures: the fixed position code, the adaptive Huffman   *)
(* tree, the LZSS window with its search trees, and the CRC of the B2      *)
(* stream.  A byte is a number, a bit stream a sequence of 0 and 1.        *)
(***************************************************************************)
LOCAL INSTANCE Integers
LOCAL INSTANCE Sequences
LOCAL INSTANCE SequencesExt
LOCAL INSTANCE FiniteSetsExt
LOCAL INSTANCE Bitwise

CONSTANTS
  N,         \* size of the ring buffer (2048), a power of two
  F,         \* longest match (60)
  THRESHOLD, \* matches are longer than this (2)
  Chars,     \* characters (256)
  Space,     \* the character the window starts with (0x20)
  MAX_FREQ   \* root frequency at which the tree is rebuilt (0x8000)

N_CHAR == Chars - THRESHOLD + F
T == N_CHAR * 2 - 1
R == T - 1
NIL == N
Sentinel == 65535   \* freq[T]
CodeWidth == 16     \* put_code() takes a code of so many bits at most

-----------------------------------------------------------------------------
(* Positions: a prefix code for the upper six bits, the lower six as they  *)
(* are.  The tables are written as runs <<value, how often>>.              *)

\* (Numbered from 1 where the code numbers from 0.)
Runs(runs) == FlattenSeq([k \in DOMAIN runs |-> [m \in 1..runs[k][2] |-> runs[k][1]]])

p_len == Runs(<< <<3, 1>>, <<4, 3>>, <<5, 6>>, <<6, 14>>, <<7, 24>>, <<8, 16>> >>)

\* Each code is followed by the next after 32, 16, 8, 4, 2 or 1 values.
p_code ==
  LET step == Runs(<< <<32, 1>>, <<16, 3>>, <<8, 8>>, <<4, 12>>, <<2, 24>>, <<1, 16>> >>)
      code[k \in 1..64] == IF k = 1 THEN 0 ELSE code[k - 1] + step[k - 1]
  IN  code

d_code ==
  FlattenSeq([v \in 1..64 |->
    [m \in 1..(CASE v = 1 -> 32 [] v \in 2..4 -> 16 [] v \in 5..12 -> 8
                 [] v \in 13..24 -> 4 [] v \in 25..48 -> 2 [] OTHER -> 1) |-> v - 1]])

d_len == Runs(<< <<3, 32>>, <<4, 48>>, <<5, 48>>, <<6, 64>>, <<7, 48>>, <<8, 16>> >>)

\* The upper n of w bits of x, and the number some bits stand for.
Bits(x, w, n) == [k \in 1..n |-> (x \div 2^(w - k)) % 2]
Number(bits) == FoldLeft(LAMBDA x, b : 2 * x + b, 0, bits)

EncodePosition(pos) ==
  LET i == pos \div 64 + 1 IN Bits(p_code[i], 8, p_len[i]) \o Bits(pos % 64, 6, 6)

\* Past the end of the stream the reader gets zeros.
BitAt(bits, k) == IF k <= Len(bits) THEN bits[k] ELSE 0

\* The position after the first k bits, and where the reader is then.
DecodePosition(bits, k) ==
  LET byte == [m \in 1..8 |-> BitAt(bits, k + m)]
      i == Number(byte)
      more == d_len[i + 1] - 2
      all == byte \o [m \in 1..more |-> BitAt(bits, k + 8 + m)]
  IN  [pos |-> d_code[i + 1] * 64 + (Number(all) % 64), at |-> k + 8 + more]

-----------------------------------------------------------------------------
(* _Huff: the adaptive Huffman tree.  Nodes 0..R in order of frequency, a  *)
(* pair of sons next to each other; son[n] >= T is the leaf of a character.*)

Start ==
  LET freq[n \in 0..R] ==
        IF n < N_CHAR THEN 1 ELSE freq[2 * (n - N_CHAR)] + freq[2 * (n - N_CHAR) + 1]
  IN  [freq |-> [n \in 0..T |-> IF n = T THEN Sentinel ELSE freq[n]],
       son  |-> [n \in 0..R |-> IF n < N_CHAR THEN n + T ELSE 2 * (n - N_CHAR)],
       prnt |-> [n \in 0..(T + N_CHAR - 1) |->
                   IF n >= T THEN n - T ELSE IF n = R THEN 0 ELSE N_CHAR + n \div 2]]

\* _reconst(): the leaves keep their order and half their frequency, rounded
\* up; each pair of nodes gets a parent, behind all nodes that are not heavier.
Reconst(h) ==
  LET leaves == SelectSeq([n \in 1..T |-> n - 1], LAMBDA n : h.son[n] >= T)
      Add(nodes, m) ==
        LET f == nodes[2 * m - 1].freq + nodes[2 * m].freq
            k == Max({n \in DOMAIN nodes : nodes[n].freq <= f})
        IN  InsertAt(nodes, k + 1, [freq |-> f, son |-> 2 * m - 2])
      nodes == FoldLeft(Add,
                 [n \in DOMAIN leaves |->
                    [freq |-> (h.freq[leaves[n]] + 1) \div 2, son |-> h.son[leaves[n]]]],
                 [m \in 1..(N_CHAR - 1) |-> m])
  IN  [freq |-> [n \in 0..T |-> IF n = T THEN Sentinel ELSE nodes[n + 1].freq],
       son  |-> [n \in 0..R |-> nodes[n + 1].son],
       prnt |-> [k \in 0..(T + N_CHAR - 1) |->
                   IF k = R THEN 0
                   ELSE CHOOSE n \in 0..R :
                          nodes[n + 1].son = k \/ (k < T /\ nodes[n + 1].son = k - 1 /\ k % 2 = 1)]]

\* Faulty variant of Place: only the next node is looked at.
PlaceNext(h, c, k) == IF k > h.freq[c + 1] THEN c + 1 ELSE c

\* The last node lighter than k from c on: where c goes when its frequency is k.
Place(h, c, k) == Min({n \in (c + 1)..T : k <= h.freq[n]}) - 1

\* Nodes c and l change places; frequency k goes to l.
Exchange(h, c, l, k) ==
  LET i == h.son[c]
      j == h.son[l]
  IN  [freq |-> [h.freq EXCEPT ![c] = h.freq[l], ![l] = k],
       son  |-> [h.son EXCEPT ![c] = j, ![l] = i],
       prnt |-> [n \in DOMAIN h.prnt |->
                   IF n = j \/ (j < T /\ n = j + 1) THEN c
                   ELSE IF n = i \/ (i < T /\ n = i + 1) THEN l
                   ELSE h.prnt[n]]]

\* The loop of update(): from node c up to the root, each one more frequent.
RECURSIVE Climb(_, _)
Climb(h, c) ==
  LET k == h.freq[c] + 1
      l == Place(h, c, k)
      g == IF l = c THEN [h EXCEPT !.freq[c] = k] ELSE Exchange(h, c, l, k)
  IN  IF g.prnt[l] = 0 THEN g ELSE Climb(g, g.prnt[l])

Update(h, c) ==
  LET g == IF h.freq[R] = MAX_FREQ THEN Reconst(h) ELSE h
  IN  Climb(g, g.prnt[c + T])

RECURSIVE CodeOf(_, _)
CodeOf(h, k) == IF k = R THEN <<>> ELSE Append(CodeOf(h, h.prnt[k]), k % 2)

\* encode_char(), up to the update
Code(h, c) == CodeOf(h, h.prnt[c + T])

\* decode_char(), up to the update: the character after the first k bits.
RECURSIVE Descend(_, _, _, _)
Descend(h, bits, k, c) ==
  IF c >= T THEN [char |-> c - T, at |-> k]
  ELSE Descend(h, bits, k + 1, h.son[c + BitAt(bits, k + 1)])

-----------------------------------------------------------------------------
(* The encoder's window and its search trees, one per first character.     *)
(* w.mlen and w.mpos: match_length, match_position.                        *)

\* How far text_buf from p agrees with text_buf from r, the first character
\* being the same; and the comparison of the characters there.
Agree(w, r, p) ==
  Min({F} \cup {n \in 1..(F - 1) : w.text[r + n] # w.text[p + n]})

Compare(w, r, p) ==
  LET n == Agree(w, r, p) IN IF n = F THEN 0 ELSE w.text[r + n] - w.text[p + n]

\* r takes the place of p.
Replace(w, r, p) ==
  LET dad == [w.dad EXCEPT ![r] = w.dad[p], ![w.lson[p]] = r, ![w.rson[p]] = r]
      rson == [w.rson EXCEPT ![r] = w.rson[p]]
      lson == [w.lson EXCEPT ![r] = w.lson[p]]
      up == dad[p]
  IN  [w EXCEPT !.dad = [dad EXCEPT ![p] = NIL],
                !.rson = IF rson[up] = p THEN [rson EXCEPT ![up] = r] ELSE rson,
                !.lson = IF rson[up] = p THEN lson ELSE [lson EXCEPT ![up] = r]]

Distance(r, p) == ((r - p + N) % N) - 1

\* The match that node p offers.
Note(w, r, p, n) ==
  IF n > THRESHOLD /\ n > w.mlen
  THEN [w EXCEPT !.mlen = n, !.mpos = Distance(r, p)]
  ELSE IF n > THRESHOLD /\ n = w.mlen /\ Distance(r, p) < w.mpos
  THEN [w EXCEPT !.mpos = Distance(r, p)]
  ELSE w

RECURSIVE Search(_, _, _, _)
Search(w, r, p, cmp) ==
  LET q == IF cmp >= 0 THEN w.rson[p] ELSE w.lson[p]
      v == Note(w, r, q, Agree(w, r, q))
  IN  IF q = NIL
      THEN [w EXCEPT !.dad[r] = p,
                     !.rson = IF cmp >= 0 THEN [@ EXCEPT ![p] = r] ELSE @,
                     !.lson = IF cmp >= 0 THEN @ ELSE [@ EXCEPT ![p] = r]]
      ELSE IF v.mlen >= F THEN Replace(v, r, q)
      ELSE Search(v, r, q, Compare(w, r, q))

InsertNode(w, r) ==
  Search([w EXCEPT !.rson[r] = NIL, !.lson[r] = NIL, !.mlen = 0], r, N + 1 + w.text[r], 1)

RECURSIVE Rightmost(_, _)
Rightmost(w, q) == IF w.rson[q] = NIL THEN q ELSE Rightmost(w, w.rson[q])

\* Faulty variant of DeleteNode: the node that goes up leaves its subtree.
DeleteNodeLoses(w, p) ==
  LET q == IF w.rson[p] = NIL THEN w.lson[p]
           ELSE IF w.lson[p] = NIL THEN w.rson[p] ELSE w.lson[p]
      up == w.dad[p]
  IN  IF w.dad[p] = NIL THEN w
      ELSE [w EXCEPT !.dad = [@ EXCEPT ![q] = up, ![p] = NIL],
                     !.rson = IF w.rson[up] = p THEN [@ EXCEPT ![up] = q] ELSE @,
                     !.lson = IF w.rson[up] = p THEN @ ELSE [@ EXCEPT ![up] = q]]

\* delete_node(): without two sons, the only son goes up; else the rightmost
\* node of the left subtree does.
DeleteNode(w, p) ==
  LET two == w.rson[p] # NIL /\ w.lson[p] # NIL
      q == IF two THEN Rightmost(w, w.lson[p])
           ELSE IF w.rson[p] = NIL THEN w.lson[p] ELSE w.rson[p]
      deep == two /\ q # w.lson[p]
      v == IF ~deep THEN w
           ELSE [w EXCEPT !.rson[w.dad[q]] = w.lson[q],
                          !.dad = [@ EXCEPT ![w.lson[q]] = w.dad[q], ![w.lson[p]] = q],
                          !.lson[q] = w.lson[p]]
      u == IF ~two THEN v ELSE [v EXCEPT !.rson[q] = v.rson[p], !.dad[v.rson[p]] = q]
      up == u.dad[p]
  IN  IF w.dad[p] = NIL THEN w
      ELSE [u EXCEPT !.dad = [@ EXCEPT ![q] = up, ![p] = NIL],
                     !.rson = IF u.rson[up] = p THEN [@ EXCEPT ![up] = q] ELSE @,
                     !.lson = IF u.rson[up] = p THEN @ ELSE [@ EXCEPT ![up] = q]]

-----------------------------------------------------------------------------
(* _lzss_encode()                                                          *)

\* init_tree(), the window of spaces, the first F bytes, and the strings
\* before them.  len is `length`, next the position in src.
Window(src) ==
  LET r == N - F
      len == Min({F, Len(src)})
      w == [text |-> [k \in 0..(N + F - 2) |->
                        IF k < r THEN Space ELSE IF k < r + len THEN src[k - r + 1] ELSE 0],
            lson |-> [k \in 0..N |-> 0],
            rson |-> [k \in 0..(N + Chars) |-> IF k > N THEN NIL ELSE 0],
            dad  |-> [k \in 0..N |-> IF k < N THEN NIL ELSE 0],
            mpos |-> 0, mlen |-> 0, r |-> r, s |-> 0, len |-> len, next |-> len + 1]
  IN  FoldLeft(InsertNode, w, [k \in 1..(F + 1) |-> IF k <= F THEN r - k ELSE r])

Forward(w) == [w EXCEPT !.s = (@ + 1) % N, !.r = (@ + 1) % N]

\* Faulty variant of Store: without the copy.
StoreOnce(w, c) == [w.text EXCEPT ![w.s] = c]

\* The byte at s, and its copy behind the end of the ring.
Store(w, c) ==
  [k \in DOMAIN w.text |->
     IF k = w.s \/ (w.s < F - 1 /\ k = w.s + N) THEN c ELSE w.text[k]]

\* One byte on: from the source while there is any, else the window shrinks.
Advance(w, src) ==
  LET v == DeleteNode(w, w.s) IN
  IF w.next <= Len(src)
  THEN LET c == src[w.next]
           u == Forward([v EXCEPT !.next = @ + 1, !.text = Store(w, c)])
       IN  InsertNode(u, u.r)
  ELSE LET u == Forward([v EXCEPT !.len = @ - 1])
       IN  IF u.len > 0 THEN InsertNode(u, u.r) ELSE u

\* The match of this round: no longer than what is left, or none.
Match(w) ==
  LET n == Min({w.mlen, w.len}) IN IF n <= THRESHOLD THEN 1 ELSE n

\* What is encoded for it, a character of the Huffman code.
Symbol(w) ==
  IF Match(w) = 1 THEN w.text[w.r] ELSE Chars - 1 - THRESHOLD + Match(w)

RECURSIVE AdvanceBy(_, _, _)
AdvanceBy(w, src, n) == IF n = 0 THEN w ELSE AdvanceBy(Advance(w, src), src, n - 1)

-----------------------------------------------------------------------------
(* _lzss_decode(): d.text is the ring, d.r the place in it, d.out the      *)
(* bytes so far, d.at the bits read.                                       *)

Decoder ==
  [text |-> [k \in 0..(N - 1) |-> IF k < N - F THEN Space ELSE 0],
   r |-> N - F, out |-> <<>>, at |-> 0, huff |-> Start]

PutByte(d, b) ==
  [d EXCEPT !.out = Append(@, b), !.text[d.r] = b, !.r = (@ + 1) % N]

RECURSIVE Copy(_, _, _, _)
Copy(d, pos, n, size) ==
  IF n = 0 \/ Len(d.out) >= size THEN d
  ELSE Copy(PutByte(d, d.text[pos]), (pos + 1) % N, n - 1, size)

\* One round: a character, or a match with its position.
DecodeOne(d, bits, size) ==
  LET c == Descend(d.huff, bits, d.at, d.huff.son[R])
      e == [d EXCEPT !.huff = Update(@, c.char), !.at = c.at]
      p == DecodePosition(bits, c.at)
  IN  IF c.char < Chars THEN PutByte(e, c.char)
      ELSE Copy([e EXCEPT !.at = p.at], (d.r - p.pos - 1 + 2 * 4096) % N,
                c.char - (Chars - 1) + THRESHOLD, size)

-----------------------------------------------------------------------------
(* The B2 stream: CRC-16 and length, little-endian, then the data.         *)

CrcTable ==
  LET Shift(c, k) == IF c >= 32768 THEN ((2 * c) % 65536) ^^ 4129 ELSE 2 * c
  IN  [i \in 0..255 |-> FoldLeft(Shift, 256 * i, [k \in 1..8 |-> k])]

\* Faulty variant of CrcUpdate: without the table.
CrcUpdateShifts(sm, c) == ((256 * sm) % 65536) ^^ c

CrcUpdate(sm, c) == (((256 * sm) % 65536) ^^ CrcTable[sm \div 256]) ^^ c

Crc16(bytes) == FoldLeft(CrcUpdate, 0, bytes \o <<0, 0>>)

\* flush(): whole bytes, the last one filled with zeros.
Bytes(bits) ==
  [k \in 1..((Len(bits) + 7) \div 8) |->
     Number([m \in 1..8 |-> BitAt(bits, 8 * (k - 1) + m)])]

BitsOf(bytes) == FlattenSeq([k \in DOMAIN bytes |-> Bits(bytes[k], 8, 8)])

LittleEndian(x, n) == [k \in 1..n |-> (x \div 256^(k - 1)) % 256]

\* compress(), given the encoded bits
Blob(size, bits) ==
  LET body == LittleEndian(size, 4) \o Bytes(bits)
  IN  LittleEndian(Crc16(body), 2) \o body

\* decompress(): whether it accepts the stream, and what it decodes then.
Accepts(blob) ==
  Len(blob) >= 6 /\ LittleEndian(Crc16(SubSeq(blob, 3, Len(blob))), 2) = SubSeq(blob, 1, 2)

SizeOf(blob) == blob[3] + 256 * (blob[4] + 256 * (blob[5] + 256 * blob[6]))

BodyBits(blob) == BitsOf(SubSeq(blob, 7, Len(blob)))

=============================================================================
