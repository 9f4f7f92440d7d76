------------------------------- MODULE Digests -------------------------------
(***************************************************************************)
(* The two SHA-1 of the repository, the one of sha1.hpp that answers a     *)
(* websocket handshake and the one of uuid.h that names uuids, and the     *)
(* base64 of base64.hpp.                                                   *)
(*                                                                         *)
(* A byte is a number below 256, a word of 32 bits is the pair of its      *)
(* halves.  The state of a digest has the bytes of the block that is being *)
(* filled, the bytes there were before it, and the five words.             *)
(* An operator marked "Fault" is a wrong version of the one below it.      *)
(***************************************************************************)
EXTENDS Integers, Sequences, SequencesExt, Bitwise

Half == 65536

PlusWord(a, b) == <<(a[1] + b[1] + ((a[2] + b[2]) \div Half)) % Half, (a[2] + b[2]) % Half>>
SumOf(words) == FoldLeft(PlusWord, <<0, 0>>, words)
AndW(a, b) == <<a[1] & b[1], a[2] & b[2]>>
OrW(a, b) == <<a[1] | b[1], a[2] | b[2]>>
XorW(a, b) == <<a[1] ^^ b[1], a[2] ^^ b[2]>>
NotW(a) == <<Half - 1 - a[1], Half - 1 - a[2]>>

\* circular_shift_ and left_rotate.
Rotate(n, w) ==
  IF n >= 16 THEN LET v == <<w[2], w[1]>> IN
       <<(v[1] * 2 ^ (n - 16) + v[2] \div 2 ^ (32 - n)) % Half, (v[2] * 2 ^ (n - 16) + v[1] \div 2 ^ (32 - n)) % Half>>
  ELSE <<(w[1] * 2 ^ n + w[2] \div 2 ^ (16 - n)) % Half, (w[2] * 2 ^ n + w[1] \div 2 ^ (16 - n)) % Half>>

\* reset of both.
FirstWords == [a |-> <<26437, 8961>>, b |-> <<61389, 43913>>, c |-> <<39098, 56574>>, d |-> <<4146, 21622>>,
               e |-> <<50130, 57840>>]
K == << <<23170, 31129>>, <<28377, 60321>>, <<36635, 48348>>, <<51810, 49622>> >>
NewDigest == [block |-> << >>, before |-> 0, h |-> FirstWords, computed |-> FALSE, corrupted |-> FALSE]

\* The 80 words W of a block.
Schedule(block) ==
  FoldLeft(LAMBDA w, t : Append(w, Rotate(1, XorW(XorW(w[t - 3], w[t - 8]), XorW(w[t - 14], w[t - 16])))),
           [t \in 1..16 |-> <<block[4 * t - 3] * 256 + block[4 * t - 2], block[4 * t - 1] * 256 + block[4 * t]>>],
           [i \in 1..64 |-> i + 16])

\* temp, and the words moved on.
Moved(v, f, k, w) == [b |-> v.a, c |-> Rotate(30, v.b), d |-> v.c, e |-> v.d,
                      a |-> SumOf(<<Rotate(5, v.a), f, v.e, w, k>>)]

Chooses(v) == OrW(AndW(v.b, v.c), AndW(NotW(v.b), v.d))
Differs(v) == XorW(XorW(v.b, v.c), v.d)
Most(v) == OrW(OrW(AndW(v.b, v.c), AndW(v.b, v.d)), AndW(v.c, v.d))

Added(h, v) == [i \in DOMAIN h |-> PlusWord(h[i], v[i])]

\* F of the value of x, which is computed first.
With(x, F(_)) == CHOOSE y \in {F(v) : v \in {x}} : TRUE

\* process_message_block: four loops of twenty rounds.
ProcessMessageBlock(h, block) ==
  LET loop(v, n, F(_), W) == FoldLeft(LAMBDA u, w : Moved(u, F(u), K[n], w), v, SubSeq(W, 20 * n - 19, 20 * n))
  IN With(Schedule(block), LAMBDA W :
       With(loop(h, 1, Chooses, W), LAMBDA p :
         With(loop(p, 2, Differs, W), LAMBDA q :
           With(loop(q, 3, Most, W), LAMBDA r : Added(h, loop(r, 4, Differs, W))))))

\* The f of round i, from 0, in process_block.
RoundF(i, v) == CASE i < 20 -> Chooses(v)
                  [] i \in 40..59 -> Most(v)
                  [] OTHER -> Differs(v)

ProcessBlock(h, block) ==
  LET rounds(v, W, part) == FoldLeft(LAMBDA u, i : Moved(u, RoundF(i, u), K[i \div 20 + 1], W[i + 1]), v,
                                     [k \in 1..20 |-> 20 * part + k - 1])
  IN With(Schedule(block), LAMBDA W :
       With(rounds(h, W, 0), LAMBDA p :
         With(rounds(p, W, 1), LAMBDA q :
           With(rounds(q, W, 2), LAMBDA r : Added(h, rounds(r, W, 3))))))

Bytes(w) == <<w[1] \div 256, w[1] % 256, w[2] \div 256, w[2] % 256>>
DigestBytes(h) == Bytes(h.a) \o Bytes(h.b) \o Bytes(h.c) \o Bytes(h.d) \o Bytes(h.e)
Zeros(n) == [i \in 1..n |-> 0]

\* The length in bits, as the last word of the last block has it.
BitLength(d) == LET n == d.before + Len(d.block) IN Bytes(<<(8 * n) \div Half, (8 * n) % Half>>)

----------------------------------------------------------------------------
(* sha1.hpp *)

\* input: byte by byte, which fills block after block.
RECURSIVE Filled(_, _)
Filled(d, bytes) ==
  LET n == 64 - Len(d.block) IN
  IF Len(bytes) < n THEN [d EXCEPT !.block = @ \o bytes]
  ELSE Filled([d EXCEPT !.block = << >>, !.before = @ + 64, !.h = ProcessMessageBlock(@, d.block \o SubSeq(bytes, 1, n))],
              SubSeq(bytes, n + 1, Len(bytes)))

\* What comes after the result corrupts the digest.
Input(d, bytes) ==
  IF bytes = << >> THEN d
  ELSE IF d.computed \/ d.corrupted THEN [d EXCEPT !.corrupted = TRUE]
  ELSE Filled(d, bytes)

\* Fault: a block of 56 to 63 bytes is not ended before the length is written.
PadOneBlock(d) ==
  [d EXCEPT !.h = ProcessMessageBlock(@, SubSeq(d.block \o <<128>> \o Zeros(60), 1, 60) \o BitLength(d))]

\* pad_message: the length is written over the last bytes of the block, which is then
\* the first one only when 55 bytes or fewer are in it.
PadMessage(d) ==
  IF Len(d.block) > 55
  THEN LET first == d.block \o <<128>> \o Zeros(63 - Len(d.block))
       IN [d EXCEPT !.h = ProcessMessageBlock(ProcessMessageBlock(@, first), Zeros(60) \o BitLength(d))]
  ELSE [d EXCEPT !.h = ProcessMessageBlock(@, d.block \o <<128>> \o Zeros(59 - Len(d.block)) \o BitLength(d))]

\* result: padded once; of a corrupted digest there is none.
Result(d) == IF d.corrupted THEN d ELSE IF d.computed THEN d ELSE [PadMessage(d) EXCEPT !.computed = TRUE]

Sha1(bytes) == DigestBytes(Result(Input(NewDigest, bytes)).h)

----------------------------------------------------------------------------
(* uuid.h *)

\* process_byte, of each byte.
RECURSIVE ProcessBytes(_, _)
ProcessBytes(d, bytes) ==
  LET n == 64 - Len(d.block) IN
  IF Len(bytes) < n THEN [d EXCEPT !.block = @ \o bytes]
  ELSE ProcessBytes([d EXCEPT !.block = << >>, !.before = @ + 64, !.h = ProcessBlock(@, d.block \o SubSeq(bytes, 1, n))],
                    SubSeq(bytes, n + 1, Len(bytes)))

\* get_digest: zeros up to the end of the block, when the length has no room in it,
\* and up to byte 56.
GetDigest(d) ==
  LET one == ProcessBytes(d, <<128>>)
      ended == IF Len(one.block) > 56 THEN ProcessBytes(one, Zeros(64 - Len(one.block))) ELSE one
      full == ProcessBytes(ended, Zeros(56 - Len(ended.block)))
  IN ProcessBytes(full, Zeros(4) \o BitLength(d)).h

NameDigest(bytes) == DigestBytes(GetDigest(ProcessBytes(NewDigest, bytes)))

----------------------------------------------------------------------------
(* base64.hpp; a character is its place in base64_chars, or 64 for "=" *)

Equals == 64

\* The four places of three bytes.
Places(b) == <<b[1] \div 4, (b[1] % 4) * 16 + b[2] \div 16, (b[2] % 16) * 4 + b[3] \div 64, b[3] % 64>>

RECURSIVE Base64Encode(_)
Base64Encode(s) ==
  CASE s = << >> -> << >>
    [] Len(s) >= 3 -> Places(s) \o Base64Encode(SubSeq(s, 4, Len(s)))
    [] OTHER -> SubSeq(Places(s \o Zeros(3 - Len(s))), 1, Len(s) + 1) \o [i \in 1..(3 - Len(s)) |-> Equals]

\* The three bytes of four places, each cut to eight bits.
Triple(p) == <<(p[1] * 4 + ((p[2] \div 16) % 4)) % 256, ((p[2] % 16) * 16 + ((p[3] \div 4) % 16)) % 256, ((p[3] % 4) * 64 + p[4]) % 256>>

\* The places missing at the end are those of a zero byte, which no character has:
\* find returns npos, 255 once it is cut.
NoPlace == 255

RECURSIVE Decode4(_)
Decode4(s) ==
  CASE s = << >> -> << >>
    [] Len(s) >= 4 -> Triple(s) \o Decode4(SubSeq(s, 5, Len(s)))
    [] OTHER -> SubSeq(Triple(s \o [i \in 1..(4 - Len(s)) |-> NoPlace]), 1, Len(s) - 1)

\* base64_decode: up to the first character that is none of the 64.
Base64Decode(s) ==
  LET ends == {i \in DOMAIN s : s[i] = Equals}
  IN Decode4(IF ends = {} THEN s ELSE SubSeq(s, 1, (CHOOSE i \in ends : \A j \in ends : i <= j) - 1))

----------------------------------------------------------------------------
(* websocket_handle.hpp *)

\* handle_shark_respond: the key of the answer, "guid" being ws_guid.
AcceptKey(key, guid) == Base64Encode(Sha1(key \o guid))

\* compare_handle_shark_key.
CompareKey(accept, sent, guid) == accept = Base64Encode(Sha1(sent \o guid))

=============================================================================
