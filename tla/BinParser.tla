------------------------------ MODULE BinParser ------------------------------
(***************************************************************************)
(* wheel::bin_parser (bin_parser.hpp), which tcp_handle::to_read gives     *)
(* each piece of the byte stream it reads, and the packets that the        *)
(* write_tream_format of the other end made.                               *)
(*                                                                         *)
(* The stream is cut into cells: a cell is a byte, or the two bytes of the *)
(* size or of the command, which the header holds as an int16.  Writing or *)
(* reading outside buffer_ is undefined: it sets ub and ends the run.      *)
(* An operator marked "Fault" is a wrong version of the one below it.      *)
(***************************************************************************)
EXTENDS Integers, FiniteSets, Sequences, Functions

CONSTANTS HeaderSize,    \* packet_header_size_, in cells
          SizeOffset,    \* packet_size_offset_
          HalfRange,     \* 2^15: one more than the largest size of an int16
          ErrLimit,      \* 1024
          W, L,          \* the cells of g_protocol_head_flag
          Bodies,        \* the lengths of the bodies that are sent
          Noise,         \* stray cells that may come between packets
          MaxPackets, MaxNoise   \* bounds on what the other end sends

FullRange == 2 * HalfRange

ASSUME ParserAssumption ==
  /\ HalfRange \in Nat \ {0} /\ ErrLimit \in Nat
  /\ SizeOffset \in Nat /\ SizeOffset >= 2 /\ HeaderSize \in Nat
  /\ HeaderSize > SizeOffset
  /\ {W, L} \cup Noise \subseteq 0..(FullRange - 1) /\ W # L
  /\ Bodies \subseteq Nat
  /\ MaxPackets \in Nat /\ MaxNoise \in Nat

VARIABLES
  status_, write_pos_, data_area_size_, err_count_, buffer_,
  data, readpos,  \* the arguments of read_stream; data is empty outside it
  delivered,      \* the streams given to recv_observer_, in order
  sent,           \* the packets the other end sent, in order
  wire,           \* the cells on their way
  ends,           \* where the packets and stray cells on wire end
  strays,         \* the stray cells the other end sent, in order
  whole,          \* did every read so far end where a packet or a stray cell does?
  arrived,        \* how many packets were read to their last cell
  ub

parserVars == <<status_, write_pos_, data_area_size_, err_count_, buffer_>>
peerVars == <<sent, wire, ends, strays, whole, arrived>>
vars == <<parserVars, data, readpos, delivered, peerVars, ub>>

Init ==
  /\ status_ = "head" /\ write_pos_ = 0 /\ data_area_size_ = 0
  /\ err_count_ = 0 /\ buffer_ = << >>
  /\ data = << >> /\ readpos = 0
  /\ delivered = << >> /\ sent = << >> /\ wire = << >> /\ ends = {}
  /\ strays = << >> /\ whole = TRUE /\ arrived = 0 /\ ub = FALSE

----------------------------------------------------------------------------
(* The other end *)

\* The flags, the size cut to an int16, and as command and body the number of
\* the packet.
Packet(number, body) ==
  [i \in 1..(HeaderSize + body) |->
     CASE i = 1 -> W [] i = 2 -> L
       [] i = SizeOffset + 1 -> body % FullRange
       [] OTHER -> number]

OnWire(cells) ==
  /\ wire' = wire \o cells
  /\ ends' = ends \cup {Len(wire) + Len(cells)}

Send(body) ==
  /\ Len(sent) < MaxPackets
  /\ sent' = Append(sent, Packet(Len(sent) + 1, body))
  /\ OnWire(Packet(Len(sent) + 1, body))
  /\ UNCHANGED <<parserVars, data, readpos, delivered, strays, whole, arrived, ub>>

SendStray(cell) ==
  /\ Len(strays) < MaxNoise
  /\ strays' = Append(strays, cell)
  /\ OnWire(<<cell>>)
  /\ UNCHANGED <<parserVars, data, readpos, delivered, sent, whole, arrived, ub>>

----------------------------------------------------------------------------
(* read_stream *)

Idle == data = << >>
Parsing == ~Idle

\* A stray cell is no packet, and ends where it starts.
PacketEnds(n) == {e \in ends : e <= n /\ ~(e - 1 \in ends \cup {0} /\ wire[e] \in Noise)}

\* A read of n cells: read_stream allocates buffer_ anew, of zeros, for this
\* data only.
ReadStream(n) ==
  /\ Idle
  /\ data' = SubSeq(wire, 1, n) /\ readpos' = 0
  /\ wire' = SubSeq(wire, n + 1, Len(wire))
  /\ ends' = {e - n : e \in {x \in ends : x > n}}
  /\ arrived' = arrived + Cardinality(PacketEnds(n))
  /\ whole' = (whole /\ n \in ends)
  /\ buffer_' = [i \in 1..n |-> 0]
  /\ UNCHANGED <<status_, write_pos_, data_area_size_, err_count_, delivered,
                 sent, strays, ub>>

Return == data' = << >> /\ readpos' = 0

\* buffer_ after count cells of data were copied to write_pos_.
Copied(count) ==
  [i \in DOMAIN buffer_ |->
     IF i \in (write_pos_ + 1)..(write_pos_ + count)
     THEN data[readpos + i - write_pos_] ELSE buffer_[i]]

Outside(count) == write_pos_ + count > Len(buffer_)

InHeader ==
  Parsing /\ status_ = "head" /\ write_pos_ < HeaderSize /\ readpos < Len(data)

BadFlag(cell) ==
  (write_pos_ = 0 /\ cell # W) \/ (write_pos_ = 1 /\ cell # L)

HeaderCell ==
  /\ InHeader /\ ~BadFlag(data[readpos + 1])
  /\ buffer_' = Copied(1) /\ ub' = Outside(1)
  /\ write_pos_' = write_pos_ + 1
  /\ readpos' = readpos + 1
  /\ UNCHANGED <<status_, data_area_size_, err_count_, data, delivered, peerVars>>

\* The flags are looked for again; err_count_ is never reset.
WrongFlag ==
  /\ InHeader /\ BadFlag(data[readpos + 1])
  /\ buffer_' = Copied(1) /\ ub' = Outside(1)
  /\ write_pos_' = 0 /\ err_count_' = err_count_ + 1
  /\ UNCHANGED <<status_, data_area_size_, delivered, peerVars>>

SkipCell ==
  WrongFlag /\ err_count_ < ErrLimit /\ readpos' = readpos + 1 /\ UNCHANGED data

\* ERROR_HEAD_FLAGS_INVALID: the rest of data is dropped.
HeadFlagsInvalid == WrongFlag /\ err_count_ >= ErrLimit /\ Return

HeaderComplete == Parsing /\ status_ = "head" /\ write_pos_ >= HeaderSize

\* The first size cells of the buffer (outside it, the read is undefined).
Stream(buffer, size) ==
  [i \in 1..size |-> IF i <= Len(buffer) THEN buffer[i] ELSE 0]

\* The size of the body, an int16.
SizeRead ==
  LET cell == Stream(buffer_, HeaderSize)[SizeOffset + 1]
  IN  IF cell < HalfRange THEN cell ELSE cell - FullRange

\* A size that is not negative is below the limit of 102400 bytes.
AcceptSize ==
  /\ HeaderComplete /\ SizeRead >= 0
  /\ data_area_size_' = SizeRead
  /\ status_' = "data"
  /\ UNCHANGED <<write_pos_, err_count_, buffer_, data, readpos, delivered,
                 peerVars, ub>>

\* Fault: the header that was refused stays in buffer_.
HeaderKept == UNCHANGED write_pos_

ForgetHeader == write_pos_' = 0

\* ERROR_FORMAT_INVALID: the rest of data is dropped.
FormatInvalid ==
  /\ HeaderComplete /\ SizeRead < 0
  /\ data_area_size_' = SizeRead
  /\ ForgetHeader /\ Return
  /\ UNCHANGED <<status_, err_count_, buffer_, delivered, peerVars, ub>>

InBody == Parsing /\ status_ = "data" /\ readpos < Len(data)
Need == data_area_size_ + HeaderSize - write_pos_
Buffed == Len(data) - readpos

BodyPart ==
  /\ InBody /\ Buffed < Need
  /\ buffer_' = Copied(Buffed) /\ ub' = Outside(Buffed)
  /\ write_pos_' = write_pos_ + Buffed
  /\ readpos' = Len(data)
  /\ UNCHANGED <<status_, data_area_size_, err_count_, data, delivered, peerVars>>

\* Fault: clear does not go back to the header.
ClearKeepsStatus ==
  write_pos_' = 0 /\ data_area_size_' = 0 /\ UNCHANGED status_

Clear ==
  status_' = "head" /\ data_area_size_' = 0 /\ write_pos_' = 0

BodyComplete ==
  /\ InBody /\ Buffed >= Need
  /\ buffer_' = Copied(Need) /\ ub' = Outside(Need)
  /\ delivered' = Append(delivered, Stream(Copied(Need), write_pos_ + Need))
  /\ readpos' = readpos + Need
  /\ Clear
  /\ UNCHANGED <<err_count_, data, peerVars>>

\* The end of data, within a packet (ERROR_PACKET_IMPERFECT) or not.  The
\* parser keeps where it was, and the next call loses what buffer_ held.
EndOfData ==
  /\ Parsing /\ readpos = Len(data) /\ ~HeaderComplete
  /\ Return
  /\ UNCHANGED <<parserVars, delivered, peerVars, ub>>

Parse ==
  \/ HeaderCell \/ SkipCell \/ HeadFlagsInvalid
  \/ AcceptSize \/ FormatInvalid
  \/ BodyPart \/ BodyComplete
  \/ EndOfData

Next ==
  /\ ~ub
  /\ \/ \E body \in Bodies : Send(body)
     \/ \E cell \in Noise : SendStray(cell)
     \/ \E n \in 1..Len(wire) : ReadStream(n)
     \/ Parse

Spec == Init /\ [][Next]_vars

----------------------------------------------------------------------------

BodySize(packet) == Len(packet) - HeaderSize
AllSizes(range) == \A k \in 1..Len(sent) : BodySize(sent[k]) \in range

\* While every read ends where a packet or a stray cell does, no packet is
\* without a body, no stray cell looks like a flag and the flags are found in
\* headers only, nothing is written or read outside buffer_; if in addition the
\* sizes fit an int16 and the stray cells are few, each call delivers every
\* packet it reads, as it was sent and in order, whatever packets the read held
\* together.
Regular == whole /\ AllSizes(Nat \ {0}) /\ W \notin Range(strays)
NothingHeldBack ==
  Regular =>
    /\ ~ub
    /\ AllSizes(1..(HalfRange - 1)) /\ Len(strays) <= ErrLimit /\ Idle
       => delivered = SubSeq(sent, 1, arrived)

\* While every read ends where a packet or a stray cell does, and the flags are
\* found in headers only, what is delivered are packets that were sent, as they
\* were sent, in their order, none twice: a packet whose size reads as negative, or
\* that comes after bad flags, is dropped whole.  Packets in two reads, without a
\* body, or with one of 64 KB and more are not meant: the parser damages them
\* (bin_parser.hpp:37, 62, write_tream_format.hpp:26).
Intact ==
  whole /\ AllSizes(1..(FullRange - 1)) =>
    \E at \in [1..Len(delivered) -> 1..Len(sent)] :
      /\ \A k \in 1..Len(delivered) : delivered[k] = sent[at[k]]
      /\ \A j, k \in 1..Len(delivered) : j < k => at[j] < at[k]

\* The flags are found in headers only: the number that stands for a packet's
\* command and body is none, and no stray cell is the second flag.  The theorems
\* about the two properties assume it.
FlagsApart == {W, L} \cap (1..MaxPackets) = {} /\ L \notin Noise

=============================================================================
