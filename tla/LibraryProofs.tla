---------------------------- MODULE LibraryProofs ----------------------------
(***************************************************************************)
(* Theorems about components with a state of their own: BinParser, for any *)
(* number of packets, stray cells and reads; MysqlSession, for any number  *)
(* of rows, calls, batches of any length and connections lost at any time; *)
(* HttpResponse, for any number of responses; SyncQueue, for any number of *)
(* threads and any capacity.  None uses another; they are parts of one     *)
(* module.                                                                 *)
(*                                                                         *)
(* Part 1, BinParser.  The cells of data, and those on the wire, are cut   *)
(* at known places into stray cells and whole packets.  The parser is at   *)
(* such a place, or within a packet whose header it is following, or in a  *)
(* packet whose header it missed, where it delivers nothing.  BinInv says  *)
(* so, and counts the stray cells that can still raise err_count_.         *)
(*                                                                         *)
(* Part 2, MysqlSession.  SessionInv says where the rows of the call under *)
(* way are, and that what a call has told of a batch is decided.           *)
(*                                                                         *)
(* Part 3, HttpResponse.  ResponseInv says that nothing is set before the  *)
(* call that makes a response, and that what it makes is one message.  The *)
(* form of a message follows from what its pieces have (Has, Front).       *)
(*                                                                         *)
(* Part 4, SyncQueue.  SafetyInv has the types, and that only threads that *)
(* wait are waiters.  Each of the three properties of the wake-ups is kept *)
(* by every step that keeps SafetyInv, by counting who is awake.           *)
(***************************************************************************)
EXTENDS BinParser, MysqlSession, HttpResponse, SyncQueue, SequenceTheorems, FiniteSetTheorems, WellFoundedInduction, TLAPS

----------------------------------------------------------------------------
(* Part 1: BinParser                                                        *)

\* What the other end has sent.
SentInv ==
  /\ Len(sent) <= MaxPackets /\ sent \in Seq(Seq(Nat)) /\ strays \in Seq(Noise) /\ err_count_ \in Nat
  /\ \A k \in 1..Len(sent) : \E body \in Bodies : sent[k] = Packet(k, body)

\* The reads so far were whole, and of packets with a body.
Premise == whole /\ AllSizes(Nat \ {0})
SizesFit == AllSizes(1..(FullRange - 1))
\* Moreover nothing can be refused.
AllGood == Regular /\ AllSizes(1..(HalfRange - 1)) /\ Len(strays) <= ErrLimit

\* The k-th packet is in s after the d-th cell, and no cut falls within it.
PacketAt(s, D, d, k) ==
  /\ d \in D /\ d + Len(sent[k]) \in D
  /\ \A e \in D : e <= d \/ e >= d + Len(sent[k])
  /\ \A i \in 1..Len(sent[k]) : s[d + i] = sent[k][i]

\* The e-th cell of s is a stray cell.
StrayBefore(s, D, e) == e - 1 \in D /\ s[e] \in Range(strays)

\* The cells of s are cut at D into stray cells and the packets from the m-th to the
\* n-th, at the places at.
Cut(s, D, m, n, at) ==
  /\ s \in Seq(Nat) /\ D \in SUBSET (0..Len(s)) /\ {0, Len(s)} \subseteq D
  /\ \A k \in m..n : PacketAt(s, D, at[k], k)
  /\ \A j, k \in m..n : j < k => at[j] < at[k]
  /\ \A d \in D : d = Len(s) \/ (\E k \in m..n : at[k] = d) \/ (d + 1 \in D /\ StrayBefore(s, D, d + 1))
  /\ \A e \in D : e = 0 \/ (\E k \in m..n : at[k] + Len(sent[k]) = e) \/ StrayBefore(s, D, e)

WireInv(at) ==
  arrived \in 0..Len(sent) /\ 0 \notin ends /\ Cut(wire, ends \cup {0}, arrived + 1, Len(sent), at)

\* Where the parser is in data, which has the packets from the m-th on: between two
\* units (after a stray W it may take that for a flag), in a packet whose header it
\* follows, or in one whose beginning or whose size it missed.
HeadAt(pos) == status_ = "head" /\ write_pos_ = pos
Between(D) == readpos \in D /\ (HeadAt(0) \/ (HeadAt(1) /\ W \in Range(strays)))
Inside(at, k) == at[k] < readpos /\ readpos < at[k] + Len(sent[k])
Synced(at, k) ==
  /\ readpos <= at[k] + HeaderSize /\ write_pos_ = readpos - at[k]
  /\ \A i \in 1..(readpos - at[k]) : buffer_[i] = sent[k][i]
  /\ \/ status_ = "head"
     \/ /\ status_ = "data" /\ write_pos_ = HeaderSize
        /\ data_area_size_ = sent[k][SizeOffset + 1] /\ data_area_size_ < HalfRange
Missed(at, k) == HeadAt(0) \/ (HeadAt(1) /\ readpos = at[k] + SizeOffset + 1)

PlaceInv(D, m, at) ==
  /\ arrived \in 0..Len(sent) /\ m \in 1..(arrived + 1) /\ Cut(data, D, m, arrived, at)
  /\ readpos \in 0..Len(data) /\ write_pos_ \in Nat /\ buffer_ \in Seq(Nat) /\ Len(buffer_) = Len(data)
  /\ \/ Between(D)
     \/ \E k \in m..arrived : Inside(at, k) /\ (Synced(at, k) \/ (Missed(at, k) /\ ~AllGood))

\* The last cell of a packet is its number.
Number(packet) == packet[Len(packet)]

\* The packets of data whose last cell is still to be read.
Unread(m, at) == {k \in m..arrived : readpos < at[k] + Len(sent[k])}

AsSent ==
  /\ delivered \in Seq(Seq(Nat))
  /\ \A i \in 1..Len(delivered) :
       Number(delivered[i]) \in 1..arrived /\ delivered[i] = sent[Number(delivered[i])]
  /\ \A i, j \in 1..Len(delivered) : i < j => Number(delivered[i]) < Number(delivered[j])

\* What is delivered comes before what is still to be read.
AheadInv(m, at) == SizesFit =>
  AsSent /\ \A i \in 1..Len(delivered), k \in Unread(m, at) : Number(delivered[i]) < k

\* What is delivered is all of the packets up to some place.
AllSoFar == Len(delivered) <= arrived /\ \A i \in 1..Len(delivered) : delivered[i] = sent[i]

\* The stray cells on the wire, and those that data still has.
WireStrays == {e \in ends : e - 1 \in ends \cup {0}}
DataStrays(D) == {e \in D : e - 1 \in D /\ e > readpos}

\* Every stray cell is counted once: in err_count_, in data or on the wire.
CountInv(D, m, at) == AllGood =>
  /\ AllSoFar /\ m <= Len(delivered) + 1
  /\ \A k \in m..arrived : k \in Unread(m, at) <=> k > Len(delivered)
  /\ err_count_ + Cardinality(DataStrays(D)) + Cardinality(WireStrays) <= Len(strays)

\* Within a read.
Reads(D, m, at) == PlaceInv(D, m, at) /\ AheadInv(m, at) /\ CountInv(D, m, at)

\* Between two reads.
RestInv ==
  /\ HeadAt(0) \/ (HeadAt(1) /\ W \in Range(strays))
  /\ SizesFit => AsSent
  /\ AllGood => AllSoFar /\ Len(delivered) = arrived /\ err_count_ + Cardinality(WireStrays) <= Len(strays)

----------------------------------------------------------------------------
(* Packets                                                                  *)

\* What the size of a packet becomes as an int16.
LEMMA SizeCell ==
  ASSUME NEW body \in Nat
  PROVE  /\ body % FullRange \in 0..(FullRange - 1) /\ body % FullRange <= body
         /\ body < FullRange => body % FullRange = body
<1>1. FullRange \in Nat \ {0}
  BY ParserAssumption DEF FullRange
<1> HIDE DEF FullRange
<1> QED
  BY <1>1

LEMMA PacketIs ==
  ASSUME NEW k \in Nat, NEW body \in Nat
  PROVE  /\ Packet(k, body) \in Seq(Nat) /\ Len(Packet(k, body)) = HeaderSize + body
         /\ Packet(k, body)[1] = W /\ Packet(k, body)[2] = L
         /\ Packet(k, body)[SizeOffset + 1] = body % FullRange
         /\ \A i \in 1..(HeaderSize + body) : i \notin {1, 2, SizeOffset + 1} => Packet(k, body)[i] = k
<1> DEFINE size == body % FullRange
           n == HeaderSize + body
           cell(i) == CASE i = 1 -> W [] i = 2 -> L [] i = SizeOffset + 1 -> size [] OTHER -> k
<1>1. /\ size \in Nat /\ W \in Nat /\ L \in Nat /\ n \in Nat /\ SizeOffset \in Nat /\ SizeOffset >= 2
      /\ HeaderSize \in Nat /\ HeaderSize > SizeOffset
  BY SizeCell, ParserAssumption DEF FullRange
<1>2. Packet(k, body) = [i \in 1..n |-> cell(i)]
  BY DEF Packet
<1> HIDE DEF size, n
<1>3. \A i \in 1..n : cell(i) \in Nat
  BY <1>1
<1>4. Packet(k, body) \in Seq(Nat) /\ Len(Packet(k, body)) = n /\ \A i \in 1..n : Packet(k, body)[i] = cell(i)
  BY <1>1, <1>2, <1>3, SMTT(60)
<1>5. {1, 2, SizeOffset + 1} \subseteq 1..n
  BY <1>1 DEF n
<1> QED
  <2>1. /\ cell(1) = W /\ cell(2) = L /\ cell(SizeOffset + 1) = size
        /\ \A i \in 1..n : i \notin {1, 2, SizeOffset + 1} => cell(i) = k
    BY <1>1
  <2> HIDE DEF cell
  <2> QED
    BY <1>4, <1>5, <2>1 DEF n, size

\* What is known of the k-th packet that was sent.
LEMMA SentIs ==
  ASSUME SentInv, Premise, NEW k \in 1..Len(sent)
  PROVE  /\ k \in Nat /\ k <= MaxPackets /\ sent[k] \in Seq(Nat)
         /\ Len(sent[k]) \in Nat /\ Len(sent[k]) > HeaderSize
         /\ sent[k][1] = W /\ sent[k][2] = L
         /\ sent[k][SizeOffset + 1] \in 0..(FullRange - 1)
         /\ sent[k][SizeOffset + 1] <= Len(sent[k]) - HeaderSize
         /\ SizesFit => sent[k][SizeOffset + 1] = Len(sent[k]) - HeaderSize
         /\ AllGood => SizesFit /\ sent[k][SizeOffset + 1] < HalfRange
         /\ \A i \in 1..Len(sent[k]) : i \notin {1, 2, SizeOffset + 1} => sent[k][i] = k
         /\ Number(sent[k]) = k
<1>1. PICK body \in Bodies : sent[k] = Packet(k, body)
  BY DEF SentInv
<1>2. k \in Nat /\ body \in Nat /\ k <= MaxPackets
  BY ParserAssumption DEF SentInv
<1>3. Len(sent[k]) = HeaderSize + body /\ body > 0
  <2>1. Len(sent[k]) = HeaderSize + body
    BY <1>1, <1>2, PacketIs
  <2>2. Len(sent[k]) - HeaderSize \in Nat \ {0}
    BY DEF Premise, AllSizes, BodySize
  <2> QED
    BY <1>2, <2>1, <2>2, ParserAssumption
<1>4. AllSizes(1..(FullRange - 1)) => body < FullRange
  BY <1>2, <1>3, ParserAssumption DEF AllSizes, BodySize, FullRange
<1>5. ASSUME AllSizes(1..(HalfRange - 1)) PROVE SizesFit /\ body < HalfRange
  <2>1. \A j \in 1..(HalfRange - 1) : j \in 1..(FullRange - 1)
    BY ParserAssumption DEF FullRange
  <2>2. BodySize(sent[k]) \in 1..(HalfRange - 1) /\ BodySize(sent[k]) = body
    BY <1>2, <1>3, <1>5, ParserAssumption DEF AllSizes, BodySize
  <2> QED
    BY <2>1, <2>2, <1>5, ParserAssumption DEF AllSizes, SizesFit
<1> HIDE DEF FullRange
<1>6. /\ sent[k] \in Seq(Nat) /\ sent[k][1] = W /\ sent[k][2] = L
      /\ sent[k][SizeOffset + 1] = body % FullRange
      /\ \A i \in 1..Len(sent[k]) : i \notin {1, 2, SizeOffset + 1} => sent[k][i] = k
  <2> DEFINE p == Packet(k, body)
  <2>1. /\ p \in Seq(Nat) /\ p[1] = W /\ p[2] = L /\ p[SizeOffset + 1] = body % FullRange
        /\ \A i \in 1..(HeaderSize + body) : i \notin {1, 2, SizeOffset + 1} => p[i] = k
    BY <1>2, PacketIs
  <2>2. sent[k] = p
    BY <1>1
  <2> HIDE DEF p
  <2> QED
    BY <1>3, <2>1, <2>2
<1>7. body % FullRange \in 0..(FullRange - 1) /\ body % FullRange <= body /\ (body < FullRange => body % FullRange = body)
  BY <1>2, SizeCell
<1>8. Number(sent[k]) = k
  BY <1>2, <1>3, <1>6, ParserAssumption DEF Number
<1>9. HeaderSize \in Nat /\ (AllGood => AllSizes(1..(HalfRange - 1)))
  BY ParserAssumption DEF AllGood
<1>10. AllGood => SizesFit /\ body < HalfRange
  BY <1>5, <1>9
<1>11. HalfRange \in Nat /\ HalfRange <= FullRange
  BY ParserAssumption DEF FullRange
<1> QED
  BY <1>2, <1>3, <1>4, <1>6, <1>7, <1>8, <1>9, <1>10, <1>11 DEF SizesFit

----------------------------------------------------------------------------
(* Where the packets are                                                    *)

\* The packets that are in data, where they are and what they hold.
LEMMA InData ==
  ASSUME SentInv, Premise, NEW D, NEW m, NEW at, PlaceInv(D, m, at), NEW k \in m..arrived
  PROVE  /\ k \in 1..Len(sent) /\ k \in Nat /\ k <= arrived /\ arrived \in Nat /\ m \in Nat
         /\ at[k] \in Nat /\ at[k] \in D /\ Len(data) \in Nat
         /\ at[k] + Len(sent[k]) \in D /\ at[k] + Len(sent[k]) <= Len(data)
         /\ \A e \in D : e <= at[k] \/ e >= at[k] + Len(sent[k])
         /\ \A i \in 1..Len(sent[k]) : data[at[k] + i] = sent[k][i]
         /\ \A j \in m..arrived : j < k => at[j] < at[k]
<1>1. /\ arrived \in 0..Len(sent) /\ m \in 1..(arrived + 1) /\ Len(sent) \in Nat
      /\ Len(data) \in Nat /\ D \subseteq 0..Len(data)
  BY DEF PlaceInv, Cut, SentInv
<1>2. PacketAt(data, D, at[k], k) /\ \A j \in m..arrived : j < k => at[j] < at[k]
  BY DEF PlaceInv, Cut
<1>3. /\ at[k] \in D /\ at[k] + Len(sent[k]) \in D
      /\ \A e \in D : e <= at[k] \/ e >= at[k] + Len(sent[k])
      /\ \A i \in 1..Len(sent[k]) : data[at[k] + i] = sent[k][i]
  BY <1>2 DEF PacketAt
<1>4. at[k] \in 0..Len(data) /\ at[k] + Len(sent[k]) \in 0..Len(data)
  BY <1>1, <1>3
<1>5. k \in 1..Len(sent) /\ k \in Nat /\ k <= arrived /\ arrived \in Nat /\ m \in Nat
  BY <1>1
<1> QED
  BY <1>1, <1>2, <1>3, <1>4, <1>5

LEMMA Order ==
  ASSUME SentInv, Premise, NEW D, NEW m, NEW at, PlaceInv(D, m, at), NEW j \in m..arrived, NEW k \in m..arrived, j < k
  PROVE  at[j] + Len(sent[j]) <= at[k]
<1>1. at[k] \in D /\ at[k] \in Nat /\ at[j] \in Nat /\ at[j] < at[k]
  BY InData
<1>2. /\ \A e \in D : e <= at[j] \/ e >= at[j] + Len(sent[j])
      /\ j \in 1..Len(sent)
  BY InData
<1>3. Len(sent[j]) \in Nat
  BY <1>2, SentIs
<1> QED
  BY <1>1, <1>2, <1>3

\* At the place between two units a packet starts or a stray cell follows.
LEMMA NextUnit ==
  ASSUME SentInv, Premise, NEW D, NEW m, NEW at, PlaceInv(D, m, at), readpos \in D, readpos < Len(data)
  PROVE  \/ \E k \in m..arrived : at[k] = readpos /\ data[readpos + 1] = W
         \/ readpos + 1 \in D /\ data[readpos + 1] \in Range(strays)
<1>1. \/ \E k \in m..arrived : at[k] = readpos
      \/ readpos + 1 \in D /\ StrayBefore(data, D, readpos + 1)
  BY DEF PlaceInv, Cut
<1>2. ASSUME NEW k \in m..arrived, at[k] = readpos PROVE data[readpos + 1] = W
  <2>1. k \in 1..Len(sent)
    BY InData
  <2>2. sent[k][1] = W /\ 1 \in 1..Len(sent[k])
    BY <2>1, SentIs, ParserAssumption
  <2>3. PacketAt(data, D, at[k], k)
    BY DEF PlaceInv, Cut
  <2> QED
    BY <1>2, <2>2, <2>3 DEF PacketAt
<1> QED
  BY <1>1, <1>2 DEF StrayBefore

LEMMA StraysAre == SentInv => Range(strays) \subseteq Noise
<1> SUFFICES ASSUME SentInv PROVE Range(strays) \subseteq Noise
  OBVIOUS
<1>1. \A i \in DOMAIN strays : strays[i] \in Noise
  BY DEF SentInv
<1> QED
  BY <1>1 DEF Range

\* The cell that follows inside the k-th packet.
LEMMA NextInside ==
  ASSUME SentInv, Premise, NEW D, NEW m, NEW at, PlaceInv(D, m, at), NEW k \in m..arrived, Inside(at, k)
  PROVE  /\ readpos \in Nat /\ at[k] \in Nat /\ readpos < Len(data)
         /\ readpos - at[k] + 1 \in 2..Len(sent[k]) /\ readpos - at[k] \in 1..(Len(sent[k]) - 1)
         /\ data[readpos + 1] = sent[k][readpos - at[k] + 1]
         /\ readpos \notin D
<1>1. /\ k \in 1..Len(sent) /\ at[k] \in Nat /\ Len(data) \in Nat /\ at[k] + Len(sent[k]) <= Len(data)
      /\ \A e \in D : e <= at[k] \/ e >= at[k] + Len(sent[k])
      /\ \A i \in 1..Len(sent[k]) : data[at[k] + i] = sent[k][i]
  BY InData, SMTT(60)
<1>2. Len(sent[k]) \in Nat
  BY <1>1, SentIs
<1>3. readpos \in Nat
  BY <1>1 DEF PlaceInv
<1>4. /\ readpos - at[k] + 1 \in 1..Len(sent[k]) /\ at[k] + (readpos - at[k] + 1) = readpos + 1
      /\ readpos < Len(data)
      /\ readpos - at[k] + 1 \in 2..Len(sent[k]) /\ readpos - at[k] \in 1..(Len(sent[k]) - 1)
  <2> DEFINE p == at[k]
             l == Len(sent[k])
  <2>1. /\ p \in Nat /\ l \in Nat /\ readpos \in Nat /\ Len(data) \in Nat
        /\ p < readpos /\ readpos < p + l /\ p + l <= Len(data)
    BY <1>1, <1>2, <1>3 DEF Inside
  <2> HIDE DEF p, l
  <2>2. /\ readpos - p + 1 \in 1..l /\ p + (readpos - p + 1) = readpos + 1 /\ readpos < Len(data)
        /\ readpos - p + 1 \in 2..l /\ readpos - p \in 1..(l - 1)
    BY <2>1
  <2> QED
    BY <2>2 DEF p, l
<1>6. readpos \notin D
  BY <1>1, <1>2, <1>3 DEF Inside
<1>5. data[at[k] + (readpos - at[k] + 1)] = sent[k][readpos - at[k] + 1]
  BY <1>1, <1>4
<1> QED
  BY <1>1, <1>3, <1>4, <1>5, <1>6

----------------------------------------------------------------------------
(* What a step of the parser leaves as it was                               *)

LEMMA StraysFinite ==
  /\ \A at : WireInv(at) => IsFiniteSet(WireStrays) /\ Cardinality(WireStrays) \in Nat
  /\ \A D, m, at : PlaceInv(D, m, at) => IsFiniteSet(DataStrays(D)) /\ Cardinality(DataStrays(D)) \in Nat
<1>1. ASSUME NEW n, n \in Nat, NEW S \in SUBSET (0..n) PROVE IsFiniteSet(S) /\ Cardinality(S) \in Nat
  <2>1. IsFiniteSet(0..n)
    BY <1>1, FS_Interval
  <2>2. IsFiniteSet(S)
    BY <2>1, FS_Subset
  <2> QED
    BY <2>2, FS_CardinalityType
<1>2. ASSUME NEW at, WireInv(at) PROVE WireStrays \in SUBSET (0..Len(wire)) /\ Len(wire) \in Nat
  BY <1>2 DEF WireInv, Cut, WireStrays
<1>3. ASSUME NEW D, NEW m, NEW at, PlaceInv(D, m, at)
      PROVE  DataStrays(D) \in SUBSET (0..Len(data)) /\ Len(data) \in Nat
  <2>1. data \in Seq(Nat) /\ D \in SUBSET (0..Len(data))
    BY <1>3 DEF PlaceInv, Cut
  <2>2. DataStrays(D) \subseteq D
    BY DEF DataStrays
  <2>3. DataStrays(D) \in SUBSET (0..Len(data))
    BY <2>1, <2>2, Zenon
  <2> QED
    BY <2>1, <2>3
<1> QED
  BY <1>1, <1>2, <1>3

Quiet == UNCHANGED <<peerVars, data>>

LEMMA QuietIs ==
  ASSUME Quiet
  PROVE  /\ sent' = sent /\ wire' = wire /\ ends' = ends /\ strays' = strays /\ whole' = whole
         /\ arrived' = arrived /\ data' = data
         /\ SizesFit' <=> SizesFit
         /\ AllGood' <=> AllGood
BY DEF Quiet, peerVars, SizesFit, AllGood, Regular, AllSizes, BodySize

LEMMA PlaceStays ==
  ASSUME SentInv, NEW D, NEW m, NEW at, PlaceInv(D, m, at), Quiet,
         readpos' \in 0..Len(data), write_pos_' \in Nat, buffer_' \in Seq(Nat), Len(buffer_') = Len(data),
         \/ Between(D)'
         \/ \E k \in m..arrived : Inside(at, k)' /\ (Synced(at, k)' \/ (Missed(at, k)' /\ ~AllGood))
  PROVE  PlaceInv(D, m, at)'
<1>1. Cut(data, D, m, arrived, at)'
  <2>1. Range(strays)' = Range(strays)
    BY QuietIs DEF Range
  <2>2. \A e : StrayBefore(data, D, e)' <=> StrayBefore(data, D, e)
    BY <2>1, QuietIs DEF StrayBefore
  <2>3. \A k \in m..arrived : PacketAt(data, D, at[k], k)' <=> PacketAt(data, D, at[k], k)
    BY QuietIs DEF PacketAt
  <2>4. Cut(data, D, m, arrived, at)
    BY DEF PlaceInv
  <2> QED
    BY <2>2, <2>3, <2>4, QuietIs DEF Cut
<1> QED
  BY <1>1, QuietIs DEF PlaceInv

LEMMA AheadStays ==
  ASSUME SentInv, Premise, NEW D, NEW m, NEW at, PlaceInv(D, m, at), AheadInv(m, at), Quiet, delivered' = delivered,
         readpos' \in Nat, readpos <= readpos'
  PROVE  AheadInv(m, at)'
<1>1. \A k \in m..arrived : readpos' < at[k] + Len(sent[k]) => readpos < at[k] + Len(sent[k])
  <2> SUFFICES ASSUME NEW k \in m..arrived, readpos' < at[k] + Len(sent[k]) PROVE readpos < at[k] + Len(sent[k])
    OBVIOUS
  <2>1. at[k] \in Nat /\ k \in 1..Len(sent)
    BY InData
  <2>2. Len(sent[k]) \in Nat /\ readpos \in Nat
    BY <2>1, SentIs DEF PlaceInv
  <2> QED
    BY <2>1, <2>2
<1>2. Unread(m, at)' \subseteq Unread(m, at)
  BY <1>1, QuietIs DEF Unread
<1>3. AsSent => AsSent'
  BY QuietIs DEF AsSent, Number
<1> QED
  BY <1>2, <1>3, QuietIs DEF AheadInv, Number

\* A step that passes the end of no unit.
LEMMA CountStays ==
  ASSUME SentInv, Premise, NEW D, NEW m, NEW at, PlaceInv(D, m, at), CountInv(D, m, at), Quiet, delivered' = delivered,
         err_count_' = err_count_, readpos' \in Nat, readpos <= readpos', \A e \in D : ~(readpos < e /\ e <= readpos')
  PROVE  CountInv(D, m, at)'
<1>1. readpos \in Nat /\ D \subseteq Nat
  BY DEF PlaceInv, Cut
<1>2. \A k \in m..arrived : readpos < at[k] + Len(sent[k]) <=> readpos' < at[k] + Len(sent[k])
  <2> SUFFICES ASSUME NEW k \in m..arrived PROVE readpos < at[k] + Len(sent[k]) <=> readpos' < at[k] + Len(sent[k])
    OBVIOUS
  <2>1. at[k] \in Nat /\ k \in 1..Len(sent) /\ at[k] + Len(sent[k]) \in D
    BY InData
  <2>2. Len(sent[k]) \in Nat
    BY <2>1, SentIs
  <2> QED
    BY <1>1, <2>1, <2>2
<1>3. Unread(m, at)' = Unread(m, at)
  BY <1>2, QuietIs DEF Unread
<1>4. DataStrays(D)' = DataStrays(D)
  <2>1. \A e \in D : e > readpos' <=> e > readpos
    BY <1>1
  <2> QED
    BY <2>1 DEF DataStrays
<1>5. WireStrays' = WireStrays
  BY QuietIs DEF WireStrays
<1>6. AllSoFar' <=> AllSoFar
  BY QuietIs DEF AllSoFar
<1> QED
  BY <1>3, <1>4, <1>5, <1>6, QuietIs DEF CountInv

\* A step over a stray cell, which is counted.
LEMMA CountStray ==
  ASSUME SentInv, Premise, NEW D, NEW m, NEW at, PlaceInv(D, m, at), CountInv(D, m, at), Quiet, delivered' = delivered,
         NEW a, WireInv(a),
         err_count_' = err_count_ + 1, readpos' = readpos + 1, readpos \in D, readpos + 1 \in D
  PROVE  CountInv(D, m, at)'
<1>1. readpos \in Nat /\ D \subseteq Nat
  BY DEF PlaceInv, Cut
<1>2. \A k \in m..arrived : readpos < at[k] + Len(sent[k]) <=> readpos' < at[k] + Len(sent[k])
  <2> SUFFICES ASSUME NEW k \in m..arrived PROVE readpos < at[k] + Len(sent[k]) <=> readpos' < at[k] + Len(sent[k])
    OBVIOUS
  <2>1. at[k] \in Nat /\ k \in 1..Len(sent) /\ \A e \in D : e <= at[k] \/ e >= at[k] + Len(sent[k])
    BY InData
  <2>2. Len(sent[k]) \in Nat /\ Len(sent[k]) >= 2
    BY <2>1, SentIs, ParserAssumption
  <2>3. readpos <= at[k] \/ readpos >= at[k] + Len(sent[k])
    BY <2>1
  <2> QED
    BY <1>1, <2>1, <2>2, <2>3
<1>3. Unread(m, at)' = Unread(m, at)
  BY <1>2, QuietIs DEF Unread
<1>4. DataStrays(D)' = DataStrays(D) \ {readpos + 1} /\ readpos + 1 \in DataStrays(D)
  <2>1. \A e \in D : e > readpos' <=> e > readpos /\ e # readpos + 1
    BY <1>1
  <2> DEFINE end == readpos + 1
  <2>2. end \in D /\ end - 1 = readpos /\ end > readpos
    BY <1>1
  <2> HIDE DEF end
  <2>3. end - 1 \in D
    BY <2>2
  <2>4. end \in DataStrays(D)
    BY <2>2, <2>3 DEF DataStrays
  <2>5. \A e \in D : e > readpos' <=> e > readpos /\ e # end
    BY <2>1 DEF end
  <2> QED
    BY <2>4, <2>5 DEF DataStrays, end
<1>5. WireStrays' = WireStrays
  BY QuietIs DEF WireStrays
<1>6. AllSoFar' <=> AllSoFar
  BY QuietIs DEF AllSoFar
<1>7. /\ Cardinality(DataStrays(D)') = Cardinality(DataStrays(D)) - 1
      /\ Cardinality(DataStrays(D)) \in Nat /\ Cardinality(WireStrays) \in Nat
      /\ Cardinality(DataStrays(D)) - 1 \in Nat
  <2> DEFINE S == DataStrays(D)
  <2>1. IsFiniteSet(S) /\ Cardinality(S) \in Nat /\ Cardinality(WireStrays) \in Nat
    BY StraysFinite
  <2>2. DataStrays(D)' = S \ {readpos + 1} /\ readpos + 1 \in S
    BY <1>4
  <2> HIDE DEF S
  <2>3. IsFiniteSet(S \ {readpos + 1}) /\ Cardinality(S \ {readpos + 1}) = Cardinality(S) - 1
    BY <2>1, <2>2, FS_RemoveElement
  <2>4. Cardinality(S \ {readpos + 1}) \in Nat
    BY <2>3, FS_CardinalityType
  <2> QED
    BY <2>1, <2>2, <2>3, <2>4 DEF S
<1>8. Len(strays) \in Nat /\ err_count_ \in Nat
  BY DEF SentInv
<1>9. AllGood => err_count_ + Cardinality(DataStrays(D)) + Cardinality(WireStrays) <= Len(strays)
  BY DEF CountInv
<1>10. AllGood => err_count_' + Cardinality(DataStrays(D)') + Cardinality(WireStrays') <= Len(strays)
  BY <1>5, <1>7, <1>8, <1>9
<1> QED
  BY <1>3, <1>6, <1>10, QuietIs DEF CountInv

\* A stray cell that is still to be read is not counted yet.
LEMMA StrayCounted ==
  ASSUME SentInv, NEW D, NEW m, NEW at, PlaceInv(D, m, at), CountInv(D, m, at),
         NEW a, WireInv(a), readpos \in D, readpos + 1 \in D, AllGood
  PROVE  err_count_ < ErrLimit
<1> DEFINE S == DataStrays(D)
<1>1. readpos \in Nat /\ (readpos + 1) - 1 = readpos /\ readpos + 1 > readpos
  BY DEF PlaceInv
<1> DEFINE end == readpos + 1
<1>2. end \in D /\ end - 1 \in D /\ end > readpos
  BY <1>1
<1> HIDE DEF end
<1>3. end \in S
  BY <1>2 DEF DataStrays
<1>4. IsFiniteSet(S) /\ Cardinality(S) \in Nat /\ Cardinality(WireStrays) \in Nat
  BY StraysFinite
<1>5. err_count_ + Cardinality(S) + Cardinality(WireStrays) <= Len(strays)
  BY DEF CountInv
<1> HIDE DEF S
<1>6. Cardinality(S) # 0
  BY <1>3, <1>4, FS_EmptySet
<1>7. Len(strays) \in Nat /\ err_count_ \in Nat /\ ErrLimit \in Nat /\ Len(strays) <= ErrLimit
  BY ParserAssumption DEF SentInv, AllGood
<1> QED
  BY <1>4, <1>5, <1>6, <1>7

\* A call that returns.
LEMMA Stops ==
  ASSUME SentInv, NEW D, NEW m, NEW at, PlaceInv(D, m, at), AheadInv(m, at), CountInv(D, m, at),
         UNCHANGED <<peerVars, delivered>>,
         HeadAt(0)' \/ (HeadAt(1)' /\ W \in Range(strays)),
         AllGood => /\ Unread(m, at) = {}
                    /\ err_count_' + Cardinality(WireStrays) <= Len(strays)
  PROVE  RestInv'
<1>1. /\ sent' = sent /\ ends' = ends /\ strays' = strays /\ arrived' = arrived /\ delivered' = delivered
      /\ whole' = whole
  BY DEF peerVars
<1>2. /\ SizesFit' <=> SizesFit
      /\ AllGood' <=> AllGood
  BY <1>1 DEF SizesFit, AllGood, Regular, AllSizes, BodySize, Range
<1>3. Range(strays)' = Range(strays) /\ WireStrays' = WireStrays /\ (AsSent' <=> AsSent) /\ (AllSoFar' <=> AllSoFar)
  BY <1>1 DEF WireStrays, AsSent, AllSoFar, Number, Range
<1>4. SizesFit => AsSent
  BY DEF AheadInv
<1>5. AllGood => SizesFit
  BY ParserAssumption DEF AllGood, SizesFit, AllSizes, FullRange
<1>6. ASSUME AllGood PROVE AllSoFar /\ Len(delivered) = arrived
  <2>1. delivered \in Seq(Seq(Nat))
    BY <1>4, <1>5, <1>6 DEF AsSent
  <2>2. /\ AllSoFar /\ m <= Len(delivered) + 1 /\ Unread(m, at) = {}
        /\ \A k \in m..arrived : k \in Unread(m, at) <=> k > Len(delivered)
    BY <1>6 DEF CountInv
  <2>3. arrived \in Nat /\ Len(delivered) \in Nat /\ Len(delivered) <= arrived /\ m \in Nat
    BY <2>1, <2>2 DEF PlaceInv, AllSoFar, SentInv
  <2>4. arrived \in m..arrived => ~(arrived > Len(delivered))
    BY <2>2
  <2> QED
    BY <2>2, <2>3, <2>4
<1> QED
  BY <1>1, <1>2, <1>3, <1>4, <1>6 DEF RestInv, HeadAt

----------------------------------------------------------------------------
(* The steps of the parser                                                  *)

LEMMA CopiedIs ==
  ASSUME NEW D, NEW m, NEW at, PlaceInv(D, m, at), NEW count \in Nat, readpos + count <= Len(data)
  PROVE  /\ Copied(count) \in Seq(Nat) /\ Len(Copied(count)) = Len(data)
         /\ \A i \in 1..Len(data) :
              Copied(count)[i] = IF i \in (write_pos_ + 1)..(write_pos_ + count)
                                 THEN data[readpos + i - write_pos_] ELSE buffer_[i]
<1> DEFINE cell(i) == IF i \in (write_pos_ + 1)..(write_pos_ + count)
                      THEN data[readpos + i - write_pos_] ELSE buffer_[i]
<1>1. /\ data \in Seq(Nat) /\ Len(data) \in Nat /\ buffer_ \in Seq(Nat) /\ Len(buffer_) = Len(data)
      /\ readpos \in Nat /\ write_pos_ \in Nat
  BY DEF PlaceInv, Cut
<1>2. DOMAIN buffer_ = 1..Len(data) /\ \A i \in 1..Len(data) : buffer_[i] \in Nat /\ data[i] \in Nat
  BY <1>1
<1>3. \A i \in 1..Len(data) : cell(i) \in Nat
  <2> SUFFICES ASSUME NEW i \in 1..Len(data) PROVE cell(i) \in Nat
    OBVIOUS
  <2>1. CASE i \in (write_pos_ + 1)..(write_pos_ + count)
    <3>1. readpos + i - write_pos_ \in 1..Len(data)
      BY <1>1, <2>1
    <3> QED
      BY <1>2, <2>1, <3>1
  <2> QED
    BY <1>2, <2>1
<1>4. Copied(count) = [i \in 1..Len(data) |-> cell(i)]
  BY <1>2 DEF Copied
<1> HIDE DEF cell
<1>5. Copied(count) \in Seq(Nat) /\ Len(Copied(count)) = Len(data) /\ \A i \in 1..Len(data) : Copied(count)[i] = cell(i)
  BY <1>1, <1>3, <1>4
<1> QED
  BY <1>5 DEF cell

\* A cell is copied inside buffer_, but for one that may follow a stray W.
LEMMA OneInside ==
  ASSUME SentInv, Premise, NEW D, NEW m, NEW at, PlaceInv(D, m, at), readpos < Len(data), status_ = "head", Regular
  PROVE  ~Outside(1)
<1>1. /\ Len(buffer_) = Len(data) /\ Len(data) \in Nat /\ readpos \in Nat
  BY DEF PlaceInv, Cut
<1>2. CASE Between(D)
  BY <1>1, <1>2 DEF Between, HeadAt, Regular, Outside
<1>3. ASSUME NEW k \in m..arrived, Inside(at, k), Synced(at, k) \/ Missed(at, k) PROVE ~Outside(1)
  <2>1. at[k] \in Nat /\ k \in 1..Len(sent) /\ at[k] + Len(sent[k]) <= Len(data)
    BY <1>3, InData
  <2>2. Len(sent[k]) \in Nat /\ Len(sent[k]) > HeaderSize
    BY <2>1, SentIs
  <2> QED
    BY <1>1, <1>3, <2>1, <2>2, ParserAssumption DEF Inside, Synced, Missed, HeadAt, Outside
<1> QED
  BY <1>2, <1>3 DEF PlaceInv

\* The next cell and the flags: at the start of a packet, in its header, or where
\* the parser has missed that.
LEMMA FlagIs ==
  ASSUME SentInv, Premise, FlagsApart, NEW D, NEW m, NEW at, PlaceInv(D, m, at), InHeader
  PROVE  LET cell == data[readpos + 1]
         IN  \/ /\ \E k \in m..arrived : at[k] = readpos
                /\ readpos \in D /\ cell = W
                /\ HeadAt(0) \/ (HeadAt(1) /\ W \in Range(strays) /\ BadFlag(cell))
             \/ /\ readpos \in D /\ readpos + 1 \in D /\ cell \in Range(strays)
                /\ (HeadAt(0) /\ (BadFlag(cell) <=> cell # W)) \/ (HeadAt(1) /\ W \in Range(strays) /\ BadFlag(cell))
             \/ \E k \in m..arrived :
                  /\ Inside(at, k) /\ ~BadFlag(cell) /\ Synced(at, k) /\ status_ = "head"
                  /\ readpos < at[k] + HeaderSize /\ cell = sent[k][readpos - at[k] + 1]
             \/ \E k \in m..arrived :
                  /\ Inside(at, k) /\ ~AllGood /\ Missed(at, k)
                  /\ ~BadFlag(cell) => HeadAt(0) /\ readpos - at[k] = SizeOffset
<1> DEFINE cell == data[readpos + 1]
<1>1. readpos < Len(data) /\ status_ = "head" /\ write_pos_ < HeaderSize /\ W # L
  BY ParserAssumption DEF InHeader
<1>2. CASE Between(D)
  <2>1. readpos \in D
    BY <1>2 DEF Between
  <2>2. \/ \E k \in m..arrived : at[k] = readpos /\ cell = W
        \/ readpos + 1 \in D /\ cell \in Range(strays)
    BY <1>1, <2>1, NextUnit
  <2>3. HeadAt(0) \/ (HeadAt(1) /\ W \in Range(strays))
    BY <1>2 DEF Between
  <2>4. cell \in Range(strays) => cell # L
    BY StraysAre DEF FlagsApart
  <2>5. (cell = W \/ cell # L) /\ HeadAt(1) => BadFlag(cell)
    BY <1>1 DEF BadFlag, HeadAt
  <2>6. HeadAt(0) => (BadFlag(cell) <=> cell # W)
    BY DEF BadFlag, HeadAt
  <2> HIDE DEF cell
  <2> QED
    BY <2>1, <2>2, <2>3, <2>4, <2>5, <2>6 DEF cell
<1>3. ASSUME NEW k \in m..arrived, Inside(at, k), Synced(at, k)
      PROVE  /\ ~BadFlag(cell) /\ readpos < at[k] + HeaderSize
             /\ cell = sent[k][readpos - at[k] + 1]
  <2>1. /\ k \in 1..Len(sent) /\ at[k] \in Nat /\ readpos \in Nat /\ cell = sent[k][readpos - at[k] + 1]
        /\ readpos - at[k] \in 1..(Len(sent[k]) - 1)
    BY <1>3, InData, NextInside
  <2>2. write_pos_ = readpos - at[k] /\ write_pos_ >= 1
    BY <1>3, <2>1 DEF Synced, Inside
  <2>3. write_pos_ = 1 => cell = L
    BY <2>1, <2>2, SentIs, SMTT(60)
  <2> HIDE DEF cell
  <2> QED
    BY <1>1, <2>1, <2>2, <2>3, ParserAssumption, SMTT(60) DEF BadFlag
<1>4. ASSUME NEW k \in m..arrived, Inside(at, k), Missed(at, k), ~BadFlag(cell)
      PROVE  HeadAt(0) /\ readpos - at[k] = SizeOffset
  <2> DEFINE i == readpos - at[k] + 1
  <2>1. k \in 1..Len(sent) /\ k \in Nat /\ at[k] \in Nat /\ readpos \in Nat /\ cell = sent[k][i]
    BY <1>4, InData, NextInside
  <2>2. i \in 2..Len(sent[k]) /\ SizeOffset \in Nat /\ SizeOffset >= 2
    BY <1>4, NextInside, ParserAssumption
  <2>7. i \in 1..Len(sent[k]) /\ i \in Nat /\ i >= 2 /\ (readpos - at[k] = SizeOffset <=> i = SizeOffset + 1)
        /\ (readpos = at[k] + SizeOffset + 1 => i = SizeOffset + 2)
    <3>1. Len(sent[k]) \in Nat
      BY <2>1, SentIs
    <3>2. i \in Nat /\ i >= 2 /\ i <= Len(sent[k])
      BY <2>2, <3>1
    <3>3. i \in 1..Len(sent[k])
      BY <3>1, <3>2
    <3>4. /\ readpos - at[k] = SizeOffset <=> i = SizeOffset + 1
          /\ readpos = at[k] + SizeOffset + 1 => i = SizeOffset + 2
      <4>1. \A r, s, o \in Nat : /\ r - s = o <=> r - s + 1 = o + 1
                                /\ r = s + o + 1 => r - s + 1 = o + 2
        OBVIOUS
      <4> QED
        BY <2>1, <2>2, <4>1, SMTT(60)
    <3> QED
      BY <3>2, <3>3, <3>4
  <2> HIDE DEF i, cell
  <2>3. /\ k <= MaxPackets /\ sent[k][2] = L
        /\ i \notin {1, 2, SizeOffset + 1} => sent[k][i] = k
    BY <2>1, <2>7, SentIs
  <2>4. k # W /\ k # L
    <3>1. k \in 1..MaxPackets
      BY <2>1, <2>3, ParserAssumption DEF SentInv
    <3> QED
      BY <3>1 DEF FlagsApart
  <2>5. CASE HeadAt(0)
    <3>1. cell = W
      BY <1>4, <2>5 DEF BadFlag, HeadAt
    <3>2. i # 1 /\ i # 2
      <4>1. i = 2 => cell = L
        BY <2>1, <2>3
      <4> QED
        BY <1>1, <2>7, <3>1, <4>1
    <3>3. i = SizeOffset + 1
      BY <2>1, <2>3, <2>4, <3>1, <3>2
    <3> QED
      BY <2>5, <2>7, <3>3
  <2>6. CASE HeadAt(1) /\ readpos = at[k] + SizeOffset + 1
    <3>1. cell = L
      BY <1>4, <2>6 DEF BadFlag, HeadAt
    <3>2. i = SizeOffset + 2
      BY <2>6, <2>7
    <3> QED
      BY <2>1, <2>2, <2>3, <2>4, <2>7, <3>1, <3>2
  <2> QED
    BY <1>4, <2>5, <2>6 DEF Missed
<1> HIDE DEF cell
<1>5. ASSUME ~Between(D)
      PROVE  \/ \E k \in m..arrived :
                  /\ Inside(at, k) /\ ~BadFlag(cell) /\ Synced(at, k) /\ status_ = "head"
                  /\ readpos < at[k] + HeaderSize /\ cell = sent[k][readpos - at[k] + 1]
             \/ \E k \in m..arrived :
                  /\ Inside(at, k) /\ ~AllGood /\ Missed(at, k)
                  /\ ~BadFlag(cell) => HeadAt(0) /\ readpos - at[k] = SizeOffset
  BY <1>1, <1>3, <1>4, <1>5 DEF PlaceInv
<1> QED
  BY <1>2, <1>5 DEF cell

\* A cell before the last one of a packet is followed by the end of no unit.
LEMMA NoEndWithin ==
  ASSUME SentInv, Premise, NEW D, NEW m, NEW at, PlaceInv(D, m, at), NEW k \in m..arrived,
         at[k] <= readpos, NEW q \in Nat, q < at[k] + Len(sent[k])
  PROVE  \A e \in D : ~(readpos < e /\ e <= q)
<1>1. /\ at[k] \in Nat /\ k \in 1..Len(sent) /\ \A e \in D : e <= at[k] \/ e >= at[k] + Len(sent[k])
  BY InData
<1>2. Len(sent[k]) \in Nat /\ readpos \in Nat /\ D \subseteq Nat
  BY <1>1, SentIs DEF PlaceInv, Cut
<1> QED
  BY <1>1, <1>2

LEMMA HeaderCellKeeps ==
  ASSUME SentInv, Premise, FlagsApart, NEW D, NEW m, NEW at, Reads(D, m, at), HeaderCell
  PROVE  Reads(D, m, at)' /\ (Regular => ~ub')
<1> DEFINE cell == data[readpos + 1]
<1>1. /\ PlaceInv(D, m, at) /\ AheadInv(m, at) /\ CountInv(D, m, at)
      /\ InHeader /\ ~BadFlag(cell) /\ status_ = "head" /\ status_' = "head"
      /\ buffer_' = Copied(1) /\ ub' = Outside(1) /\ write_pos_' = write_pos_ + 1 /\ readpos' = readpos + 1
      /\ err_count_' = err_count_ /\ delivered' = delivered /\ data_area_size_' = data_area_size_
      /\ Quiet
  BY DEF Reads, HeaderCell, InHeader, Quiet
<1>0. sent' = sent /\ (AllGood' <=> AllGood)
  BY <1>1, QuietIs
<1>2. /\ Len(data) \in Nat /\ readpos \in Nat /\ readpos < Len(data) /\ write_pos_ \in Nat
      /\ D \subseteq Nat /\ m \in Nat /\ arrived \in Nat
  BY <1>1 DEF PlaceInv, Cut, InHeader
<1>3. /\ buffer_' \in Seq(Nat) /\ Len(buffer_') = Len(data)
      /\ \A i \in 1..Len(data) : buffer_'[i] = IF i = write_pos_ + 1 THEN cell ELSE buffer_[i]
  <2>1. /\ Copied(1) \in Seq(Nat) /\ Len(Copied(1)) = Len(data)
        /\ \A i \in 1..Len(data) :
              Copied(1)[i] = IF i \in (write_pos_ + 1)..(write_pos_ + 1)
                             THEN data[readpos + i - write_pos_] ELSE buffer_[i]
    BY <1>1, <1>2, CopiedIs
  <2>2. /\ \A i \in 1..Len(data) : i \in (write_pos_ + 1)..(write_pos_ + 1) <=> i = write_pos_ + 1
        /\ readpos + (write_pos_ + 1) - write_pos_ = readpos + 1
    BY <1>2
  <2> QED
    BY <1>1, <2>1, <2>2
<1>4. ~Outside(1) \/ ~Regular
  BY <1>1, <1>2, OneInside
<1> DEFINE There == \/ Between(D)'
                    \/ \E k \in m..arrived : Inside(at, k)' /\ (Synced(at, k)' \/ (Missed(at, k)' /\ ~AllGood))
           Counted == ~AllGood \/ \A e \in D : ~(readpos < e /\ e <= readpos')
<1>5. ASSUME NEW k \in m..arrived, at[k] = readpos, cell = W, HeadAt(0)
      PROVE  There /\ Counted
  <2>1. k \in 1..Len(sent) /\ at[k] \in Nat
    BY <1>1, InData
  <2>2. Len(sent[k]) \in Nat /\ Len(sent[k]) > HeaderSize /\ sent[k][1] = W
    BY <2>1, SentIs
  <2>3. write_pos_' = 1 /\ readpos' - at[k] = 1 /\ readpos' <= at[k] + HeaderSize
        /\ at[k] < readpos' /\ readpos' < at[k] + Len(sent[k])
    BY <1>1, <1>2, <1>5, <2>1, <2>2, ParserAssumption DEF HeadAt
  <2>7. Inside(at, k)'
    BY <1>0, <2>3 DEF Inside
  <2>4. buffer_'[1] = sent[k][1]
    BY <1>2, <1>3, <1>5, <2>2, SMTT(60) DEF HeadAt
  <2>5. Synced(at, k)'
    BY <1>0, <1>1, <2>3, <2>4 DEF Synced
  <2>6. Counted
    BY <1>1, <1>2, <1>5, <2>1, <2>2, ParserAssumption, NoEndWithin, SMTT(60)
  <2> QED
    BY <2>5, <2>6, <2>7
<1>6. ASSUME readpos + 1 \in D, cell \in Range(strays), HeadAt(0), cell = W
      PROVE  There /\ Counted
  <2>1. Range(strays)' = Range(strays) /\ (AllGood => W \notin Range(strays))
    BY <1>1, QuietIs DEF Range, AllGood, Regular
  <2>2. Between(D)'
    BY <1>1, <1>6, <2>1 DEF Between, HeadAt
  <2> QED
    BY <1>6, <2>1, <2>2
<1>7. ASSUME NEW k \in m..arrived, Inside(at, k), Synced(at, k), readpos < at[k] + HeaderSize,
             cell = sent[k][readpos - at[k] + 1]
      PROVE  There /\ Counted
  <2>1. k \in 1..Len(sent) /\ at[k] \in Nat /\ at[k] + Len(sent[k]) <= Len(data)
    BY <1>1, InData
  <2>2. Len(sent[k]) \in Nat /\ Len(sent[k]) > HeaderSize /\ HeaderSize \in Nat
    BY <2>1, SentIs, ParserAssumption
  <2>3. write_pos_ = readpos - at[k]
    BY <1>7 DEF Synced
  <2>4. /\ write_pos_' = readpos' - at[k] /\ readpos' <= at[k] + HeaderSize
        /\ at[k] <= readpos /\ at[k] < readpos' /\ readpos' \in Nat /\ readpos' < at[k] + Len(sent[k])
    <3>1. at[k] < readpos
      BY <1>7 DEF Inside
    <3> QED
      <4>1. readpos' = readpos + 1 /\ write_pos_' = write_pos_ + 1
        BY <1>1
      <4>2. readpos < at[k] + HeaderSize
        BY <1>7
      <4> DEFINE a == at[k]
                 l == Len(sent[k])
                 p == readpos'
                 w == write_pos_'
      <4>3. /\ p = readpos + 1 /\ w = readpos - a + 1 /\ a < readpos /\ readpos < a + HeaderSize
            /\ a \in Nat /\ l \in Nat /\ l > HeaderSize
        BY <2>1, <2>2, <2>3, <3>1, <4>1, <4>2
      <4> HIDE DEF a, l, p, w
      <4>4. w = p - a /\ p <= a + HeaderSize /\ a <= readpos /\ a < p /\ p \in Nat /\ p < a + l
        BY <1>2, <2>2, <4>3
      <4> QED
        BY <4>4 DEF a, l, p, w
  <2>8. Inside(at, k)'
    BY <1>0, <2>4 DEF Inside
  <2>5. \A i \in 1..(readpos' - at[k]) : buffer_'[i] = sent[k][i]
    <3> SUFFICES ASSUME NEW i \in 1..(readpos' - at[k]) PROVE buffer_'[i] = sent[k][i]
      OBVIOUS
    <3>1. i \in 1..Len(data)
      BY <1>1, <1>2, <2>1, <2>2, <2>4
    <3>2. CASE i = write_pos_ + 1
      BY <1>3, <1>7, <2>3, <3>1, <3>2
    <3>3. CASE i # write_pos_ + 1
      <4>1. i \in 1..(readpos - at[k])
        BY <1>1, <1>2, <2>1, <2>3, <3>3, SMTT(60)
      <4> QED
        BY <1>3, <1>7, <3>1, <3>3, <4>1 DEF Synced
    <3> QED
      BY <3>2, <3>3
  <2>6. Synced(at, k)'
    BY <1>0, <1>1, <2>4, <2>5 DEF Synced
  <2>7. Counted
    BY <1>1, <1>2, <2>4, NoEndWithin
  <2> QED
    BY <2>6, <2>7, <2>8
<1>8. ASSUME NEW k \in m..arrived, Inside(at, k), ~AllGood, HeadAt(0), readpos - at[k] = SizeOffset
      PROVE  There /\ Counted
  <2>1. k \in 1..Len(sent) /\ at[k] \in Nat
    BY <1>1, InData
  <2>2. Len(sent[k]) \in Nat /\ Len(sent[k]) > HeaderSize
    BY <2>1, SentIs
  <2>3. readpos' = at[k] + SizeOffset + 1 /\ at[k] < readpos' /\ readpos' < at[k] + Len(sent[k])
    <3> DEFINE p == at[k]
               l == Len(sent[k])
    <3>1. /\ p \in Nat /\ l \in Nat /\ l > HeaderSize /\ readpos \in Nat /\ readpos - p = SizeOffset
          /\ readpos' = readpos + 1
      BY <1>1, <1>2, <1>8, <2>1, <2>2
    <3> HIDE DEF p, l
    <3>2. readpos' = p + SizeOffset + 1 /\ p < readpos' /\ readpos' < p + l
      BY <3>1, ParserAssumption
    <3> QED
      BY <3>2 DEF p, l
  <2>4. Inside(at, k)' /\ HeadAt(1)'
    BY <1>0, <1>1, <1>8, <2>3 DEF Inside, HeadAt
  <2> QED
    BY <1>8, <2>3, <2>4 DEF Missed
<1> HIDE DEF There, Counted, cell
<1>9. There /\ Counted
  BY <1>1, <1>5, <1>6, <1>7, <1>8, FlagIs DEF cell
<1>10. PlaceInv(D, m, at)'
  BY <1>1, <1>2, <1>3, <1>9, PlaceStays, SMTT(60) DEF There
<1>11. AheadInv(m, at)'
  BY <1>1, <1>2, AheadStays
<1>12. CountInv(D, m, at)'
  <2>1. CASE AllGood
    <3>1. readpos' \in Nat /\ readpos <= readpos'
      BY <1>1, <1>2
    <3>2. \A e \in D : ~(readpos < e /\ e <= readpos')
      BY <1>9, <2>1 DEF Counted
    <3> QED
      BY <1>1, <3>1, <3>2, CountStays
  <2>2. CASE ~AllGood
    BY <1>0, <2>2 DEF CountInv
  <2> QED
    BY <2>1, <2>2
<1> QED
  BY <1>1, <1>4, <1>10, <1>11, <1>12 DEF Reads

LEMMA WrongFlagIs ==
  ASSUME SentInv, Premise, FlagsApart, NEW D, NEW m, NEW at, Reads(D, m, at), WrongFlag
  PROVE  /\ Regular => ~ub'
         /\ \/ readpos \in D /\ readpos + 1 \in D
            \/ ~AllGood /\ \E k \in m..arrived : at[k] <= readpos /\ readpos < at[k] + Len(sent[k])
<1> DEFINE cell == data[readpos + 1]
<1>1. /\ PlaceInv(D, m, at) /\ InHeader /\ BadFlag(cell) /\ readpos < Len(data) /\ status_ = "head"
      /\ ub' = Outside(1)
  BY DEF Reads, WrongFlag, InHeader
<1>2. ASSUME NEW k \in m..arrived, at[k] = readpos
      PROVE  at[k] <= readpos /\ readpos < at[k] + Len(sent[k])
  <2>1. at[k] \in Nat /\ k \in 1..Len(sent)
    BY <1>1, InData
  <2>2. Len(sent[k]) \in Nat /\ Len(sent[k]) > 0
    BY <2>1, SentIs, ParserAssumption
  <2> QED
    BY <1>2, <2>1, <2>2
<1>3. ASSUME NEW k \in m..arrived, Inside(at, k)
      PROVE  at[k] <= readpos /\ readpos < at[k] + Len(sent[k])
  <2>1. at[k] \in Nat /\ readpos \in Nat
    BY <1>1, <1>3, NextInside
  <2> QED
    BY <1>3, <2>1 DEF Inside
<1>4. cell = W /\ HeadAt(0) => ~BadFlag(cell)
  BY DEF BadFlag, HeadAt
<1>5. W \in Range(strays) => ~AllGood
  BY DEF AllGood, Regular
<1>6. Regular => ~ub'
  BY <1>1, OneInside
<1> HIDE DEF cell
<1>7. \/ readpos \in D /\ readpos + 1 \in D
      \/ ~AllGood /\ \E k \in m..arrived : at[k] <= readpos /\ readpos < at[k] + Len(sent[k])
  BY <1>1, <1>2, <1>3, <1>4, <1>5, FlagIs DEF cell
<1> QED
  BY <1>6, <1>7

LEMMA SkipCellKeeps ==
  ASSUME SentInv, Premise, FlagsApart, NEW D, NEW m, NEW at, Reads(D, m, at), NEW a, WireInv(a), SkipCell
  PROVE  Reads(D, m, at)' /\ (Regular => ~ub')
<1>1. /\ PlaceInv(D, m, at) /\ AheadInv(m, at) /\ CountInv(D, m, at)
      /\ InHeader /\ WrongFlag /\ status_' = "head"
      /\ buffer_' = Copied(1) /\ write_pos_' = 0 /\ readpos' = readpos + 1
      /\ err_count_' = err_count_ + 1 /\ delivered' = delivered
      /\ Quiet
  BY DEF Reads, SkipCell, WrongFlag, InHeader, Quiet
<1>2. /\ Len(data) \in Nat /\ readpos \in Nat /\ readpos < Len(data)
      /\ D \subseteq Nat /\ m \in Nat /\ arrived \in Nat
  BY <1>1 DEF PlaceInv, Cut, InHeader
<1>3. sent' = sent /\ (AllGood' <=> AllGood)
  BY <1>1, QuietIs
<1>4. buffer_' \in Seq(Nat) /\ Len(buffer_') = Len(data)
  BY <1>1, <1>2, CopiedIs
<1>5. HeadAt(0)'
  BY <1>1 DEF HeadAt
<1>6. /\ Regular => ~ub'
      /\ \/ readpos \in D /\ readpos + 1 \in D
         \/ ~AllGood /\ \E k \in m..arrived : at[k] <= readpos /\ readpos < at[k] + Len(sent[k])
  BY <1>1, WrongFlagIs
<1> DEFINE There == \/ Between(D)'
                    \/ \E k \in m..arrived : Inside(at, k)' /\ (Synced(at, k)' \/ (Missed(at, k)' /\ ~AllGood))
<1>7. ASSUME readpos + 1 \in D PROVE There
  BY <1>1, <1>5, <1>7 DEF Between
<1>8. ASSUME ~AllGood, NEW k \in m..arrived, at[k] <= readpos, readpos < at[k] + Len(sent[k]) PROVE There
  <2>1. at[k] \in Nat /\ k \in 1..Len(sent) /\ at[k] + Len(sent[k]) \in D
    BY <1>1, InData
  <2>2. Len(sent[k]) \in Nat
    BY <2>1, SentIs
  <2>3. CASE readpos + 1 = at[k] + Len(sent[k])
    BY <1>7, <2>1, <2>3
  <2>4. CASE readpos + 1 # at[k] + Len(sent[k])
    <3> DEFINE l == at[k] + Len(sent[k])
    <3>1. at[k] < readpos + 1 /\ readpos + 1 < l
      <4>1. at[k] < readpos + 1
        BY <1>2, <1>8, <2>1
      <4>2. l \in Nat /\ readpos < l /\ readpos + 1 # l
        BY <1>8, <2>1, <2>2, <2>4
      <4> HIDE DEF l
      <4> QED
        BY <1>2, <4>1, <4>2
    <3>2. Inside(at, k)'
      BY <1>1, <1>3, <3>1 DEF Inside
    <3> QED
      BY <1>5, <1>8, <3>2 DEF Missed
  <2> QED
    BY <2>3, <2>4
<1> HIDE DEF There
<1>9. There
  BY <1>6, <1>7, <1>8
<1>10. PlaceInv(D, m, at)'
  <2>1. readpos' \in 0..Len(data) /\ write_pos_' \in Nat
    BY <1>1, <1>2
  <2> QED
    BY <1>1, <1>4, <1>9, <2>1, PlaceStays DEF There
<1>11. AheadInv(m, at)'
  BY <1>1, <1>2, AheadStays
<1>12. CountInv(D, m, at)'
  <2>1. CASE readpos \in D /\ readpos + 1 \in D
    BY <1>1, <2>1, CountStray
  <2>2. CASE ~AllGood
    BY <1>3, <2>2 DEF CountInv
  <2> QED
    BY <1>6, <2>1, <2>2
<1> QED
  BY <1>6, <1>10, <1>11, <1>12 DEF Reads

LEMMA HeadFlagsInvalidKeeps ==
  ASSUME SentInv, Premise, FlagsApart, NEW D, NEW m, NEW at, Reads(D, m, at), NEW a, WireInv(a), HeadFlagsInvalid
  PROVE  RestInv' /\ (Regular => ~ub')
<1>1. /\ PlaceInv(D, m, at) /\ AheadInv(m, at) /\ CountInv(D, m, at) /\ WrongFlag /\ ~(err_count_ < ErrLimit)
      /\ status_' = "head" /\ write_pos_' = 0 /\ UNCHANGED <<peerVars, delivered>>
  <2>1. err_count_ \in Nat /\ ErrLimit \in Nat
    BY ParserAssumption DEF SentInv
  <2> QED
    BY <2>1 DEF Reads, HeadFlagsInvalid, WrongFlag, InHeader
<1>2. /\ Regular => ~ub'
      /\ (readpos \in D /\ readpos + 1 \in D) \/ ~AllGood
  BY <1>1, WrongFlagIs
<1>3. ~AllGood
  BY <1>1, <1>2, StrayCounted
<1>4. HeadAt(0)'
  BY <1>1 DEF HeadAt
<1> QED
  BY <1>1, <1>2, <1>3, <1>4, Stops

\* A whole header in buffer_ is the one of the packet the parser is in.
LEMMA HeaderIs ==
  ASSUME SentInv, Premise, NEW D, NEW m, NEW at, PlaceInv(D, m, at), HeaderComplete
  PROVE  \E k \in m..arrived :
           /\ Inside(at, k) /\ Synced(at, k) /\ k \in 1..Len(sent)
           /\ write_pos_ = HeaderSize
           /\ Stream(buffer_, HeaderSize)[SizeOffset + 1] = sent[k][SizeOffset + 1]
           /\ SizeRead >= 0 => SizeRead = sent[k][SizeOffset + 1] /\ SizeRead < HalfRange
           /\ SizeRead < 0 => ~AllGood
<1>1. status_ = "head" /\ write_pos_ >= HeaderSize /\ HeaderSize > 1 /\ HeaderSize \in Nat /\ SizeOffset \in Nat
  BY ParserAssumption DEF HeaderComplete
<1>2. ~HeadAt(0) /\ ~HeadAt(1)
  BY <1>1 DEF HeadAt
<1>3. PICK k \in m..arrived : Inside(at, k) /\ Synced(at, k)
  BY <1>2 DEF PlaceInv, Between, Missed
<1>4. k \in 1..Len(sent) /\ at[k] \in Nat /\ readpos \in Nat /\ at[k] + Len(sent[k]) <= Len(data) /\ Len(data) \in Nat
  BY <1>3, InData, NextInside
<1>5. /\ Len(sent[k]) \in Nat /\ Len(sent[k]) > HeaderSize
      /\ sent[k][SizeOffset + 1] \in 0..(FullRange - 1)
      /\ AllGood => sent[k][SizeOffset + 1] < HalfRange
  BY <1>4, SentIs
<1>6. readpos - at[k] = HeaderSize /\ write_pos_ = HeaderSize /\ readpos < Len(data)
  <2>1. readpos <= at[k] + HeaderSize /\ write_pos_ = readpos - at[k]
    BY <1>3 DEF Synced
  <2>2. readpos < Len(data)
    BY <1>3, NextInside
  <2> DEFINE p == at[k]
  <2>3. p \in Nat /\ readpos <= p + HeaderSize /\ write_pos_ = readpos - p
    BY <1>4, <2>1
  <2> HIDE DEF p
  <2>4. readpos - p = HeaderSize /\ write_pos_ = HeaderSize
    BY <1>1, <1>4, <2>3
  <2> QED
    BY <2>2, <2>4 DEF p
<1>7. buffer_[SizeOffset + 1] = sent[k][SizeOffset + 1] /\ SizeOffset + 1 <= Len(buffer_) /\ SizeOffset + 1 \in 1..HeaderSize
  <2>1. SizeOffset + 1 \in 1..HeaderSize
    BY ParserAssumption
  <2>2. \A i \in 1..HeaderSize : buffer_[i] = sent[k][i]
    BY <1>3, <1>6 DEF Synced
  <2>3. Len(buffer_) = Len(data) /\ HeaderSize <= Len(data)
    BY <1>1, <1>4, <1>6 DEF PlaceInv
  <2> QED
    BY <1>1, <1>4, <2>1, <2>2, <2>3
<1> DEFINE size == sent[k][SizeOffset + 1]
<1>8. Stream(buffer_, HeaderSize)[SizeOffset + 1] = size
  BY <1>7 DEF Stream
<1>9. SizeRead = IF size < HalfRange THEN size ELSE size - FullRange
  BY <1>8 DEF SizeRead
<1>10. /\ SizeRead >= 0 => SizeRead = size /\ SizeRead < HalfRange
       /\ SizeRead < 0 => ~(size < HalfRange)
  <2>1. size \in 0..(FullRange - 1) /\ HalfRange \in Nat /\ FullRange \in Nat
    BY <1>5, ParserAssumption DEF FullRange
  <2> HIDE DEF size
  <2> QED
    BY <1>9, <2>1
<1> QED
  BY <1>3, <1>4, <1>5, <1>6, <1>8, <1>10

LEMMA AcceptSizeKeeps ==
  ASSUME SentInv, Premise, NEW D, NEW m, NEW at, Reads(D, m, at), AcceptSize
  PROVE  Reads(D, m, at)'
<1>1. /\ PlaceInv(D, m, at) /\ AheadInv(m, at) /\ CountInv(D, m, at)
      /\ HeaderComplete /\ SizeRead >= 0 /\ data_area_size_' = SizeRead /\ status_' = "data"
      /\ write_pos_' = write_pos_ /\ buffer_' = buffer_ /\ readpos' = readpos
      /\ err_count_' = err_count_ /\ delivered' = delivered
      /\ Quiet
  BY DEF Reads, AcceptSize, Quiet
<1>2. sent' = sent
  BY <1>1, QuietIs
<1>3. PICK k \in m..arrived :
           /\ Inside(at, k) /\ Synced(at, k) /\ write_pos_ = HeaderSize
           /\ SizeRead = sent[k][SizeOffset + 1] /\ SizeRead < HalfRange
  BY <1>1, HeaderIs
<1>4. Inside(at, k)'
  BY <1>1, <1>2, <1>3 DEF Inside
<1>5. Synced(at, k)'
  BY <1>1, <1>2, <1>3 DEF Synced
<1>6. /\ readpos' \in 0..Len(data) /\ readpos \in Nat /\ write_pos_' \in Nat
      /\ buffer_' \in Seq(Nat) /\ Len(buffer_') = Len(data) /\ D \subseteq Nat
  BY <1>1 DEF PlaceInv, Cut
<1>7. PlaceInv(D, m, at)'
  BY <1>1, <1>4, <1>5, <1>6, PlaceStays
<1>8. AheadInv(m, at)'
  BY <1>1, <1>6, AheadStays
<1>9. readpos' \in Nat /\ readpos <= readpos' /\ \A e \in D : ~(readpos < e /\ e <= readpos')
  BY <1>1, <1>6
<1>10. CountInv(D, m, at)'
  BY <1>1, <1>9, CountStays
<1> QED
  BY <1>7, <1>8, <1>10 DEF Reads

LEMMA FormatInvalidKeeps ==
  ASSUME SentInv, Premise, NEW D, NEW m, NEW at, Reads(D, m, at), FormatInvalid
  PROVE  RestInv'
<1>1. /\ PlaceInv(D, m, at) /\ AheadInv(m, at) /\ CountInv(D, m, at)
      /\ HeaderComplete /\ SizeRead < 0
      /\ status_' = "head" /\ write_pos_' = 0 /\ UNCHANGED <<peerVars, delivered>>
  BY DEF Reads, FormatInvalid, HeaderComplete, ForgetHeader
<1>2. ~AllGood
  BY <1>1, HeaderIs
<1>3. HeadAt(0)'
  BY <1>1 DEF HeadAt
<1> QED
  BY <1>1, <1>2, <1>3, Stops

LEMMA EndOfDataKeeps ==
  ASSUME SentInv, Premise, NEW D, NEW m, NEW at, Reads(D, m, at), NEW a, WireInv(a), EndOfData
  PROVE  RestInv'
<1>1. /\ PlaceInv(D, m, at) /\ AheadInv(m, at) /\ CountInv(D, m, at) /\ readpos = Len(data)
      /\ status_' = status_ /\ write_pos_' = write_pos_ /\ err_count_' = err_count_
      /\ UNCHANGED <<peerVars, delivered>>
  BY DEF Reads, EndOfData, parserVars
<1>2. \A k \in m..arrived : ~(readpos < at[k] + Len(sent[k]))
  <2> SUFFICES ASSUME NEW k \in m..arrived PROVE ~(readpos < at[k] + Len(sent[k]))
    OBVIOUS
  <2>1. at[k] \in Nat /\ k \in 1..Len(sent) /\ at[k] + Len(sent[k]) <= Len(data) /\ Len(data) \in Nat
    BY <1>1, InData
  <2>2. Len(sent[k]) \in Nat
    BY <2>1, SentIs
  <2> QED
    BY <1>1, <2>1, <2>2
<1>3. Between(D)
  BY <1>1, <1>2 DEF PlaceInv, Inside
<1>4. HeadAt(0)' \/ (HeadAt(1)' /\ W \in Range(strays))
  BY <1>1, <1>3 DEF Between, HeadAt
<1>5. AllGood => Unread(m, at) = {} /\ err_count_' + Cardinality(WireStrays) <= Len(strays)
  <2>1. Unread(m, at) = {}
    BY <1>2 DEF Unread
  <2>2. Cardinality(DataStrays(D)) \in Nat /\ Cardinality(WireStrays) \in Nat
    BY <1>1, StraysFinite
  <2>3. err_count_ \in Nat /\ Len(strays) \in Nat
    BY DEF SentInv
  <2>4. AllGood => err_count_ + Cardinality(DataStrays(D)) + Cardinality(WireStrays) <= Len(strays)
    BY <1>1 DEF CountInv
  <2> QED
    BY <1>1, <2>1, <2>2, <2>3, <2>4
<1> QED
  BY <1>1, <1>4, <1>5, Stops

\* In a body the parser is at the end of the header it follows, and data holds the
\* whole body.
LEMMA BodyIs ==
  ASSUME SentInv, Premise, NEW D, NEW m, NEW at, PlaceInv(D, m, at), InBody
  PROVE  \E k \in m..arrived :
           /\ Inside(at, k) /\ Synced(at, k) /\ k \in 1..Len(sent) /\ at[k] \in Nat /\ Len(sent[k]) \in Nat
           /\ at[k] + Len(sent[k]) <= Len(data) /\ at[k] + Len(sent[k]) \in D
           /\ write_pos_ = HeaderSize /\ readpos = at[k] + HeaderSize
           /\ Need = sent[k][SizeOffset + 1] /\ Need \in Nat
           /\ HeaderSize + Need <= Len(sent[k])
           /\ SizesFit => HeaderSize + Need = Len(sent[k])
           /\ Buffed >= Need
<1>1. status_ = "data" /\ HeaderSize \in Nat
  BY ParserAssumption DEF InBody
<1>2. ~HeadAt(0) /\ ~HeadAt(1)
  BY <1>1 DEF HeadAt
<1>3. PICK k \in m..arrived : Inside(at, k) /\ Synced(at, k)
  BY <1>2 DEF PlaceInv, Between, Missed
<1>4. /\ k \in 1..Len(sent) /\ at[k] \in Nat /\ readpos \in Nat
      /\ at[k] + Len(sent[k]) <= Len(data) /\ at[k] + Len(sent[k]) \in D /\ Len(data) \in Nat
  BY <1>3, InData, NextInside
<1>5. /\ Len(sent[k]) \in Nat /\ Len(sent[k]) > HeaderSize
      /\ sent[k][SizeOffset + 1] \in 0..(FullRange - 1)
      /\ sent[k][SizeOffset + 1] <= Len(sent[k]) - HeaderSize
      /\ SizesFit => sent[k][SizeOffset + 1] = Len(sent[k]) - HeaderSize
  BY <1>4, SentIs
<1>6. data_area_size_ = sent[k][SizeOffset + 1] /\ write_pos_ = HeaderSize /\ HeaderSize = readpos - at[k]
  BY <1>1, <1>3 DEF Synced
<1> DEFINE p == at[k]
           l == Len(sent[k])
           size == sent[k][SizeOffset + 1]
<1>7. size \in Nat
  BY <1>5, ParserAssumption DEF FullRange
<1>8. /\ readpos = p + HeaderSize
      /\ Need = size + HeaderSize - HeaderSize /\ Buffed = Len(data) - readpos
      /\ p \in Nat /\ l \in Nat /\ p + l <= Len(data) /\ size <= l - HeaderSize
      /\ SizesFit => size = l - HeaderSize
  <2>1. /\ Need = size + HeaderSize - HeaderSize /\ Buffed = Len(data) - readpos
        /\ p \in Nat /\ l \in Nat /\ p + l <= Len(data) /\ size <= l - HeaderSize
        /\ SizesFit => size = l - HeaderSize
    BY <1>4, <1>5, <1>6 DEF Need, Buffed
  <2>2. p \in Nat /\ HeaderSize = readpos - p
    BY <1>4, <1>6
  <2> HIDE DEF p, l, size
  <2>3. readpos = p + HeaderSize
    BY <1>1, <1>4, <2>2
  <2> QED
    BY <2>1, <2>3
<1> HIDE DEF p, l, size
<1>9. /\ Need = size /\ HeaderSize + size <= l /\ (SizesFit => HeaderSize + size = l) /\ Buffed >= size
  BY <1>1, <1>4, <1>7, <1>8
<1>10. /\ Need = size /\ Need \in Nat /\ HeaderSize + Need <= l /\ (SizesFit => HeaderSize + Need = l)
       /\ Buffed >= Need
  BY <1>7, <1>9
<1> QED
  BY <1>3, <1>4, <1>5, <1>6, <1>8, <1>10 DEF p, l, size

\* The whole packet is in buffer_ when its body is.
LEMMA WholeCopied ==
  ASSUME SentInv, Premise, NEW D, NEW m, NEW at, PlaceInv(D, m, at), NEW k \in m..arrived,
         Inside(at, k), Synced(at, k), Need \in Nat, write_pos_ = HeaderSize, readpos = at[k] + HeaderSize,
         HeaderSize + Need = Len(sent[k])
  PROVE  Stream(Copied(Need), write_pos_ + Need) = sent[k]
<1> DEFINE l == Len(sent[k])
           p == at[k]
           b == Copied(Need)
<1>1. /\ k \in 1..Len(sent) /\ p \in Nat /\ readpos \in Nat /\ p + l <= Len(data) /\ Len(data) \in Nat
      /\ \A i \in 1..l : data[p + i] = sent[k][i]
  <2>1. /\ k \in 1..Len(sent) /\ at[k] \in Nat /\ at[k] + Len(sent[k]) <= Len(data) /\ Len(data) \in Nat
        /\ \A i \in 1..Len(sent[k]) : data[at[k] + i] = sent[k][i]
    BY InData
  <2>2. readpos \in Nat
    BY NextInside
  <2> QED
    BY <2>1, <2>2
<1>2. sent[k] \in Seq(Nat) /\ l \in Nat /\ HeaderSize \in Nat /\ HeaderSize + Need = l
  BY <1>1, SentIs, ParserAssumption
<1>3. readpos = p + HeaderSize
  OBVIOUS
<1>4. \A i \in 1..HeaderSize : buffer_[i] = sent[k][i]
  <2>1. readpos - p = HeaderSize
    <3> HIDE DEF p
    <3> QED
      BY <1>1, <1>2, <1>3
  <2> QED
    BY <2>1 DEF Synced
<1>5. l <= Len(data) /\ readpos + Need <= Len(data)
  <2> HIDE DEF l, p
  <2> QED
    BY <1>1, <1>2, <1>3, SMTT(60)
<1>6. /\ b \in Seq(Nat) /\ Len(b) = Len(data)
      /\ \A i \in 1..Len(data) :
           b[i] = IF i \in (HeaderSize + 1)..(HeaderSize + Need) THEN data[readpos + i - HeaderSize] ELSE buffer_[i]
  BY <1>5, CopiedIs
<1> HIDE DEF b
<1>7. \A i \in 1..l : b[i] = sent[k][i] /\ i <= Len(b)
  <2> SUFFICES ASSUME NEW i \in 1..l PROVE b[i] = sent[k][i] /\ i <= Len(b)
    OBVIOUS
  <2>1. i \in 1..Len(data) /\ i \in Nat /\ i <= l
    <3> HIDE DEF l
    <3> QED
      BY <1>1, <1>2, <1>5
  <2>2. CASE i <= HeaderSize
    <3>1. i \in 1..HeaderSize /\ i \notin (HeaderSize + 1)..(HeaderSize + Need)
      BY <1>2, <2>1, <2>2
    <3> QED
      BY <1>4, <1>6, <2>1, <3>1
  <2>3. CASE ~(i <= HeaderSize)
    <3>1. i \in (HeaderSize + 1)..(HeaderSize + Need)
      <4> HIDE DEF l
      <4> QED
        BY <1>2, <2>1, <2>3
    <3>2. readpos + i - HeaderSize = p + i
      <4>1. p \in Nat /\ HeaderSize \in Nat /\ i \in Nat /\ readpos = p + HeaderSize
        BY <1>1, <1>2, <1>3, <2>1
      <4> HIDE DEF p
      <4>2. p + HeaderSize + i - HeaderSize = p + i
        BY <4>1
      <4> QED
        BY <4>1, <4>2
    <3>3. b[i] = data[p + i]
      BY <1>6, <2>1, <3>1, <3>2
    <3> QED
      BY <1>1, <1>6, <2>1, <3>3
  <2> QED
    BY <2>2, <2>3
<1>8. Stream(b, l) = [i \in 1..l |-> sent[k][i]]
  BY <1>7 DEF Stream
<1>9. sent[k] = [i \in 1..l |-> sent[k][i]]
  <2> DEFINE p1 == sent[k]
  <2>1. p1 \in Seq(Nat)
    BY <1>2
  <2> HIDE DEF p1
  <2>2. p1 = [i \in 1..Len(p1) |-> p1[i]]
    BY <2>1
  <2> QED
    BY <2>2 DEF p1
<1>10. write_pos_ + Need = l
  BY <1>2
<1> QED
  BY <1>8, <1>9, <1>10 DEF b

LEMMA NoBodyPart ==
  ASSUME SentInv, Premise, NEW D, NEW m, NEW at, Reads(D, m, at), BodyPart
  PROVE  FALSE
<1>1. PlaceInv(D, m, at) /\ InBody /\ Buffed < Need
  BY DEF Reads, BodyPart
<1>2. Buffed >= Need /\ Need \in Nat
  BY <1>1, BodyIs
<1>3. Buffed \in Int
  BY <1>1 DEF Buffed, PlaceInv, Cut
<1> QED
  BY <1>1, <1>2, <1>3

\* Of the packets in data those after the k-th end after it.
LEMMA LaterEnds ==
  ASSUME SentInv, Premise, NEW D, NEW m, NEW at, PlaceInv(D, m, at), NEW k \in m..arrived, NEW j \in m..arrived
  PROVE  at[k] + Len(sent[k]) < at[j] + Len(sent[j]) <=> k < j
<1>1. /\ k \in Nat /\ j \in Nat /\ at[k] \in Nat /\ at[j] \in Nat /\ k \in 1..Len(sent) /\ j \in 1..Len(sent)
  BY InData
<1>2. /\ Len(sent[k]) \in Nat /\ Len(sent[j]) \in Nat /\ Len(sent[j]) > 0 /\ Len(sent[k]) > 0
  <2>1. HeaderSize \in Nat
    BY ParserAssumption
  <2>2. \A i \in 1..Len(sent) : Len(sent[i]) \in Nat /\ Len(sent[i]) > HeaderSize
    BY SentIs
  <2> QED
    BY <1>1, <2>1, <2>2
<1>3. CASE k < j
  <2>1. at[k] + Len(sent[k]) <= at[j]
    BY <1>3, Order
  <2> QED
    BY <1>1, <1>2, <1>3, <2>1
<1>4. CASE j < k
  <2>1. at[j] + Len(sent[j]) <= at[k]
    BY <1>4, Order
  <2> QED
    BY <1>1, <1>2, <1>4, <2>1
<1>5. CASE j = k
  BY <1>1, <1>2, <1>5
<1> QED
  BY <1>1, <1>3, <1>4, <1>5

\* The k-th packet is delivered, which was the next one to be read.
LEMMA DeliversNext ==
  ASSUME SentInv, Premise, NEW D, NEW m, NEW at, PlaceInv(D, m, at), AheadInv(m, at), SizesFit, Quiet,
         NEW k \in m..arrived, Inside(at, k),
         delivered' = Append(delivered, sent[k]), readpos' = at[k] + Len(sent[k])
  PROVE  AheadInv(m, at)'
<1>1. /\ AsSent /\ \A i \in 1..Len(delivered), j \in Unread(m, at) : Number(delivered[i]) < j
  BY DEF AheadInv
<1>2. /\ sent' = sent /\ arrived' = arrived /\ k \in 1..Len(sent) /\ k \in Nat /\ k \in 1..arrived
      /\ at[k] \in Nat /\ at[k] + Len(sent[k]) \in Nat /\ readpos < readpos' /\ readpos \in Nat
  <2>1. k \in 1..Len(sent) /\ k \in Nat /\ at[k] \in Nat /\ m \in Nat /\ arrived \in Nat
    BY InData
  <2>2. Len(sent[k]) \in Nat
    BY <2>1, SentIs
  <2>3. readpos < readpos' /\ readpos \in Nat
    BY NextInside DEF Inside
  <2> QED
    BY <2>1, <2>2, <2>3, QuietIs
<1>3. sent[k] \in Seq(Nat) /\ Number(sent[k]) = k
  BY <1>2, SentIs
<1>4. k \in Unread(m, at)
  BY DEF Unread, Inside
<1> DEFINE d == Append(delivered, sent[k])
           n == Len(delivered)
<1>5. n \in Nat /\ delivered \in Seq(Seq(Nat))
  BY <1>1 DEF AsSent
<1>6. d \in Seq(Seq(Nat)) /\ Len(d) = n + 1 /\ d[n + 1] = sent[k] /\ \A i \in 1..n : d[i] = delivered[i]
  BY <1>3, <1>5
<1>7. \A i \in 1..n : Number(d[i]) \in 1..arrived /\ d[i] = sent[Number(d[i])] /\ Number(d[i]) < k
  BY <1>1, <1>4, <1>6 DEF AsSent
<1>8. \A i, j \in 1..n : i < j => Number(d[i]) < Number(d[j])
  BY <1>1, <1>6 DEF AsSent
<1> HIDE DEF d, n
<1>9. \A i \in 1..(n + 1) : i \in 1..n \/ i = n + 1
  BY <1>5
<1>10. \A i \in 1..(n + 1) : Number(d[i]) \in 1..arrived /\ d[i] = sent[Number(d[i])] /\ Number(d[i]) <= k
  <2>1. \A i \in 1..n : Number(d[i]) <= k
    <3>1. \A x \in 1..arrived : x < k => x <= k
      BY <1>2
    <3> QED
      BY <1>7, <3>1
  <2>2. Number(d[n + 1]) = k /\ d[n + 1] = sent[k] /\ k <= k
    BY <1>2, <1>3, <1>6
  <2> SUFFICES ASSUME NEW i \in 1..(n + 1)
               PROVE  Number(d[i]) \in 1..arrived /\ d[i] = sent[Number(d[i])] /\ Number(d[i]) <= k
    OBVIOUS
  <2>3. CASE i \in 1..n
    BY <1>7, <2>1, <2>3
  <2>4. CASE i = n + 1
    BY <1>2, <2>2, <2>4
  <2> QED
    BY <1>9, <2>3, <2>4
<1>11. \A i, j \in 1..(n + 1) : i < j => Number(d[i]) < Number(d[j])
  <2> SUFFICES ASSUME NEW i \in 1..(n + 1), NEW j \in 1..(n + 1), i < j PROVE Number(d[i]) < Number(d[j])
    OBVIOUS
  <2>1. i \in 1..n
    BY <1>5
  <2>2. CASE j = n + 1
    BY <1>3, <1>6, <1>7, <2>1, <2>2
  <2>3. CASE j \in 1..n
    BY <1>8, <2>1, <2>3
  <2> QED
    BY <1>9, <2>2, <2>3
<1>12. delivered' = d
  BY DEF d
<1>13. AsSent'
  BY <1>2, <1>6, <1>10, <1>11, <1>12 DEF AsSent, Number
<1>14. \A j \in Unread(m, at)' : k < j
  <2> SUFFICES ASSUME NEW j \in m..arrived, at[k] + Len(sent[k]) < at[j] + Len(sent[j]) PROVE k < j
    BY <1>2 DEF Unread
  <2> QED
    BY LaterEnds
<1>15. \A i \in 1..(n + 1), j \in Unread(m, at)' : Number(d[i]) < j
  <2> SUFFICES ASSUME NEW i \in 1..(n + 1), NEW j \in Unread(m, at)' PROVE Number(d[i]) < j
    OBVIOUS
  <2>1. j \in Int /\ k < j
    <3>1. j \in m..arrived
      BY <1>2 DEF Unread
    <3> QED
      BY <1>14, <3>1
  <2>2. Number(d[i]) <= k /\ Number(d[i]) \in Int
    BY <1>10
  <2> QED
    BY <1>2, <2>1, <2>2
<1>16. \A i \in 1..Len(delivered'), j \in Unread(m, at)' : Number(delivered'[i]) < j
  BY <1>6, <1>12, <1>15
<1> QED
  BY <1>13, <1>16 DEF AheadInv, Number

LEMMA CountsNext ==
  ASSUME SentInv, Premise, NEW D, NEW m, NEW at, PlaceInv(D, m, at), AheadInv(m, at), CountInv(D, m, at),
         AllGood, Quiet, NEW k \in m..arrived, Inside(at, k),
         delivered' = Append(delivered, sent[k]), readpos' = at[k] + Len(sent[k]), err_count_' = err_count_
  PROVE  CountInv(D, m, at)'
<1>1. /\ AllSoFar /\ m <= Len(delivered) + 1
      /\ \A j \in m..arrived : j \in Unread(m, at) <=> j > Len(delivered)
      /\ err_count_ + Cardinality(DataStrays(D)) + Cardinality(WireStrays) <= Len(strays)
  BY DEF CountInv
<1>2. AllGood => SizesFit
  BY ParserAssumption DEF AllGood, SizesFit, AllSizes, FullRange
<1>3. delivered \in Seq(Seq(Nat)) /\ Len(delivered) \in Nat
  BY <1>2 DEF AheadInv, AsSent
<1>4. /\ sent' = sent /\ arrived' = arrived /\ ends' = ends /\ strays' = strays
      /\ k \in 1..Len(sent) /\ k \in Nat /\ k <= arrived /\ arrived \in Nat /\ m \in Nat
  BY InData, QuietIs
<1>5. /\ at[k] \in Nat /\ Len(sent[k]) \in Nat /\ Len(sent[k]) >= 2
      /\ at[k] < readpos /\ readpos < at[k] + Len(sent[k])
  <2>1. at[k] \in Nat
    BY InData
  <2>2. Len(sent[k]) \in Nat /\ Len(sent[k]) >= 2
    BY <1>4, SentIs, ParserAssumption
  <2> QED
    BY <2>1, <2>2 DEF Inside
<1> DEFINE n == Len(delivered)
<1>6. k = n + 1
  <2>1. k > n
    BY <1>1, <1>5 DEF Unread
  <2> SUFFICES ASSUME n + 1 < k PROVE FALSE
    BY <1>3, <1>4, <2>1
  <2>2. n + 1 \in m..arrived /\ n + 1 > n
    BY <1>1, <1>3, <1>4
  <2> DEFINE j == n + 1
  <2>3. j \in m..arrived /\ j > n /\ j < k
    BY <2>2
  <2> HIDE DEF j
  <2>4. readpos < at[j] + Len(sent[j])
    BY <1>1, <2>3 DEF Unread
  <2>5. at[j] + Len(sent[j]) <= at[k]
    BY <2>3, Order
  <2>6. at[j] \in Nat /\ j \in 1..Len(sent) /\ readpos \in Nat
    BY <2>3, InData, NextInside
  <2>7. Len(sent[j]) \in Nat
    BY <2>6, SentIs
  <2> QED
    BY <1>5, <2>4, <2>5, <2>6, <2>7
<1>7. Len(delivered') = n + 1 /\ delivered'[n + 1] = sent[n + 1] /\ \A i \in 1..n : delivered'[i] = delivered[i]
  BY <1>3, <1>6
<1>8. AllSoFar'
  <2>1. \A i \in 1..(n + 1) : i \in 1..n \/ i = n + 1
    BY <1>3
  <2>2. \A i \in 1..n : delivered'[i] = sent[i]
    BY <1>1, <1>7 DEF AllSoFar
  <2> HIDE DEF n
  <2>3. \A i \in 1..(n + 1) : delivered'[i] = sent[i]
    BY <1>7, <2>1, <2>2
  <2> QED
    BY <1>4, <1>6, <1>7, <2>3 DEF AllSoFar
<1>9. \A j \in m..arrived : j \in Unread(m, at)' <=> j > n + 1
  <2> SUFFICES ASSUME NEW j \in m..arrived PROVE j \in Unread(m, at)' <=> k < j
    BY <1>3, <1>4, <1>6
  <2>1. at[k] + Len(sent[k]) < at[j] + Len(sent[j]) <=> k < j
    BY LaterEnds
  <2> QED
    BY <1>4, <2>1 DEF Unread
<1>10. DataStrays(D)' = DataStrays(D)
  <2>1. D \subseteq Nat /\ \A e \in D : e <= at[k] \/ e >= at[k] + Len(sent[k])
    <3>1. D \subseteq Nat
      BY DEF PlaceInv, Cut
    <3>2. \A e \in D : e <= at[k] \/ e >= at[k] + Len(sent[k])
      BY InData
    <3> QED
      BY <3>1, <3>2
  <2>2. readpos \in Nat
    BY NextInside
  <2> DEFINE p == at[k]
             l == Len(sent[k])
  <2>3. \A e \in D : e - 1 \in D => (e > readpos <=> e > p + l)
    <3>1. \A e \in D : e \in Nat /\ (e <= p \/ e >= p + l)
      BY <2>1
    <3>2. /\ p \in Nat /\ l \in Nat /\ l >= 2 /\ p < readpos /\ readpos < p + l
      BY <1>5
    <3> HIDE DEF p, l
    <3> SUFFICES ASSUME NEW e \in D, e - 1 \in D PROVE e > readpos <=> e > p + l
      OBVIOUS
    <3>3. e \in Nat /\ (e <= p \/ e >= p + l) /\ (e - 1 <= p \/ e - 1 >= p + l)
      BY <3>1
    <3> QED
      BY <2>2, <3>2, <3>3
  <2> QED
    BY <2>3 DEF DataStrays
<1>11. WireStrays' = WireStrays
  BY <1>4 DEF WireStrays
<1>12. m <= Len(delivered') + 1
  BY <1>1, <1>3, <1>4, <1>7
<1>13. \A j \in m..arrived : j \in Unread(m, at)' <=> j > Len(delivered')
  BY <1>7, <1>9
<1> QED
  BY <1>1, <1>4, <1>8, <1>10, <1>11, <1>12, <1>13 DEF CountInv

LEMMA BodyCompleteKeeps ==
  ASSUME SentInv, Premise, NEW D, NEW m, NEW at, Reads(D, m, at), BodyComplete
  PROVE  Reads(D, m, at)' /\ ~ub'
<1>1. /\ PlaceInv(D, m, at) /\ AheadInv(m, at) /\ CountInv(D, m, at) /\ InBody
      /\ buffer_' = Copied(Need) /\ ub' = Outside(Need)
      /\ delivered' = Append(delivered, Stream(Copied(Need), write_pos_ + Need))
      /\ readpos' = readpos + Need /\ err_count_' = err_count_
      /\ status_' = "head" /\ write_pos_' = 0
      /\ Quiet
  BY DEF Reads, BodyComplete, Clear, Quiet
<1>2. PICK k \in m..arrived :
           /\ Inside(at, k) /\ Synced(at, k) /\ k \in 1..Len(sent) /\ at[k] \in Nat /\ Len(sent[k]) \in Nat
           /\ at[k] + Len(sent[k]) <= Len(data) /\ at[k] + Len(sent[k]) \in D
           /\ write_pos_ = HeaderSize /\ readpos = at[k] + HeaderSize
           /\ Need \in Nat /\ HeaderSize + Need <= Len(sent[k])
           /\ SizesFit => HeaderSize + Need = Len(sent[k])
  BY <1>1, BodyIs
<1>3. /\ Len(data) \in Nat /\ HeaderSize \in Nat /\ readpos \in Nat /\ Len(buffer_) = Len(data)
      /\ (AllGood' <=> AllGood) /\ (SizesFit' <=> SizesFit) /\ sent' = sent
  BY <1>1, QuietIs, ParserAssumption DEF PlaceInv, Cut
<1> DEFINE p == at[k]
           l == Len(sent[k])
<1>4. /\ readpos' \in 0..Len(data) /\ readpos' \in Nat /\ readpos <= readpos'
      /\ SizesFit => readpos' = p + l
      /\ p < readpos' /\ readpos' <= p + l
      /\ readpos + Need <= Len(data)
      /\ HeaderSize + Need <= Len(data)
  <2>1. readpos' = p + HeaderSize + Need /\ readpos = p + HeaderSize /\ p < readpos
    BY <1>1, <1>2 DEF Inside
  <2>2. /\ p \in Nat /\ l \in Nat /\ Need \in Nat /\ p + l <= Len(data) /\ HeaderSize + Need <= l
        /\ SizesFit => HeaderSize + Need = l
    BY <1>2
  <2> HIDE DEF p, l
  <2> QED
    BY <1>3, <2>1, <2>2
<1>5. ~ub'
  <2>1. ~(HeaderSize + Need > Len(data))
    BY <1>2, <1>3, <1>4
  <2>2. ~Outside(Need)
    BY <1>2, <1>3, <2>1 DEF Outside
  <2> QED
    BY <1>1, <2>2
<1>6. buffer_' \in Seq(Nat) /\ Len(buffer_') = Len(data)
  BY <1>1, <1>2, <1>4, CopiedIs
<1>7. HeadAt(0)'
  BY <1>1 DEF HeadAt
<1>8. AllGood => SizesFit
  BY <1>2, SentIs
<1>9. \/ Between(D)'
      \/ Inside(at, k)' /\ Missed(at, k)' /\ ~AllGood
  <2>1. CASE readpos' = p + l
    BY <1>2, <1>7, <2>1 DEF Between
  <2>2. CASE readpos' # p + l
    <3>1. ~AllGood
      BY <1>4, <1>8, <2>2
    <3>2. readpos' < p + l
      <4>1. p + l \in Nat
        BY <1>2
      <4> HIDE DEF p, l
      <4> QED
        BY <1>4, <2>2, <4>1
    <3>3. Inside(at, k)'
      BY <1>3, <1>4, <3>2 DEF Inside
    <3> QED
      BY <1>7, <3>1, <3>3 DEF Missed
  <2> QED
    BY <2>1, <2>2
<1>10. PlaceInv(D, m, at)'
  BY <1>1, <1>4, <1>6, <1>9, PlaceStays
<1>11. SizesFit => delivered' = Append(delivered, sent[k]) /\ readpos' = at[k] + Len(sent[k])
  BY <1>1, <1>2, <1>4, WholeCopied
<1>12. AheadInv(m, at)'
  <2>1. CASE SizesFit
    BY <1>1, <1>2, <1>11, <2>1, DeliversNext
  <2>2. CASE ~SizesFit
    BY <1>3, <2>2 DEF AheadInv
  <2> QED
    BY <2>1, <2>2
<1>13. CountInv(D, m, at)'
  <2>1. CASE AllGood
    BY <1>1, <1>2, <1>8, <1>11, <2>1, CountsNext
  <2>2. CASE ~AllGood
    BY <1>3, <2>2 DEF CountInv
  <2> QED
    BY <2>1, <2>2
<1> QED
  BY <1>5, <1>10, <1>12, <1>13 DEF Reads

----------------------------------------------------------------------------
(* A read                                                                   *)

LEMMA StillOnWire ==
  ASSUME SentInv, Premise, NEW at, WireInv(at), NEW k \in (arrived + 1)..Len(sent)
  PROVE  /\ k \in 1..Len(sent) /\ k \in Nat /\ arrived \in Nat /\ Len(sent) \in Nat
         /\ at[k] \in Nat /\ at[k] \in ends \cup {0} /\ Len(wire) \in Nat
         /\ Len(sent[k]) \in Nat /\ Len(sent[k]) >= 2
         /\ at[k] + Len(sent[k]) \in ends /\ at[k] + Len(sent[k]) <= Len(wire)
         /\ \A e \in ends \cup {0} : e <= at[k] \/ e >= at[k] + Len(sent[k])
         /\ \A i \in 1..Len(sent[k]) : wire[at[k] + i] = sent[k][i]
         /\ \A j \in (arrived + 1)..Len(sent) : j < k => at[j] < at[k]
<1>1. /\ arrived \in 0..Len(sent) /\ Len(sent) \in Nat /\ Len(wire) \in Nat
      /\ ends \cup {0} \subseteq 0..Len(wire)
  BY DEF WireInv, Cut, SentInv
<1>2. PacketAt(wire, ends \cup {0}, at[k], k) /\ \A j \in (arrived + 1)..Len(sent) : j < k => at[j] < at[k]
  BY DEF WireInv, Cut
<1>3. /\ at[k] \in ends \cup {0} /\ at[k] + Len(sent[k]) \in ends \cup {0}
      /\ \A e \in ends \cup {0} : e <= at[k] \/ e >= at[k] + Len(sent[k])
      /\ \A i \in 1..Len(sent[k]) : wire[at[k] + i] = sent[k][i]
  BY <1>2 DEF PacketAt
<1>4. at[k] \in 0..Len(wire) /\ at[k] + Len(sent[k]) \in 0..Len(wire)
  BY <1>1, <1>3
<1>5. k \in 1..Len(sent) /\ k \in Nat /\ arrived \in Nat
  BY <1>1
<1>6. Len(sent[k]) \in Nat /\ Len(sent[k]) >= 2
  <2>1. HeaderSize \in Nat /\ HeaderSize >= 2
    BY ParserAssumption
  <2> QED
    BY <1>5, <2>1, SentIs
<1>7. at[k] + Len(sent[k]) \in ends
  BY <1>3, <1>4, <1>6
<1>8. at[k] \in Nat /\ at[k] + Len(sent[k]) <= Len(wire)
  BY <1>1, <1>4
<1> QED
  BY <1>1, <1>2, <1>3, <1>5, <1>6, <1>7, <1>8, ZenonT(60)

\* A read that ends where a unit does takes the packets up to the r-th.
Takes(at, n, r) ==
  /\ r \in arrived..Len(sent)
  /\ \A k \in (arrived + 1)..Len(sent) :
       (k <= r => at[k] + Len(sent[k]) <= n) /\ (k > r => at[k] >= n)

LEMMA TakesSome ==
  ASSUME SentInv, Premise, NEW at, WireInv(at), NEW n \in ends
  PROVE  \E r : Takes(at, n, r)
<1> DEFINE T == {x \in Nat : x > arrived /\ (x > Len(sent) \/ at[x] >= n)}
<1>1. arrived \in 0..Len(sent) /\ Len(sent) \in Nat /\ arrived \in Nat
  BY DEF WireInv, SentInv
<1>2. Len(sent) + 1 \in T
  BY <1>1
<1>3. PICK x \in T : \A y \in T : ~(<<y, x>> \in OpToRel(<, Nat))
  <2>1. T \subseteq Nat /\ T # {}
    BY <1>2
  <2> QED
    BY <2>1, NatLessThanWellFounded, WFMin
<1>4. \A y \in T : ~(y < x)
  BY <1>3 DEF OpToRel
<1>5. x \in Nat /\ x > arrived /\ x <= Len(sent) + 1 /\ (x > Len(sent) \/ at[x] >= n)
  BY <1>1, <1>2, <1>4
<1> HIDE DEF T
<1>6. ASSUME NEW k \in (arrived + 1)..Len(sent), k <= x - 1 PROVE at[k] + Len(sent[k]) <= n
  <2>1. n <= at[k] \/ n >= at[k] + Len(sent[k])
    BY StillOnWire
  <2>2. at[k] \in Nat /\ k \in Nat /\ Len(sent[k]) \in Nat
    BY StillOnWire
  <2>3. k \notin T
    BY <1>4, <1>5, <1>6, <2>2
  <2>4. ~(at[k] >= n)
    BY <1>1, <2>2, <2>3 DEF T
  <2>5. n \in Nat
    BY DEF WireInv, Cut
  <2> QED
    BY <2>1, <2>2, <2>4, <2>5
<1>7. ASSUME NEW k \in (arrived + 1)..Len(sent), k > x - 1 PROVE at[k] >= n
  <2>1. k \in Nat /\ k <= Len(sent) /\ at[k] \in Nat
    BY <1>1, StillOnWire
  <2>2. x \in (arrived + 1)..Len(sent) /\ at[x] >= n
    BY <1>1, <1>5, <1>7, <2>1
  <2>3. CASE k = x
    BY <2>2, <2>3
  <2>4. CASE k # x
    <3>1. x < k
      BY <1>5, <1>7, <2>1, <2>4
    <3>2. at[x] < at[k] /\ at[x] \in Nat
      BY <2>2, <3>1, StillOnWire
    <3>3. n \in Nat
      BY DEF WireInv, Cut
    <3> QED
      BY <2>1, <2>2, <3>2, <3>3
  <2> QED
    BY <2>3, <2>4
<1>8. x - 1 \in arrived..Len(sent)
  BY <1>1, <1>5
<1>9. Takes(at, n, x - 1)
  BY <1>6, <1>7, <1>8 DEF Takes
<1> QED
  BY <1>9

\* These are the packets whose ends the read counts.
LEMMA CountsPackets ==
  ASSUME SentInv, Premise, NEW at, WireInv(at), NEW n \in ends, NEW r, Takes(at, n, r)
  PROVE  arrived + Cardinality(PacketEnds(n)) = r
<1>1. /\ arrived \in 0..Len(sent) /\ Len(sent) \in Nat /\ arrived \in Nat /\ r \in arrived..Len(sent)
      /\ ends \subseteq Nat /\ r \in Nat /\ arrived <= r
  BY DEF WireInv, SentInv, Takes, Cut
<1> DEFINE S == (arrived + 1)..r
           f == [k \in S |-> at[k] + Len(sent[k])]
<1>2. S \subseteq (arrived + 1)..Len(sent)
  BY <1>1
<1>3. \A k \in S : at[k] + Len(sent[k]) \in PacketEnds(n)
  <2> SUFFICES ASSUME NEW k \in S PROVE at[k] + Len(sent[k]) \in PacketEnds(n)
    OBVIOUS
  <2>1. k \in (arrived + 1)..Len(sent) /\ k <= r
    BY <1>1, <1>2
  <2> DEFINE e == at[k] + Len(sent[k])
             p == at[k]
  <2>2. e \in ends /\ e <= n
    BY <2>1, StillOnWire DEF Takes
  <2>3. \A x \in ends \cup {0} : x <= at[k] \/ x >= at[k] + Len(sent[k])
    BY <2>1, StillOnWire
  <2>4. at[k] \in Nat /\ Len(sent[k]) \in Nat /\ Len(sent[k]) >= 2
    BY <2>1, StillOnWire
  <2>5. ~(e - 1 <= at[k] \/ e - 1 >= at[k] + Len(sent[k]))
    <3> DEFINE l == Len(sent[k])
    <3>1. p \in Nat /\ l \in Nat /\ l >= 2 /\ e = p + l
      BY <2>4
    <3> SUFFICES ~(e - 1 <= p \/ e - 1 >= p + l)
      OBVIOUS
    <3> HIDE DEF e, p, l
    <3> QED
      BY <3>1
  <2>6. e - 1 \notin ends \cup {0}
    BY <2>3, <2>5, Zenon
  <2> HIDE DEF e
  <2>7. e \in PacketEnds(n)
    BY <2>2, <2>6 DEF PacketEnds
  <2> QED
    BY <2>7 DEF e
<1>4. \A e \in PacketEnds(n) : \E k \in S : at[k] + Len(sent[k]) = e
  <2> SUFFICES ASSUME NEW e \in PacketEnds(n) PROVE \E k \in S : at[k] + Len(sent[k]) = e
    OBVIOUS
  <2>1. e \in ends /\ e <= n /\ ~(e - 1 \in ends \cup {0} /\ wire[e] \in Noise)
    BY DEF PacketEnds
  <2>2. \/ e = 0
        \/ \E k \in (arrived + 1)..Len(sent) : at[k] + Len(sent[k]) = e
        \/ StrayBefore(wire, ends \cup {0}, e)
    BY <2>1 DEF WireInv, Cut
  <2>3. ~StrayBefore(wire, ends \cup {0}, e)
    BY <2>1, StraysAre DEF StrayBefore
  <2>4. e # 0
    <3>1. 0 \notin ends
      BY DEF WireInv
    <3> QED
      BY <2>1, <3>1
  <2>5. PICK k \in (arrived + 1)..Len(sent) : at[k] + Len(sent[k]) = e
    BY <2>2, <2>3, <2>4
  <2>6. k \in Nat /\ at[k] \in Nat /\ Len(sent[k]) \in Nat /\ Len(sent[k]) >= 2
    BY StillOnWire
  <2>7. ~(at[k] >= n)
    <3>1. n \in Nat /\ e \in Nat
      BY <1>1, <2>1
    <3> QED
      BY <2>1, <2>5, <2>6, <3>1
  <2>8. k <= r
    BY <1>1, <2>6, <2>7 DEF Takes
  <2> QED
    BY <1>1, <2>5, <2>6, <2>8
<1>5. \A j, k \in S : j # k => at[j] + Len(sent[j]) # at[k] + Len(sent[k])
  <2>1. ASSUME NEW j \in S, NEW k \in S, j < k PROVE at[j] + Len(sent[j]) # at[k] + Len(sent[k])
    <3>1. /\ at[j] \in Nat /\ at[k] \in Nat /\ Len(sent[j]) \in Nat /\ Len(sent[k]) \in Nat /\ Len(sent[k]) >= 2
          /\ at[k] \in ends \cup {0}
      BY <1>2, StillOnWire
    <3>2. at[j] < at[k] /\ (at[k] <= at[j] \/ at[k] >= at[j] + Len(sent[j]))
      <4>1. \A x \in ends \cup {0} : x <= at[j] \/ x >= at[j] + Len(sent[j])
        BY <1>2, StillOnWire
      <4>2. at[j] < at[k]
        BY <1>2, <2>1, StillOnWire
      <4> QED
        BY <3>1, <4>1, <4>2
    <3> QED
      BY <3>1, <3>2
  <2>2. \A j, k \in S : j # k => j < k \/ k < j
    BY <1>1
  <2> QED
    BY <2>1, <2>2
<1> HIDE DEF S
<1>6. f \in Bijection(S, PacketEnds(n))
  BY <1>3, <1>4, <1>5 DEF Bijection, Injection, Surjection, IsInjective
<1>7. IsFiniteSet(S) /\ Cardinality(S) = r - arrived
  <2>1. /\ IsFiniteSet((arrived + 1)..r)
        /\ Cardinality((arrived + 1)..r) = IF arrived + 1 > r THEN 0 ELSE r - (arrived + 1) + 1
    <3>1. arrived + 1 \in Int /\ r \in Int
      BY <1>1
    <3> QED
      BY <3>1, FS_Interval
  <2>2. (IF arrived + 1 > r THEN 0 ELSE r - (arrived + 1) + 1) = r - arrived
    BY <1>1
  <2> QED
    BY <2>1, <2>2 DEF S
<1>8. Cardinality(PacketEnds(n)) = Cardinality(S)
  <2>1. ExistsBijection(S, PacketEnds(n))
    BY <1>6 DEF ExistsBijection
  <2> QED
    BY <1>7, <2>1, FS_Bijection
<1> QED
  BY <1>1, <1>7, <1>8

\* The places of the packets on wire once n cells are read.
After(at, n) == [k \in Nat |-> at[k] - n]

\* What is read is cut as it was on wire.
LEMMA DataCut ==
  ASSUME SentInv, Premise, NEW at, WireInv(at), NEW n \in ends, NEW r, Takes(at, n, r)
  PROVE  /\ Cut(SubSeq(wire, 1, n), {e \in ends \cup {0} : e <= n}, arrived + 1, r, at)
         /\ Len(SubSeq(wire, 1, n)) = n /\ n \in Nat /\ n >= 1
<1> DEFINE s == SubSeq(wire, 1, n)
           E == ends \cup {0}
           D == {e \in E : e <= n}
<1>1. /\ wire \in Seq(Nat) /\ Len(wire) \in Nat /\ E \subseteq 0..Len(wire) /\ 0 \notin ends
      /\ arrived \in Nat /\ r \in Nat /\ r <= Len(sent) /\ Len(sent) \in Nat
  BY DEF WireInv, Cut, SentInv, Takes
<1>2. n \in 1..Len(wire) /\ n \in Nat /\ n >= 1 /\ n \in E
  BY <1>1
<1>3. s \in Seq(Nat) /\ Len(s) = n /\ \A i \in 1..n : s[i] = wire[i]
  BY <1>1, <1>2
<1>4. ASSUME NEW k \in (arrived + 1)..r
      PROVE  k \in (arrived + 1)..Len(sent) /\ k \in Nat /\ PacketAt(s, D, at[k], k)
  <2>1. k \in (arrived + 1)..Len(sent) /\ k <= r /\ k \in Nat
    BY <1>1
  <2>2. at[k] + Len(sent[k]) <= n
    BY <2>1 DEF Takes
  <2>3. /\ at[k] \in Nat /\ at[k] \in E /\ Len(sent[k]) \in Nat /\ Len(sent[k]) >= 2
        /\ at[k] + Len(sent[k]) \in E
        /\ \A e \in E : e <= at[k] \/ e >= at[k] + Len(sent[k])
        /\ \A i \in 1..Len(sent[k]) : wire[at[k] + i] = sent[k][i]
    BY <2>1, StillOnWire, SMTT(60)
  <2>4. at[k] \in D /\ at[k] + Len(sent[k]) \in D
    BY <1>2, <2>2, <2>3
  <2>5. \A i \in 1..Len(sent[k]) : at[k] + i \in 1..n
    BY <1>2, <2>2, <2>3
  <2> QED
    BY <1>3, <2>1, <2>3, <2>4, <2>5 DEF PacketAt
<1>5. ASSUME NEW d \in D
      PROVE  d = n \/ (\E k \in (arrived + 1)..r : at[k] = d) \/ (d + 1 \in D /\ StrayBefore(s, D, d + 1))
  <2>1. d \in E /\ d <= n /\ d \in Nat
    BY <1>1
  <2> SUFFICES ASSUME d < n
               PROVE  (\E k \in (arrived + 1)..r : at[k] = d) \/ (d + 1 \in D /\ StrayBefore(s, D, d + 1))
    BY <1>2, <2>1
  <2>2. \/ d = Len(wire) \/ (\E k \in (arrived + 1)..Len(sent) : at[k] = d)
        \/ (d + 1 \in E /\ StrayBefore(wire, E, d + 1))
    BY <2>1 DEF WireInv, Cut
  <2>3. ASSUME NEW k \in (arrived + 1)..Len(sent), at[k] = d PROVE k \in (arrived + 1)..r
    <3>1. k \in Nat
      BY StillOnWire
    <3>2. ~(k > r)
      BY <1>2, <2>1, <2>3 DEF Takes
    <3> QED
      BY <1>1, <3>1, <3>2
  <2>4. ASSUME d + 1 \in E, StrayBefore(wire, E, d + 1) PROVE d + 1 \in D /\ StrayBefore(s, D, d + 1)
    <3>1. d + 1 <= n /\ d + 1 \in 1..n /\ d + 1 - 1 = d
      BY <1>2, <2>1
    <3>2. wire[d + 1] \in Range(strays)
      BY <2>4 DEF StrayBefore
    <3>3. s[d + 1] \in Range(strays)
      BY <1>3, <3>1, <3>2
    <3> QED
      BY <2>1, <2>4, <3>1, <3>3 DEF StrayBefore
  <2> QED
    BY <1>2, <2>1, <2>2, <2>3, <2>4
<1>6. ASSUME NEW e \in D
      PROVE  e = 0 \/ (\E k \in (arrived + 1)..r : at[k] + Len(sent[k]) = e) \/ StrayBefore(s, D, e)
  <2>1. e \in E /\ e <= n /\ e \in Nat
    BY <1>1
  <2>2. \/ e = 0 \/ (\E k \in (arrived + 1)..Len(sent) : at[k] + Len(sent[k]) = e)
        \/ StrayBefore(wire, E, e)
    BY <2>1 DEF WireInv, Cut
  <2>3. ASSUME NEW k \in (arrived + 1)..Len(sent), at[k] + Len(sent[k]) = e PROVE k \in (arrived + 1)..r
    <3>1. k \in Nat /\ at[k] \in Nat /\ Len(sent[k]) \in Nat /\ Len(sent[k]) >= 2
      BY StillOnWire
    <3>2. ~(at[k] >= n)
      BY <1>2, <2>1, <2>3, <3>1
    <3>3. ~(k > r)
      BY <3>2 DEF Takes
    <3> QED
      BY <1>1, <3>1, <3>3
  <2>4. ASSUME e # 0, StrayBefore(wire, E, e) PROVE StrayBefore(s, D, e)
    <3>1. e \in 1..n /\ e - 1 <= n
      BY <1>2, <2>1, <2>4
    <3>2. wire[e] \in Range(strays) /\ e - 1 \in E
      BY <2>4 DEF StrayBefore
    <3>3. s[e] \in Range(strays)
      BY <1>3, <3>1, <3>2
    <3>4. e - 1 \in D
      BY <3>1, <3>2
    <3> QED
      BY <3>3, <3>4 DEF StrayBefore
  <2> QED
    BY <2>2, <2>3, <2>4
<1>7. D \in SUBSET (0..n) /\ {0, n} \subseteq D
  <2>1. \A e \in D : e \in 0..n
    BY <1>1, <1>2
  <2>2. 0 \in D /\ n \in D
    BY <1>2
  <2> HIDE DEF D
  <2> QED
    BY <2>1, <2>2
<1>8. \A j, k \in (arrived + 1)..r : j < k => at[j] < at[k]
  BY <1>4, StillOnWire
<1> HIDE DEF s, D, E
<1>9. Cut(s, D, arrived + 1, r, at)
  BY <1>3, <1>4, <1>5, <1>6, <1>7, <1>8 DEF Cut
<1> QED
  BY <1>2, <1>3, <1>9 DEF s, D, E

\* So is what stays on wire.
LEMMA WireCut ==
  ASSUME SentInv, Premise, NEW at, WireInv(at), NEW n \in ends, NEW r, Takes(at, n, r)
  PROVE  /\ Cut(SubSeq(wire, n + 1, Len(wire)), {e - n : e \in {x \in ends : x > n}} \cup {0}, r + 1, Len(sent),
                After(at, n))
         /\ \A e : e \in {x - n : x \in {y \in ends : y > n}} \cup {0} <=> e \in Nat /\ e + n \in ends
         /\ 0 \notin {x - n : x \in {y \in ends : y > n}}
<1> DEFINE w == Len(wire)
           s == SubSeq(wire, n + 1, w)
           E == ends \cup {0}
           F == {e - n : e \in {x \in ends : x > n}} \cup {0}
           to == After(at, n)
<1>1. /\ wire \in Seq(Nat) /\ w \in Nat /\ E \subseteq 0..w /\ 0 \notin ends /\ ends \subseteq Nat
      /\ arrived \in Nat /\ r \in Nat /\ r >= arrived /\ r <= Len(sent) /\ Len(sent) \in Nat /\ w \in E
  BY DEF WireInv, Cut, SentInv, Takes
<1>2. n \in 1..w /\ n \in Nat /\ n >= 1 /\ w \in ends /\ w - n \in Nat
  BY <1>1
<1>3. /\ s \in Seq(Nat) /\ Len(s) = w - n /\ \A i \in 1..(w - n) : s[i] = wire[n + i]
  <2>1. /\ s \in Seq(Nat) /\ Len(s) = IF n + 1 <= w THEN w - (n + 1) + 1 ELSE 0
        /\ \A i \in 1..(w - (n + 1) + 1) : s[i] = wire[n + 1 + i - 1]
    <3>1. \A i \in (n + 1)..w : wire[i] \in Nat
      BY <1>1, <1>2
    <3>2. n + 1 \in Int /\ w \in Int
      BY <1>1, <1>2
    <3> HIDE DEF w
    <3> QED
      BY <3>1, <3>2, SubSeqProperties
  <2>2. \A i \in 1..(w - n) : n + 1 + i - 1 = n + i
    BY <1>2
  <2>3. w - (n + 1) + 1 = w - n /\ (~(n + 1 <= w) => w - n = 0)
    BY <1>1, <1>2
  <2> HIDE DEF s, w
  <2> QED
    BY <2>1, <2>2, <2>3
<1>4. \A e : e \in F <=> e \in Nat /\ e + n \in ends
  <2>1. ASSUME NEW e \in F PROVE e \in Nat /\ e + n \in ends
    <3>1. CASE e = 0
      BY <1>2, <3>1
    <3>2. ASSUME NEW x \in ends, x > n, e = x - n PROVE e \in Nat /\ e + n \in ends
      BY <1>1, <1>2, <3>2
    <3> QED
      BY <3>1, <3>2
  <2>2. ASSUME NEW e \in Nat, e + n \in ends PROVE e \in F
    <3>1. CASE e = 0
      BY <3>1
    <3>2. CASE e # 0
      <4>1. e + n > n /\ e = (e + n) - n
        BY <1>2, <3>2
      <4> QED
        BY <2>2, <4>1
    <3> QED
      BY <3>1, <3>2
  <2> QED
    BY <2>1, <2>2
<1>5. 0 \notin {e - n : e \in {x \in ends : x > n}}
  BY <1>1, <1>2
<1> HIDE DEF F, s
<1>6. ASSUME NEW k \in (r + 1)..Len(sent)
      PROVE  /\ k \in (arrived + 1)..Len(sent) /\ k \in Nat /\ at[k] \in Nat /\ at[k] >= n
             /\ to[k] = at[k] - n /\ Len(sent[k]) \in Nat /\ Len(sent[k]) >= 2
  <2>1. k \in (arrived + 1)..Len(sent) /\ k > r /\ k \in Nat
    BY <1>1
  <2>2. at[k] \in Nat /\ Len(sent[k]) \in Nat /\ Len(sent[k]) >= 2
    BY <2>1, StillOnWire
  <2> QED
    BY <2>1, <2>2 DEF Takes, After
<1> HIDE DEF to
<1>7. ASSUME NEW k \in (r + 1)..Len(sent) PROVE PacketAt(s, F, to[k], k)
  <2> DEFINE p == at[k]
             l == Len(sent[k])
  <2>1. /\ p \in Nat /\ p >= n /\ to[k] = p - n /\ l \in Nat /\ l >= 2 /\ k \in (arrived + 1)..Len(sent)
    BY <1>6
  <2>2. /\ p \in E /\ p + l \in ends /\ p + l <= w
        /\ \A e \in E : e <= p \/ e >= p + l
        /\ \A i \in 1..l : wire[p + i] = sent[k][i]
    BY <2>1, StillOnWire, SMTT(60)
  <2> HIDE DEF p, l, w
  <2>3. p - n \in Nat /\ (p - n) + n = p /\ p \in ends /\ (p - n) + l \in Nat /\ ((p - n) + l) + n = p + l
    <3>1. p \in ends
      BY <1>2, <2>1, <2>2
    <3>2. p - n \in Nat /\ (p - n) + n = p /\ (p - n) + l \in Nat /\ ((p - n) + l) + n = p + l
      BY <1>2, <2>1
    <3> QED
      BY <3>1, <3>2
  <2>4. p - n \in F /\ (p - n) + l \in F
    <3>1. ((p - n) + l) + n \in ends /\ (p - n) + n \in ends
      BY <2>2, <2>3
    <3> QED
      BY <1>4, <2>3, <3>1
  <2>5. \A e \in F : e <= p - n \/ e >= (p - n) + l
    <3> SUFFICES ASSUME NEW e \in F PROVE e <= p - n \/ e >= (p - n) + l
      OBVIOUS
    <3>1. e \in Nat /\ e + n \in E
      BY <1>4
    <3>2. e + n <= p \/ e + n >= p + l
      BY <2>2, <3>1
    <3> QED
      BY <1>2, <2>1, <3>1, <3>2
  <2>6. \A i \in 1..l : s[(p - n) + i] = sent[k][i]
    <3> SUFFICES ASSUME NEW i \in 1..l PROVE s[(p - n) + i] = sent[k][i]
      OBVIOUS
    <3>1. (p - n) + i \in 1..(w - n) /\ n + ((p - n) + i) = p + i
      BY <1>1, <1>2, <2>1, <2>2
    <3>2. s[(p - n) + i] = wire[n + ((p - n) + i)]
      BY <1>3, <3>1 DEF w
    <3> QED
      BY <2>2, <3>1, <3>2
  <2> QED
    BY <2>1, <2>4, <2>5, <2>6 DEF PacketAt, l
<1>8. \A j, k \in (r + 1)..Len(sent) : j < k => to[j] < to[k]
  <2> SUFFICES ASSUME NEW j \in (r + 1)..Len(sent), NEW k \in (r + 1)..Len(sent), j < k PROVE to[j] < to[k]
    OBVIOUS
  <2>1. at[j] < at[k]
    BY <1>6, StillOnWire
  <2>2. /\ at[j] \in Nat /\ to[j] = at[j] - n
        /\ at[k] \in Nat /\ to[k] = at[k] - n
    BY <1>6
  <2> QED
    BY <1>2, <2>1, <2>2
<1>9. ASSUME NEW d \in F
      PROVE  d = w - n \/ (\E k \in (r + 1)..Len(sent) : to[k] = d) \/ (d + 1 \in F /\ StrayBefore(s, F, d + 1))
  <2>1. d \in Nat /\ d + n \in ends /\ d + n \in E
    BY <1>4
  <2>2. \/ d + n = w \/ (\E k \in (arrived + 1)..Len(sent) : at[k] = d + n)
        \/ (d + n + 1 \in E /\ StrayBefore(wire, E, d + n + 1))
    BY <2>1 DEF WireInv, Cut
  <2>3. ASSUME NEW k \in (arrived + 1)..Len(sent), at[k] = d + n
        PROVE  k \in (r + 1)..Len(sent) /\ to[k] = d
    <3>1. k \in Nat /\ k <= Len(sent) /\ Len(sent[k]) \in Nat /\ Len(sent[k]) >= 2 /\ at[k] \in Nat
      BY StillOnWire
    <3>2. ~(at[k] + Len(sent[k]) <= n)
      <4> DEFINE l == Len(sent[k])
                 p == at[k]
      <4>1. p \in Nat /\ l \in Nat /\ l >= 2 /\ p = d + n
        BY <2>3, <3>1
      <4> HIDE DEF l, p
      <4>2. ~(p + l <= n)
        BY <1>2, <2>1, <4>1
      <4> QED
        BY <4>2 DEF l, p
    <3>3. ~(k <= r)
      BY <3>2 DEF Takes
    <3>4. k \in (r + 1)..Len(sent)
      BY <1>1, <3>1, <3>3
    <3>5. to[k] = at[k] - n
      BY <1>6, <3>4
    <3> QED
      BY <1>2, <2>1, <2>3, <3>4, <3>5
  <2>4. ASSUME d + n + 1 \in E, StrayBefore(wire, E, d + n + 1) PROVE d + 1 \in F /\ StrayBefore(s, F, d + 1)
    <3>1. d + n + 1 \in ends /\ (d + 1) + n = d + n + 1 /\ d + 1 \in Nat /\ (d + 1) - 1 = d
          /\ d + 1 \in 1..(w - n) /\ n + (d + 1) = d + n + 1
      BY <1>1, <1>2, <2>1, <2>4
    <3>2. d + 1 \in F
      BY <1>4, <3>1
    <3>3. wire[d + n + 1] \in Range(strays)
      BY <2>4 DEF StrayBefore
    <3>4. s[d + 1] \in Range(strays)
      BY <1>3, <3>1, <3>3
    <3> QED
      BY <3>1, <3>2, <3>4 DEF StrayBefore
  <2>5. d + n = w => d = w - n
    BY <1>1, <1>2, <2>1
  <2> QED
    BY <2>2, <2>3, <2>4, <2>5
<1>10. ASSUME NEW e \in F
       PROVE  e = 0 \/ (\E k \in (r + 1)..Len(sent) : to[k] + Len(sent[k]) = e) \/ StrayBefore(s, F, e)
  <2>1. e \in Nat /\ e + n \in ends /\ e + n \in E
    BY <1>4
  <2> SUFFICES ASSUME e # 0
               PROVE  (\E k \in (r + 1)..Len(sent) : to[k] + Len(sent[k]) = e) \/ StrayBefore(s, F, e)
    OBVIOUS
  <2>2. \/ e + n = 0 \/ (\E k \in (arrived + 1)..Len(sent) : at[k] + Len(sent[k]) = e + n)
        \/ StrayBefore(wire, E, e + n)
    BY <2>1 DEF WireInv, Cut
  <2>3. ASSUME NEW k \in (arrived + 1)..Len(sent), at[k] + Len(sent[k]) = e + n
        PROVE  k \in (r + 1)..Len(sent) /\ to[k] + Len(sent[k]) = e
    <3>1. k \in Nat /\ k <= Len(sent) /\ Len(sent[k]) \in Nat /\ at[k] \in Nat
      BY StillOnWire
    <3>2. ~(at[k] + Len(sent[k]) <= n)
      BY <1>2, <2>1, <2>3
    <3>3. ~(k <= r)
      BY <3>2 DEF Takes
    <3>4. k \in (r + 1)..Len(sent)
      BY <1>1, <3>1, <3>3
    <3>5. to[k] = at[k] - n
      BY <1>6, <3>4
    <3> DEFINE p == at[k]
               l == Len(sent[k])
               q == to[k]
    <3>6. p \in Nat /\ l \in Nat /\ p + l = e + n /\ q = p - n
      BY <2>3, <3>1, <3>5
    <3> HIDE DEF p, l, q
    <3>7. q + l = e
      BY <1>2, <2>1, <3>6
    <3> QED
      BY <3>4, <3>7 DEF l, q
  <2>4. ASSUME StrayBefore(wire, E, e + n) PROVE StrayBefore(s, F, e)
    <3>1. (e + n) - 1 \in E /\ wire[e + n] \in Range(strays)
      BY <2>4 DEF StrayBefore
    <3>2. e - 1 \in Nat /\ (e - 1) + n = (e + n) - 1 /\ (e + n) - 1 \in ends /\ e \in 1..(w - n) /\ n + e = e + n
      BY <1>1, <1>2, <2>1, <3>1
    <3>3. e - 1 \in F
      BY <1>4, <3>2
    <3>4. s[e] \in Range(strays)
      BY <1>3, <3>1, <3>2
    <3> QED
      BY <3>3, <3>4 DEF StrayBefore
  <2> QED
    BY <1>2, <2>1, <2>2, <2>3, <2>4
<1>11. F \in SUBSET (0..(w - n)) /\ {0, w - n} \subseteq F
  <2>1. \A e \in F : e \in 0..(w - n)
    <3> SUFFICES ASSUME NEW e \in F PROVE e \in 0..(w - n)
      OBVIOUS
    <3>1. e \in Nat /\ e + n \in 0..w
      BY <1>1, <1>4
    <3> QED
      BY <1>1, <1>2, <3>1
  <2>2. 0 + n \in ends /\ (w - n) + n \in ends
    BY <1>1, <1>2
  <2>3. 0 \in F /\ w - n \in F
    BY <1>2, <1>4, <2>2
  <2> QED
    BY <2>1, <2>3
<1> HIDE DEF w
<1>12. Cut(s, F, r + 1, Len(sent), to)
  BY <1>3, <1>7, <1>8, <1>9, <1>10, <1>11 DEF Cut
<1> QED
  BY <1>4, <1>5, <1>12 DEF s, F, w, to

\* What a read of n cells takes of wire and leaves: the ends D and R, the stray cells
\* S and U.
Parts(n, D, R, S, U) ==
  /\ 0 \notin R
  /\ \A e : e \in D <=> e \in ends \cup {0} /\ e <= n
  /\ \A e : e \in R \cup {0} <=> e \in Nat /\ e + n \in ends
  /\ \A e : e \in S <=> e \in D /\ e - 1 \in D /\ e > 0
  /\ \A e : e \in U <=> e \in R /\ e - 1 \in R \cup {0}

\* Each stray cell is read or stays on wire.
LEMMA StraysSplit ==
  ASSUME NEW at, WireInv(at), NEW n \in ends, NEW D, NEW R, NEW S, NEW U, Parts(n, D, R, S, U)
  PROVE  /\ Cardinality(S) + Cardinality(U) = Cardinality(WireStrays)
         /\ Cardinality(S) \in Nat /\ Cardinality(U) \in Nat
<1> DEFINE T == {e \in WireStrays : e > n}
           f == [e \in T |-> e - n]
<1>0. /\ 0 \notin R
      /\ \A e : e \in D <=> e \in ends \cup {0} /\ e <= n
      /\ \A e : e \in R \cup {0} <=> e \in Nat /\ e + n \in ends
      /\ \A e : e \in S <=> e \in D /\ e - 1 \in D /\ e > 0
      /\ \A e : e \in U <=> e \in R /\ e - 1 \in R \cup {0}
  BY DEF Parts
<1>1. 0 \notin ends /\ ends \subseteq Nat /\ n \in Nat /\ n >= 1
  BY DEF WireInv, Cut
<1>2. IsFiniteSet(WireStrays) /\ Cardinality(WireStrays) \in Nat
  BY StraysFinite
<1>3. S = {e \in WireStrays : e <= n}
  <2>1. ASSUME NEW e \in S PROVE e \in WireStrays /\ e <= n
    <3>1. e \in D /\ e - 1 \in D /\ e > 0
      BY <1>0
    <3>2. e \in ends \cup {0} /\ e <= n /\ e - 1 \in ends \cup {0}
      BY <1>0, <3>1
    <3> QED
      BY <1>1, <3>1, <3>2 DEF WireStrays
  <2>2. ASSUME NEW e \in WireStrays, e <= n PROVE e \in S
    BY <1>0, <1>1, <2>2 DEF WireStrays
  <2> QED
    BY <2>1, <2>2
<1>4. S \cup T = WireStrays /\ S \cap T = {}
  <2>1. WireStrays \subseteq Nat
    BY <1>1 DEF WireStrays
  <2>2. \A e \in WireStrays : ~(e <= n) <=> e > n
    BY <1>1, <2>1
  <2> QED
    BY <1>3, <2>2
<1>5. R \subseteq Nat /\ \A e \in Nat : e # 0 => (e \in R <=> e + n \in ends)
  BY <1>0
<1>6. \A e \in T : e - n \in U
  <2> SUFFICES ASSUME NEW e \in T PROVE e - n \in U
    OBVIOUS
  <2>1. e \in ends /\ e - 1 \in ends \cup {0} /\ e > n /\ e \in Nat
    BY <1>1 DEF WireStrays
  <2> DEFINE x == e - n
  <2>2. x \in Nat /\ x # 0 /\ x + n = e /\ x - 1 \in Nat /\ (x - 1) + n = e - 1 /\ e - 1 \in ends
    BY <1>1, <2>1
  <2> HIDE DEF x
  <2>3. x \in R /\ x - 1 \in R \cup {0}
    BY <1>0, <1>5, <2>1, <2>2
  <2>4. x \in U
    BY <1>0, <2>3
  <2> QED
    BY <2>4 DEF x
<1>7. \A x \in U : x + n \in T /\ (x + n) - n = x
  <2> SUFFICES ASSUME NEW x \in U PROVE x + n \in T /\ (x + n) - n = x
    OBVIOUS
  <2>1. x \in R /\ x - 1 \in R \cup {0} /\ x \in Nat /\ x # 0
    BY <1>0, <1>5
  <2>2. x + n \in ends /\ (x - 1) + n \in ends /\ (x - 1) + n = (x + n) - 1 /\ x + n > n
    BY <1>0, <1>1, <1>5, <2>1
  <2> QED
    BY <1>1, <2>1, <2>2 DEF WireStrays
<1>8. \A d, e \in T : d - n = e - n => d = e
  BY <1>1 DEF WireStrays
<1>9. IsFiniteSet(S) /\ IsFiniteSet(T) /\ Cardinality(S) \in Nat /\ Cardinality(T) \in Nat
  <2>1. S \subseteq WireStrays /\ T \subseteq WireStrays
    BY <1>4
  <2> HIDE DEF T
  <2>2. IsFiniteSet(S) /\ IsFiniteSet(T)
    BY <1>2, <2>1, FS_Subset
  <2> QED
    BY <2>2, FS_CardinalityType
<1> HIDE DEF T
<1>10. Cardinality(U) = Cardinality(T)
  <2>1. f \in Bijection(T, U)
    <3>1. f \in [T -> U]
      BY <1>6
    <3>2. \A d, e \in T : f[d] = f[e] => d = e
      BY <1>8
    <3>3. \A x \in U : \E e \in T : f[e] = x
      BY <1>7
    <3> HIDE DEF f
    <3> QED
      BY <3>1, <3>2, <3>3 DEF Bijection, Injection, Surjection, IsInjective
  <2>2. ExistsBijection(T, U)
    BY <2>1 DEF ExistsBijection
  <2> QED
    BY <1>9, <2>2, FS_Bijection
<1>11. Cardinality(WireStrays) = Cardinality(S) + Cardinality(T) - Cardinality({})
  BY <1>4, <1>9, FS_Union
<1>12. Cardinality({}) = 0
  BY FS_EmptySet
<1> QED
  BY <1>9, <1>10, <1>11, <1>12

\* What is cut does not depend on what the parser does.
LEMMA CutStays ==
  ASSUME sent' = sent, strays' = strays, NEW s, NEW D, NEW m, NEW n, NEW at
  PROVE  /\ Range(strays)' = Range(strays)
         /\ \A k : PacketAt(s, D, at[k], k)' <=> PacketAt(s, D, at[k], k)
         /\ \A e : StrayBefore(s, D, e)' <=> StrayBefore(s, D, e)
         /\ Cut(s, D, m, n, at)' <=> Cut(s, D, m, n, at)
<1>1. Range(strays)' = Range(strays)
  BY DEF Range
<1>2. \A e : StrayBefore(s, D, e)' <=> StrayBefore(s, D, e)
  BY <1>1 DEF StrayBefore
<1>3. \A k : PacketAt(s, D, at[k], k)' <=> PacketAt(s, D, at[k], k)
  BY DEF PacketAt
<1> QED
  BY <1>1, <1>2, <1>3 DEF Cut

LEMMA DataMoves ==
  ASSUME sent' = sent, strays' = strays, NEW t, data' = t, NEW r, arrived' = r,
         NEW D, NEW m, NEW at, Cut(t, D, m, r, at)
  PROVE  Cut(data, D, m, arrived, at)'
<1>1. Range(strays)' = Range(strays)
  BY DEF Range
<1>2. \A e : StrayBefore(data, D, e)' <=> StrayBefore(t, D, e)
  BY <1>1 DEF StrayBefore
<1>3. \A k : PacketAt(data, D, at[k], k)' <=> PacketAt(t, D, at[k], k)
  BY DEF PacketAt
<1> QED
  BY <1>2, <1>3 DEF Cut

LEMMA WireMoves ==
  ASSUME sent' = sent, strays' = strays, NEW t, wire' = t, NEW E, ends' = E, NEW r, arrived' = r,
         r \in 0..Len(sent), 0 \notin E, NEW at, Cut(t, E \cup {0}, r + 1, Len(sent), at)
  PROVE  WireInv(at)'
<1> DEFINE F == E \cup {0}
<1>1. Range(strays)' = Range(strays) /\ (ends \cup {0})' = F
  BY DEF Range
<1>2. \A e : StrayBefore(wire, ends \cup {0}, e)' <=> StrayBefore(t, F, e)
  BY <1>1 DEF StrayBefore
<1>3. \A k : PacketAt(wire, ends \cup {0}, at[k], k)' <=> PacketAt(t, F, at[k], k)
  BY <1>1 DEF PacketAt
<1>4. Cut(wire, ends \cup {0}, arrived + 1, Len(sent), at)' <=> Cut(t, F, r + 1, Len(sent), at)
  <2> HIDE DEF F
  <2> QED
    BY <1>1, <1>2, <1>3 DEF Cut
<1> QED
  BY <1>4 DEF WireInv

LEMMA ReadStreamKeeps ==
  ASSUME SentInv, Premise, NEW at, WireInv(at), RestInv, NEW n \in 1..Len(wire), ReadStream(n), whole'
  PROVE  WireInv(After(at, n))' /\ \E D, m : Reads(D, m, at)'
<1>1. /\ data' = SubSeq(wire, 1, n) /\ readpos' = 0
      /\ wire' = SubSeq(wire, n + 1, Len(wire))
      /\ ends' = {e - n : e \in {x \in ends : x > n}}
      /\ arrived' = arrived + Cardinality(PacketEnds(n))
      /\ n \in ends /\ whole
      /\ buffer_' = [i \in 1..n |-> 0]
      /\ status_' = status_ /\ write_pos_' = write_pos_ /\ err_count_' = err_count_
      /\ delivered' = delivered /\ sent' = sent /\ strays' = strays
  BY DEF ReadStream
<1>2. PICK r : Takes(at, n, r)
  BY <1>1, TakesSome
<1>3. /\ arrived \in Nat /\ r \in arrived..Len(sent) /\ r \in Nat /\ Len(sent) \in Nat /\ r \in 0..Len(sent)
      /\ arrived <= r /\ arrived' = r
  <2>1. arrived \in Nat /\ Len(sent) \in Nat /\ r \in arrived..Len(sent)
    BY <1>2 DEF WireInv, SentInv, Takes
  <2>2. arrived' = r
    BY <1>1, <1>2, CountsPackets
  <2> QED
    BY <2>1, <2>2
<1>d. PICK D : D = {e \in ends \cup {0} : e <= n}
  OBVIOUS
<1>r. PICK R : R = {e - n : e \in {x \in ends : x > n}}
  OBVIOUS
<1>m. PICK m : m = arrived + 1
  OBVIOUS
<1>4. Cut(SubSeq(wire, 1, n), D, m, r, at) /\ Len(SubSeq(wire, 1, n)) = n /\ n \in Nat /\ n >= 1
  BY <1>1, <1>2, <1>d, <1>m, DataCut
<1>5. /\ Cut(SubSeq(wire, n + 1, Len(wire)), R \cup {0}, r + 1, Len(sent), After(at, n))
      /\ \A e : e \in R \cup {0} <=> e \in Nat /\ e + n \in ends
      /\ 0 \notin R
  BY <1>1, <1>2, <1>r, WireCut
<1>6. WireInv(After(at, n))'
  <2>1. ends' = R
    BY <1>1, <1>r
  <2> QED
    BY <1>1, <1>3, <1>5, <2>1, WireMoves
<1>7. Cut(data, D, m, arrived, at)'
  BY <1>1, <1>3, <1>4, DataMoves
<1>8. Range(strays)' = Range(strays) /\ Len(data') = n /\ data' \in Seq(Nat)
  BY <1>1, <1>4 DEF Range, Cut
<1>9. Between(D)'
  <2>1. 0 \in D
    BY <1>4, <1>d
  <2> QED
    BY <1>1, <1>8, <2>1 DEF RestInv, Between, HeadAt
<1>10. PlaceInv(D, m, at)'
  <2>1. buffer_' \in Seq(Nat) /\ Len(buffer_') = n
    BY <1>1, <1>4
  <2>2. write_pos_' \in Nat
    BY <1>1 DEF RestInv, HeadAt
  <2>3. m \in 1..(r + 1)
    BY <1>3, <1>m
  <2> QED
    BY <1>1, <1>3, <1>4, <1>7, <1>8, <1>9, <2>1, <2>2, <2>3 DEF PlaceInv
<1>11. /\ AsSent => AsSent' /\ \A i \in 1..Len(delivered) : Number(delivered[i]) < m
       /\ AllSoFar' <=> Len(delivered) <= r /\ \A i \in 1..Len(delivered) : delivered[i] = sent[i]
  <2>1. 1..arrived \subseteq 1..r /\ \A x \in 1..arrived : x < m
    BY <1>3, <1>m
  <2>2. AsSent => AsSent'
    BY <1>1, <1>3, <2>1 DEF AsSent, Number
  <2>3. AsSent => \A i \in 1..Len(delivered) : Number(delivered[i]) < m
    BY <2>1 DEF AsSent
  <2>4. AllSoFar' <=> Len(delivered) <= r /\ \A i \in 1..Len(delivered) : delivered[i] = sent[i]
    BY <1>1, <1>3 DEF AllSoFar
  <2> QED
    BY <2>2, <2>3, <2>4
<1>12. /\ SizesFit' <=> SizesFit
       /\ AllGood' => AllGood
  BY <1>1, <1>8 DEF SizesFit, AllGood, Regular, AllSizes, BodySize
<1>13. AheadInv(m, at)'
  <2>1. Unread(m, at)' \subseteq m..r
    BY <1>3 DEF Unread
  <2>2. ASSUME SizesFit PROVE AsSent' /\ \A i \in 1..Len(delivered), k \in m..r : Number(delivered[i]) < k
    <3>1. AsSent' /\ \A i \in 1..Len(delivered) : Number(delivered[i]) < m /\ Number(delivered[i]) \in 1..arrived
      BY <1>11, <2>2 DEF RestInv, AsSent
    <3> QED
      BY <1>3, <1>m, <3>1
  <2> QED
    BY <1>1, <1>12, <2>1, <2>2 DEF AheadInv, Number
<1>14. \A k \in m..r : k \in Unread(m, at)'
  <2> SUFFICES ASSUME NEW k \in m..r PROVE 0 < at[k] + Len(sent[k])
    BY <1>1, <1>3 DEF Unread
  <2>1. k \in (arrived + 1)..Len(sent)
    BY <1>3, <1>m
  <2>2. at[k] \in Nat /\ Len(sent[k]) \in Nat /\ Len(sent[k]) >= 2
    BY <2>1, StillOnWire
  <2> QED
    BY <2>2
<1>15. CountInv(D, m, at)'
  <2> SUFFICES ASSUME AllGood
               PROVE  /\ AllSoFar' /\ m <= Len(delivered') + 1
                      /\ \A k \in m..r : k \in Unread(m, at)' <=> k > Len(delivered')
                      /\ err_count_' + Cardinality(DataStrays(D)') + Cardinality(WireStrays') <= Len(strays')
    BY <1>3, <1>12 DEF CountInv
  <2>1. AllSoFar /\ Len(delivered) = arrived /\ err_count_ + Cardinality(WireStrays) <= Len(strays)
    BY DEF RestInv
  <2>2. AllSoFar' /\ m <= Len(delivered') + 1
    BY <1>1, <1>3, <1>m, <1>11, <2>1 DEF AllSoFar
  <2>3. \A k \in m..r : k \in Unread(m, at)' <=> k > Len(delivered')
    <3>1. \A k \in m..r : k > arrived
      BY <1>3, <1>m
    <3> QED
      BY <1>1, <1>14, <2>1, <3>1
  <2>4. DataStrays(D)' = {e \in D : e - 1 \in D /\ e > 0}
    BY <1>1 DEF DataStrays
  <2>5. WireStrays' = {e \in R : e - 1 \in R \cup {0}}
    BY <1>1, <1>r DEF WireStrays
  <2>6. /\ Cardinality(DataStrays(D)') + Cardinality(WireStrays') = Cardinality(WireStrays)
        /\ Cardinality(DataStrays(D)') \in Nat /\ Cardinality(WireStrays') \in Nat
    <3>1. \A e : e \in DataStrays(D)' <=> e \in D /\ e - 1 \in D /\ e > 0
      BY <2>4
    <3>2. \A e : e \in WireStrays' <=> e \in R /\ e - 1 \in R \cup {0}
      BY <2>5
    <3>3. \A e : e \in D <=> e \in ends \cup {0} /\ e <= n
      BY <1>d
    <3>4. PICK S, U : S = DataStrays(D)' /\ U = WireStrays'
      OBVIOUS
    <3>5. /\ \A e : e \in S <=> e \in D /\ e - 1 \in D /\ e > 0
          /\ \A e : e \in U <=> e \in R /\ e - 1 \in R \cup {0}
      BY <3>1, <3>2, <3>4
    <3>6. Parts(n, D, R, S, U)
      BY <1>5, <3>3, <3>5 DEF Parts
    <3>7. /\ Cardinality(S) + Cardinality(U) = Cardinality(WireStrays)
          /\ Cardinality(S) \in Nat /\ Cardinality(U) \in Nat
      BY <1>1, <3>6, StraysSplit
    <3> QED
      BY <3>4, <3>7
  <2>7. err_count_ \in Nat /\ Len(strays) \in Nat
    BY DEF SentInv
  <2> QED
    BY <1>1, <2>1, <2>2, <2>3, <2>6, <2>7
<1>16. Reads(D, m, at)'
  BY <1>10, <1>13, <1>15 DEF Reads
<1> QED
  BY <1>6, <1>16

----------------------------------------------------------------------------
(* The other end sends                                                      *)

\* What the parser knows stays true while more is sent.
Grows ==
  /\ UNCHANGED <<parserVars, data, readpos, delivered, whole, arrived>>
  /\ Len(sent') \in Nat /\ Len(sent) <= Len(sent') /\ \A k \in 1..Len(sent) : sent'[k] = sent[k]
  /\ Range(strays) \subseteq Range(strays)'
  /\ (SizesFit' => SizesFit) /\ (AllGood' => AllGood)
  /\ Cardinality(WireStrays') + Len(strays) = Cardinality(WireStrays) + Len(strays')
  /\ Cardinality(WireStrays) \in Nat /\ Cardinality(WireStrays') \in Nat /\ Len(strays') \in Nat

LEMMA GrowsIs ==
  ASSUME Grows
  PROVE  /\ status_' = status_ /\ write_pos_' = write_pos_ /\ data_area_size_' = data_area_size_
         /\ err_count_' = err_count_ /\ buffer_' = buffer_ /\ data' = data /\ readpos' = readpos
         /\ delivered' = delivered /\ whole' = whole /\ arrived' = arrived
         /\ \A pos : HeadAt(pos)' <=> HeadAt(pos)
BY DEF Grows, parserVars, HeadAt

LEMMA AsSentGrows ==
  ASSUME SentInv, Grows, arrived \in 0..Len(sent), AsSent
  PROVE  AsSent'
<1>1. Len(sent) \in Nat
  BY DEF SentInv
<1>2. 1..arrived \subseteq 1..Len(sent)
  BY ONLY <1>1, arrived \in 0..Len(sent)
<1>3. \A k \in 1..Len(sent) : sent'[k] = sent[k]
  BY DEF Grows
<1> QED
  BY <1>2, <1>3, GrowsIs DEF AsSent, Number

LEMMA AllSoFarGrows ==
  ASSUME SentInv, Grows, arrived \in 0..Len(sent), delivered \in Seq(Seq(Nat)), AllSoFar
  PROVE  AllSoFar'
<1>1. \A i \in 1..Len(delivered) : i \in 1..Len(sent)
  BY DEF AllSoFar, SentInv
<1>2. \A k \in 1..Len(sent) : sent'[k] = sent[k]
  BY DEF Grows
<1> QED
  BY <1>1, <1>2, GrowsIs DEF AllSoFar

LEMMA RestGrows ==
  ASSUME SentInv, Grows, arrived \in 0..Len(sent), RestInv
  PROVE  RestInv'
<1>1. HeadAt(0)' \/ (HeadAt(1)' /\ W \in Range(strays)')
  BY GrowsIs DEF RestInv, Grows
<1>2. SizesFit' => AsSent'
  BY AsSentGrows DEF RestInv, Grows
<1>3. AllGood => SizesFit
  BY ParserAssumption DEF AllGood, SizesFit, AllSizes, FullRange
<1>4. ASSUME AllGood'
      PROVE  AllSoFar' /\ Len(delivered') = arrived' /\ err_count_' + Cardinality(WireStrays') <= Len(strays')
  <2>1. AllGood
    BY <1>4 DEF Grows
  <2>2. /\ AllSoFar /\ Len(delivered) = arrived /\ err_count_ + Cardinality(WireStrays) <= Len(strays)
        /\ delivered \in Seq(Seq(Nat))
    BY <1>3, <2>1 DEF RestInv, AsSent
  <2>3. AllSoFar'
    BY <2>2, AllSoFarGrows
  <2>4. err_count_ + Cardinality(WireStrays') <= Len(strays')
    <3>1. err_count_ \in Nat /\ Len(strays) \in Nat
      BY DEF SentInv
    <3> QED
      BY <2>2, <3>1 DEF Grows
  <2> QED
    BY <2>2, <2>3, <2>4, GrowsIs
<1> QED
  BY <1>1, <1>2, <1>4 DEF RestInv

LEMMA ReadsGrow ==
  ASSUME SentInv, Premise, Grows, NEW D, NEW m, NEW at, Reads(D, m, at)
  PROVE  Reads(D, m, at)'
<1>1. PlaceInv(D, m, at) /\ AheadInv(m, at) /\ CountInv(D, m, at)
  BY DEF Reads
<1>2. arrived \in 0..Len(sent) /\ Len(sent) \in Nat /\ m \in 1..(arrived + 1) /\ Cut(data, D, m, arrived, at)
  BY <1>1 DEF PlaceInv, SentInv
<1>3. \A k \in m..arrived : k \in 1..Len(sent) /\ sent'[k] = sent[k]
  <2>1. m..arrived \subseteq 1..Len(sent)
    BY <1>2
  <2> QED
    BY <2>1 DEF Grows
<1>4. Range(strays) \subseteq Range(strays)'
  BY DEF Grows
<1>5. Cut(data, D, m, arrived, at)'
  <2>1. \A k \in m..arrived : PacketAt(data, D, at[k], k)' <=> PacketAt(data, D, at[k], k)
    BY <1>3, GrowsIs DEF PacketAt
  <2>2. \A e : StrayBefore(data, D, e) => StrayBefore(data, D, e)'
    BY <1>4, GrowsIs DEF StrayBefore
  <2>3. \A k \in m..arrived : Len(sent'[k]) = Len(sent[k])
    BY <1>3
  <2> QED
    BY <1>2, <2>1, <2>2, <2>3, GrowsIs DEF Cut
<1>6. \/ Between(D)'
      \/ \E k \in m..arrived : Inside(at, k)' /\ (Synced(at, k)' \/ (Missed(at, k)' /\ ~AllGood'))
  <2>1. Between(D) => Between(D)'
    BY <1>4, GrowsIs DEF Between
  <2>2. \A k \in m..arrived : Inside(at, k) => Inside(at, k)'
    BY <1>3, GrowsIs DEF Inside
  <2>3. \A k \in m..arrived : Synced(at, k) => Synced(at, k)'
    BY <1>3, GrowsIs DEF Synced
  <2>4. \A k \in m..arrived : Missed(at, k) => Missed(at, k)'
    BY GrowsIs DEF Missed
  <2>5. ~AllGood => ~AllGood'
    BY DEF Grows
  <2> QED
    BY <1>1, <2>1, <2>2, <2>3, <2>4, <2>5 DEF PlaceInv
<1>7. PlaceInv(D, m, at)'
  <2>1. arrived \in 0..Len(sent')
    BY <1>2 DEF Grows
  <2> QED
    BY <1>1, <1>5, <1>6, <2>1, GrowsIs DEF PlaceInv
<1>8. Unread(m, at)' = Unread(m, at)
  BY <1>3, GrowsIs DEF Unread
<1>9. AheadInv(m, at)'
  <2>1. AsSent => AsSent'
    BY <1>2, AsSentGrows
  <2>2. SizesFit' => SizesFit
    BY DEF Grows
  <2> QED
    BY <1>1, <1>8, <2>1, <2>2, GrowsIs DEF AheadInv, Number
<1>10. CountInv(D, m, at)'
  <2>1. AllGood => SizesFit
    BY ParserAssumption DEF AllGood, SizesFit, AllSizes, FullRange
  <2>2. AllGood' => AllGood
    BY DEF Grows
  <2>3. ASSUME AllGood
        PROVE  AllSoFar' /\ err_count_ + Cardinality(DataStrays(D)) + Cardinality(WireStrays') <= Len(strays')
    <3>1. delivered \in Seq(Seq(Nat)) /\ AllSoFar
      BY <1>1, <2>1, <2>3 DEF AheadInv, AsSent, CountInv
    <3>2. AllSoFar'
      BY <1>2, <3>1, AllSoFarGrows
    <3>3. err_count_ + Cardinality(DataStrays(D)) + Cardinality(WireStrays) <= Len(strays)
      BY <1>1, <2>3 DEF CountInv
    <3>4. err_count_ \in Nat /\ Len(strays) \in Nat /\ Cardinality(DataStrays(D)) \in Nat
      BY <1>1, StraysFinite DEF SentInv
    <3> QED
      BY <3>2, <3>3, <3>4 DEF Grows
  <2>4. DataStrays(D)' = DataStrays(D)
    BY GrowsIs DEF DataStrays
  <2> QED
    BY <1>1, <1>8, <2>2, <2>3, <2>4, GrowsIs DEF CountInv
<1> QED
  BY <1>7, <1>9, <1>10 DEF Reads

LEMMA JoinedIs ==
  ASSUME NEW s \in Seq(Nat), NEW t \in Seq(Nat)
  PROVE  /\ s \o t \in Seq(Nat) /\ Len(s \o t) = Len(s) + Len(t) /\ Len(s) \in Nat /\ Len(t) \in Nat
         /\ \A i \in 1..Len(s) : (s \o t)[i] = s[i]
         /\ \A i \in 1..Len(t) : (s \o t)[Len(s) + i] = t[i]
<1> DEFINE u == s \o t
           a == Len(s)
           b == Len(t)
<1>1. /\ u \in Seq(Nat) /\ Len(u) = a + b /\ a \in Nat /\ b \in Nat
      /\ \A i \in 1..(a + b) : u[i] = IF i <= a THEN s[i] ELSE t[i - a]
  BY ConcatProperties
<1> HIDE DEF u, a, b
<1>2. \A i \in 1..a : u[i] = s[i]
  BY <1>1
<1>3. \A i \in 1..b : u[a + i] = t[i]
  <2> SUFFICES ASSUME NEW i \in 1..b PROVE u[a + i] = t[i]
    OBVIOUS
  <2>1. a + i \in 1..(a + b) /\ ~(a + i <= a) /\ (a + i) - a = i
    BY <1>1
  <2>2. u[a + i] = t[(a + i) - a]
    BY <1>1, <2>1
  <2> QED
    BY <2>1, <2>2
<1> QED
  BY <1>1, <1>2, <1>3 DEF u, a, b

\* The packet is the last one on wire.
LEMMA SendWire ==
  ASSUME SentInv, Premise, NEW at, WireInv(at), NEW body \in Bodies, body > 0, Send(body)
  PROVE  /\ \E a : WireInv(a)'
         /\ WireStrays' = WireStrays
<1> DEFINE new == Len(sent) + 1
           p == Packet(new, body)
           w == Len(wire)
           l == Len(p)
           E == ends \cup {0}
<1>1. /\ sent' = Append(sent, p) /\ wire' = wire \o p /\ ends' = ends \cup {w + l}
      /\ strays' = strays /\ arrived' = arrived
  BY DEF Send, OnWire
<1>2. /\ Len(sent) \in Nat /\ new \in Nat /\ sent \in Seq(Seq(Nat)) /\ arrived \in 0..Len(sent)
      /\ wire \in Seq(Nat) /\ w \in Nat /\ E \subseteq 0..w /\ w \in E /\ 0 \notin ends
      /\ \A k \in (arrived + 1)..Len(sent) : at[k] \in E /\ at[k] \in Nat
  <2>1. \A k \in (arrived + 1)..Len(sent) : at[k] \in E /\ at[k] \in Nat
    BY StillOnWire
  <2> QED
    BY <2>1 DEF WireInv, Cut, SentInv
<1>3. p \in Seq(Nat) /\ l \in Nat /\ l >= 2
  <2>1. body \in Nat /\ HeaderSize \in Nat /\ HeaderSize >= 2
    BY ParserAssumption
  <2>2. p \in Seq(Nat) /\ l = HeaderSize + body
    BY <1>2, <2>1, PacketIs
  <2> HIDE DEF p, l
  <2> QED
    BY <2>1, <2>2
<1> HIDE DEF p
<1>4. /\ wire' \in Seq(Nat) /\ Len(wire') = w + l
      /\ \A i \in 1..w : wire'[i] = wire[i]
      /\ \A i \in 1..l : wire'[w + i] = p[i]
  BY <1>1, <1>2, <1>3, JoinedIs
<1>5. PICK a : a = [k \in Nat |-> IF k = new THEN w ELSE at[k]]
  OBVIOUS
<1>6. PICK F : F = E \cup {w + l}
  OBVIOUS
<1>7. /\ Len(sent') = new /\ sent'[new] = p
      /\ \A k \in 1..Len(sent) : sent'[k] = sent[k]
  BY <1>1, <1>2, <1>3
<1> HIDE DEF w, l
<1>8. a[new] = w /\ \A k \in (arrived + 1)..Len(sent) : a[k] = at[k] /\ k # new
  BY <1>2, <1>5
<1>9. \A k \in (arrived + 1)..new : k \in (arrived + 1)..Len(sent) \/ k = new
  BY <1>2
<1>10. (ends \cup {0})' = F
  BY <1>1, <1>6
<1>11. ASSUME NEW k \in (arrived + 1)..new PROVE PacketAt(wire, ends \cup {0}, a[k], k)'
  <2>1. CASE k = new
    <3>1. a[k] = w /\ w \in F /\ w + l \in F /\ sent'[k] = p /\ Len(sent'[k]) = l
      BY <1>2, <1>6, <1>7, <1>8, <2>1 DEF l
    <3>2. \A e \in F : e <= w \/ e >= w + l
      BY <1>2, <1>3, <1>6
    <3>3. \A i \in 1..l : wire'[w + i] = p[i]
      BY <1>4
    <3> QED
      BY <1>10, <3>1, <3>2, <3>3 DEF PacketAt
  <2>2. CASE k \in (arrived + 1)..Len(sent)
    <3>1. /\ at[k] \in E /\ at[k] \in Nat /\ Len(sent[k]) \in Nat /\ at[k] + Len(sent[k]) \in ends
          /\ at[k] + Len(sent[k]) <= w /\ k \in 1..Len(sent)
          /\ \A e \in E : e <= at[k] \/ e >= at[k] + Len(sent[k])
          /\ \A i \in 1..Len(sent[k]) : wire[at[k] + i] = sent[k][i]
      BY <2>2, StillOnWire DEF w
    <3>2. a[k] = at[k] /\ sent'[k] = sent[k]
      BY <1>7, <1>8, <2>2, <3>1
    <3>3. \A e \in F : e <= at[k] \/ e >= at[k] + Len(sent[k])
      <4>1. w + l >= at[k] + Len(sent[k])
        BY <1>2, <1>3, <3>1, SMTT(60)
      <4> QED
        BY <1>6, <3>1, <4>1
    <3>4. \A i \in 1..Len(sent[k]) : at[k] + i \in 1..w
      <4> DEFINE b == at[k]
                 c == Len(sent[k])
      <4>1. b \in Nat /\ c \in Nat /\ b + c <= w
        BY <3>1
      <4> HIDE DEF b, c
      <4>2. \A i \in 1..c : b + i \in 1..w
        BY <1>2, <4>1
      <4> QED
        BY <4>2 DEF b, c
    <3>5. \A i \in 1..Len(sent[k]) : wire'[at[k] + i] = sent[k][i]
      BY <1>4, <3>1, <3>4
    <3>6. at[k] \in F /\ at[k] + Len(sent[k]) \in F
      BY <1>6, <3>1
    <3> QED
      BY <1>10, <3>2, <3>3, <3>5, <3>6 DEF PacketAt
  <2> QED
    BY <1>9, <2>1, <2>2
<1>12. ASSUME NEW j \in (arrived + 1)..new, NEW k \in (arrived + 1)..new, j < k PROVE a[j] < a[k]
  <2>1. j \in (arrived + 1)..Len(sent)
    BY <1>2, <1>12
  <2>2. CASE k = new
    <3>1. at[j] + Len(sent[j]) <= w /\ at[j] \in Nat /\ Len(sent[j]) \in Nat /\ Len(sent[j]) >= 2
      BY <2>1, StillOnWire DEF w
    <3>2. at[j] < w
      BY <1>2, <3>1, SMTT(60)
    <3> QED
      BY <1>8, <2>1, <2>2, <3>2
  <2>3. CASE k \in (arrived + 1)..Len(sent)
    BY <1>8, <1>12, <2>1, <2>3, StillOnWire
  <2> QED
    BY <1>9, <2>2, <2>3
<1>13. \A e : StrayBefore(wire, E, e) => StrayBefore(wire, ends \cup {0}, e)' \/ e = 0 \/ e \notin E
  <2> SUFFICES ASSUME NEW e \in E, e # 0, StrayBefore(wire, E, e) PROVE StrayBefore(wire, ends \cup {0}, e)'
    OBVIOUS
  <2>1. e \in 1..w
    BY <1>2
  <2>2. e - 1 \in F /\ wire'[e] = wire[e] /\ wire[e] \in Range(strays)
    BY <1>4, <1>6, <2>1 DEF StrayBefore
  <2>3. Range(strays)' = Range(strays)
    BY <1>1 DEF Range
  <2> QED
    BY <1>10, <2>2, <2>3 DEF StrayBefore
<1>14. ASSUME NEW d \in F
       PROVE  \/ d = w + l
              \/ \E k \in (arrived + 1)..new : a[k] = d
              \/ d + 1 \in F /\ StrayBefore(wire, ends \cup {0}, d + 1)'
  <2>1. CASE d \in E
    <3>1. \/ d = w
          \/ \E k \in (arrived + 1)..Len(sent) : at[k] = d
          \/ d + 1 \in E /\ StrayBefore(wire, E, d + 1)
      BY <2>1 DEF WireInv, Cut, w
    <3>2. new \in (arrived + 1)..new /\ (arrived + 1)..Len(sent) \subseteq (arrived + 1)..new /\ d + 1 # 0
      BY <1>2, <2>1
    <3> QED
      BY <1>6, <1>8, <1>13, <3>1, <3>2
  <2> QED
    BY <1>6, <2>1
<1>15. ASSUME NEW e \in F
       PROVE  \/ e = 0
              \/ \E k \in (arrived + 1)..new : a[k] + Len(sent'[k]) = e
              \/ StrayBefore(wire, ends \cup {0}, e)'
  <2>1. CASE e \in E
    <3>1. \/ e = 0
          \/ \E k \in (arrived + 1)..Len(sent) : at[k] + Len(sent[k]) = e
          \/ StrayBefore(wire, E, e)
      BY <2>1 DEF WireInv, Cut
    <3>2. \A k \in (arrived + 1)..Len(sent) : k \in (arrived + 1)..new /\ a[k] = at[k] /\ sent'[k] = sent[k]
      BY <1>2, <1>7, <1>8
    <3> QED
      BY <1>13, <2>1, <3>1, <3>2
  <2>2. CASE e = w + l
    <3>1. new \in (arrived + 1)..new
      BY <1>2
    <3> QED
      BY <1>7, <1>8, <2>2, <3>1 DEF l
  <2> QED
    BY <1>6, <2>1, <2>2
<1>16. F \in SUBSET (0..(w + l)) /\ {0, w + l} \subseteq F
  BY <1>2, <1>3, <1>6
<1>17. Cut(wire, ends \cup {0}, arrived + 1, Len(sent), a)'
  BY <1>1, <1>4, <1>7, <1>10, <1>11, <1>12, <1>14, <1>15, <1>16 DEF Cut
<1>18. WireInv(a)'
  <2>1. arrived' \in 0..Len(sent') /\ 0 \notin ends'
    BY <1>1, <1>2, <1>3, <1>7
  <2> QED
    BY <1>17, <2>1 DEF WireInv
<1>19. WireStrays' = WireStrays
  <2>1. ASSUME NEW e \in F, e - 1 \in F PROVE e # w + l /\ (e = 0 \/ e - 1 \in E)
    <3>1. e \in 0..w \/ e = w + l
      BY <1>2, <1>6
    <3>2. e - 1 \in 0..w \/ e - 1 = w + l
      BY <1>2, <1>6, <2>1
    <3>3. ~(e - 1 = w + l)
      BY <1>2, <1>3, <3>1
    <3>4. e # w + l
      BY <1>2, <1>3, <3>2, <3>3
    <3> QED
      BY <1>6, <2>1, <3>3, <3>4
  <2>2. \A e \in ends : e \in F /\ e # 0
    BY <1>2, <1>6
  <2>3. \A e : e \in WireStrays' <=> e \in ends' /\ e - 1 \in F
    BY <1>10 DEF WireStrays
  <2>4. \A e : e \in ends' <=> e \in ends \/ e = w + l
    BY <1>1 DEF w, l
  <2>5. w + l \in F /\ \A e \in E : e \in F
    BY <1>6
  <2>6. \A e : e \in WireStrays' <=> e \in ends /\ e - 1 \in E
    BY <2>1, <2>2, <2>3, <2>4, <2>5
  <2> QED
    BY <2>6 DEF WireStrays
<1> QED
  BY <1>18, <1>19

LEMMA SendStrayWire ==
  ASSUME SentInv, Premise, NEW at, WireInv(at), NEW cell \in Noise, SendStray(cell)
  PROVE  /\ WireInv(at)'
         /\ Cardinality(WireStrays') = Cardinality(WireStrays) + 1
<1> DEFINE w == Len(wire)
           E == ends \cup {0}
           t == <<cell>>
<1>1. /\ sent' = sent /\ wire' = wire \o t /\ ends' = ends \cup {w + 1}
      /\ strays' = Append(strays, cell) /\ arrived' = arrived
  BY DEF SendStray, OnWire
<1>2. /\ Len(sent) \in Nat /\ arrived \in 0..Len(sent) /\ strays \in Seq(Noise)
      /\ wire \in Seq(Nat) /\ w \in Nat /\ E \subseteq 0..w /\ w \in E /\ 0 \notin ends
      /\ \A j, k \in (arrived + 1)..Len(sent) : j < k => at[j] < at[k]
  BY DEF WireInv, Cut, SentInv
<1>3. /\ wire' \in Seq(Nat) /\ Len(wire') = w + 1
      /\ \A i \in 1..w : wire'[i] = wire[i]
      /\ wire'[w + 1] = cell
  <2>1. cell \in Nat /\ t \in Seq(Nat) /\ Len(t) = 1 /\ t[1] = cell
    BY ParserAssumption
  <2> HIDE DEF t, w
  <2>2. /\ wire \o t \in Seq(Nat) /\ Len(wire \o t) = Len(wire) + Len(t)
        /\ \A i \in 1..Len(wire) : (wire \o t)[i] = wire[i]
        /\ \A i \in 1..Len(t) : (wire \o t)[Len(wire) + i] = t[i]
    BY <1>2, <2>1, JoinedIs
  <2>3. 1 \in 1..Len(t)
    BY <2>1
  <2> QED
    BY <1>1, <2>1, <2>2, <2>3 DEF w
<1>4. Range(strays) \subseteq Range(strays)' /\ cell \in Range(strays)'
  <2>1. /\ DOMAIN strays = 1..Len(strays) /\ DOMAIN strays' = 1..(Len(strays) + 1) /\ Len(strays) \in Nat
        /\ strays'[Len(strays) + 1] = cell /\ \A i \in 1..Len(strays) : strays'[i] = strays[i]
    BY <1>1, <1>2
  <2>2. \A i \in DOMAIN strays : i \in DOMAIN strays' /\ strays'[i] = strays[i]
    BY <2>1
  <2>3. Len(strays) + 1 \in DOMAIN strays'
    BY <2>1
  <2> QED
    BY <2>1, <2>2, <2>3 DEF Range
<1>5. PICK F, x : F = E \cup {x} /\ x = w + 1
  OBVIOUS
<1> HIDE DEF w, t
<1>6. (ends \cup {0})' = F
  BY <1>1, <1>5
<1>7. ASSUME NEW k \in (arrived + 1)..Len(sent) PROVE PacketAt(wire, ends \cup {0}, at[k], k)'
  <2> DEFINE b == at[k]
             c == Len(sent[k])
  <2>1. /\ b \in E /\ b \in Nat /\ c \in Nat /\ b + c \in ends /\ b + c <= w
        /\ \A e \in E : e <= b \/ e >= b + c
        /\ \A i \in 1..c : wire[b + i] = sent[k][i]
    BY StillOnWire DEF w
  <2> HIDE DEF b, c
  <2>2. \A e \in F : e <= b \/ e >= b + c
    <3>1. w + 1 >= b + c
      BY <1>2, <2>1
    <3> QED
      BY <1>5, <2>1, <3>1
  <2>3. \A i \in 1..c : b + i \in 1..w
    BY <1>2, <2>1
  <2>4. \A i \in 1..c : wire'[b + i] = sent[k][i]
    BY <1>3, <2>1, <2>3
  <2>5. b \in F /\ b + c \in F
    BY <1>5, <2>1
  <2> QED
    BY <1>1, <1>6, <2>2, <2>4, <2>5 DEF PacketAt, b, c
<1>8. \A e : StrayBefore(wire, E, e) => StrayBefore(wire, ends \cup {0}, e)' \/ e = 0 \/ e \notin E
  <2> SUFFICES ASSUME NEW e \in E, e # 0, StrayBefore(wire, E, e) PROVE StrayBefore(wire, ends \cup {0}, e)'
    OBVIOUS
  <2>1. e \in 1..w
    BY <1>2
  <2>2. e - 1 \in F /\ wire'[e] = wire[e] /\ wire[e] \in Range(strays)
    BY <1>3, <1>5, <2>1 DEF StrayBefore
  <2> QED
    BY <1>4, <1>6, <2>2 DEF StrayBefore
<1>9. StrayBefore(wire, ends \cup {0}, x)'
  <2>1. x - 1 \in F /\ wire'[x] = cell
    BY <1>2, <1>3, <1>5
  <2> QED
    BY <1>4, <1>6, <2>1 DEF StrayBefore
<1>10. ASSUME NEW d \in F
       PROVE  \/ d = x
              \/ \E k \in (arrived + 1)..Len(sent) : at[k] = d
              \/ d + 1 \in F /\ StrayBefore(wire, ends \cup {0}, d + 1)'
  <2>1. CASE d \in E
    <3>1. \/ d = w
          \/ \E k \in (arrived + 1)..Len(sent) : at[k] = d
          \/ d + 1 \in E /\ StrayBefore(wire, E, d + 1)
      BY <2>1 DEF WireInv, Cut, w
    <3>2. d + 1 # 0
      BY <1>2, <2>1
    <3>3. CASE d = w
      <4>1. d + 1 = x /\ x \in F
        BY <1>5, <3>3
      <4> QED
        BY <1>9, <4>1
    <3>4. CASE d + 1 \in E /\ StrayBefore(wire, E, d + 1)
      BY <1>5, <1>8, <3>2, <3>4
    <3> QED
      BY <3>1, <3>3, <3>4
  <2> QED
    BY <1>5, <2>1
<1>11. ASSUME NEW e \in F
       PROVE  \/ e = 0
              \/ \E k \in (arrived + 1)..Len(sent) : at[k] + Len(sent[k]) = e
              \/ StrayBefore(wire, ends \cup {0}, e)'
  <2>1. CASE e \in E
    <3>1. \/ e = 0
          \/ \E k \in (arrived + 1)..Len(sent) : at[k] + Len(sent[k]) = e
          \/ StrayBefore(wire, E, e)
      BY <2>1 DEF WireInv, Cut
    <3> QED
      BY <1>8, <2>1, <3>1
  <2> QED
    BY <1>5, <1>9, <2>1
<1>12. F \in SUBSET (0..x) /\ {0, x} \subseteq F /\ x \in Nat
  BY <1>2, <1>5
<1>13. Cut(wire, ends \cup {0}, arrived + 1, Len(sent), at)'
  BY <1>1, <1>2, <1>3, <1>5, <1>6, <1>7, <1>10, <1>11, <1>12 DEF Cut
<1>14. WireInv(at)'
  <2>1. arrived' \in 0..Len(sent') /\ 0 \notin ends'
    BY <1>1, <1>2
  <2> QED
    BY <1>13, <2>1 DEF WireInv
<1>15. WireStrays' = WireStrays \cup {x} /\ x \notin WireStrays
  <2>1. \A e : e \in WireStrays' <=> e \in ends' /\ e - 1 \in F
    BY <1>6 DEF WireStrays
  <2>2. \A e : e \in ends' <=> e \in ends \/ e = x
    BY <1>1, <1>5 DEF w
  <2>3. x - 1 \in F /\ x \notin ends
    BY <1>2, <1>5
  <2>4. \A e \in ends : e - 1 # x
    BY <1>2, <1>5
  <2>5. \A e : e \in F <=> e \in E \/ e = x
    BY <1>5
  <2>6. \A e : e \in WireStrays' <=> (e \in ends /\ e - 1 \in E) \/ e = x
    BY <2>1, <2>2, <2>3, <2>4, <2>5
  <2>7. \A e : e \in WireStrays <=> e \in ends /\ e - 1 \in E
    BY DEF WireStrays
  <2> QED
    BY <2>3, <2>6, <2>7
<1>16. IsFiniteSet(WireStrays)
  BY StraysFinite
<1>17. Cardinality(WireStrays \cup {x}) = Cardinality(WireStrays) + 1
  BY <1>15, <1>16, FS_AddElement
<1> QED
  BY <1>14, <1>15, <1>17

----------------------------------------------------------------------------
(* Every step                                                               *)

LEMMA SentKeeps == SentInv /\ Next => SentInv'
<1> SUFFICES ASSUME SentInv, Next PROVE SentInv'
  OBVIOUS
<1>1. /\ Len(sent) <= MaxPackets /\ sent \in Seq(Seq(Nat)) /\ strays \in Seq(Noise) /\ err_count_ \in Nat
      /\ \A k \in 1..Len(sent) : \E body \in Bodies : sent[k] = Packet(k, body)
  BY DEF SentInv
<1>2. ASSUME sent' = sent, strays' = strays, err_count_' \in Nat PROVE SentInv'
  BY <1>1, <1>2 DEF SentInv
<1>3. ASSUME NEW body \in Bodies, Send(body) PROVE SentInv'
  <2> DEFINE new == Len(sent) + 1
             p == Packet(new, body)
  <2>1. /\ Len(sent) < MaxPackets /\ sent' = Append(sent, p) /\ strays' = strays /\ err_count_' = err_count_
    BY <1>3 DEF Send, parserVars
  <2>2. p \in Seq(Nat)
    <3>1. new \in Nat /\ body \in Nat
      BY <1>1, ParserAssumption
    <3> HIDE DEF new
    <3> QED
      BY <3>1, PacketIs
  <2>4. MaxPackets \in Nat /\ Len(sent) \in Nat
    BY <1>1, ParserAssumption
  <2> HIDE DEF p
  <2>3. /\ sent' \in Seq(Seq(Nat)) /\ Len(sent') = new /\ sent'[new] = p
        /\ \A k \in 1..Len(sent) : sent'[k] = sent[k]
    BY <1>1, <2>1, <2>2
  <2>5. new <= MaxPackets /\ \A k \in 1..new : k \in 1..Len(sent) \/ k = new
    BY <2>1, <2>4
  <2>6. \A k \in 1..new : \E b \in Bodies : sent'[k] = Packet(k, b)
    BY <1>1, <2>3, <2>5 DEF p
  <2> HIDE DEF new
  <2> QED
    BY <1>1, <2>1, <2>3, <2>5, <2>6 DEF SentInv
<1>4. ASSUME NEW cell \in Noise, SendStray(cell) PROVE SentInv'
  BY <1>1, <1>4 DEF SentInv, SendStray, parserVars
<1>5. ASSUME NEW n \in 1..Len(wire), ReadStream(n) PROVE SentInv'
  BY <1>1, <1>2, <1>5 DEF ReadStream
<1>6. CASE Parse
  <2>1. sent' = sent /\ strays' = strays
    BY <1>6 DEF Parse, HeaderCell, SkipCell, HeadFlagsInvalid, WrongFlag, AcceptSize, FormatInvalid, BodyPart,
                BodyComplete, EndOfData, peerVars
  <2>2. err_count_' = err_count_ \/ err_count_' = err_count_ + 1
    BY <1>6 DEF Parse, HeaderCell, SkipCell, HeadFlagsInvalid, WrongFlag, AcceptSize, FormatInvalid, BodyPart,
                BodyComplete, EndOfData, parserVars
  <2> QED
    BY <1>1, <1>2, <2>1, <2>2
<1> QED
  BY <1>3, <1>4, <1>5, <1>6 DEF Next

\* Sends do not make sizes fit or reads whole.
LEMMA SizesShrink ==
  ASSUME Len(sent) \in Nat, Len(sent') \in Nat, Len(sent) <= Len(sent'), \A k \in 1..Len(sent) : sent'[k] = sent[k],
         NEW S, AllSizes(S)'
  PROVE  AllSizes(S)
<1>1. \A k \in 1..Len(sent) : k \in 1..Len(sent')
  OBVIOUS
<1> QED
  BY <1>1 DEF AllSizes, BodySize

LEMMA SendGrows ==
  ASSUME SentInv, NEW body \in Bodies, Send(body), Premise'
  PROVE  /\ Premise /\ body > 0
         /\ (\E a : WireInv(a)) => Grows
<1> DEFINE new == Len(sent) + 1
           p == Packet(new, body)
<1>1. /\ sent' = Append(sent, p) /\ strays' = strays /\ arrived' = arrived /\ whole' = whole
      /\ UNCHANGED <<parserVars, data, readpos, delivered, whole, arrived>>
  BY DEF Send
<1>2. Len(p) = HeaderSize + body /\ body \in Nat /\ HeaderSize \in Nat
  <2>1. new \in Nat /\ body \in Nat /\ HeaderSize \in Nat
    BY ParserAssumption DEF SentInv
  <2> HIDE DEF new
  <2> QED
    BY <2>1, PacketIs
<1>3. /\ Len(sent) \in Nat /\ Len(sent') = new /\ sent'[new] = p /\ new \in 1..new
      /\ Len(sent') \in Nat /\ Len(sent) <= Len(sent') /\ \A k \in 1..Len(sent) : sent'[k] = sent[k]
  <2>1. sent \in Seq(Seq(Nat))
    BY DEF SentInv
  <2> HIDE DEF p
  <2> QED
    BY <1>1, <2>1
<1>4. body > 0
  <2>1. BodySize(p) \in Nat \ {0}
    BY <1>3 DEF Premise, AllSizes, BodySize
  <2> HIDE DEF p
  <2> QED
    BY <1>2, <2>1 DEF BodySize
<1> HIDE DEF new, p
<1>5. \A S : AllSizes(S)' => AllSizes(S)
  BY <1>3, SizesShrink
<1>6. Premise
  BY <1>1, <1>5 DEF Premise
<1>7. ASSUME NEW a, WireInv(a) PROVE Grows
  <2>1. WireStrays' = WireStrays
    BY <1>4, <1>6, <1>7, SendWire
  <2>2. Range(strays)' = Range(strays)
    BY <1>1 DEF Range
  <2>3. (SizesFit' => SizesFit) /\ (AllGood' => AllGood)
    BY <1>1, <1>5, <2>2 DEF SizesFit, AllGood, Regular
  <2>4. Cardinality(WireStrays) \in Nat
    BY <1>7, StraysFinite
  <2>5. Len(strays') = Len(strays) /\ Len(strays) \in Nat
    BY <1>1 DEF SentInv
  <2> QED
    BY <1>1, <1>3, <2>1, <2>2, <2>3, <2>4, <2>5 DEF Grows
<1> QED
  BY <1>4, <1>6, <1>7

LEMMA SendStrayGrows ==
  ASSUME SentInv, NEW cell \in Noise, SendStray(cell), Premise'
  PROVE  /\ Premise
         /\ (\E a : WireInv(a)) => Grows
<1>1. /\ sent' = sent /\ strays' = Append(strays, cell) /\ arrived' = arrived /\ whole' = whole
      /\ UNCHANGED <<parserVars, data, readpos, delivered, whole, arrived>>
  BY DEF SendStray
<1>2. strays \in Seq(Noise) /\ Len(sent) \in Nat /\ Len(strays) \in Nat
  BY DEF SentInv
<1>3. Premise
  BY <1>1 DEF Premise, AllSizes, BodySize
<1>4. Len(strays') = Len(strays) + 1 /\ Range(strays) \subseteq Range(strays)'
  <2>1. /\ DOMAIN strays = 1..Len(strays) /\ DOMAIN strays' = 1..(Len(strays) + 1) /\ Len(strays') = Len(strays) + 1
        /\ \A i \in 1..Len(strays) : strays'[i] = strays[i]
    BY <1>1, <1>2
  <2>2. \A i \in DOMAIN strays : i \in DOMAIN strays' /\ strays'[i] = strays[i]
    BY <1>2, <2>1
  <2> QED
    BY <2>1, <2>2 DEF Range
<1>5. ASSUME NEW a, WireInv(a) PROVE Grows
  <2>1. Cardinality(WireStrays') = Cardinality(WireStrays) + 1
    BY <1>3, <1>5, SendStrayWire
  <2>2. Cardinality(WireStrays) \in Nat
    BY <1>5, StraysFinite
  <2>3. SizesFit' => SizesFit
    BY <1>1 DEF SizesFit, AllSizes, BodySize
  <2>4. AllGood' => AllGood
    <3>1. Len(strays') <= ErrLimit => Len(strays) <= ErrLimit
      BY <1>2, <1>4, ParserAssumption
    <3>2. \A S : AllSizes(S)' => AllSizes(S)
      BY <1>1 DEF AllSizes, BodySize
    <3> QED
      BY <1>1, <1>4, <3>1, <3>2 DEF AllGood, Regular
  <2>5. /\ Cardinality(WireStrays') + Len(strays) = Cardinality(WireStrays) + Len(strays')
        /\ Cardinality(WireStrays') \in Nat /\ Len(strays') \in Nat
    BY <1>2, <1>4, <2>1, <2>2
  <2>6. \A k \in 1..Len(sent) : sent'[k] = sent[k]
    BY <1>1
  <2>7. Len(sent') \in Nat /\ Len(sent) <= Len(sent')
    BY <1>1, <1>2
  <2> QED
    BY <1>1, <1>4, <2>2, <2>3, <2>4, <2>5, <2>6, <2>7 DEF Grows
<1> QED
  BY <1>3, <1>5

\* All that holds: outside a call and within one.
BinInv ==
  /\ SentInv
  /\ Regular => ~ub
  /\ Premise => \E a : WireInv(a)
  /\ Premise /\ Idle => RestInv
  /\ Premise /\ Parsing => \E D, m, at : Reads(D, m, at)

LEMMA BinInit == Init => BinInv
<1> SUFFICES ASSUME Init PROVE BinInv
  OBVIOUS
<1>1. /\ status_ = "head" /\ write_pos_ = 0 /\ err_count_ = 0 /\ data = << >> /\ delivered = << >>
      /\ sent = << >> /\ wire = << >> /\ ends = {} /\ strays = << >> /\ arrived = 0 /\ ~ub
  BY DEF Init
<1>2. SentInv
  BY <1>1, ParserAssumption DEF SentInv
<1>3. PICK a : a = [k \in Nat |-> 0]
  OBVIOUS
<1>4. WireInv(a)
  <2>1. ends \cup {0} = {0} /\ Len(wire) = 0 /\ Len(sent) = 0 /\ wire \in Seq(Nat)
    BY <1>1
  <2>2. \A k : k \notin 1..0
    OBVIOUS
  <2>3. arrived + 1 = 1
    BY <1>1
  <2>4. Cut(wire, ends \cup {0}, arrived + 1, Len(sent), a)
    BY <2>1, <2>2, <2>3 DEF Cut
  <2> QED
    BY <1>1, <2>1, <2>4 DEF WireInv
<1>5. RestInv
  <2>1. WireStrays = {}
    BY <1>1 DEF WireStrays
  <2>2. Cardinality(WireStrays) = 0
    BY <2>1, FS_EmptySet
  <2>3. AsSent /\ AllSoFar /\ Len(delivered) = arrived
    BY <1>1 DEF AsSent, AllSoFar
  <2>4. HeadAt(0)
    BY <1>1 DEF HeadAt
  <2> QED
    BY <1>1, <2>2, <2>3, <2>4 DEF RestInv
<1> QED
  BY <1>1, <1>2, <1>4, <1>5 DEF BinInv, Parsing, Idle

\* The wire and the reads are as they were.
LEMMA WireStays ==
  ASSUME UNCHANGED peerVars
  PROVE  /\ \A a : WireInv(a) => WireInv(a)'
         /\ Premise' <=> Premise
         /\ Regular' <=> Regular
<1>1. /\ sent' = sent /\ wire' = wire /\ ends' = ends /\ strays' = strays /\ whole' = whole
      /\ arrived' = arrived
  BY DEF peerVars
<1>2. ASSUME NEW a, WireInv(a) PROVE WireInv(a)'
  <2>1. arrived \in 0..Len(sent) /\ 0 \notin ends /\ Cut(wire, ends \cup {0}, arrived + 1, Len(sent), a)
    BY <1>2 DEF WireInv
  <2> QED
    BY <1>1, <2>1, WireMoves
<1> QED
  BY <1>1, <1>2 DEF Premise, Regular, AllSizes, BodySize, Range

LEMMA ParseKeeps == FlagsApart /\ BinInv /\ ~ub /\ Parse => BinInv'
<1> SUFFICES ASSUME FlagsApart, BinInv, ~ub, Parse PROVE BinInv'
  OBVIOUS
<1>1. SentInv /\ SentInv' /\ UNCHANGED peerVars /\ Parsing
  <2>1. UNCHANGED peerVars
    BY DEF Parse, HeaderCell, SkipCell, HeadFlagsInvalid, WrongFlag, AcceptSize, FormatInvalid, BodyPart,
           BodyComplete, EndOfData
  <2>2. Parsing
    BY DEF Parse, HeaderCell, SkipCell, HeadFlagsInvalid, WrongFlag, AcceptSize, FormatInvalid, BodyPart,
           BodyComplete, EndOfData, InHeader, HeaderComplete, InBody
  <2>3. SentInv'
    <3>1. sent' = sent /\ strays' = strays
      BY <2>1 DEF peerVars
    <3>2. err_count_' = err_count_ \/ err_count_' = err_count_ + 1
      BY DEF Parse, HeaderCell, SkipCell, HeadFlagsInvalid, WrongFlag, AcceptSize, FormatInvalid, BodyPart,
             BodyComplete, EndOfData, parserVars
    <3> QED
      BY <3>1, <3>2 DEF SentInv, BinInv
  <2> QED
    BY <2>1, <2>2, <2>3 DEF BinInv
<1>2. /\ \A a : WireInv(a) => WireInv(a)'
      /\ Premise' <=> Premise
      /\ Regular' <=> Regular
  BY <1>1, WireStays
<1>3. Regular => Premise
  BY DEF Regular, Premise
<1>4. CASE ~Premise
  BY <1>1, <1>2, <1>3, <1>4 DEF BinInv
<1>5. CASE Premise
  <2>1. PICK a : WireInv(a)
    BY <1>5 DEF BinInv
  <2>2. PICK D, m, at : Reads(D, m, at)
    BY <1>1, <1>5 DEF BinInv
  <2>3. ASSUME data' = data, Reads(D, m, at)', Regular => ~ub' PROVE BinInv'
    BY <1>1, <1>2, <2>1, <2>3 DEF BinInv, Parsing, Idle
  <2>4. ASSUME data' = << >>, RestInv', Regular => ~ub' PROVE BinInv'
    BY <1>1, <1>2, <2>1, <2>4 DEF BinInv, Parsing, Idle
  <2>5. CASE HeaderCell
    <3>1. data' = data
      BY <2>5 DEF HeaderCell
    <3> QED
      BY <1>1, <1>5, <2>2, <2>3, <2>5, <3>1, HeaderCellKeeps
  <2>6. CASE SkipCell
    <3>1. data' = data
      BY <2>6 DEF SkipCell
    <3> QED
      BY <1>1, <1>5, <2>1, <2>2, <2>3, <2>6, <3>1, SkipCellKeeps
  <2>7. CASE HeadFlagsInvalid
    <3>1. data' = << >>
      BY <2>7 DEF HeadFlagsInvalid, Return
    <3> QED
      BY <1>1, <1>5, <2>1, <2>2, <2>4, <2>7, <3>1, HeadFlagsInvalidKeeps
  <2>8. CASE AcceptSize
    <3>1. data' = data /\ ub' = ub
      BY <2>8 DEF AcceptSize
    <3> QED
      BY <1>1, <1>5, <2>2, <2>3, <2>8, <3>1, AcceptSizeKeeps
  <2>9. CASE FormatInvalid
    <3>1. data' = << >> /\ ub' = ub
      BY <2>9 DEF FormatInvalid, Return
    <3> QED
      BY <1>1, <1>5, <2>2, <2>4, <2>9, <3>1, FormatInvalidKeeps
  <2>10. CASE BodyPart
    BY <1>1, <1>5, <2>2, <2>10, NoBodyPart
  <2>11. CASE BodyComplete
    <3>1. data' = data
      BY <2>11 DEF BodyComplete
    <3> QED
      BY <1>1, <1>5, <2>2, <2>3, <2>11, <3>1, BodyCompleteKeeps
  <2>12. CASE EndOfData
    <3>1. data' = << >> /\ ub' = ub
      BY <2>12 DEF EndOfData, Return
    <3> QED
      BY <1>1, <1>5, <2>1, <2>2, <2>4, <2>12, <3>1, EndOfDataKeeps
  <2> QED
    BY <2>5, <2>6, <2>7, <2>8, <2>9, <2>10, <2>11, <2>12 DEF Parse
<1> QED
  BY <1>4, <1>5

LEMMA PeerKeeps ==
  ASSUME BinInv, SentInv', ub' = ub, data' = data, Premise' => Premise, Regular' => Regular,
         Premise' => (\E a : WireInv(a)'), Premise' /\ (\E a : WireInv(a)) => Grows
  PROVE  BinInv'
<1>1. CASE ~Premise'
  <2>1. Regular' => Premise'
    BY DEF Regular, Premise
  <2> QED
    BY <1>1, <2>1 DEF BinInv
<1>2. CASE Premise'
  <2>1. PICK a : WireInv(a)
    BY <1>2 DEF BinInv
  <2>2. Grows /\ Premise /\ SentInv
    BY <1>2, <2>1 DEF BinInv
  <2>3. arrived \in 0..Len(sent)
    BY <2>1 DEF WireInv
  <2>4. Idle' => RestInv'
    BY <2>2, <2>3, RestGrows DEF BinInv, Idle
  <2>5. Parsing' => \E D, m, at : Reads(D, m, at)'
    BY <2>2, ReadsGrow DEF BinInv, Parsing, Idle
  <2> QED
    BY <1>2, <2>4, <2>5 DEF BinInv
<1> QED
  BY <1>1, <1>2

LEMMA BinStep == FlagsApart /\ BinInv /\ [Next]_vars => BinInv'
<1> SUFFICES ASSUME FlagsApart, BinInv, [Next]_vars PROVE BinInv'
  OBVIOUS
<1>1. ASSUME ~ub, NEW body \in Bodies, Send(body), Next PROVE BinInv'
  <2>1. SentInv /\ SentInv' /\ ub' = ub /\ data' = data /\ whole' = whole /\ strays' = strays
    BY <1>1, SentKeeps DEF BinInv, Send
  <2>2. Premise' => Premise /\ body > 0 /\ ((\E a : WireInv(a)) => Grows)
    BY <1>1, <2>1, SendGrows
  <2>3. Premise' => \E a : WireInv(a)'
    BY <1>1, <2>1, <2>2, SendWire DEF BinInv
  <2>4. Regular' => Regular
    <3>1. Regular' => Premise'
      BY DEF Regular, Premise
    <3>2. Range(strays)' = Range(strays)
      BY <2>1 DEF Range
    <3> QED
      BY <2>1, <2>2, <3>1, <3>2 DEF Regular, Premise
  <2> QED
    BY <2>1, <2>2, <2>3, <2>4, PeerKeeps
<1>2. ASSUME ~ub, NEW cell \in Noise, SendStray(cell), Next PROVE BinInv'
  <2>1. SentInv /\ SentInv' /\ ub' = ub /\ data' = data /\ whole' = whole /\ sent' = sent /\ strays' = Append(strays, cell)
    BY <1>2, SentKeeps DEF BinInv, SendStray
  <2>2. Premise' => Premise /\ ((\E a : WireInv(a)) => Grows)
    BY <1>2, <2>1, SendStrayGrows
  <2>3. Premise' => \E a : WireInv(a)'
    BY <1>2, <2>1, <2>2, SendStrayWire DEF BinInv
  <2>4. Regular' => Regular
    <3>1. \A i \in DOMAIN strays : i \in DOMAIN strays' /\ strays'[i] = strays[i]
      <4>1. strays \in Seq(Noise)
        BY <2>1 DEF SentInv
      <4> QED
        BY <2>1, <4>1
    <3>2. Range(strays) \subseteq Range(strays)'
      BY <3>1 DEF Range
    <3> QED
      BY <2>1, <3>2 DEF Regular, AllSizes, BodySize
  <2> QED
    BY <2>1, <2>2, <2>3, <2>4, PeerKeeps
<1>3. ASSUME ~ub, NEW n \in 1..Len(wire), ReadStream(n), Next PROVE BinInv'
  <2>1. /\ SentInv /\ SentInv' /\ ub' = ub /\ sent' = sent /\ strays' = strays /\ whole' = (whole /\ n \in ends)
        /\ Idle /\ data' = SubSeq(wire, 1, n)
    BY <1>3, SentKeeps DEF BinInv, ReadStream
  <2>2. /\ Premise' => Premise /\ whole'
        /\ Regular' => Regular
    BY <2>1 DEF Premise, Regular, AllSizes, BodySize, Range
  <2>3. CASE ~Premise'
    <3>1. Regular' => Premise'
      BY DEF Regular, Premise
    <3> QED
      BY <2>1, <2>3, <3>1 DEF BinInv
  <2>4. CASE Premise'
    <3>1. PICK a : WireInv(a)
      BY <2>2, <2>4 DEF BinInv
    <3>2. RestInv
      BY <2>1, <2>2, <2>4 DEF BinInv
    <3>3. WireInv(After(a, n))' /\ \E D, m : Reads(D, m, a)'
      BY <1>3, <2>1, <2>2, <2>4, <3>1, <3>2, ReadStreamKeeps
    <3>4. ~Idle'
      <4>1. wire \in Seq(Nat)
        BY <3>1 DEF WireInv, Cut
      <4>2. Len(data') >= 1
        BY <1>3, <2>1, <4>1
      <4> QED
        BY <4>2 DEF Idle
    <3>5. PICK x : x = After(a, n)
      OBVIOUS
    <3>6. WireInv(x)'
      BY <3>3, <3>5
    <3> QED
      BY <1>3, <2>1, <2>2, <3>3, <3>4, <3>6 DEF BinInv
  <2> QED
    BY <2>3, <2>4
<1>4. CASE ~ub /\ Parse
  BY <1>4, ParseKeeps
<1>5. CASE UNCHANGED vars
  <2>1. UNCHANGED peerVars /\ UNCHANGED <<parserVars, data, readpos, delivered, ub>>
    BY <1>5 DEF vars
  <2>2. \A D, m, at : Reads(D, m, at)' <=> Reads(D, m, at)
    BY <2>1 DEF Reads, PlaceInv, AheadInv, CountInv, Cut, PacketAt, StrayBefore, Between, Inside, Synced, Missed,
                HeadAt, SizesFit, AllGood, Regular, AllSizes, BodySize, AsSent, Number, Unread, AllSoFar, DataStrays,
                WireStrays, Range, peerVars, parserVars
  <2>3. (RestInv' <=> RestInv) /\ (SentInv' <=> SentInv)
    BY <2>1 DEF RestInv, HeadAt, SizesFit, AllGood, Regular, AllSizes, BodySize, AsSent, Number, AllSoFar, WireStrays,
                Range, SentInv, peerVars, parserVars
  <2> QED
    BY <2>1, <2>2, <2>3, WireStays DEF BinInv, Idle, Parsing
<1> QED
  BY <1>1, <1>2, <1>3, <1>4, <1>5 DEF Next

LEMMA BinCorrect == ASSUME FlagsApart PROVE Spec => []BinInv
<1>1. BinInv /\ [Next]_vars => BinInv'
  BY BinStep
<1> QED
  BY <1>1, BinInit, PTL DEF Spec

\* Where the flags are apart, regular reads touch nothing outside buffer_, and each
\* call delivers every packet that it reads, as it was sent and in order.
THEOREM NothingHeldBackCorrect ==
  ASSUME FlagsApart
  PROVE  Spec => []NothingHeldBack
<1>1. BinInv => NothingHeldBack
  <2> SUFFICES ASSUME BinInv, Regular,
                      AllSizes(1..(HalfRange - 1)), Len(strays) <= ErrLimit, Idle
               PROVE  delivered = SubSeq(sent, 1, arrived)
    BY DEF NothingHeldBack, BinInv
  <2>1. AllGood /\ Premise /\ SizesFit /\ SentInv
    <3>1. \A x \in 1..(HalfRange - 1) : x \in 1..(FullRange - 1)
      BY ParserAssumption DEF FullRange
    <3> QED
      BY <3>1 DEF AllGood, Premise, Regular, SizesFit, AllSizes, BinInv
  <2>2. /\ delivered \in Seq(Seq(Nat)) /\ Len(delivered) = arrived /\ arrived <= Len(sent)
        /\ \A i \in 1..Len(delivered) : delivered[i] = sent[i]
        /\ sent \in Seq(Seq(Nat)) /\ arrived \in Nat
    <3>1. PICK a : WireInv(a)
      BY <2>1 DEF BinInv
    <3>2. RestInv
      BY <2>1 DEF BinInv
    <3>3. arrived \in 0..Len(sent) /\ sent \in Seq(Seq(Nat))
      BY <2>1, <3>1 DEF WireInv, SentInv
    <3> QED
      BY <2>1, <3>2, <3>3 DEF RestInv, AsSent, AllSoFar
  <2>3. /\ SubSeq(sent, 1, arrived) \in Seq(Seq(Nat)) /\ Len(SubSeq(sent, 1, arrived)) = arrived
        /\ \A i \in 1..arrived : SubSeq(sent, 1, arrived)[i] = sent[i]
    BY <2>2
  <2> QED
    BY <2>2, <2>3
<1> QED
  BY <1>1, BinCorrect, PTL

\* Where the flags are apart, reads of whole packets, with bodies of 1 to FullRange - 1
\* cells, deliver packets that were sent, as they were sent, in order, none twice: for
\* any number of packets and stray cells, and however many are refused.
THEOREM IntactCorrect ==
  ASSUME FlagsApart
  PROVE  Spec => []Intact
<1>1. BinInv => Intact
  <2> SUFFICES ASSUME BinInv, whole, SizesFit
               PROVE  \E at \in [1..Len(delivered) -> 1..Len(sent)] :
                        /\ \A k \in 1..Len(delivered) : delivered[k] = sent[at[k]]
                        /\ \A j, k \in 1..Len(delivered) : j < k => at[j] < at[k]
    BY DEF Intact, SizesFit
  <2>1. Premise
    <3>1. \A x \in 1..(FullRange - 1) : x \in Nat \ {0}
      BY ParserAssumption DEF FullRange
    <3> QED
      BY <3>1 DEF Premise, SizesFit, AllSizes
  <2>2. AsSent
    <3>1. CASE Idle
      BY <2>1, <3>1 DEF BinInv, RestInv
    <3>2. CASE Parsing
      BY <2>1, <3>2 DEF BinInv, Reads, AheadInv
    <3> QED
      BY <3>1, <3>2 DEF Parsing
  <2>3. 1..arrived \subseteq 1..Len(sent)
    BY <2>1 DEF BinInv, WireInv, SentInv
  <2> DEFINE at == [k \in 1..Len(delivered) |-> Number(delivered[k])]
  <2>4. at \in [1..Len(delivered) -> 1..Len(sent)]
    BY <2>2, <2>3 DEF AsSent
  <2>5. /\ \A k \in 1..Len(delivered) : delivered[k] = sent[at[k]]
        /\ \A j, k \in 1..Len(delivered) : j < k => at[j] < at[k]
    BY <2>2 DEF AsSent
  <2> HIDE DEF at
  <2> QED
    BY <2>4, <2>5
<1> QED
  BY <1>1, BinCorrect, PTL
----------------------------------------------------------------------------
(* Part 2: MysqlSession                                                     *)

\* The rows of the call that are still to be executed.
Left == {call.left[i] : i \in 1..Len(call.left)}

TypeInv ==
  /\ con \in BOOLEAN
  /\ server \in [up : BOOLEAN, open : BOOLEAN, pending : SUBSET Nat]
  /\ stored \in SUBSET Nat
  /\ stmt \in {"none", "ready", "stale"}
  /\ call \in [at : {"idle", "begin", "rows", "rollback", "one"}, left : Seq(Nat), all : SUBSET Nat,
               batch : BOOLEAN, lost : BOOLEAN]
  /\ told \in SUBSET [rows : SUBSET Nat, ok : BOOLEAN, batch : BOOLEAN, kept : BOOLEAN]
  /\ losses \in Nat /\ rows \in Nat

\* Every row that is known anywhere was numbered by an insert.
Numbered ==
  /\ \A n \in stored \union server.pending \union call.all : n <= rows
  /\ \A t \in told : \A n \in t.rows : n <= rows

\* A session that is down has no transaction: it was rolled back.
DownIsEmpty == ~server.up => server.pending = {}

\* Where the rows of the call under way are: nowhere before its begin, in its own
\* transaction after it, and never stored before the call returns.
CallInv ==
  /\ Left \subseteq call.all
  /\ call.at = "idle" => call.all = {}
  /\ call.at # "idle" => call.all \intersect stored = {}
  /\ call.at = "begin" => call.all \intersect server.pending = {} /\ Left = call.all
  /\ call.at = "one" => ~call.batch /\ call.left # << >>
  /\ call.at = "rows" =>
       /\ server.up => server.open /\ server.pending \union Left = call.all
       /\ ~server.up => call.lost

\* A batch that is told of is decided for good: its rows are stored, or neither
\* stored nor in the transaction that is open now.
Decided(t) ==
  \/ /\ t.rows \intersect (stored \union server.pending) = {}
     /\ ~(t.ok /\ t.kept /\ t.rows # {})
  \/ t.rows \subseteq stored /\ (t.ok \/ ~t.kept)

ToldInv ==
  \A t \in told : t.batch => Decided(t) /\ t.rows \intersect call.all = {}

SessionInv == TypeInv /\ Numbered /\ DownIsEmpty /\ CallInv /\ ToldInv

----------------------------------------------------------------------------
(* Lemmas about the operators                                               *)

LEMMA NoCallTyped ==
  /\ NoCall.at = "idle" /\ NoCall.left = << >> /\ NoCall.all = {} /\ NoCall.batch = FALSE /\ NoCall.lost = FALSE
  /\ NoCall \in [at : {"idle", "begin", "rows", "rollback", "one"}, left : Seq(Nat), all : SUBSET Nat,
                 batch : BOOLEAN, lost : BOOLEAN]
BY EmptySeq DEF NoCall

LEMMA NewServerTyped ==
  /\ NewServer \in [up : BOOLEAN, open : BOOLEAN, pending : SUBSET Nat]
  /\ NewServer.up = TRUE /\ NewServer.open = FALSE /\ NewServer.pending = {}
  /\ [NewServer EXCEPT !.up = FALSE] \in [up : BOOLEAN, open : BOOLEAN, pending : SUBSET Nat]
  /\ [NewServer EXCEPT !.up = FALSE].up = FALSE /\ [NewServer EXCEPT !.up = FALSE].pending = {}
  /\ [NewServer EXCEPT !.open = TRUE] \in [up : BOOLEAN, open : BOOLEAN, pending : SUBSET Nat]
  /\ [NewServer EXCEPT !.open = TRUE].up = TRUE /\ [NewServer EXCEPT !.open = TRUE].open = TRUE
  /\ [NewServer EXCEPT !.open = TRUE].pending = {}
BY DEF NewServer

\* The server that a command reaches has the same open transaction, or none.
LEMMA ReachedTyped ==
  ASSUME TypeInv, DownIsEmpty
  PROVE  /\ Reached \in [up : BOOLEAN, open : BOOLEAN, pending : SUBSET Nat]
         /\ Reached.up = TRUE /\ Reached.pending = server.pending
BY NewServerTyped DEF TypeInv, DownIsEmpty, Reached

LEMMA DetachedTyped == TypeInv => Detached \in {"none", "ready", "stale"}
BY DEF TypeInv, Detached

LEMMA HeadAndTail ==
  ASSUME NEW s \in Seq(Nat), s # << >>
  PROVE  /\ Head(s) \in Nat /\ Tail(s) \in Seq(Nat)
         /\ {s[i] : i \in 1..Len(s)} = {Head(s)} \union {Tail(s)[i] : i \in 1..Len(Tail(s))}
<1>1. /\ Len(s) \in Nat /\ Len(s) > 0 /\ Head(s) = s[1] /\ Head(s) \in Nat /\ Tail(s) \in Seq(Nat)
      /\ Len(Tail(s)) = Len(s) - 1 /\ \A i \in 1..Len(Tail(s)) : Tail(s)[i] = s[i + 1]
  BY HeadTailProperties
<1>2. ASSUME NEW i \in 1..Len(s) PROVE s[i] \in {Head(s)} \union {Tail(s)[j] : j \in 1..Len(Tail(s))}
  <2>1. CASE i = 1
    BY <1>1, <2>1
  <2>2. CASE i # 1
    <3>1. i - 1 \in 1..Len(Tail(s)) /\ i - 1 + 1 = i
      BY <1>1, <2>2
    <3>2. Tail(s)[i - 1] = s[i]
      BY <1>1, <3>1
    <3> QED
      BY <3>1, <3>2
  <2> QED
    BY <2>1, <2>2
<1>3. Head(s) \in {s[i] : i \in 1..Len(s)}
  <2>1. 1 \in 1..Len(s)
    BY <1>1
  <2> QED
    BY <1>1, <2>1
<1>4. ASSUME NEW j \in 1..Len(Tail(s)) PROVE Tail(s)[j] \in {s[i] : i \in 1..Len(s)}
  <2>1. j + 1 \in 1..Len(s)
    BY <1>1
  <2> QED
    BY <1>1, <2>1
<1>5. Head(s) \in Nat /\ Tail(s) \in Seq(Nat)
  BY <1>1
<1> QED
  BY <1>2, <1>3, <1>4, <1>5, ZenonT(60)

----------------------------------------------------------------------------
(* Steps that leave the call alone                                          *)

LEMMA InitSession == MysqlInit => SessionInv
<1> SUFFICES ASSUME MysqlInit PROVE SessionInv
  OBVIOUS
<1>1. call.all = {} /\ call.at = "idle" /\ call.left = << >> /\ told = {} /\ stored = {} /\ server.pending = {}
  BY NoCallTyped, NewServerTyped DEF MysqlInit
<1>2. con \in BOOLEAN
  BY DEF MysqlInit
<1>3. TypeInv
  BY <1>2, NoCallTyped, NewServerTyped DEF MysqlInit, TypeInv
<1>4. Left = {}
  BY <1>1 DEF Left
<1> QED
  BY <1>1, <1>3, <1>4 DEF SessionInv, Numbered, DownIsEmpty, CallInv, ToldInv

\* The connection is made or closed, and the transaction on it is rolled back.
LEMMA RolledBack ==
  ASSUME SessionInv, con' \in BOOLEAN, stmt' \in {"none", "ready", "stale"}, losses' \in Nat,
         server' \in [up : BOOLEAN, open : BOOLEAN, pending : SUBSET Nat], server'.pending = {},
         UNCHANGED <<stored, told, rows>>,
         \/ call.at = "idle" /\ call' = call
         \/ ~server'.up /\ call' = [call EXCEPT !.lost = call.at # "idle"]
  PROVE  SessionInv'
<1>1. /\ call'.at = call.at /\ call'.left = call.left /\ call'.all = call.all /\ call'.batch = call.batch
      /\ call.at # "idle" => call'.lost /\ ~server'.up
  BY DEF SessionInv, TypeInv
<1>2. call' \in [at : {"idle", "begin", "rows", "rollback", "one"}, left : Seq(Nat), all : SUBSET Nat,
                 batch : BOOLEAN, lost : BOOLEAN]
  <2>1. (call.at # "idle") \in BOOLEAN
    OBVIOUS
  <2> QED
    BY <2>1 DEF SessionInv, TypeInv
<1>3. TypeInv'
  BY <1>2 DEF SessionInv, TypeInv
<1>4. Left' = Left
  BY <1>1 DEF Left
<1>5. Numbered' /\ DownIsEmpty'
  BY <1>1 DEF SessionInv, Numbered, DownIsEmpty
<1>6. CallInv'
  BY <1>1, <1>4 DEF SessionInv, CallInv
<1>7. ToldInv'
  BY <1>1 DEF SessionInv, ToldInv, Decided
<1> QED
  BY <1>3, <1>5, <1>6, <1>7 DEF SessionInv

LEMMA ConnectionKeeps ==
  ASSUME SessionInv, Connect \/ Disconnect \/ ServerCloses \/ RollbackTx
  PROVE  SessionInv'
<1> USE NewServerTyped
<1>1. CASE Connect
  <2>1. con' \in BOOLEAN /\ stmt' \in {"none", "ready", "stale"} /\ call' = call /\ call.at = "idle"
    BY <1>1 DEF Connect, Free, SessionInv, TypeInv
  <2>2. server' \in [up : BOOLEAN, open : BOOLEAN, pending : SUBSET Nat] /\ server'.pending = {}
    BY <1>1 DEF Connect
  <2>3. UNCHANGED <<stored, told, rows, losses>>
    BY <1>1 DEF Connect
  <2> QED
    BY <2>1, <2>2, <2>3, RolledBack DEF SessionInv, TypeInv
<1>2. CASE Disconnect
  <2>1. con' \in BOOLEAN /\ stmt' \in {"none", "ready", "stale"} /\ call' = call /\ call.at = "idle"
    BY <1>2 DEF Disconnect, Free, SessionInv, TypeInv
  <2> QED
    BY <1>2, <2>1, RolledBack DEF Disconnect, SessionInv, TypeInv
<1>3. CASE ServerCloses
  <2>1. losses' \in Nat
    BY <1>3 DEF ServerCloses, SessionInv, TypeInv
  <2> QED
    BY <1>3, <2>1, RolledBack DEF ServerCloses, SessionInv, TypeInv
<1>4. CASE RollbackTx
  BY <1>4, DetachedTyped, RolledBack DEF RollbackTx, Free, SessionInv, TypeInv
<1> QED
  BY <1>1, <1>2, <1>3, <1>4

\* The caller's begin and commit store what is pending: of batches that is none.
LEMMA CallerCommits ==
  ASSUME SessionInv, BeginTx \/ CommitTx
  PROVE  SessionInv'
<1>1. /\ server' \in [up : BOOLEAN, open : BOOLEAN, pending : SUBSET Nat] /\ server'.up /\ server'.pending = {}
      /\ stored' = stored \union server.pending /\ stmt' \in {"none", "ready", "stale"}
      /\ call.at = "idle" /\ UNCHANGED <<con, call, told, losses, rows>>
  BY NewServerTyped, ReachedTyped, DetachedTyped DEF BeginTx, CommitTx, Commits, Free, SessionInv
<1>2. TypeInv'
  BY <1>1 DEF SessionInv, TypeInv
<1>3. Left' = Left
  BY <1>1 DEF Left
<1>4. Numbered' /\ DownIsEmpty'
  BY <1>1 DEF SessionInv, Numbered, DownIsEmpty
<1>5. CallInv'
  BY <1>1, <1>3 DEF SessionInv, CallInv
<1>6. ToldInv'
  BY <1>1 DEF SessionInv, ToldInv, Decided
<1> QED
  BY <1>2, <1>4, <1>5, <1>6 DEF SessionInv

----------------------------------------------------------------------------
(* The steps of a call                                                      *)

\* The rows of a new call have numbers of their own.
LEMMA PrepareKeeps ==
  ASSUME SessionInv, call.at = "idle", UNCHANGED <<con, stored, told, losses>>,
         NEW next \in {"begin", "one"}, NEW all \in Seq(Nat), NEW batch \in BOOLEAN,
         \A i \in 1..Len(all) : all[i] > rows /\ all[i] <= rows + Len(all),
         next = "one" => ~batch /\ all # << >>, Prepare(next, all, batch)
  PROVE  SessionInv'
<1> DEFINE new == [at |-> next, left |-> all, all |-> {all[i] : i \in DOMAIN all},
                   batch |-> batch, lost |-> FALSE]
<1>1. PICK ok \in BOOLEAN :
        /\ server' \in (IF ok THEN {Reached} ELSE {server, Reached})
        /\ stmt' = IF ok THEN "ready" ELSE "stale"
        /\ IF ok THEN call' = new /\ rows' = rows + Len(all) ELSE UNCHANGED <<call, rows>>
  BY DEF Prepare
<1>2. Len(all) \in Nat /\ DOMAIN all = 1..Len(all) /\ \A i \in 1..Len(all) : all[i] \in Nat
  OBVIOUS
<1>3. /\ server' \in [up : BOOLEAN, open : BOOLEAN, pending : SUBSET Nat]
      /\ server'.pending = server.pending /\ DownIsEmpty' /\ (ok => server'.up)
  BY <1>1, ReachedTyped DEF SessionInv, TypeInv, DownIsEmpty
<1>4. CASE ~ok
  <2>1. server'.pending = server.pending /\ UNCHANGED <<call, rows>> /\ stmt' = "stale"
    BY <1>1, <1>3, <1>4
  <2>2. Left' = Left
    BY <2>1 DEF Left
  <2>3. TypeInv' /\ Numbered' /\ ToldInv'
    BY <1>3, <2>1 DEF SessionInv, TypeInv, Numbered, ToldInv, Decided
  <2>4. CallInv'
    BY <2>1, <2>2 DEF SessionInv, CallInv
  <2> QED
    BY <1>3, <2>3, <2>4 DEF SessionInv
<1>5. CASE ok
  <2>1. /\ call'.at = next /\ call'.left = all /\ call'.all = {all[i] : i \in 1..Len(all)}
        /\ call'.batch = batch /\ call'.lost = FALSE /\ rows' = rows + Len(all) /\ stmt' = "ready"
    BY <1>1, <1>2, <1>5
  <2>2. call' \in [at : {"idle", "begin", "rows", "rollback", "one"}, left : Seq(Nat), all : SUBSET Nat,
                   batch : BOOLEAN, lost : BOOLEAN]
    <3>1. {all[i] : i \in DOMAIN all} \in SUBSET Nat
      BY <1>2
    <3>2. next \in {"idle", "begin", "rows", "rollback", "one"} /\ FALSE \in BOOLEAN
      OBVIOUS
    <3>3. new \in [at : {"idle", "begin", "rows", "rollback", "one"}, left : Seq(Nat), all : SUBSET Nat,
                  batch : BOOLEAN, lost : BOOLEAN]
      BY <3>1, <3>2
    <3> QED
      BY <1>1, <1>5, <3>3
  <2>3. rows' \in Nat /\ rows <= rows'
    BY <1>2, <2>1 DEF SessionInv, TypeInv
  <2>4. \A n \in call'.all : n \in Nat /\ n > rows /\ n <= rows'
    BY <1>2, <2>1
  <2>5. TypeInv'
    BY <1>3, <2>1, <2>2, <2>3 DEF SessionInv, TypeInv
  <2>6. /\ \A n \in stored \union server.pending : n \in Nat /\ n <= rows
        /\ \A t \in told : \A n \in t.rows : n \in Nat /\ n <= rows
        /\ rows \in Nat
    BY DEF SessionInv, TypeInv, Numbered
  <2>7. call'.all \intersect (stored \union server.pending) = {} /\ \A t \in told : t.rows \intersect call'.all = {}
    BY <2>4, <2>6
  <2>8. Numbered'
    BY <1>3, <2>3, <2>4, <2>6 DEF Numbered
  <2>9. Left' = call'.all
    BY <2>1 DEF Left
  <2>10. CallInv'
    BY <1>3, <2>1, <2>7, <2>9 DEF CallInv
  <2>11. ToldInv'
    BY <1>3, <2>7 DEF SessionInv, ToldInv, Decided
  <2> QED
    BY <1>3, <2>5, <2>8, <2>10, <2>11 DEF SessionInv
<1> QED
  BY <1>4, <1>5

LEMMA InsertKeeps ==
  ASSUME SessionInv, InsertMany \/ InsertOne
  PROVE  SessionInv'
<1>1. rows \in Nat
  BY DEF SessionInv, TypeInv
<1>2. CASE InsertMany
  <2>1. PICK n \in 0..MaxBatch : Prepare("begin", [i \in 1..n |-> rows + i], TRUE)
    BY <1>2 DEF InsertMany
  <2> DEFINE all == [i \in 1..n |-> rows + i]
  <2>2. all \in Seq(Nat) /\ Len(all) = n /\ \A i \in 1..Len(all) : all[i] > rows /\ all[i] <= rows + Len(all)
    BY <1>1
  <2>3. call.at = "idle" /\ UNCHANGED <<con, stored, told, losses>> /\ Prepare("begin", all, TRUE)
    BY <1>2, <2>1 DEF InsertMany, Free
  <2> HIDE DEF all
  <2> QED
    BY <2>2, <2>3, PrepareKeeps
<1>3. CASE InsertOne
  <2> DEFINE all == <<rows + 1>>
  <2>1. all \in Seq(Nat) /\ Len(all) = 1 /\ all # << >> /\ \A i \in 1..Len(all) : all[i] > rows /\ all[i] <= rows + Len(all)
    BY <1>1
  <2>2. call.at = "idle" /\ UNCHANGED <<con, stored, told, losses>> /\ Prepare("one", all, FALSE)
    BY <1>3 DEF InsertOne, Free
  <2> HIDE DEF all
  <2> QED
    BY <2>1, <2>2, PrepareKeeps
<1> QED
  BY <1>2, <1>3

\* What a call that returns says of its rows, when they are where CallInv has them.
LEMMA TellKeeps ==
  ASSUME SessionInv, NEW ok \in BOOLEAN, NEW kept \in BOOLEAN, Tells(ok, kept), UNCHANGED <<con, rows>>,
         losses' \in Nat, stmt' \in {"none", "ready", "stale"}, stored' \in SUBSET Nat,
         server' \in [up : BOOLEAN, open : BOOLEAN, pending : SUBSET Nat], DownIsEmpty',
         \A n \in stored' \union server'.pending : n \in stored \union server.pending \union call.all,
         stored \subseteq stored',
         call.batch =>
           \/ call.all \intersect (stored' \union server'.pending) = {} /\ ~(ok /\ kept /\ call.all # {})
           \/ call.all \subseteq stored' /\ (ok \/ ~kept)
  PROVE  SessionInv'
<1> DEFINE r == [rows |-> call.all, ok |-> ok, batch |-> call.batch, kept |-> kept]
<1>1. /\ r.rows = call.all /\ r.ok = ok /\ r.batch = call.batch /\ r.kept = kept
      /\ r \in [rows : SUBSET Nat, ok : BOOLEAN, batch : BOOLEAN, kept : BOOLEAN]
  <2>1. call.all \in SUBSET Nat /\ call.batch \in BOOLEAN
    BY DEF SessionInv, TypeInv
  <2> QED
    BY <2>1
<1>2. told' = told \union {r} /\ call' = NoCall
  BY DEF Tells
<1> HIDE DEF r
<1>3. TypeInv'
  BY <1>1, <1>2, NoCallTyped DEF SessionInv, TypeInv
<1>4. Numbered'
  BY <1>1, <1>2, NoCallTyped DEF SessionInv, Numbered
<1>5. Left' = {}
  BY <1>2, NoCallTyped DEF Left
<1>6. CallInv'
  BY <1>2, <1>5, NoCallTyped DEF CallInv
<1>7. ASSUME NEW t \in told', t.batch PROVE Decided(t)'
  <2>1. CASE t = r
    BY <1>1, <1>7, <2>1 DEF Decided
  <2>2. CASE t \in told
    BY <1>7, <2>2 DEF SessionInv, ToldInv, Decided
  <2> QED
    BY <1>2, <2>1, <2>2
<1>8. ToldInv'
  BY <1>2, <1>7, NoCallTyped DEF ToldInv
<1> QED
  BY <1>3, <1>4, <1>6, <1>8 DEF SessionInv

LEMMA ReturnKeeps ==
  ASSUME SessionInv, NEW ok \in BOOLEAN, Returns(ok), UNCHANGED <<con, losses, rows>>,
         stmt' \in {"none", "ready", "stale"}, stored' \in SUBSET Nat,
         server' \in [up : BOOLEAN, open : BOOLEAN, pending : SUBSET Nat], DownIsEmpty',
         \A n \in stored' \union server'.pending : n \in stored \union server.pending \union call.all,
         stored \subseteq stored',
         call.batch =>
           \/ call.all \intersect (stored' \union server'.pending) = {} /\ ~(ok /\ ~call.lost /\ call.all # {})
           \/ call.all \subseteq stored' /\ ok
  PROVE  SessionInv'
<1> DEFINE kept == ~call.lost
<1>1. kept \in BOOLEAN /\ Tells(ok, kept) /\ losses' \in Nat
  BY DEF Returns, SessionInv, TypeInv
<1>2. call.batch =>
        \/ call.all \intersect (stored' \union server'.pending) = {} /\ ~(ok /\ kept /\ call.all # {})
        \/ call.all \subseteq stored' /\ (ok \/ ~kept)
  OBVIOUS
<1> HIDE DEF kept
<1> QED
  BY <1>1, <1>2, TellKeeps

\* The rows of a call whose answer is lost are stored, all of them, or none.
LEMMA AnswerLostKeeps ==
  ASSUME SessionInv, AnswerLost, UNCHANGED <<con, rows>>, stored' \in SUBSET Nat,
         \A n \in stored' : n \in stored \union server.pending \union call.all, stored \subseteq stored',
         call.batch => call.all \intersect stored' = {} \/ call.all \subseteq stored'
  PROVE  SessionInv'
<1>a. /\ losses' = losses + 1 /\ server' = [NewServer EXCEPT !.up = FALSE]
      /\ stmt' = "none" /\ Tells(FALSE, FALSE)
  BY DEF AnswerLost
<1>b. losses \in Nat
  BY DEF SessionInv, TypeInv
<1>c. losses' \in Nat
  BY <1>a, <1>b
<1>d. server' = [up |-> FALSE, open |-> FALSE, pending |-> {}]
  BY <1>a DEF NewServer
<1>1. server' \in [up : BOOLEAN, open : BOOLEAN, pending : SUBSET Nat] /\ server'.pending = {}
  BY <1>d
<1>e. stmt' = "none"
  BY <1>a
<1>f. Tells(FALSE, FALSE)
  BY <1>a, Zenon
<1>2. DownIsEmpty'
  BY <1>d DEF DownIsEmpty
<1> QED
  BY <1>1, <1>2, <1>c, <1>e, <1>f, TellKeeps

\* The begin of insert_aux stores what the caller had pending, and none of the call's rows.
LEMMA BeginKeeps ==
  ASSUME SessionInv, Begin
  PROVE  SessionInv'
<1>1. call.at = "begin" /\ UNCHANGED <<con, rows>> /\ call.all \intersect (stored \union server.pending) = {}
  BY DEF Begin, SessionInv, CallInv
<1>2. CASE /\ Commits(Reached) /\ server' = [NewServer EXCEPT !.open = TRUE]
           /\ stmt' = Detached /\ call' = [call EXCEPT !.at = "rows"] /\ UNCHANGED <<told, losses>>
  <2>1. /\ server' \in [up : BOOLEAN, open : BOOLEAN, pending : SUBSET Nat] /\ server'.up /\ server'.open
        /\ server'.pending = {} /\ stored' = stored \union server.pending /\ stmt' \in {"none", "ready", "stale"}
    BY <1>2, NewServerTyped, ReachedTyped, DetachedTyped DEF Commits, SessionInv
  <2>2. /\ call'.at = "rows" /\ call'.left = call.left /\ call'.all = call.all
        /\ call' \in [at : {"idle", "begin", "rows", "rollback", "one"}, left : Seq(Nat), all : SUBSET Nat,
                      batch : BOOLEAN, lost : BOOLEAN]
    BY <1>2 DEF SessionInv, TypeInv
  <2>3. TypeInv'
    BY <1>1, <1>2, <2>1, <2>2 DEF SessionInv, TypeInv
  <2>4. Left' = Left
    BY <2>2 DEF Left
  <2>5. Numbered' /\ DownIsEmpty'
    BY <1>1, <1>2, <2>1, <2>2 DEF SessionInv, Numbered, DownIsEmpty
  <2>6. Left = call.all
    BY <1>1 DEF SessionInv, CallInv
  <2>7. CallInv'
    BY <1>1, <2>1, <2>2, <2>4, <2>6 DEF CallInv
  <2>8. ToldInv'
    BY <1>1, <1>2, <2>1, <2>2 DEF SessionInv, ToldInv, Decided
  <2> QED
    BY <2>3, <2>5, <2>7, <2>8 DEF SessionInv
<1>3. CASE ~server.up /\ stmt' = "none" /\ Returns(FALSE) /\ UNCHANGED <<server, stored, losses>>
  BY <1>1, <1>3, ReturnKeeps DEF SessionInv, TypeInv, DownIsEmpty
<1>4. CASE Commits(Reached) /\ AnswerLost
  <2>1. stored' = stored \union server.pending /\ stored' \in SUBSET Nat
    BY <1>4, ReachedTyped DEF Commits, SessionInv, TypeInv
  <2> QED
    BY <1>1, <1>4, <2>1, AnswerLostKeeps
<1> QED
  BY <1>2, <1>3, <1>4 DEF Begin

\* A row goes into the transaction of its batch, or ends it.
LEMMA ExecuteRowKeeps ==
  ASSUME SessionInv, ExecuteRow
  PROVE  SessionInv'
<1>1. /\ call.at = "rows" /\ call.left # << >> /\ call.left \in Seq(Nat)
      /\ UNCHANGED <<con, stmt, told, losses, rows>> /\ call.all \intersect stored = {}
  BY DEF ExecuteRow, SessionInv, CallInv, TypeInv
<1>2. CASE /\ server.up /\ Inserted(Head(call.left)) /\ call' = [call EXCEPT !.left = Tail(@)]
  <2> DEFINE row == Head(call.left)
  <2>1. /\ row \in Nat /\ Tail(call.left) \in Seq(Nat)
        /\ Left = {row} \union {Tail(call.left)[i] : i \in 1..Len(Tail(call.left))}
    BY <1>1, HeadAndTail DEF Left
  <2>2. server.open /\ server.pending \union Left = call.all
    BY <1>1, <1>2 DEF SessionInv, CallInv
  <2>3. stored' = stored /\ server' = [server EXCEPT !.pending = @ \union {row}]
    BY <1>2, <2>2 DEF Inserted
  <2>4. /\ server' \in [up : BOOLEAN, open : BOOLEAN, pending : SUBSET Nat] /\ server'.up /\ server'.open
        /\ server'.pending = server.pending \union {row}
    BY <1>2, <2>1, <2>2, <2>3 DEF SessionInv, TypeInv
  <2>5. /\ call'.at = "rows" /\ call'.left = Tail(call.left) /\ call'.all = call.all
        /\ call' \in [at : {"idle", "begin", "rows", "rollback", "one"}, left : Seq(Nat), all : SUBSET Nat,
                      batch : BOOLEAN, lost : BOOLEAN]
    BY <1>1, <1>2, <2>1 DEF SessionInv, TypeInv
  <2>6. Left' = {Tail(call.left)[i] : i \in 1..Len(Tail(call.left))}
    BY <2>5 DEF Left
  <2>7. TypeInv'
    BY <1>1, <2>3, <2>4, <2>5 DEF SessionInv, TypeInv
  <2>8. row \in call.all
    BY <2>1, <2>2
  <2>9. Numbered' /\ DownIsEmpty'
    BY <1>1, <2>3, <2>4, <2>5, <2>8 DEF SessionInv, Numbered, DownIsEmpty
  <2>10. Left' \subseteq call.all /\ server'.pending \union Left' = call.all
    BY <2>1, <2>2, <2>4, <2>6
  <2>11. CallInv'
    BY <1>1, <2>3, <2>4, <2>5, <2>10 DEF CallInv
  <2>12. ToldInv'
    BY <1>1, <2>3, <2>4, <2>5, <2>8, SMTT(60) DEF SessionInv, ToldInv, Decided
  <2> QED
    BY <2>7, <2>9, <2>11, <2>12 DEF SessionInv
<1>3. CASE call' = AfterFailure(Head(call.left)) /\ UNCHANGED <<server, stored>>
  <2>1. /\ call'.at = "rollback" /\ call'.left = call.left /\ call'.all = call.all
        /\ call' \in [at : {"idle", "begin", "rows", "rollback", "one"}, left : Seq(Nat), all : SUBSET Nat,
                      batch : BOOLEAN, lost : BOOLEAN]
    BY <1>3 DEF AfterFailure, SessionInv, TypeInv
  <2>2. Left' = Left
    BY <2>1 DEF Left
  <2>3. TypeInv' /\ Numbered' /\ DownIsEmpty'
    BY <1>1, <1>3, <2>1 DEF SessionInv, TypeInv, Numbered, DownIsEmpty
  <2>4. CallInv' /\ ToldInv'
    BY <1>1, <1>3, <2>1, <2>2 DEF SessionInv, CallInv, ToldInv, Decided
  <2> QED
    BY <2>3, <2>4 DEF SessionInv
<1> QED
  BY <1>2, <1>3 DEF ExecuteRow

LEMMA RollbackKeeps ==
  ASSUME SessionInv, Rollback
  PROVE  SessionInv'
<1>1. /\ server' \in [up : BOOLEAN, open : BOOLEAN, pending : SUBSET Nat]
      /\ server'.pending = {}
  BY ReachedTyped DEF Rollback, SessionInv
<1>2. /\ UNCHANGED <<con, losses, rows>> /\ stmt' = "none" /\ stored' = stored /\ Returns(FALSE)
      /\ call.all \intersect stored = {}
  BY DEF Rollback, SessionInv, CallInv
<1> QED
  BY <1>1, <1>2, ReturnKeeps DEF SessionInv, TypeInv, DownIsEmpty

\* On the connection of the begin the commit stores every row; on a new one it has
\* nothing to store, and the connection was lost.
LEMMA CommitKeeps ==
  ASSUME SessionInv, Commit
  PROVE  SessionInv'
<1>1. /\ call.at = "rows" /\ UNCHANGED <<con, rows>>
      /\ call.left = << >> /\ call.all \intersect stored = {}
  BY DEF Commit, SessionInv, CallInv
<1>2. Left = {}
  BY <1>1 DEF Left
<1>3. CASE Commits(Reached) /\ server' = NewServer /\ stmt' = "none" /\ Returns(TRUE) /\ UNCHANGED losses
  <2>1. stored' = stored \union server.pending /\ server'.pending = {} /\ DownIsEmpty'
    BY <1>3, ReachedTyped, NewServerTyped DEF Commits, SessionInv, DownIsEmpty
  <2>2. server' \in [up : BOOLEAN, open : BOOLEAN, pending : SUBSET Nat] /\ stored' \in SUBSET Nat
    BY <1>3, <2>1, NewServerTyped DEF SessionInv, TypeInv
  <2>3. CASE server.up
    <3>1. server.pending = call.all
      BY <1>1, <1>2, <2>3 DEF SessionInv, CallInv
    <3> QED
      BY <1>1, <1>3, <2>1, <2>2, <3>1, ReturnKeeps
  <2>4. CASE ~server.up
    <3>1. server.pending = {} /\ call.lost
      BY <1>1, <2>4 DEF SessionInv, CallInv, DownIsEmpty
    <3> QED
      BY <1>1, <1>3, <2>1, <2>2, <3>1, ReturnKeeps
  <2> QED
    BY <2>3, <2>4
<1>4. CASE /\ server' \in {NewServer} \union (IF server.up THEN {} ELSE {server})
           /\ stmt' = "none" /\ Returns(FALSE) /\ UNCHANGED <<stored, losses>>
  <2>1. /\ server' \in [up : BOOLEAN, open : BOOLEAN, pending : SUBSET Nat] /\ server'.pending = {}
        /\ stored \in SUBSET Nat
    BY <1>4, NewServerTyped DEF SessionInv, TypeInv, DownIsEmpty
  <2>2. DownIsEmpty'
    BY <2>1 DEF DownIsEmpty
  <2> QED
    BY <1>1, <1>4, <2>1, <2>2, ReturnKeeps
<1>5. CASE Commits(Reached) /\ AnswerLost
  <2>1. stored' = stored \union server.pending /\ stored' \in SUBSET Nat
    BY <1>5, ReachedTyped DEF Commits, SessionInv, TypeInv
  <2>2. server.pending = call.all \/ server.pending = {}
    BY <1>1, <1>2 DEF SessionInv, CallInv, DownIsEmpty
  <2> QED
    BY <1>1, <1>5, <2>1, <2>2, AnswerLostKeeps
<1> QED
  BY <1>3, <1>4, <1>5 DEF Commit

LEMMA ExecuteOneKeeps ==
  ASSUME SessionInv, ExecuteOne
  PROVE  SessionInv'
<1>1. /\ call.at = "one" /\ ~call.batch /\ call.left # << >> /\ call.left \in Seq(Nat)
      /\ UNCHANGED <<con, rows>>
  BY DEF ExecuteOne, SessionInv, CallInv, TypeInv
<1> DEFINE row == Head(call.left)
<1>2. row \in Nat /\ row \in call.all
  BY <1>1, HeadAndTail DEF SessionInv, CallInv, Left
<1>3. CASE server.up /\ Inserted(row) /\ stmt' = "none" /\ Returns(TRUE) /\ UNCHANGED losses
  <2> HIDE DEF row
  <2>1. CASE server.open
    <3>1. stored' = stored /\ server' = [server EXCEPT !.pending = @ \union {row}]
      BY <1>3, <2>1 DEF Inserted
    <3>2. /\ server' \in [up : BOOLEAN, open : BOOLEAN, pending : SUBSET Nat] /\ server'.up
          /\ server'.pending = server.pending \union {row}
      BY <1>2, <1>3, <3>1 DEF SessionInv, TypeInv
    <3> QED
      BY <1>1, <1>2, <1>3, <3>1, <3>2, ReturnKeeps DEF SessionInv, TypeInv, DownIsEmpty
  <2>2. CASE ~server.open
    <3>1. server' = server /\ stored' = stored \union {row}
      BY <1>3, <2>2 DEF Inserted
    <3> QED
      BY <1>1, <1>2, <1>3, <3>1, ReturnKeeps DEF SessionInv, TypeInv, DownIsEmpty
  <2> QED
    BY <2>1, <2>2
<1>4. CASE stmt' = "none" /\ Returns(FALSE) /\ UNCHANGED <<server, stored, losses>>
  BY <1>1, <1>4, ReturnKeeps DEF SessionInv, TypeInv, DownIsEmpty
<1>5. CASE stored' = stored \union {row} /\ AnswerLost
  <2>1. stored' \in SUBSET Nat
    BY <1>2, <1>5 DEF SessionInv, TypeInv
  <2> QED
    BY <1>1, <1>2, <1>5, <2>1, AnswerLostKeeps
<1> QED
  BY <1>3, <1>4, <1>5 DEF ExecuteOne

LEMMA SessionInvariance == MysqlSpec => []SessionInv
<1>1. ASSUME SessionInv, UNCHANGED mysqlVars PROVE SessionInv'
  <2>1. UNCHANGED <<con, server, stored, stmt, call, told, losses, rows>>
    BY <1>1 DEF mysqlVars
  <2>2. Left' = Left
    BY <2>1 DEF Left
  <2>3. TypeInv' /\ Numbered' /\ DownIsEmpty'
    BY <1>1, <2>1 DEF SessionInv, TypeInv, Numbered, DownIsEmpty
  <2>4. CallInv' /\ ToldInv'
    BY <1>1, <2>1, <2>2 DEF SessionInv, CallInv, ToldInv, Decided
  <2> QED
    BY <2>3, <2>4 DEF SessionInv
<1>2. SessionInv /\ [MysqlNext]_mysqlVars => SessionInv'
  BY <1>1, ConnectionKeeps, CallerCommits, InsertKeeps, BeginKeeps, ExecuteRowKeeps, RollbackKeeps,
     CommitKeeps, ExecuteOneKeeps DEF MysqlNext
<1> QED
  BY <1>2, InitSession, PTL DEF MysqlSpec

----------------------------------------------------------------------------

\* A batch of any length is stored whole or not at all, whenever the server closes the
\* connection and whatever transaction the caller has begun; what the call has told of
\* it is and stays true, unless the connection was lost before the answer.
THEOREM AllOrNothingCorrect == MysqlSpec => []AllOrNothing
<1>1. SessionInv => AllOrNothing
  BY DEF SessionInv, ToldInv, Decided, AllOrNothing
<1> QED
  BY <1>1, SessionInvariance, PTL

\* While insert_aux is executing the rows of a batch on the connection of its begin, the
\* server's transaction is open, its rows and those still to be executed make up the batch,
\* none of them the caller's, and none is stored yet.
ItsOwnTransaction ==
  call.at = "rows" /\ server.up =>
    /\ server.open /\ server.pending \union Left = call.all
    /\ call.all \intersect stored = {}

THEOREM ItsOwnTransactionCorrect == MysqlSpec => []ItsOwnTransaction
<1>1. SessionInv => ItsOwnTransaction
  BY DEF SessionInv, CallInv, ItsOwnTransaction
<1> QED
  BY <1>1, SessionInvariance, PTL

----------------------------------------------------------------------------
(* Part 3: HttpResponse                                                     *)

Kinds == {"status", "field", "encoding", "length", "blank", "body", "chunk"}
Items == [kind : Kinds, n : Nat]
Members ==
  [rep : Seq(Items), head : Seq(Items), chunks : Seq(Items), headers : Seq(Items), status : Nat,
   type : {"none", "json", "string", "multipart", "urlencoded"}, trans : {"normal", "chunked"}, content : Nat, parts : Seq(Nat), pairs : Nat]

\* Of the kinds that make up the form of a message (all but fields), the text has those
\* in once, each once.
Has(text, once) ==
  /\ text \in Seq(Items)
  /\ \A kind \in {"status", "length", "blank", "encoding", "body", "chunk"} :
       IF kind \in once THEN Once(text, kind) ELSE Never(text, kind)

\* A beginning of a message: its status line is first, and its lengths are n.
Front(text, once, n) ==
  /\ Has(text, once) /\ text # << >> /\ text[1].kind = "status"
  /\ \A i \in DOMAIN text : text[i].kind = "length" => text[i].n = n

\* What the chunks of a message are.
OnlyChunks(text) == text \in Seq(Items) /\ \A i \in DOMAIN text : text[i].kind = "chunk"
Trail(text) ==
  /\ OnlyChunks(text) /\ text # << >>
  /\ \A i \in DOMAIN text : (text[i].n = 0) <=> (i = Len(text))

Message(r) ==
  IF r.trans = "chunked"
  THEN InChunks(Text(r)) \/ ChunkOfNothing(Text(r)) \/ (EmptyValue(r) /\ ChunkedHead(Text(r)))
  ELSE Plain(Text(r))

\* Nothing is set before a call but the headers, the parts and the pairs; what the call
\* makes is one message, unless it comes behind what another has left.
Prepared(r) == r.rep = << >> /\ Has(r.headers, {}) /\ r.trans = "normal"
Made(r, behind) == (r.trans = "chunked" /\ behind) \/ Message(r)

ResponseInv ==
  /\ resp \in Members /\ made \in BOOLEAN /\ stale \in BOOLEAN /\ responses \in Nat
  /\ IF made THEN Made(resp, stale)
     ELSE Prepared(resp) /\ (stale \/ (resp.head = << >> /\ resp.chunks = << >>))
  /\ WholeMessages

----------------------------------------------------------------------------

LEMMA OneItem ==
  ASSUME NEW e \in Items
  PROVE  /\ <<e>> \in Seq(Items) /\ Len(<<e>>) = 1 /\ <<e>> # << >> /\ <<e>>[1] = e
         /\ Has(<<e>>, {e.kind})
<1>1. <<e>> \in Seq(Items) /\ DOMAIN <<e>> = {1} /\ <<e>>[1] = e /\ Len(<<e>>) = 1
  OBVIOUS
<1>2. QED BY <1>1 DEF Has, Once, Never

LEMMA TheItems ==
  /\ Has(Field, {}) /\ Has(Encoding, {"encoding"}) /\ Has(Blank, {"blank"})
  /\ \A n \in Nat : /\ Front(Status(n), {"status"}, 0) /\ Has(Length(n), {"length"}) /\ Has(Body(n), {"body"})
                    /\ OnlyChunks(Chunk(n)) /\ Chunk(n) \in Seq(Items) /\ Len(Chunk(n)) = 1
                    /\ Chunk(n)[1] = Item("chunk", n) /\ Len(Length(n)) = 1 /\ Length(n)[1].n = n
                    /\ Body(n) \in Seq(Items) /\ Len(Body(n)) = 1 /\ Body(n)[1] = Item("body", n)
  /\ Blank \in Seq(Items) /\ Len(Blank) = 1 /\ Blank[1].kind = "blank"
<1>1. \A n \in Nat : \A kind \in Kinds :
        Item(kind, n) \in Items /\ Item(kind, n).kind = kind /\ Item(kind, n).n = n
  BY DEF Item, Items
<1>2. ASSUME NEW kind \in Kinds, NEW n \in Nat
      PROVE  /\ <<Item(kind, n)>> \in Seq(Items) /\ Len(<<Item(kind, n)>>) = 1
             /\ <<Item(kind, n)>> # << >> /\ <<Item(kind, n)>>[1] = Item(kind, n)
             /\ Has(<<Item(kind, n)>>, {kind})
  <2>1. Item(kind, n) \in Items /\ Item(kind, n).kind = kind
    BY <1>1
  <2>2. QED BY <2>1, OneItem
<1>3. Has(Encoding, {"encoding"}) /\ Has(Blank, {"blank"})
  BY <1>2 DEF Kinds, Encoding, Blank
<1>4. Blank \in Seq(Items) /\ Len(Blank) = 1 /\ Blank[1].kind = "blank"
  BY <1>1, <1>2 DEF Kinds, Blank
<1>5. Has(Field, {})
  <2>1. Has(Field, {"field"})
    BY <1>2 DEF Kinds, Field
  <2>2. QED BY <2>1 DEF Has
<1>6. ASSUME NEW n \in Nat
      PROVE  /\ Has(Length(n), {"length"}) /\ Len(Length(n)) = 1 /\ Length(n)[1].n = n
             /\ Has(Body(n), {"body"}) /\ Body(n) \in Seq(Items) /\ Len(Body(n)) = 1
             /\ Body(n)[1] = Item("body", n)
  BY <1>1, <1>2 DEF Kinds, Length, Body
<1>7. ASSUME NEW n \in Nat
      PROVE  /\ OnlyChunks(Chunk(n)) /\ Chunk(n) \in Seq(Items) /\ Len(Chunk(n)) = 1
             /\ Chunk(n)[1] = Item("chunk", n)
  <2>1. Chunk(n) \in Seq(Items) /\ Len(Chunk(n)) = 1 /\ Chunk(n)[1] = Item("chunk", n)
    BY <1>2 DEF Kinds, Chunk
  <2>2. \A i \in DOMAIN Chunk(n) : i = 1
    BY <2>1
  <2>3. Item("chunk", n).kind = "chunk"
    BY <1>1 DEF Kinds
  <2>4. QED BY <2>1, <2>2, <2>3 DEF OnlyChunks
<1>8. ASSUME NEW n \in Nat
      PROVE  Front(Status(n), {"status"}, 0)
  <2>1. /\ Has(Status(n), {"status"}) /\ Status(n) # << >> /\ Status(n)[1] = Item("status", n)
        /\ Len(Status(n)) = 1 /\ Status(n) \in Seq(Items)
    BY <1>2 DEF Kinds, Status
  <2>2. \A i \in DOMAIN Status(n) : i = 1
    BY <2>1
  <2>3. Item("status", n).kind = "status"
    BY <1>1 DEF Kinds
  <2>4. QED BY <2>1, <2>2, <2>3 DEF Front
<1>9. QED BY <1>3, <1>4, <1>5, <1>6, <1>7, <1>8

LEMMA OnceJoined ==
  ASSUME NEW a \in Seq(Items), NEW b \in Seq(Items), NEW kind, Never(b, kind), Once(a, kind)
  PROVE  Once(a \o b, kind)
<1>1. PICK i \in DOMAIN a : \A j \in DOMAIN a : (a[j].kind = kind) <=> (j = i)
  BY DEF Once
<1>2. i \in DOMAIN (a \o b) /\ \A j \in DOMAIN (a \o b) : ((a \o b)[j].kind = kind) <=> (j = i)
  BY <1>1 DEF Never
<1>3. QED BY <1>2 DEF Once

LEMMA JoinedOnce ==
  ASSUME NEW a \in Seq(Items), NEW b \in Seq(Items), NEW kind, Never(a, kind), Once(b, kind)
  PROVE  Once(a \o b, kind)
<1>1. PICK i \in DOMAIN b : \A j \in DOMAIN b : (b[j].kind = kind) <=> (j = i)
  BY DEF Once
<1>2. /\ Len(a) + i \in DOMAIN (a \o b)
      /\ \A j \in DOMAIN (a \o b) : ((a \o b)[j].kind = kind) <=> (j = Len(a) + i)
  BY <1>1 DEF Never
<1>3. QED BY <1>2 DEF Once

LEMMA NeverJoined ==
  ASSUME NEW a \in Seq(Items), NEW b \in Seq(Items), NEW kind, Never(a, kind), Never(b, kind)
  PROVE  Never(a \o b, kind)
BY DEF Never

LEMMA HasJoined ==
  ASSUME NEW a, NEW b, NEW A, NEW B, Has(a, A), Has(b, B), A \cap B = {}
  PROVE  Has(a \o b, A \union B)
<1>1. a \in Seq(Items) /\ b \in Seq(Items) /\ a \o b \in Seq(Items)
  BY DEF Has
<1>2. ASSUME NEW kind \in {"status", "length", "blank", "encoding", "body", "chunk"}
      PROVE  IF kind \in A \union B THEN Once(a \o b, kind) ELSE Never(a \o b, kind)
  <2>1. CASE kind \in A
    BY <1>1, <1>2, <2>1, OnceJoined DEF Has
  <2>2. CASE kind \in B
    BY <1>1, <1>2, <2>2, JoinedOnce DEF Has
  <2>3. CASE kind \notin A /\ kind \notin B
    BY <1>1, <1>2, <2>3, NeverJoined DEF Has
  <2>4. QED BY <2>1, <2>2, <2>3
<1>3. QED BY <1>1, <1>2 DEF Has

LEMMA FrontJoined ==
  ASSUME NEW a, NEW b, NEW A, NEW B, NEW n, Front(a, A, n), Has(b, B), A \cap B = {},
         \A i \in DOMAIN b : b[i].kind = "length" => b[i].n = n
  PROVE  Front(a \o b, A \union B, n)
<1>1. a \in Seq(Items) /\ b \in Seq(Items) /\ a # << >>
  BY DEF Front, Has
<1>2. /\ a \o b # << >> /\ (a \o b)[1] = a[1]
      /\ \A i \in DOMAIN (a \o b) : (a \o b)[i].kind = "length" => (a \o b)[i].n = n
  BY <1>1 DEF Front
<1>3. QED BY <1>2, HasJoined DEF Front

\* The usual case: b has no lengths.
LEMMA FrontGrows ==
  ASSUME NEW a, NEW b, NEW A, NEW B, NEW n, Front(a, A, n), Has(b, B), A \cap B = {}, "length" \notin B
  PROVE  Front(a \o b, A \union B, n)
<1>1. \A i \in DOMAIN b : b[i].kind # "length"
  BY DEF Has, Never
<1>2. QED BY <1>1, FrontJoined

LEMMA Joining ==
  /\ \A s, t \in Seq(Items) : s \o t \in Seq(Items)
  /\ \A s, t, u \in Seq(Items) : s \o t \o u = s \o (t \o u)
BY ConcatProperties, ConcatAssociative

\* A head with a length and a body of it is a message.
LEMMA PlainMessage ==
  ASSUME NEW a, NEW n \in Nat, Front(a, {"status", "length"}, n)
  PROVE  Plain(a \o Blank \o Body(n))
<1> DEFINE text == a \o Blank \o Body(n)
<1>1. Has(Blank, {"blank"}) /\ Has(Body(n), {"body"})
  BY TheItems
<1>2. Front(text, {"status", "length", "blank", "body"}, n)
  <2>1. Front(a \o Blank, {"status", "length"} \union {"blank"}, n)
    BY <1>1, FrontGrows
  <2>2. Front(text, ({"status", "length"} \union {"blank"}) \union {"body"}, n)
    BY <1>1, <2>1, FrontGrows
  <2>3. ({"status", "length"} \union {"blank"}) \union {"body"} = {"status", "length", "blank", "body"}
    OBVIOUS
  <2>4. QED BY <2>2, <2>3
<1>3. /\ text \in Seq(Items) /\ Len(text) = Len(a) + 2
      /\ text[Len(text) - 1].kind = "blank" /\ text[Len(text)].kind = "body" /\ text[Len(text)].n = n
  <2>1. a \in Seq(Items)
    BY DEF Front, Has
  <2>2. a \o Blank \in Seq(Items) /\ Len(a \o Blank) = Len(a) + 1 /\ (a \o Blank)[Len(a) + 1].kind = "blank"
    <3>1. Blank \in Seq(Items) /\ Len(Blank) = 1 /\ Blank[1].kind = "blank"
      BY TheItems
    <3>2. /\ a \o Blank \in Seq(Items) /\ Len(a \o Blank) = Len(a) + Len(Blank)
          /\ \A i \in 1..(Len(a) + Len(Blank)) : (a \o Blank)[i] = IF i <= Len(a) THEN a[i] ELSE Blank[i - Len(a)]
      BY <2>1, <3>1, ConcatProperties
    <3>3. Len(a) \in Nat
      BY <2>1
    <3>4. QED BY <3>1, <3>2, <3>3
  <2>3. Body(n) \in Seq(Items) /\ Len(Body(n)) = 1 /\ Body(n)[1] = Item("body", n)
    BY TheItems
  <2>4. QED BY <2>1, <2>2, <2>3 DEF Item
<1>4. QED BY <1>2, <1>3 DEF Plain, Front, Has

\* A head that announces chunks, in front of chunks only.
LEMMA HeadOfChunks ==
  ASSUME NEW a, NEW c, NEW n, Front(a, {"status", "encoding"}, n), OnlyChunks(c)
  PROVE  LET text == a \o Blank \o c
         IN  /\ ChunkedHead(text) /\ Len(text) = Len(a) + 1 + Len(c)
             /\ \A i \in DOMAIN text : /\ (text[i].kind = "chunk") <=> (i > Len(a) + 1)
                                       /\ i > Len(a) + 1 => text[i] = c[i - Len(a) - 1]
<1> DEFINE h == a \o Blank
           text == h \o c
<1>1. Has(Blank, {"blank"}) /\ Len(Blank) = 1 /\ Blank[1].kind = "blank" /\ Blank \in Seq(Items)
  BY TheItems
<1>2. a \in Seq(Items) /\ c \in Seq(Items) /\ h \in Seq(Items) /\ Len(h) = Len(a) + 1
  <2>1. a \in Seq(Items) /\ c \in Seq(Items)
    BY DEF Front, Has, OnlyChunks
  <2>2. h \in Seq(Items) /\ Len(h) = Len(a) + Len(Blank)
    BY <1>1, <2>1, ConcatProperties
  <2>3. QED BY <1>1, <2>1, <2>2
<1>3. Front(h, {"status", "encoding", "blank"}, n)
  <2>1. Front(h, {"status", "encoding"} \union {"blank"}, n)
    BY <1>1, FrontGrows
  <2>2. {"status", "encoding"} \union {"blank"} = {"status", "encoding", "blank"}
    OBVIOUS
  <2>3. QED BY <2>1, <2>2
<1>4. /\ text \in Seq(Items) /\ Len(text) = Len(h) + Len(c)
      /\ \A i \in DOMAIN text : text[i] = IF i <= Len(h) THEN h[i] ELSE c[i - Len(h)]
  BY <1>2
<1>5. h[Len(a) + 1].kind = "blank" /\ Never(h, "chunk")
  <2>1. h[Len(a) + 1].kind = "blank"
    BY <1>1, <1>2
  <2>2. QED BY <2>1, <1>3 DEF Front, Has
<1>6. \A i \in DOMAIN text : /\ (text[i].kind = "chunk") <=> (i > Len(h))
                             /\ i > Len(h) => text[i] = c[i - Len(h)]
  <2>1. TAKE i \in DOMAIN text
  <2>2. CASE i <= Len(h)
    BY <1>2, <1>4, <1>5, <2>2 DEF Never
  <2>3. CASE i > Len(h)
    BY <1>2, <1>4, <2>3 DEF OnlyChunks
  <2>4. QED BY <1>2, <1>4, <2>2, <2>3
<1>7. /\ Once(text, "status") /\ Once(text, "blank") /\ Once(text, "encoding")
      /\ Never(text, "length") /\ Never(text, "body")
  <2>1. \A kind \in {"status", "encoding", "blank", "length", "body"} : Never(c, kind)
    BY DEF OnlyChunks, Never
  <2>2. Once(h, "status") /\ Once(h, "blank") /\ Once(h, "encoding") /\ Never(h, "length") /\ Never(h, "body")
    BY <1>3 DEF Front, Has
  <2>3. QED BY <1>2, <2>1, <2>2, OnceJoined, NeverJoined
<1>8. text[1].kind = "status"
  BY <1>2, <1>3, <1>4 DEF Front
<1>9. \A i \in DOMAIN text : text[i].kind = "blank" => i = Len(h)
  BY <1>2, <1>4, <1>5, <1>7, SMTT(30) DEF Once
<1>10. ChunkedHead(text)
  BY <1>2, <1>4, <1>6, <1>7, <1>8, <1>9 DEF ChunkedHead
<1>11. QED BY <1>2, <1>4, <1>6, <1>10

LEMMA ChunkedMessage ==
  ASSUME NEW a, NEW c, NEW n, Front(a, {"status", "encoding"}, n), Trail(c)
  PROVE  InChunks(a \o Blank \o c)
<1> DEFINE text == a \o Blank \o c
<1>1. c \in Seq(Items) /\ Len(c) > 0 /\ a \in Seq(Items)
  BY DEF Trail, OnlyChunks, Front, Has
<1>2. /\ ChunkedHead(text) /\ Len(text) = Len(a) + 1 + Len(c)
      /\ \A i \in DOMAIN text : /\ (text[i].kind = "chunk") <=> (i > Len(a) + 1)
                                /\ i > Len(a) + 1 => text[i] = c[i - Len(a) - 1]
  BY HeadOfChunks DEF Trail
<1>3. DOMAIN text = 1..Len(text) /\ Len(text) \in Nat
  BY <1>1, TheItems
<1>4. text[Len(text)].kind = "chunk"
  BY <1>1, <1>2, <1>3
<1>5. ASSUME NEW i \in DOMAIN text, text[i].kind = "chunk"
      PROVE  (text[i].n = 0) <=> (i = Len(text))
  <2> DEFINE k == i - Len(a) - 1
  <2>1. i \in 1..Len(text) /\ i > Len(a) + 1 /\ text[i] = c[k] /\ Len(a) \in Nat /\ Len(c) \in Nat
    BY <1>1, <1>2, <1>3, <1>5
  <2>2. k \in DOMAIN c /\ (k = Len(c) <=> i = Len(text))
    <3>1. DOMAIN c = 1..Len(c) /\ Len(text) = Len(a) + 1 + Len(c)
      BY <1>1, <1>2
    <3>2. QED BY <2>1, <3>1
  <2>3. QED BY <2>1, <2>2 DEF Trail
<1>6. QED BY <1>2, <1>4, <1>5 DEF InChunks

LEMMA NothingMessage ==
  ASSUME NEW a, NEW n, Front(a, {"status", "encoding"}, n)
  PROVE  ChunkOfNothing(a \o Blank \o (LastChunk \o LastChunk))
<1> DEFINE c == LastChunk \o LastChunk
           text == a \o Blank \o c
<1>1. c \in Seq(Items) /\ Len(c) = 2 /\ a \in Seq(Items) /\ \A i \in 1..2 : c[i].kind = "chunk" /\ c[i].n = 0
  <2>1. LastChunk \in Seq(Items) /\ Len(LastChunk) = 1 /\ LastChunk[1].kind = "chunk" /\ LastChunk[1].n = 0
    <3>1. LastChunk \in Seq(Items) /\ Len(LastChunk) = 1 /\ LastChunk[1] = Item("chunk", 0)
      BY TheItems DEF LastChunk
    <3>2. QED BY <3>1 DEF Item
  <2>2. a \in Seq(Items)
    BY DEF Front, Has
  <2>3. c \in Seq(Items) /\ Len(c) = 2 /\ c[1] = LastChunk[1] /\ c[2] = LastChunk[1]
    <3>1. /\ c \in Seq(Items) /\ Len(c) = Len(LastChunk) + Len(LastChunk)
          /\ \A i \in 1..(Len(LastChunk) + Len(LastChunk)) :
               c[i] = IF i <= Len(LastChunk) THEN LastChunk[i] ELSE LastChunk[i - Len(LastChunk)]
      BY <2>1, ConcatProperties
    <3>2. QED BY <2>1, <3>1
  <2>4. QED BY <2>1, <2>2, <2>3
<1>2. /\ ChunkedHead(text) /\ Len(text) = Len(a) + 1 + Len(c)
      /\ \A i \in DOMAIN text : /\ (text[i].kind = "chunk") <=> (i > Len(a) + 1)
                                /\ i > Len(a) + 1 => text[i] = c[i - Len(a) - 1]
  <2>1. OnlyChunks(c)
    BY <1>1 DEF OnlyChunks
  <2>2. QED BY <2>1, HeadOfChunks
<1>3. DOMAIN text = 1..Len(text) /\ Len(text) \in Nat
  BY <1>1, TheItems
<1>4. \A i \in DOMAIN text : (text[i].kind = "chunk") <=> (i >= Len(text) - 1)
  BY <1>1, <1>2, <1>3
<1>5. ASSUME NEW i \in DOMAIN text, text[i].kind = "chunk"
      PROVE  text[i].n = 0
  <2> DEFINE k == i - Len(a) - 1
  <2>1. k \in 1..2 /\ text[i] = c[k]
    BY <1>1, <1>2, <1>3, <1>5
  <2>2. QED BY <1>1, <2>1
<1>6. QED BY <1>2, <1>4, <1>5 DEF ChunkOfNothing

----------------------------------------------------------------------------
(* The calls *)

LEMMA NoneBefore ==
  ASSUME NEW r \in Members
  PROVE  << >> \o Status(r.status) = Status(r.status) /\ << >> \o r.headers = r.headers
<1>1. r.status \in Nat /\ r.headers \in Seq(Items)
  BY DEF Members
<1>2. Status(r.status) \in Seq(Items)
  BY <1>1, TheItems DEF Front, Has
<1>3. QED BY <1>1, <1>2, ConcatEmptySeq

\* The beginning of a response of n that has the headers h, up to its server line.
LEMMA StatusAndHeaders ==
  ASSUME NEW s \in Nat, NEW h, NEW once, Has(h, once), "status" \notin once, "length" \notin once, NEW n
  PROVE  Front(Status(s) \o h, {"status"} \union once, n)
<1>1. Has(Status(s), {"status"}) /\ Status(s) # << >> /\ Status(s)[1].kind = "status"
  BY TheItems DEF Front
<1>2. \A i \in DOMAIN Status(s) : Status(s)[i].kind # "length"
  BY <1>1 DEF Has, Never
<1>3. Front(Status(s), {"status"}, n)
  BY <1>1, <1>2 DEF Front
<1>4. QED BY <1>3, FrontGrows

LEMMA BuildsResponse ==
  ASSUME NEW r \in Members, r.rep = << >>, Has(r.headers, {}), r.trans = "normal"
  PROVE  BuildResponse(r) \in Members /\ Made(BuildResponse(r), FALSE)
<1> DEFINE type == IF r.type = "none" THEN << >> ELSE Field
           a == Status(r.status) \o r.headers \o ContentLength(r) \o type \o Field
           n == r.content
<1>1. /\ r.status \in Nat /\ n \in Nat /\ r.headers \in Seq(Items)
  BY DEF Members
<1>2. Has(type, {}) /\ Has(Field, {}) /\ Has(ContentLength(r), {"length"})
  <2>1. Has(<< >>, {})
    BY DEF Has, Once, Never
  <2>2. QED BY <1>1, <2>1, TheItems DEF ContentLength
<1>3. Front(a, {"status", "length"}, n)
  <2>1. Front(Status(r.status) \o r.headers, {"status"} \union {}, n)
    BY <1>1, StatusAndHeaders
  <2>2. Front(Status(r.status) \o r.headers, {"status"}, n)
    BY <2>1
  <2>3. \A i \in DOMAIN ContentLength(r) : ContentLength(r)[i].kind = "length" => ContentLength(r)[i].n = n
    <3>1. Len(ContentLength(r)) = 1 /\ ContentLength(r)[1].n = n /\ ContentLength(r) \in Seq(Items)
      BY <1>1, <1>2, TheItems DEF ContentLength, Has
    <3>2. QED BY <3>1
  <2>4. Front(Status(r.status) \o r.headers \o ContentLength(r), {"status"} \union {"length"}, n)
    BY <1>2, <2>2, <2>3, FrontJoined
  <2>5. Front(Status(r.status) \o r.headers \o ContentLength(r), {"status", "length"}, n)
    <3>1. {"status"} \union {"length"} = {"status", "length"}
      OBVIOUS
    <3>2. QED BY <2>4, <3>1
  <2>6. Front(Status(r.status) \o r.headers \o ContentLength(r) \o type, {"status", "length"} \union {}, n)
    BY <1>2, <2>5, FrontGrows
  <2>7. Front(Status(r.status) \o r.headers \o ContentLength(r) \o type, {"status", "length"}, n)
    BY <2>6
  <2>8. Front(a, {"status", "length"} \union {}, n)
    BY <1>2, <2>7, FrontGrows
  <2>9. QED BY <2>8
<1>4. Plain(a \o Blank \o Body(n))
  BY <1>1, <1>3, PlainMessage
<1>5. BuildResponse(r) = [r EXCEPT !.rep = a \o Blank \o Body(n), !.content = 0]
  BY NoneBefore DEF BuildResponse
<1>6. a \o Blank \o Body(n) \in Seq(Items)
  <2>1. a \in Seq(Items) /\ Blank \in Seq(Items) /\ Body(n) \in Seq(Items)
    BY <1>1, <1>3, TheItems DEF Front, Has
  <2>2. QED BY <2>1, ConcatProperties
<1>7. BuildResponse(r).rep = a \o Blank \o Body(n) /\ BuildResponse(r).trans = "normal"
  BY <1>5 DEF Members
<1>8. BuildResponse(r) \in Members
  <2>1. \A t \in Seq(Items) : [r EXCEPT !.rep = t, !.content = 0] \in Members
    BY DEF Members
  <2>2. QED BY <1>5, <1>6, <2>1, ZenonT(60)
<1>9. QED BY <1>4, <1>7, <1>8 DEF Made, Message, Text

LEMMA SetsStatus ==
  ASSUME NEW r \in Members, r.rep = << >>, Has(r.headers, {}), r.trans = "normal", NEW status \in Nat
  PROVE  SetStatus(r, status) \in Members /\ Made(SetStatus(r, status), FALSE)
<1> DEFINE b == SetContent([r EXCEPT !.status = status], 1)
<1>1. b \in Members /\ b.rep = << >> /\ b.headers = r.headers /\ b.trans = "normal"
  BY DEF SetContent, Members
<1>2. QED BY <1>1, BuildsResponse DEF SetStatus

LEMMA FailsPlainly ==
  ASSUME NEW r \in Members, r.rep = << >>, Has(r.headers, {})
  PROVE  Fails(r) \in Members /\ Made(Fails(r), FALSE)
<1> DEFINE b == [r EXCEPT !.type = "none", !.trans = "normal"]
<1>1. b \in Members /\ b.rep = << >> /\ b.headers = r.headers /\ b.trans = "normal"
  BY DEF Members
<1>2. Fails(r) = SetStatus(b, BadGateway) /\ BadGateway \in Nat
  BY DEF Fails, BadGateway
<1> HIDE DEF b
<1>3. QED BY <1>1, <1>2, SetsStatus

\* What the chunked calls share: the head behind what there was, and the chunks.
LEMMA BuildsChunks ==
  ASSUME NEW r \in Members, NEW b \in Members, NEW behind \in BOOLEAN, NEW a, NEW c,
         Front(a, {"status", "encoding"}, 0), c \in Seq(Items),
         b.trans = "chunked",
         b.head = r.head \o (a \o Blank), b.chunks = r.chunks \o c,
         behind \/ (r.head = << >> /\ r.chunks = << >>),
         Trail(c) \/ c = LastChunk \o LastChunk \/ (EmptyValue(b) /\ OnlyChunks(c))
  PROVE  Made(b, behind)
<1>1. CASE behind
  BY <1>1 DEF Made
<1>2. CASE ~behind
  <2>1. a \o Blank \in Seq(Items)
    BY TheItems, ConcatProperties DEF Front, Has
  <2>2. b.head = a \o Blank /\ b.chunks = c
    BY <1>2, <2>1, ConcatEmptySeq
  <2>3. Text(b) = a \o Blank \o c
    BY <2>2 DEF Text
  <2>4. InChunks(Text(b)) \/ ChunkOfNothing(Text(b)) \/ (EmptyValue(b) /\ ChunkedHead(Text(b)))
    <3>1. CASE EmptyValue(b) /\ OnlyChunks(c)
      <4>1. ChunkedHead(a \o Blank \o c)
        BY <3>1, HeadOfChunks
      <4>2. QED BY <2>3, <3>1, <4>1
    <3>2. QED BY <2>3, <3>1, ChunkedMessage, NothingMessage
  <2>5. QED BY <2>4 DEF Made, Message
<1>3. QED BY <1>1, <1>2

\* A chunk of a content, and the last.
LEMMA ContentChunks ==
  ASSUME NEW n \in Nat
  PROVE  /\ Chunk(n) \o LastChunk \in Seq(Items)
         /\ (Trail(Chunk(n) \o LastChunk) \/ Chunk(n) \o LastChunk = LastChunk \o LastChunk)
<1> DEFINE c == Chunk(n) \o LastChunk
<1>1. /\ Chunk(n) \in Seq(Items) /\ Len(Chunk(n)) = 1 /\ Chunk(n)[1] = Item("chunk", n)
      /\ LastChunk \in Seq(Items) /\ Len(LastChunk) = 1 /\ LastChunk[1] = Item("chunk", 0)
  BY TheItems DEF LastChunk
<1>2. c \in Seq(Items) /\ Len(c) = 2 /\ c[1] = Item("chunk", n) /\ c[2] = Item("chunk", 0)
  <2>1. /\ c \in Seq(Items) /\ Len(c) = Len(Chunk(n)) + Len(LastChunk)
        /\ \A i \in 1..(Len(Chunk(n)) + Len(LastChunk)) :
             c[i] = IF i <= Len(Chunk(n)) THEN Chunk(n)[i] ELSE LastChunk[i - Len(Chunk(n))]
    BY <1>1, ConcatProperties
  <2>2. QED BY <1>1, <2>1
<1>3. CASE n = 0
  BY <1>2, <1>3 DEF LastChunk
<1>4. CASE n # 0
  <2>1. c # << >> /\ DOMAIN c = 1..2 /\ c[1].kind = "chunk" /\ c[2].kind = "chunk" /\ c[1].n = n /\ c[2].n = 0
    BY <1>2 DEF Item
  <2>2. QED BY <1>2, <1>4, <2>1 DEF Trail, OnlyChunks
<1>5. QED BY <1>2, <1>3, <1>4

\* The header of all chunked responses.
LEMMA ChunkedHeaders ==
  ASSUME NEW r \in Members, Has(r.headers, {})
  PROVE  /\ Chunked(r) \in Members /\ Has(Chunked(r).headers, {"encoding"}) /\ Chunked(r).headers # << >>
         /\ Chunked(r).trans = "chunked" /\ Chunked(r).head = r.head /\ Chunked(r).chunks = r.chunks
         /\ Chunked(r).rep = r.rep /\ Chunked(r).parts = r.parts /\ Chunked(r).pairs = r.pairs
<1>1. Has(r.headers \o Encoding, {} \union {"encoding"})
  BY TheItems, HasJoined
<1>2. Has(r.headers \o Encoding, {"encoding"})
  BY <1>1
<1>3. r.headers \o Encoding \in Seq(Items) /\ r.headers \o Encoding # << >>
  BY <1>2 DEF Has, Once
<1>4. Chunked(r) = [r EXCEPT !.headers = r.headers \o Encoding, !.trans = "chunked"]
  BY DEF Chunked
<1>5. /\ Chunked(r).headers = r.headers \o Encoding /\ Chunked(r).trans = "chunked"
      /\ Chunked(r).head = r.head /\ Chunked(r).chunks = r.chunks
      /\ Chunked(r).rep = r.rep /\ Chunked(r).parts = r.parts /\ Chunked(r).pairs = r.pairs
  BY <1>4 DEF Members
<1>6. Chunked(r) \in Members
  BY <1>3, <1>4 DEF Members
<1>7. QED BY <1>2, <1>3, <1>5, <1>6

LEMMA JoiningHead ==
  ASSUME NEW x \in Seq(Items), NEW s \in Seq(Items)
  PROVE  /\ s \o Field \o Blank \in Seq(Items) /\ x \o s \o Field \o Blank = x \o (s \o Field \o Blank)
         /\ s \o Field \o Field \o Blank \in Seq(Items)
         /\ x \o s \o Field \o Field \o Blank = x \o (s \o Field \o Field \o Blank)
<1>1. Field \in Seq(Items) /\ Blank \in Seq(Items)
  BY TheItems DEF Has
<1>2. s \o Field \in Seq(Items) /\ x \o s \o Field = x \o (s \o Field)
  BY <1>1, Joining
<1>3. s \o Field \o Blank \in Seq(Items) /\ x \o (s \o Field) \o Blank = x \o (s \o Field \o Blank)
  BY <1>1, <1>2, Joining
<1>4. s \o Field \o Field \in Seq(Items) /\ x \o (s \o Field) \o Field = x \o (s \o Field \o Field)
  BY <1>1, <1>2, Joining, SMTT(30)
<1>5. /\ s \o Field \o Field \o Blank \in Seq(Items)
      /\ x \o (s \o Field \o Field) \o Blank = x \o (s \o Field \o Field \o Blank)
  BY <1>1, <1>4, Joining, ZenonT(60)
<1>6. QED BY <1>2, <1>3, <1>4, <1>5

\* set_status_and_content, which render_json and render_string call.
LEMMA SetsStatusAndContent ==
  ASSUME NEW r \in Members, Prepared(r), NEW behind \in BOOLEAN, behind \/ (r.head = << >> /\ r.chunks = << >>),
         NEW n \in Nat, NEW type \in {"none", "json", "string"}, NEW chunked \in BOOLEAN
  PROVE  /\ SetStatusAndContent(r, Ok, n, type, chunked) \in Members
         /\ Made(SetStatusAndContent(r, Ok, n, type, chunked), behind)
<1> DEFINE a == [(IF chunked THEN Chunked(r) ELSE r) EXCEPT !.status = Ok, !.type = type]
           result == SetStatusAndContent(r, Ok, n, type, chunked)
<1>1. CASE ~chunked
  <2>1. a = [r EXCEPT !.status = Ok, !.type = type]
    BY <1>1
  <2>2. a \in Members /\ a.trans = "normal" /\ a.rep = << >> /\ a.headers = r.headers
    <3>1. Ok \in Nat /\ type \in {"none", "json", "string", "multipart", "urlencoded"}
      BY DEF Ok
    <3>2. QED BY <2>1, <3>1 DEF Members, Prepared
  <2>3. result = BuildResponse(SetContent(a, n))
    BY <2>2 DEF SetStatusAndContent
  <2> HIDE DEF a, result
  <2>4. SetContent(a, n) \in Members /\ SetContent(a, n).trans = "normal" /\ SetContent(a, n).rep = << >>
        /\ SetContent(a, n).headers = r.headers
    BY <2>2 DEF SetContent, Members
  <2>5. result \in Members /\ Made(result, FALSE)
    BY <2>3, <2>4, BuildsResponse DEF Prepared
  <2>6. QED BY <2>5 DEF Made, result
<1>2. CASE chunked
  <2> DEFINE b == [a EXCEPT !.chunks = @ \o Chunk(n) \o LastChunk]
             h == [b EXCEPT !.head = @ \o Status(b.status) \o b.headers]
  <2>1. a = [Chunked(r) EXCEPT !.status = Ok, !.type = type]
    BY <1>2
  <2>2. /\ a \in Members /\ a.trans = "chunked" /\ a.rep = << >> /\ a.headers = Chunked(r).headers
        /\ a.status = Ok /\ a.type = type /\ a.head = r.head /\ a.chunks = r.chunks
    <3>1. Ok \in Nat /\ type \in {"none", "json", "string", "multipart", "urlencoded"}
      BY DEF Ok
    <3>2. Chunked(r) \in Members /\ Chunked(r).trans = "chunked" /\ Chunked(r).rep = << >>
          /\ Chunked(r).head = r.head /\ Chunked(r).chunks = r.chunks
      BY ChunkedHeaders DEF Prepared
    <3>3. QED BY <2>1, <3>1, <3>2 DEF Members
  <2>3. result = BuildChunkedResponse(b)
    BY <2>2 DEF SetStatusAndContent
  <2>4. Has(a.headers, {"encoding"}) /\ a.headers # << >>
    BY <2>2, ChunkedHeaders DEF Prepared
  <2> HIDE DEF a, result
  <2> DEFINE c == Chunk(n) \o LastChunk
  <2>5. /\ c \in Seq(Items) /\ (Trail(c) \/ c = LastChunk \o LastChunk)
        /\ r.chunks \in Seq(Items) /\ r.head \in Seq(Items) /\ a.headers \in Seq(Items) /\ Ok \in Nat
        /\ r.chunks \o Chunk(n) \o LastChunk = r.chunks \o c
    <3>1. r.chunks \in Seq(Items) /\ r.head \in Seq(Items) /\ a.headers \in Seq(Items) /\ Ok \in Nat
      BY <2>2 DEF Members, Ok
    <3>2. Chunk(n) \in Seq(Items) /\ LastChunk \in Seq(Items)
      BY TheItems DEF LastChunk
    <3>3. QED BY <3>1, <3>2, ContentChunks, Joining, ZenonT(60)
  <2> HIDE DEF c
  <2>6. /\ b \in Members /\ b.trans = "chunked" /\ b.rep = << >> /\ b.headers = a.headers
        /\ b.status = Ok /\ b.type = type /\ b.head = r.head /\ b.chunks = r.chunks \o c
    <3>1. b = [a EXCEPT !.chunks = r.chunks \o c]
      BY <2>2, <2>5
    <3>2. r.chunks \o c \in Seq(Items)
      BY <2>5, Joining
    <3>3. QED BY <2>2, <3>1, <3>2 DEF Members
  <2> HIDE DEF b
  <2>7. Front(Status(Ok) \o a.headers, {"status", "encoding"}, 0)
    <3>1. Front(Status(Ok) \o a.headers, {"status"} \union {"encoding"}, 0)
      BY <2>4, <2>5, StatusAndHeaders
    <3>2. {"status"} \union {"encoding"} = {"status", "encoding"}
      OBVIOUS
    <3>3. QED BY <3>1, <3>2
  <2>8. /\ Status(Ok) \in Seq(Items) /\ Status(Ok) \o a.headers \in Seq(Items)
        /\ r.head \o Status(Ok) \o a.headers = r.head \o (Status(Ok) \o a.headers)
        /\ r.head \o Status(Ok) \o a.headers \in Seq(Items)
    <3>1. Status(Ok) \in Seq(Items)
      BY <2>5, TheItems DEF Front, Has
    <3>2. QED BY <2>5, <3>1, Joining
  <2>9. /\ h \in Members /\ h.trans = "chunked" /\ h.rep = << >> /\ h.headers = a.headers /\ h.type = type
        /\ h.head = r.head \o (Status(Ok) \o a.headers) /\ h.chunks = r.chunks \o c
    <3>1. h = [b EXCEPT !.head = r.head \o Status(Ok) \o a.headers]
      BY <2>6
    <3>2. QED BY <2>6, <2>8, <3>1 DEF Members
  <2> HIDE DEF h
  <2>10. CASE type = "none"
    <3> DEFINE d == [h EXCEPT !.headers = << >>]
    <3>1. result = Fails(d)
      BY <2>3, <2>4, <2>6, <2>10 DEF BuildChunkedResponse, HasType, h
    <3>2. d \in Members /\ d.rep = << >> /\ d.headers = << >>
      BY <2>9 DEF Members
    <3>3. Has(<< >>, {})
      BY DEF Has, Once, Never
    <3> HIDE DEF d
    <3>4. result \in Members /\ Made(result, FALSE)
      BY <3>1, <3>2, <3>3, FailsPlainly
    <3>5. QED BY <3>4 DEF Made, result
  <2>11. CASE type # "none"
    <3> DEFINE front == Status(Ok) \o a.headers \o Field \o Field
               d == [h EXCEPT !.head = @ \o Field \o Field \o Blank]
    <3>1. result = d
      BY <2>3, <2>4, <2>6, <2>11 DEF BuildChunkedResponse, HasType, h
    <3>2. Field \in Seq(Items) /\ Blank \in Seq(Items) /\ Has(Field, {})
      BY TheItems DEF Has
    <3>3. Front(front, {"status", "encoding"}, 0)
      <4>1. Front(Status(Ok) \o a.headers \o Field, {"status", "encoding"} \union {}, 0)
        BY <2>7, <3>2, FrontGrows
      <4>2. Front(Status(Ok) \o a.headers \o Field, {"status", "encoding"}, 0)
        BY <4>1
      <4>3. Front(front, {"status", "encoding"} \union {}, 0)
        BY <3>2, <4>2, FrontGrows
      <4>4. QED BY <4>3
    <3>4. /\ r.head \o (Status(Ok) \o a.headers) \o Field \o Field \o Blank = r.head \o (front \o Blank)
          /\ front \o Blank \in Seq(Items)
      <4> DEFINE s == Status(Ok) \o a.headers
                 x == r.head
      <4>1. s \in Seq(Items) /\ x \in Seq(Items)
        BY <2>5, <2>8
      <4> HIDE DEF s, x
      <4>2. /\ s \o Field \o Field \o Blank \in Seq(Items)
            /\ x \o s \o Field \o Field \o Blank = x \o (s \o Field \o Field \o Blank)
        BY <4>1, JoiningHead
      <4>3. QED BY <4>2 DEF s, x
    <3> HIDE DEF front
    <3>5. /\ d \in Members /\ d.trans = "chunked" /\ d.head = r.head \o (front \o Blank) /\ d.chunks = r.chunks \o c
      <4>1. d = [h EXCEPT !.head = r.head \o (front \o Blank)]
        BY <2>9, <3>4
      <4>2. r.head \o (front \o Blank) \in Seq(Items)
        BY <2>5, <3>4, Joining
      <4>3. QED BY <2>9, <4>1, <4>2 DEF Members
    <3> HIDE DEF d
    <3>6. Made(d, behind)
      BY <2>5, <3>3, <3>5, BuildsChunks
    <3>7. QED BY <3>1, <3>5, <3>6 DEF result
  <2>12. QED BY <2>10, <2>11
<1>3. QED BY <1>1, <1>2

\* A response that is not chunked, of two forms.
LEMMA BuildsPlain ==
  ASSUME NEW b \in Members, NEW s \in Nat, NEW h, Has(h, {}), NEW n \in Nat, b.trans = "normal",
         \/ b.rep = Status(s) \o h \o Field \o Length(n) \o Field \o Blank \o Body(n)
         \/ b.rep = Status(s) \o h \o Length(n) \o Field \o Blank \o Body(n)
  PROVE  Made(b, FALSE)
<1> DEFINE H == Status(s) \o h
<1>1. Front(H, {"status"}, n)
  <2>1. Front(H, {"status"} \union {}, n)
    BY StatusAndHeaders
  <2>2. QED BY <2>1
<1> HIDE DEF H
<1>2. Has(Length(n), {"length"}) /\ Has(Field, {}) /\ \A i \in DOMAIN Length(n) : Length(n)[i].n = n
  <2>1. Has(Length(n), {"length"}) /\ Has(Field, {}) /\ Len(Length(n)) = 1 /\ Length(n)[1].n = n
    BY TheItems
  <2>2. QED BY <2>1 DEF Has
<1>3. ASSUME NEW a, Front(a, {"status"}, n)
      PROVE  Front(a \o Field, {"status"}, n) /\ Front(a \o Length(n) \o Field, {"status", "length"}, n)
  <2>1. Front(a \o Field, {"status"} \union {}, n)
    BY <1>2, <1>3, FrontGrows
  <2>2. Front(a \o Length(n), {"status"} \union {"length"}, n)
    BY <1>2, <1>3, FrontJoined
  <2>3. Front(a \o Length(n) \o Field, ({"status"} \union {"length"}) \union {}, n)
    BY <1>2, <2>2, FrontGrows
  <2>4. ({"status"} \union {"length"}) \union {} = {"status", "length"} /\ {"status"} \union {} = {"status"}
    OBVIOUS
  <2>5. QED BY <2>1, <2>3, <2>4
<1>4. CASE b.rep = Status(s) \o h \o Length(n) \o Field \o Blank \o Body(n)
  <2>1. b.rep = H \o Length(n) \o Field \o Blank \o Body(n)
    BY <1>4 DEF H
  <2>2. Plain(b.rep)
    BY <1>1, <1>3, <2>1, PlainMessage
  <2>3. QED BY <2>2 DEF Made, Message, Text
<1>5. CASE b.rep = Status(s) \o h \o Field \o Length(n) \o Field \o Blank \o Body(n)
  <2>1. b.rep = H \o Field \o Length(n) \o Field \o Blank \o Body(n)
    BY <1>5 DEF H
  <2>2. Front(H \o Field \o Length(n) \o Field, {"status", "length"}, n)
    BY <1>1, <1>3
  <2>3. Plain(b.rep)
    BY <2>1, <2>2, PlainMessage
  <2>4. QED BY <2>3 DEF Made, Message, Text
<1>6. QED BY <1>4, <1>5

\* What is behind a plain head has its length.
LEMMA SetsUrlencoded ==
  ASSUME NEW r \in Members, Prepared(r), NEW behind \in BOOLEAN, behind \/ (r.head = << >> /\ r.chunks = << >>),
         NEW chunked \in BOOLEAN
  PROVE  SetUrlencoded(r, Ok, chunked) \in Members /\ Made(SetUrlencoded(r, Ok, chunked), behind)
<1> DEFINE a == [r EXCEPT !.status = Ok, !.type = "urlencoded", !.headers = @ \o Field]
           result == SetUrlencoded(r, Ok, chunked)
<1>1. Has(r.headers \o Field, {}) /\ r.headers \o Field \in Seq(Items)
  <2>1. Has(r.headers \o Field, {} \union {})
    BY TheItems, HasJoined DEF Prepared
  <2>2. QED BY <2>1 DEF Has
<1>2. /\ a \in Members /\ a.trans = "normal" /\ a.rep = << >> /\ a.headers = r.headers \o Field
      /\ a.status = Ok /\ a.head = r.head /\ a.chunks = r.chunks /\ a.pairs = r.pairs
  <2>1. Ok \in Nat
    BY DEF Ok
  <2>2. QED BY <1>1, <2>1 DEF Members, Prepared
<1>3. Has(a.headers, {}) /\ Ok \in Nat /\ a.pairs \in Nat
  BY <1>1, <1>2 DEF Ok, Members
<1> HIDE DEF a
<1>4. CASE ~chunked
  <2> DEFINE c == SetContent(a, a.pairs)
             text == Status(Ok) \o a.headers \o Length(a.pairs) \o Field \o Blank \o Body(a.pairs)
  <2>1. result = BuildUrlencoded(a)
    BY <1>4 DEF SetUrlencoded, a
  <2>2. c \in Members /\ c.trans = "normal" /\ c.rep = << >> /\ c.headers = a.headers /\ c.status = Ok /\ c.content = a.pairs
    BY <1>2, <1>3 DEF SetContent, Members
  <2>3. << >> \o Status(Ok) = Status(Ok)
    BY <2>2, NoneBefore
  <2>4. result = [c EXCEPT !.rep = text, !.content = 0]
    BY <2>1, <2>2, <2>3 DEF BuildUrlencoded, ContentLength
  <2>5. text \in Seq(Items)
    <3>1. /\ Status(Ok) \in Seq(Items) /\ a.headers \in Seq(Items) /\ Length(a.pairs) \in Seq(Items)
          /\ Field \in Seq(Items) /\ Blank \in Seq(Items) /\ Body(a.pairs) \in Seq(Items)
      BY <1>3, TheItems DEF Front, Has
    <3>2. QED BY <3>1, Joining
  <2> HIDE DEF text, c, result
  <2>6. result \in Members /\ result.rep = text /\ result.trans = "normal"
    <3>1. \A t \in Seq(Items) : LET x == [c EXCEPT !.rep = t, !.content = 0]
                                IN  x \in Members /\ x.rep = t /\ x.trans = "normal"
      BY <2>2 DEF Members
    <3>2. QED BY <2>4, <2>5, <3>1
  <2>7. Made(result, FALSE)
    BY <1>3, <2>6, BuildsPlain DEF text
  <2>8. QED BY <2>6, <2>7 DEF Made, result
<1>5. CASE chunked
  <2> DEFINE b == Chunked(a)
             c == Chunk(a.pairs) \o LastChunk
             s == Status(Ok) \o b.headers
             front == s \o Field
  <2>1. result = BuildChunkedUrlencoded(b)
    BY <1>5 DEF SetUrlencoded, a
  <2>2. /\ b \in Members /\ Has(b.headers, {"encoding"}) /\ b.trans = "chunked" /\ b.head = r.head
        /\ b.chunks = r.chunks /\ b.pairs = a.pairs /\ b.status = Ok
    <3>1. b.status = a.status
      BY <1>2 DEF Chunked, Members
    <3>2. QED BY <1>2, <1>3, <3>1, ChunkedHeaders
  <2>3. /\ c \in Seq(Items) /\ (Trail(c) \/ c = LastChunk \o LastChunk)
        /\ r.chunks \in Seq(Items) /\ r.head \in Seq(Items) /\ r.chunks \o Chunk(a.pairs) \o LastChunk = r.chunks \o c
        /\ r.chunks \o c \in Seq(Items)
    <3>1. r.chunks \in Seq(Items) /\ r.head \in Seq(Items)
      BY DEF Members
    <3>2. Chunk(a.pairs) \in Seq(Items) /\ LastChunk \in Seq(Items)
      BY <1>3, TheItems DEF LastChunk
    <3>3. QED BY <1>3, <3>1, <3>2, ContentChunks, Joining
  <2> HIDE DEF c, b
  <2>4. Front(s, {"status", "encoding"}, 0)
    <3>1. Front(s, {"status"} \union {"encoding"}, 0)
      BY <1>3, <2>2, StatusAndHeaders
    <3>2. {"status"} \union {"encoding"} = {"status", "encoding"}
      OBVIOUS
    <3>3. QED BY <3>1, <3>2
  <2>5. Front(front, {"status", "encoding"}, 0)
    <3>1. Has(Field, {})
      BY TheItems
    <3>2. Front(front, {"status", "encoding"} \union {}, 0)
      BY <2>4, <3>1, FrontGrows
    <3>3. QED BY <3>2
  <2>6. r.head \o Status(Ok) \o b.headers = r.head \o s
    <3>1. Status(Ok) \in Seq(Items) /\ b.headers \in Seq(Items)
      BY <1>3, <2>2, TheItems DEF Front, Has
    <3>2. QED BY <2>3, <3>1, Joining, ZenonT(60)
  <2>7. r.head \o Status(Ok) \o b.headers \o Field \o Blank = r.head \o (front \o Blank) /\ front \o Blank \in Seq(Items)
    <3> DEFINE x == r.head
    <3>1. x \in Seq(Items) /\ s \in Seq(Items)
      BY <2>3, <2>4 DEF Front, Has
    <3> HIDE DEF x, s
    <3>2. x \o s \o Field \o Blank = x \o (s \o Field \o Blank) /\ s \o Field \o Blank \in Seq(Items)
      BY <3>1, JoiningHead
    <3>3. QED BY <2>6, <3>2 DEF x
  <2>8. result = [b EXCEPT !.head = r.head \o (front \o Blank), !.chunks = r.chunks \o c]
    BY <2>1, <2>2, <2>3, <2>7 DEF BuildChunkedUrlencoded
  <2> HIDE DEF front, s, result
  <2>9. result \in Members /\ result.trans = "chunked" /\ result.head = r.head \o (front \o Blank) /\ result.chunks = r.chunks \o c
    <3> DEFINE t == r.head \o (front \o Blank)
               u == r.chunks \o c
    <3>1. t \in Seq(Items) /\ u \in Seq(Items) /\ result = [b EXCEPT !.head = t, !.chunks = u]
      BY <2>3, <2>7, <2>8, Joining
    <3> HIDE DEF t, u
    <3>2. result \in Members /\ result.trans = "chunked" /\ result.head = t /\ result.chunks = u
      BY <2>2, <3>1 DEF Members
    <3>3. QED BY <3>2 DEF t, u
  <2>10. Made(result, behind)
    BY <2>3, <2>5, <2>9, BuildsChunks
  <2>11. QED BY <2>9, <2>10 DEF result
<1>6. QED BY <1>4, <1>5

LEMMA OnesJoined ==
  ASSUME NEW s \in Seq(Items), NEW t \in Seq(Items), Len(s) = 1, Len(t) = 1
  PROVE  s \o t \in Seq(Items) /\ Len(s \o t) = 2 /\ (s \o t)[1] = s[1]
<1>1. /\ s \o t \in Seq(Items) /\ Len(s \o t) = Len(s) + Len(t)
      /\ \A i \in 1..(Len(s) + Len(t)) : (s \o t)[i] = IF i <= Len(s) THEN s[i] ELSE t[i - Len(s)]
  BY ConcatProperties
<1> QED
  BY <1>1

\* The chunks of a form's parts; none is of length zero but those of empty values.
LEMMA ChunksOfParts ==
  ASSUME NEW parts \in Seq(Nat)
  PROVE  /\ PartChunks(parts) \in Seq(Items) /\ Len(PartChunks(parts)) = 3 * Len(parts)
         /\ \A k \in 1..(3 * Len(parts)) :
              /\ PartChunks(parts)[k].kind = "chunk"
              /\ (\A i \in DOMAIN parts : parts[i] # 0) => PartChunks(parts)[k].n # 0
<1> DEFINE n == 3 * Len(parts)
           full == \A i \in DOMAIN parts : parts[i] # 0
<1>1. n \in Nat
  OBVIOUS
<1>2. ASSUME NEW k \in 1..n
      PROVE  /\ PartChunks(parts)[k] \in Items /\ PartChunks(parts)[k].kind = "chunk"
             /\ full => PartChunks(parts)[k].n # 0
  <2>1. PICK m \in Nat : PartChunks(parts)[k] = Item("chunk", m) /\ (full => m # 0)
    <3>1. PartChunks(parts)[k] =
            Item("chunk", IF k % 3 = 1 THEN 1 ELSE IF k % 3 = 2 THEN parts[(k + 1) \div 3] ELSE 2)
      BY DEF PartChunks
    <3>2. CASE k % 3 = 2
      <4>1. (k + 1) \div 3 \in 1..Len(parts)
        <5>1. Len(parts) \in Nat /\ k \in Nat /\ k >= 1 /\ k <= 3 * Len(parts)
          OBVIOUS
        <5> DEFINE l == Len(parts)
        <5> HIDE DEF l
        <5>2. (k + 1) \div 3 \in 1..l
          BY <3>2, <5>1 DEF l
        <5>3. QED BY <5>2 DEF l
      <4>2. parts[(k + 1) \div 3] \in Nat /\ (full => parts[(k + 1) \div 3] # 0)
        BY <4>1
      <4>3. PartChunks(parts)[k] = Item("chunk", parts[(k + 1) \div 3])
        BY <3>1, <3>2
      <4>4. QED BY <4>2, <4>3
    <3>3. CASE k % 3 # 2
      <4>1. PartChunks(parts)[k] = Item("chunk", 1) \/ PartChunks(parts)[k] = Item("chunk", 2)
        BY <3>1, <3>3
      <4>2. QED BY <4>1
    <3>4. QED BY <3>2, <3>3
  <2>2. QED BY <2>1 DEF Item, Items, Kinds
<1>3. PartChunks(parts) \in Seq(Items) /\ Len(PartChunks(parts)) = n
  <2>1. PartChunks(parts) \in [1..n -> Items]
    BY <1>2 DEF PartChunks
  <2>2. QED BY <1>1, <2>1
<1>4. QED BY <1>2, <1>3

\* The chunks of a form's parts, whose values are not empty, the boundary behind them,
\* and the last.
LEMMA PartsTrail ==
  ASSUME NEW parts \in Seq(Nat)
  PROVE  /\ OnlyChunks(PartChunks(parts) \o (Chunk(1) \o LastChunk))
         /\ \/ \E i \in DOMAIN parts : parts[i] = 0
            \/ Trail(PartChunks(parts) \o (Chunk(1) \o LastChunk))
<1> DEFINE c == Chunk(1) \o LastChunk
           text == PartChunks(parts) \o c
           n == 3 * Len(parts)
           full == \A i \in DOMAIN parts : parts[i] # 0
<1>1. n \in Nat
  OBVIOUS
<1>2. /\ PartChunks(parts) \in Seq(Items) /\ Len(PartChunks(parts)) = n
      /\ \A k \in 1..n : PartChunks(parts)[k].kind = "chunk" /\ (full => PartChunks(parts)[k].n # 0)
  BY ChunksOfParts
<1>3. PartChunks(parts) \in Seq(Items) /\ Len(PartChunks(parts)) = n
  BY <1>2
<1>4. c \in Seq(Items) /\ Len(c) = 2 /\ Trail(c)
  <2>1. Chunk(1) \in Seq(Items) /\ Len(Chunk(1)) = 1 /\ LastChunk \in Seq(Items) /\ Len(LastChunk) = 1
        /\ Chunk(1)[1] = Item("chunk", 1) /\ LastChunk[1] = Item("chunk", 0)
    BY TheItems DEF LastChunk
  <2>2. c \in Seq(Items) /\ Len(c) = 2 /\ c[1] = Chunk(1)[1]
    BY <2>1, OnesJoined
  <2>3. c # LastChunk \o LastChunk
    <3>1. (LastChunk \o LastChunk)[1] = LastChunk[1]
      BY <2>1, ConcatProperties
    <3>2. Item("chunk", 0) # Item("chunk", 1)
      BY DEF Item
    <3>3. QED BY <2>1, <2>2, <3>1, <3>2
  <2>4. QED BY <2>2, <2>3, ContentChunks
<1> HIDE DEF c, n
<1>5. /\ text \in Seq(Items) /\ Len(text) = n + 2
      /\ \A i \in 1..(n + 2) : text[i] = IF i <= n THEN PartChunks(parts)[i] ELSE c[i - n]
  <2> DEFINE q == PartChunks(parts)
  <2>1. q \in Seq(Items) /\ Len(q) = n
    BY <1>3
  <2> HIDE DEF q
  <2>2. /\ q \o c \in Seq(Items) /\ Len(q \o c) = n + 2
        /\ \A i \in 1..(n + 2) : (q \o c)[i] = IF i <= n THEN q[i] ELSE c[i - n]
    <3>1. /\ q \o c \in Seq(Items) /\ Len(q \o c) = Len(q) + Len(c)
          /\ \A i \in 1..(Len(q) + Len(c)) : (q \o c)[i] = IF i <= Len(q) THEN q[i] ELSE c[i - Len(q)]
      BY <1>4, <2>1, ConcatProperties
    <3>2. QED BY <1>1, <1>4, <2>1, <3>1
  <2>3. QED BY <2>2 DEF q
<1> HIDE DEF text
<1> HIDE DEF full
<1>6. ASSUME NEW i \in 1..(n + 2)
      PROVE  text[i].kind = "chunk" /\ (full => (text[i].n = 0 <=> i = n + 2))
  <2>1. CASE i <= n
    BY <1>1, <1>2, <1>5, <2>1
  <2>2. CASE i > n
    <3>1. i - n \in 1..2 /\ text[i] = c[i - n]
      BY <1>1, <1>5, <2>2
    <3>2. QED BY <1>1, <1>4, <3>1 DEF Trail, OnlyChunks
  <2>3. QED BY <1>1, <2>1, <2>2
<1>7. OnlyChunks(text)
  BY <1>1, <1>5, <1>6 DEF OnlyChunks
<1>8. full => Trail(text)
  BY <1>1, <1>5, <1>6, <1>7 DEF Trail
<1>9. QED BY <1>7, <1>8 DEF text, c, full

LEMMA SetsMultipart ==
  ASSUME NEW r \in Members, Prepared(r), NEW behind \in BOOLEAN, behind \/ (r.head = << >> /\ r.chunks = << >>),
         NEW chunked \in BOOLEAN
  PROVE  SetMultipart(r, Ok, chunked) \in Members /\ Made(SetMultipart(r, Ok, chunked), behind)
<1> DEFINE a == [r EXCEPT !.status = Ok, !.type = "multipart"]
           result == SetMultipart(r, Ok, chunked)
<1>1. /\ a \in Members /\ a.trans = "normal" /\ a.rep = << >> /\ a.headers = r.headers
      /\ a.status = Ok /\ a.head = r.head /\ a.chunks = r.chunks /\ a.parts = r.parts
  <2>1. Ok \in Nat
    BY DEF Ok
  <2>2. QED BY <2>1 DEF Members, Prepared
<1>2. Has(a.headers, {}) /\ Ok \in Nat /\ a.parts \in Seq(Nat) /\ a.type = "multipart"
  BY <1>1 DEF Ok, Members, Prepared
<1> HIDE DEF a
<1>3. CASE ~chunked /\ a.headers = << >>
  <2>1. result = Fails(a)
    BY <1>3 DEF SetMultipart, BuildMultipart, a
  <2>2. Fails(a) \in Members /\ Made(Fails(a), FALSE)
    BY <1>1, <1>2, FailsPlainly
  <2>3. QED BY <2>1, <2>2 DEF Made
<1>4. CASE ~chunked /\ a.headers # << >>
  <2> DEFINE n == MultipartLength(a)
             c == SetContent(a, n)
             text == Status(Ok) \o a.headers \o Field \o Length(n) \o Field \o Blank \o Body(n)
  <2>1. result = BuildMultipart(a)
    BY <1>4 DEF SetMultipart, a
  <2>2. n \in Nat
    BY <1>2 DEF MultipartLength
  <2>3. c \in Members /\ c.trans = "normal" /\ c.rep = << >> /\ c.headers = a.headers /\ c.status = Ok /\ c.content = n
    BY <1>1, <2>2 DEF SetContent, Members
  <2>4. << >> \o Status(Ok) = Status(Ok)
    BY <2>3, NoneBefore
  <2>5. result = [c EXCEPT !.rep = text, !.content = 0]
    BY <1>4, <2>1, <2>3, <2>4 DEF BuildMultipart, ContentLength
  <2> HIDE DEF c, n
  <2>6. text \in Seq(Items)
    <3>1. /\ Status(Ok) \in Seq(Items) /\ a.headers \in Seq(Items) /\ Length(n) \in Seq(Items)
          /\ Field \in Seq(Items) /\ Blank \in Seq(Items) /\ Body(n) \in Seq(Items)
      BY <1>2, <2>2, TheItems DEF Front, Has
    <3>2. QED BY <3>1, Joining
  <2> HIDE DEF text, result
  <2>7. result \in Members /\ result.rep = text /\ result.trans = "normal"
    <3>1. \A t \in Seq(Items) : LET x == [c EXCEPT !.rep = t, !.content = 0]
                                IN  x \in Members /\ x.rep = t /\ x.trans = "normal"
      BY <2>3 DEF Members
    <3>2. QED BY <2>5, <2>6, <3>1
  <2>8. Made(result, FALSE)
    BY <1>2, <2>2, <2>7, BuildsPlain DEF text
  <2>9. QED BY <2>7, <2>8 DEF Made, result
<1>5. CASE chunked
  <2> DEFINE b == Chunked(a)
             c == PartChunks(a.parts) \o (Chunk(1) \o LastChunk)
             s == Status(Ok) \o b.headers
             front == s \o Field \o Field
             h == BuildChunkedHeader(b)
  <2>1. result = BuildMultipartData(h)
    BY <1>5 DEF SetMultipart, a
  <2>2. /\ b \in Members /\ Has(b.headers, {"encoding"}) /\ b.trans = "chunked" /\ b.head = r.head
        /\ b.chunks = r.chunks /\ b.parts = a.parts /\ b.status = Ok /\ b.type = "multipart"
    <3>1. b.status = a.status /\ b.type = a.type
      BY <1>1 DEF Chunked, Members
    <3>2. QED BY <1>1, <1>2, <3>1, ChunkedHeaders
  <2>3. /\ c \in Seq(Items) /\ OnlyChunks(c) /\ (Trail(c) \/ \E i \in DOMAIN a.parts : a.parts[i] = 0)
        /\ r.chunks \in Seq(Items) /\ r.head \in Seq(Items)
        /\ r.chunks \o PartChunks(a.parts) \o Chunk(1) \o LastChunk = r.chunks \o c
        /\ r.chunks \o c \in Seq(Items)
    <3>1. r.chunks \in Seq(Items) /\ r.head \in Seq(Items)
      BY DEF Members
    <3>2. c \in Seq(Items) /\ OnlyChunks(c) /\ (Trail(c) \/ \E i \in DOMAIN a.parts : a.parts[i] = 0)
      BY <1>2, PartsTrail DEF OnlyChunks
    <3>3. /\ Chunk(1) \in Seq(Items) /\ LastChunk \in Seq(Items)
      BY TheItems DEF LastChunk
    <3>4. PartChunks(a.parts) \in Seq(Items)
      BY <1>2, ChunksOfParts
    <3> DEFINE x == r.chunks
               q == PartChunks(a.parts)
    <3> HIDE DEF x, q
    <3>5. x \in Seq(Items) /\ q \in Seq(Items) /\ x \o q \in Seq(Items)
      BY <3>1, <3>4, Joining DEF x, q
    <3>6. x \o q \o Chunk(1) \o LastChunk = x \o q \o (Chunk(1) \o LastChunk) /\ Chunk(1) \o LastChunk \in Seq(Items)
      BY <3>3, <3>5, Joining, ZenonT(60)
    <3>7. x \o q \o (Chunk(1) \o LastChunk) = x \o (q \o (Chunk(1) \o LastChunk))
      BY <3>5, <3>6, Joining
    <3>8. QED BY <3>1, <3>2, <3>6, <3>7, Joining DEF x, q
  <2> HIDE DEF c, b
  <2>4. Front(s, {"status", "encoding"}, 0)
    <3>1. Front(s, {"status"} \union {"encoding"}, 0)
      BY <1>2, <2>2, StatusAndHeaders
    <3>2. {"status"} \union {"encoding"} = {"status", "encoding"}
      OBVIOUS
    <3>3. QED BY <3>1, <3>2
  <2>5. Front(front, {"status", "encoding"}, 0)
    <3>1. Has(Field, {}) /\ {"status", "encoding"} \union {} = {"status", "encoding"}
      BY TheItems
    <3>2. Front(s \o Field, {"status", "encoding"} \union {}, 0)
      BY <2>4, <3>1, FrontGrows
    <3>3. Front(front, ({"status", "encoding"} \union {}) \union {}, 0)
      BY <3>1, <3>2, FrontGrows
    <3>4. QED BY <3>1, <3>3
  <2>6. r.head \o Status(Ok) \o b.headers = r.head \o s
    <3>1. Status(Ok) \in Seq(Items) /\ b.headers \in Seq(Items)
      BY <1>2, <2>2, TheItems DEF Front, Has
    <3>2. QED BY <2>3, <3>1, Joining, ZenonT(60)
  <2>7. /\ r.head \o Status(Ok) \o b.headers \o Field \o Field \o Blank = r.head \o (front \o Blank)
        /\ front \o Blank \in Seq(Items)
    <3> DEFINE x == r.head
    <3>1. x \in Seq(Items) /\ s \in Seq(Items)
      BY <2>3, <2>4 DEF Front, Has
    <3> HIDE DEF x, s
    <3>2. /\ x \o s \o Field \o Field \o Blank = x \o (s \o Field \o Field \o Blank)
          /\ s \o Field \o Field \o Blank \in Seq(Items)
      BY <3>1, JoiningHead
    <3>3. QED BY <2>6, <3>2 DEF x
  <2>8. result = [b EXCEPT !.head = r.head \o (front \o Blank), !.chunks = r.chunks \o c]
    <3>1. h = [b EXCEPT !.head = r.head \o (front \o Blank)]
      BY <2>2, <2>7 DEF BuildChunkedHeader
    <3>2. h.chunks = r.chunks /\ h.parts = a.parts
      BY <2>2, <3>1 DEF Members
    <3>3. result = [h EXCEPT !.chunks = r.chunks \o c]
      BY <2>1, <2>3, <3>2 DEF BuildMultipartData
    <3> HIDE DEF result, h, front, s
    <3>4. QED BY <2>2, <3>1, <3>3 DEF Members
  <2> HIDE DEF front, s, result
  <2>9. /\ result \in Members /\ result.trans = "chunked" /\ result.head = r.head \o (front \o Blank)
        /\ result.chunks = r.chunks \o c /\ result.type = "multipart" /\ result.parts = a.parts
    <3> DEFINE t == r.head \o (front \o Blank)
               u == r.chunks \o c
    <3>1. t \in Seq(Items) /\ u \in Seq(Items) /\ result = [b EXCEPT !.head = t, !.chunks = u]
      BY <2>3, <2>7, <2>8, Joining
    <3> HIDE DEF t, u
    <3>2. /\ result \in Members /\ result.trans = "chunked" /\ result.head = t /\ result.chunks = u
          /\ result.type = b.type /\ result.parts = b.parts
      BY <2>2, <3>1 DEF Members
    <3>3. QED BY <2>2, <3>2 DEF t, u
  <2>10. Trail(c) \/ EmptyValue(result)
    BY <2>3, <2>9 DEF EmptyValue
  <2>11. Made(result, behind)
    BY <2>3, <2>5, <2>9, <2>10, BuildsChunks
  <2>12. QED BY <2>9, <2>11 DEF result
<1>6. QED BY <1>3, <1>4, <1>5

LEMMA Redirects ==
  ASSUME NEW r \in Members, Prepared(r)
  PROVE  Redirect(r) \in Members /\ Made(Redirect(r), FALSE)
<1>1. AddHeader(r) = [r EXCEPT !.headers = r.headers \o Field]
  BY DEF AddHeader
<1>2. Has(r.headers \o Field, {} \union {})
  BY TheItems, HasJoined DEF Prepared
<1>3. Has(r.headers \o Field, {}) /\ r.headers \o Field \in Seq(Items)
  BY <1>2 DEF Has
<1>4. /\ AddHeader(r) \in Members /\ AddHeader(r).rep = << >> /\ AddHeader(r).trans = "normal"
      /\ AddHeader(r).headers = r.headers \o Field
  BY <1>1, <1>3 DEF Members, Prepared
<1>5. Redirect(r) = SetStatus(AddHeader(r), 302)
  BY DEF Redirect
<1> DEFINE a == AddHeader(r)
           status == 302
<1>6. a \in Members /\ a.rep = << >> /\ Has(a.headers, {}) /\ a.trans = "normal" /\ status \in Nat
  BY <1>3, <1>4
<1> HIDE DEF a, status
<1>7. SetStatus(a, status) \in Members /\ Made(SetStatus(a, status), FALSE)
  BY <1>6, SetsStatus
<1>8. QED BY <1>5, <1>7 DEF a, status

----------------------------------------------------------------------------
(* The steps *)

LEMMA AddsOne ==
  ASSUME NEW r \in Members, NEW n \in Nat, NEW b \in {AddPart(r, n), AddPair(r)}
  PROVE  /\ b \in Members /\ b.rep = r.rep /\ b.headers = r.headers /\ b.trans = r.trans
         /\ b.head = r.head /\ b.chunks = r.chunks
<1>1. Append(r.parts, n) \in Seq(Nat) /\ r.pairs + 1 \in Nat
  BY DEF Members
<1>2. CASE b = [r EXCEPT !.parts = Append(r.parts, n)]
  BY <1>1, <1>2 DEF Members
<1>3. CASE b = [r EXCEPT !.pairs = r.pairs + 1]
  BY <1>1, <1>3 DEF Members
<1>4. QED BY <1>2, <1>3 DEF AddPart, AddPair

LEMMA Resets ==
  ASSUME NEW r, r.head \in Seq(Items), r.chunks \in Seq(Items)
  PROVE  /\ Reset(r) \in Members /\ Reset(r).rep = << >> /\ Reset(r).headers = << >>
         /\ Reset(r).trans = "normal" /\ Reset(r).head = r.head /\ Reset(r).chunks = r.chunks
<1>1. Empty \in Members
  BY DEF Empty, Members
<1>2. Empty.rep = << >> /\ Empty.headers = << >> /\ Empty.trans = "normal"
  BY DEF Empty
<1>3. Reset(r) = [Empty EXCEPT !.head = r.head, !.chunks = r.chunks]
  BY DEF Reset
<1>4. QED BY <1>1, <1>2, <1>3 DEF Members

LEMMA ResponseStarts == ResponseInit => ResponseInv
<1> SUFFICES ASSUME ResponseInit
             PROVE  ResponseInv
  OBVIOUS
<1> USE DEF ResponseInit
<1>1. Empty \in Members
  BY DEF Empty, Members
<1>2. Prepared(Empty) /\ Empty.head = << >> /\ Empty.chunks = << >>
  BY DEF Empty, Prepared, Has, Once, Never
<1>3. WholeMessages
  BY DEF WholeMessages
<1>4. QED BY <1>1, <1>2, <1>3 DEF ResponseInv

LEMMA PrepareStep == ResponseInv /\ PrepareResponse => ResponseInv'
<1> SUFFICES ASSUME ResponseInv, PrepareResponse
             PROVE  ResponseInv'
  OBVIOUS
<1>1. /\ resp \in Members /\ Prepared(resp) /\ ~made /\ UNCHANGED <<made, written, stale, responses>>
      /\ stale \/ (resp.head = << >> /\ resp.chunks = << >>)
  BY DEF ResponseInv, PrepareResponse
<1>2. resp' \in Members /\ Prepared(resp)' /\ resp'.head = resp.head /\ resp'.chunks = resp.chunks
  <2>1. CASE resp' = AddHeader(resp)
    <3>1. Has(resp.headers \o Field, {} \union {})
      BY <1>1, TheItems, HasJoined DEF Prepared
    <3>2. Has(resp.headers \o Field, {}) /\ resp.headers \o Field \in Seq(Items)
      BY <3>1 DEF Has
    <3>3. QED BY <1>1, <2>1, <3>2 DEF AddHeader, Members, Prepared
  <2>2. ASSUME NEW n \in Lengths, resp' = AddPart(resp, n)
        PROVE  resp' \in Members /\ Prepared(resp)' /\ resp'.head = resp.head /\ resp'.chunks = resp.chunks
    <3>0. n \in Nat
      BY ResponseAssumption
    <3>1. /\ resp' \in Members /\ resp'.rep = resp.rep /\ resp'.headers = resp.headers
          /\ resp'.trans = resp.trans /\ resp'.head = resp.head /\ resp'.chunks = resp.chunks
      BY <1>1, <2>2, <3>0, AddsOne
    <3>2. QED BY <1>1, <3>1 DEF Prepared
  <2>3. CASE resp' = AddPair(resp)
    <3>1. /\ resp' \in Members /\ resp'.rep = resp.rep /\ resp'.headers = resp.headers
          /\ resp'.trans = resp.trans /\ resp'.head = resp.head /\ resp'.chunks = resp.chunks
      BY <1>1, <2>3, AddsOne, 0 \in Nat
    <3>2. QED BY <1>1, <3>1 DEF Prepared
  <2>4. QED BY <2>1, <2>2, <2>3 DEF PrepareResponse
<1>3. WholeMessages'
  BY <1>1 DEF ResponseInv, WholeMessages
<1>4. QED BY <1>1, <1>2, <1>3 DEF ResponseInv

LEMMA MakeStep == ResponseInv /\ Make => ResponseInv'
<1> SUFFICES ASSUME ResponseInv, Make
             PROVE  ResponseInv'
  OBVIOUS
<1>1. /\ resp \in Members /\ Prepared(resp) /\ ~made /\ made' /\ UNCHANGED <<written, stale, responses>>
      /\ stale \in BOOLEAN /\ (stale \/ (resp.head = << >> /\ resp.chunks = << >>))
  BY DEF ResponseInv, Make
<1>2. resp' \in Members /\ Made(resp', stale)
  <2>1. PICK chunked \in BOOLEAN :
          \/ resp' = SetMultipart(resp, Ok, chunked)
          \/ resp' = SetUrlencoded(resp, Ok, chunked)
          \/ resp' \in {Redirect(resp), SetStatus(resp, BadGateway)}
          \/ \E n \in Lengths, type \in {"none", "json", "string"} :
               resp' = (IF type = "json" THEN Render(resp, type, n, chunked)
                        ELSE SetStatusAndContent(resp, Ok, n, type, chunked))
    BY DEF Make
  <2>2. CASE resp' = SetMultipart(resp, Ok, chunked)
    BY <1>1, <2>2, SetsMultipart
  <2>3. CASE resp' = SetUrlencoded(resp, Ok, chunked)
    BY <1>1, <2>3, SetsUrlencoded
  <2>4. CASE resp' = Redirect(resp)
    BY <1>1, <2>4, Redirects DEF Made
  <2>5. CASE resp' = SetStatus(resp, BadGateway)
    <3>1. BadGateway \in Nat
      BY DEF BadGateway
    <3>2. QED BY <1>1, <2>5, <3>1, SetsStatus DEF Made, Prepared
  <2>6. ASSUME NEW n \in Lengths, NEW type \in {"none", "json", "string"},
               resp' = SetStatusAndContent(resp, Ok, n, type, chunked)
        PROVE  resp' \in Members /\ Made(resp', stale)
    BY <1>1, <2>6, ResponseAssumption, SetsStatusAndContent
  <2>7. QED BY <2>1, <2>2, <2>3, <2>4, <2>5, <2>6 DEF Render
<1>3. WholeMessages'
  BY <1>1 DEF ResponseInv, WholeMessages
<1>4. QED BY <1>1, <1>2, <1>3 DEF ResponseInv

LEMMA WriteStep == ResponseInv /\ Write => ResponseInv'
<1> SUFFICES ASSUME ResponseInv, Write
             PROVE  ResponseInv'
  OBVIOUS
<1> DEFINE r == Taken(resp)
<1>1. /\ resp \in Members /\ Made(resp, stale) /\ stale \in BOOLEAN /\ responses \in Nat
      /\ written' = [text |-> Text(resp), chunked |-> resp.trans = "chunked", stale |-> stale,
                     cut |-> EmptyValue(resp)]
      /\ resp' = Reset(r) /\ stale' = (r.head # << >> \/ r.chunks # << >>)
      /\ made' = FALSE /\ responses' = responses + 1
  BY DEF ResponseInv, Write
<1>2. WholeMessages'
  BY <1>1 DEF WholeMessages, Made, Message
<1>3. r.head \in Seq(Items) /\ r.chunks \in Seq(Items)
  BY <1>1 DEF Taken, Members
<1> HIDE DEF r
<1>4. /\ resp' \in Members /\ resp'.rep = << >> /\ resp'.headers = << >> /\ resp'.trans = "normal"
      /\ resp'.head = r.head /\ resp'.chunks = r.chunks
  BY <1>1, <1>3, Resets
<1>5. Has(<< >>, {})
  BY DEF Has, Once, Never
<1>6. Prepared(resp)' /\ (stale' \/ (resp'.head = << >> /\ resp'.chunks = << >>)) /\ stale' \in BOOLEAN
  BY <1>1, <1>4, <1>5 DEF Prepared
<1>7. ~made' /\ made' \in BOOLEAN
  BY <1>1
<1>8. responses' \in Nat
  BY <1>1
<1>9. QED BY <1>2, <1>4, <1>6, <1>7, <1>8 DEF ResponseInv

\* What one call has made of a response and do_write takes is one whole message, for any
\* number of responses, headers, parts and pairs, contents of any length, and any order
\* of the calls, but for those that WholeMessages names: what reset leaves behind a
\* chunked response that failed spoils nothing but the next chunked one, and an empty
\* content or value nothing but the message it is in.
THEOREM WholeMessagesCorrect == ResponseSpec => []WholeMessages
<1>1. ResponseInit => ResponseInv
  BY ResponseStarts
<1>2. ResponseInv /\ [ResponseNext]_responseVars => ResponseInv'
  <2> SUFFICES ASSUME ResponseInv, [ResponseNext]_responseVars
               PROVE  ResponseInv'
    OBVIOUS
  <2>1. CASE ResponseNext
    BY <2>1, PrepareStep, MakeStep, WriteStep DEF ResponseNext
  <2>2. CASE UNCHANGED responseVars
    <3>1. UNCHANGED <<resp, made, written, stale, responses>>
      BY <2>2 DEF responseVars
    <3>2. WholeMessages'
      BY <3>1 DEF ResponseInv, WholeMessages
    <3>3. QED BY <3>1, <3>2 DEF ResponseInv
  <2>3. QED BY <2>1, <2>2
<1>3. ResponseInv => WholeMessages
  BY DEF ResponseInv
<1>4. QED BY <1>1, <1>2, <1>3, PTL DEF ResponseSpec

----------------------------------------------------------------------------
(* Part 4: SyncQueue                                                        *)

(* Types                                                                    *)

\* A producer in a call has begun it, and only threads that wait are waiters.
CallsBegun == \A p \in Producers : pc[p] # "idle" => puts[p] \in 1..MaxPuts
WaitersWait == \A t \in not_full_ \cup not_empty_ : pc[t] = "waiting"

SafetyInv == TypeOK /\ CallsBegun /\ WaitersWait

LEMMA NotifyOneSubset ==
  ASSUME NEW S, NEW T \in NotifyOne(S)
  PROVE  T \subseteq S
BY DEF NotifyOne

LEMMA SafetyInit == QueueInit => SafetyInv
<1> SUFFICES ASSUME QueueInit PROVE SafetyInv
  OBVIOUS
<1> USE QueueAssumption DEF QueueInit, Threads
<1>1. need_stop_ \in BOOLEAN
  BY Zenon
<1>2. TypeOK
  BY <1>1 DEF TypeOK
<1>3. CallsBegun /\ WaitersWait
  BY DEF CallsBegun, WaitersWait
<1> QED
  BY <1>2, <1>3 DEF SafetyInv

LEMMA AddSafety ==
  ASSUME NEW p \in Producers, SafetyInv, Add(p)
  PROVE  SafetyInv'
<1> USE QueueAssumption DEF Threads
<1>1. <<p, puts[p]>> \in PutItems /\ pc[p] # "idle"
  BY DEF SafetyInv, CallsBegun, Add, Running, PutItems
<1>2. queue_' \in Seq(PutItems)
  BY <1>1 DEF SafetyInv, TypeOK, Add, Pushed
<1>3. not_empty_' \subseteq not_empty_
  BY NotifyOneSubset DEF Add, NotifyNotEmpty
<1>4. TypeOK'
  BY <1>2, <1>3 DEF SafetyInv, TypeOK, Add
<1>5. p \notin not_full_ \cup not_empty_
  BY DEF SafetyInv, WaitersWait, Add, Running, Woken
<1>6. CallsBegun' /\ WaitersWait'
  BY <1>3, <1>5 DEF SafetyInv, TypeOK, CallsBegun, WaitersWait, Add
<1> QED
  BY <1>4, <1>6 DEF SafetyInv

\* What a take is given, and what it leaves.
LEMMA TakeShape ==
  ASSUME NEW c \in Consumers, TypeOK, Take(c)
  PROVE  /\ Batch(c) \in 1..Len(queue_)
         /\ queue_' \in Seq(PutItems) /\ taken' \in Seq(PutItems)
         /\ Len(queue_') = Len(queue_) - Batch(c)
<1>1. queue_ \in Seq(PutItems) /\ Len(queue_) \in Nat /\ taken \in Seq(PutItems)
  BY DEF TypeOK
<1>2. Len(queue_) # 0
  BY <1>1, EmptySeq DEF Take
<1>3. Batch(c) \in 1..Len(queue_)
  BY <1>1, <1>2 DEF Batch
<1> DEFINE n == Batch(c)
           m == Len(queue_)
<1>4. n \in 1..m /\ m \in Nat
  BY <1>1, <1>3
<1>5. queue_' = SubSeq(queue_, n + 1, m) /\ taken' = taken \o SubSeq(queue_, 1, n)
  BY DEF Take
<1> HIDE DEF n
<1>6. SubSeq(queue_, n + 1, m) \in Seq(PutItems) /\ Len(SubSeq(queue_, n + 1, m)) = m - n
  BY <1>1, <1>4, SubSeqProperties
<1>7. SubSeq(queue_, 1, n) \in Seq(PutItems)
  BY <1>1, <1>4, SubSeqProperties
<1>8. taken' \in Seq(PutItems)
  BY <1>1, <1>5, <1>7, ConcatProperties
<1> QED
  BY <1>3, <1>5, <1>6, <1>8 DEF n

LEMMA TakeSafety ==
  ASSUME NEW c \in Consumers, SafetyInv, Take(c)
  PROVE  SafetyInv'
<1> USE QueueAssumption DEF Threads
<1>1. not_full_' \subseteq not_full_
  BY NotifyOneSubset DEF Take, NotifyNotFull
<1>2. TypeOK'
  BY <1>1, TakeShape DEF SafetyInv, TypeOK, Take
<1>3. c \notin not_full_ \cup not_empty_ /\ c \notin Producers
  BY DEF SafetyInv, WaitersWait, Take, Running, Woken
<1>4. CallsBegun' /\ WaitersWait'
  BY <1>1, <1>3 DEF SafetyInv, TypeOK, CallsBegun, WaitersWait, Take
<1> QED
  BY <1>2, <1>4 DEF SafetyInv

LEMMA SafetyNext == SafetyInv /\ [QueueNext]_queueVars => SafetyInv'
<1> SUFFICES ASSUME SafetyInv, [QueueNext]_queueVars PROVE SafetyInv'
  OBVIOUS
<1> USE QueueAssumption DEF Threads
<1>1. ASSUME NEW p \in Producers, CallPut(p) PROVE SafetyInv'
  <2>1. TypeOK'
    BY <1>1 DEF SafetyInv, TypeOK, CallPut
  <2>2. CallsBegun' /\ WaitersWait'
    BY <1>1 DEF SafetyInv, TypeOK, CallsBegun, WaitersWait, CallPut
  <2> QED
    BY <2>1, <2>2 DEF SafetyInv
<1>2. ASSUME NEW p \in Producers, WaitNotFull(p) PROVE SafetyInv'
  BY <1>2 DEF SafetyInv, TypeOK, CallsBegun, WaitersWait, WaitNotFull, SleepNotFull, Running
<1>3. ASSUME NEW t \in Threads, ReturnStopped(t) PROVE SafetyInv'
  BY <1>3 DEF SafetyInv, TypeOK, CallsBegun, WaitersWait, ReturnStopped, Running, Woken
<1>4. ASSUME NEW c \in Consumers, CallTake(c) PROVE SafetyInv'
  BY <1>4 DEF SafetyInv, TypeOK, CallsBegun, WaitersWait, CallTake
<1>5. ASSUME NEW c \in Consumers, WaitNotEmpty(c) PROVE SafetyInv'
  BY <1>5 DEF SafetyInv, TypeOK, CallsBegun, WaitersWait, WaitNotEmpty, Running
<1>6. ASSUME NEW t \in Threads, SpuriousWake(t) PROVE SafetyInv'
  BY <1>6 DEF SafetyInv, TypeOK, CallsBegun, WaitersWait, SpuriousWake
<1>7. CASE SetStop \/ StopStep \/ UNCHANGED queueVars
  BY <1>7 DEF SafetyInv, TypeOK, CallsBegun, WaitersWait, SetStop, StopStep,
              NotifyAllNotFull, NotifyAllNotEmpty, StopNotifies, queueVars
<1> QED
  BY <1>1, <1>2, <1>3, <1>4, <1>5, <1>6, <1>7, AddSafety, TakeSafety
     DEF QueueNext, ProducerStep, ConsumerStep

LEMMA SafetyInvariance == QueueSpec => []SafetyInv
BY SafetyInit, SafetyNext, PTL DEF QueueSpec

\* The variables of the queue have their types.
THEOREM QueueTypesCorrect == QueueSpec => []TypeOK
BY SafetyInvariance, PTL DEF SafetyInv

----------------------------------------------------------------------------
(* The queue is a bounded first-in first-out queue                          *)

LEMMA FifoStep ==
  ASSUME SafetyInv, [QueueNext]_queueVars
  PROVE  [Fifo!Next]_(Fifo!vars)
<1> USE DEF Fifo!vars
<1>1. ASSUME NEW p \in Producers, Add(p) PROVE Fifo!Next
  <2>1. <<p, puts[p]>> \in PutItems
    BY <1>1 DEF SafetyInv, CallsBegun, Add, Running, PutItems
  <2>2. Fifo!Put(<<p, puts[p]>>)
    BY <1>1 DEF Fifo!Put, Add, Room, Pushed
  <2> QED
    BY <2>1, <2>2 DEF Fifo!Next
<1>2. ASSUME NEW c \in Consumers, Take(c) PROVE Fifo!Next
  <2>1. Batch(c) \in 1..Len(queue_)
    BY <1>2, TakeShape DEF SafetyInv
  <2>2. Fifo!Take(Batch(c))
    BY <1>2 DEF Fifo!Take, Take
  <2> QED
    BY <2>1, <2>2 DEF Fifo!Next
<1>3. CASE SetStop
  BY <1>3 DEF SetStop, Fifo!Next, Fifo!Stop
<1>4. ASSUME NEW t \in Threads,
             CallPut(t) \/ WaitNotFull(t) \/ ReturnStopped(t) \/ CallTake(t)
               \/ WaitNotEmpty(t) \/ SpuriousWake(t)
      PROVE  UNCHANGED Fifo!vars
  BY <1>4 DEF CallPut, WaitNotFull, ReturnStopped, CallTake, WaitNotEmpty, SpuriousWake
<1>5. CASE StopStep \/ UNCHANGED queueVars
  BY <1>5 DEF StopStep, NotifyAllNotFull, NotifyAllNotEmpty, queueVars
<1> QED
  BY <1>1, <1>2, <1>3, <1>4, <1>5 DEF QueueNext, ProducerStep, ConsumerStep, Threads

\* Items leave the queue once, in the order in which they entered it, it never
\* holds more than max_size_, and after stop none enters or leaves.
THEOREM FifoCorrect == QueueSpec => FifoSpec
<1>1. QueueInit => Fifo!Init
  BY DEF QueueInit, Fifo!Init
<1>2. SafetyInv /\ [QueueNext]_queueVars => [Fifo!Next]_(Fifo!vars)
  BY FifoStep
<1> QED
  BY <1>1, <1>2, SafetyInvariance, PTL DEF QueueSpec, FifoSpec, Fifo!Spec

----------------------------------------------------------------------------
(* No notification is lost                                                  *)

LEMMA AwakeFinite ==
  ASSUME NEW S, IsFiniteSet(S)
  PROVE  IsFiniteSet(Awake(S)) /\ Cardinality(Awake(S)) \in Nat
<1>1. Awake(S) \subseteq S
  BY DEF Awake
<1> QED
  BY <1>1, FS_Subset, FS_CardinalityType

\* What a step does to the number of threads of S that are awake.
LEMMA AwakeGrows ==
  ASSUME NEW S, IsFiniteSet(S), Awake(S) \subseteq Awake(S)'
  PROVE  Cardinality(Awake(S)) <= Cardinality(Awake(S)')
<1>1. Awake(S)' \subseteq S
  BY DEF Awake
<1>2. IsFiniteSet(Awake(S)')
  BY <1>1, FS_Subset
<1> QED
  BY <1>2, FS_Subset

LEMMA AwakeGains ==
  ASSUME NEW S, IsFiniteSet(S), NEW w, w \notin Awake(S),
         Awake(S)' = Awake(S) \cup {w}
  PROVE  Cardinality(Awake(S)') = Cardinality(Awake(S)) + 1
BY AwakeFinite, FS_AddElement

LEMMA AwakeLoses ==
  ASSUME NEW S, IsFiniteSet(S), NEW w, Awake(S)' = Awake(S) \ {w}
  PROVE  /\ Cardinality(Awake(S)') \in Nat
         /\ Cardinality(Awake(S)) - 1 <= Cardinality(Awake(S)')
<1>1. IsFiniteSet(Awake(S)) /\ Cardinality(Awake(S)) \in Nat
  BY AwakeFinite
<1>2. IsFiniteSet(Awake(S)')
  BY <1>1, FS_RemoveElement
<1>3. Cardinality(Awake(S)') = IF w \in Awake(S) THEN Cardinality(Awake(S)) - 1
                                                ELSE Cardinality(Awake(S))
  BY <1>1, FS_RemoveElement
<1> QED
  BY <1>1, <1>2, <1>3, FS_CardinalityType

LEMMA ProducersNext ==
  ASSUME BatchConsumers = {}, SafetyInv, SafetyInv', NoProducerForgotten, [QueueNext]_queueVars
  PROVE  NoProducerForgotten'
<1> USE QueueAssumption DEF Threads
<1>0. Len(queue_) \in Nat /\ Len(queue_') \in Nat
      /\ not_full_ \subseteq Producers /\ not_empty_ \subseteq Consumers
      /\ not_full_' \subseteq Producers /\ not_empty_' \subseteq Consumers
  BY DEF SafetyInv, TypeOK
<1>a. /\ IsFiniteSet(Awake(Producers)) /\ Cardinality(Awake(Producers)) \in Nat
  BY AwakeFinite
<1>b. Cardinality(Awake(Producers)') \in Nat
  <2>1. Awake(Producers)' \subseteq Producers
    BY DEF Awake
  <2> QED
    BY <2>1, FS_Subset, FS_CardinalityType
<1> DEFINE room == max_size_ - Len(queue_)
           awake == Cardinality(Awake(Producers))
<1>c. need_stop_ \/ not_full_ = {} \/ room <= awake
  BY DEF NoProducerForgotten
<1>d. room \in Int /\ awake \in Nat /\ room' \in Int /\ awake' \in Nat
  BY <1>0, <1>a, <1>b
<1>e. need_stop_' \/ not_full_' = {} \/ room' <= awake' => NoProducerForgotten'
  BY DEF NoProducerForgotten
<1>1. ASSUME NEW p \in Producers, Add(p) PROVE NoProducerForgotten'
  <2>1. Len(queue_') = Len(queue_) + 1 /\ not_full_' = not_full_ /\ need_stop_' = need_stop_
    BY <1>1 DEF Add, Pushed, SafetyInv, TypeOK
  <2>2. Awake(Producers)' = Awake(Producers) \ {p}
    BY <1>0, <1>1 DEF Awake, Woken, Add, SafetyInv, TypeOK
  <2>3. awake - 1 <= awake'
    BY <2>2, AwakeLoses
  <2>4. room' = room - 1
    BY <1>0, <2>1
  <2> HIDE DEF room, awake
  <2> QED
    BY <1>c, <1>d, <1>e, <2>1, <2>3, <2>4
<1>2. ASSUME NEW c \in Consumers, Take(c) PROVE NoProducerForgotten'
  <2>1. Len(queue_') = Len(queue_) - 1 /\ need_stop_' = need_stop_
    BY <1>2, TakeShape DEF Take, Batch, SafetyInv
  <2>2. CASE not_full_ = {}
    <3>1. not_full_' = {}
      BY <1>2, <2>2 DEF Take, NotifyNotFull, NotifyOne
    <3> QED
      BY <1>e, <3>1
  <2>3. CASE not_full_ # {}
    <3>1. PICK w \in not_full_ : not_full_' = not_full_ \ {w}
      BY <1>2, <2>3 DEF Take, NotifyNotFull, NotifyOne
    <3>2. w \notin Awake(Producers) /\ pc[w] = "waiting" /\ w \in Producers
      BY <1>0 DEF Awake, Woken, SafetyInv, WaitersWait
    <3>3. Awake(Producers)' = Awake(Producers) \cup {w}
      <4>1. not_empty_' = not_empty_ /\ \A p \in Producers : pc'[p] = pc[p]
        BY <1>2 DEF Take, SafetyInv, TypeOK
      <4> QED
        BY <1>0, <3>1, <3>2, <4>1 DEF Awake, Woken
    <3>4. awake' = awake + 1
      BY <3>2, <3>3, AwakeGains
    <3>5. room' = room + 1
      BY <1>0, <2>1
    <3> HIDE DEF room, awake
    <3> QED
      BY <1>c, <1>d, <1>e, <2>1, <2>3, <3>4, <3>5
  <2> QED
    BY <2>2, <2>3
<1>3. ASSUME NEW p \in Producers, WaitNotFull(p) PROVE NoProducerForgotten'
  <2>1. queue_' = queue_ /\ max_size_ <= Len(queue_)
    BY <1>0, <1>3 DEF WaitNotFull, Room
  <2>2. room' <= 0
    BY <1>0, <2>1
  <2> HIDE DEF room, awake
  <2> QED
    BY <1>d, <1>e, <2>2
<1>4. ASSUME NEW t \in Threads, SpuriousWake(t) PROVE NoProducerForgotten'
  <2>1. Awake(Producers) \subseteq Awake(Producers)'
    BY <1>4 DEF Awake, Woken, SpuriousWake
  <2>2. awake <= awake'
    BY <2>1, AwakeGrows
  <2>3. room' = room /\ need_stop_' = need_stop_ /\ not_full_' \subseteq not_full_
    BY <1>4 DEF SpuriousWake
  <2> HIDE DEF room, awake
  <2> QED
    BY <1>c, <1>d, <1>e, <2>2, <2>3
<1>5. ASSUME Awake(Producers) \subseteq Awake(Producers)', queue_' = queue_,
             need_stop_' = need_stop_, not_full_' = not_full_
      PROVE  NoProducerForgotten'
  <2>1. awake <= awake' /\ room' = room
    BY <1>5, AwakeGrows
  <2> HIDE DEF room, awake
  <2> QED
    BY <1>5, <1>c, <1>d, <1>e, <2>1
<1>6. CASE SetStop \/ NotifyAllNotFull
  BY <1>6, <1>e DEF SetStop, NotifyAllNotFull, StopNotifies
<1>7. ASSUME NEW t \in Threads, CallPut(t) \/ CallTake(t) PROVE NoProducerForgotten'
  <2>1. Awake(Producers) \subseteq Awake(Producers)'
    BY <1>7 DEF CallPut, CallTake, Awake, Woken, SafetyInv, TypeOK
  <2> QED
    BY <1>5, <1>7, <2>1 DEF CallPut, CallTake
<1>8. ASSUME NEW t \in Consumers, WaitNotEmpty(t) PROVE NoProducerForgotten'
  <2>1. Awake(Producers) \subseteq Awake(Producers)'
    BY <1>8 DEF WaitNotEmpty, Awake, Woken, SafetyInv, TypeOK
  <2> QED
    BY <1>5, <1>8, <2>1 DEF WaitNotEmpty
<1>9. ASSUME NEW t \in Threads, ReturnStopped(t) PROVE NoProducerForgotten'
  BY <1>9, <1>e DEF ReturnStopped
<1>10. CASE NotifyAllNotEmpty \/ UNCHANGED queueVars
  <2>1. Awake(Producers) \subseteq Awake(Producers)'
    BY <1>0, <1>10 DEF NotifyAllNotEmpty, queueVars, Awake, Woken, SafetyInv, TypeOK
  <2> QED
    BY <1>5, <1>10, <2>1 DEF NotifyAllNotEmpty, queueVars
<1> QED
  BY <1>1, <1>2, <1>3, <1>4, <1>6, <1>7, <1>8, <1>9, <1>10
     DEF QueueNext, ProducerStep, ConsumerStep, StopStep

LEMMA ConsumersNext ==
  ASSUME SafetyInv, SafetyInv', NoConsumerForgotten, [QueueNext]_queueVars
  PROVE  NoConsumerForgotten'
<1> USE QueueAssumption DEF Threads
<1>0. Len(queue_) \in Nat /\ Len(queue_') \in Nat
      /\ not_full_ \subseteq Producers /\ not_empty_ \subseteq Consumers
      /\ not_full_' \subseteq Producers /\ not_empty_' \subseteq Consumers
  BY DEF SafetyInv, TypeOK
<1>a. /\ IsFiniteSet(Awake(Consumers)) /\ Cardinality(Awake(Consumers)) \in Nat
  BY AwakeFinite
<1>b. Cardinality(Awake(Consumers)') \in Nat
  <2>1. Awake(Consumers)' \subseteq Consumers
    BY DEF Awake
  <2> QED
    BY <2>1, FS_Subset, FS_CardinalityType
<1> DEFINE items == Len(queue_)
           awake == Cardinality(Awake(Consumers))
<1>c. need_stop_ \/ not_empty_ = {} \/ items <= awake
  BY DEF NoConsumerForgotten
<1>d. items \in Nat /\ awake \in Nat /\ items' \in Nat /\ awake' \in Nat
  BY <1>0, <1>a, <1>b
<1>e. need_stop_' \/ not_empty_' = {} \/ items' <= awake' => NoConsumerForgotten'
  BY DEF NoConsumerForgotten
<1>1. ASSUME NEW c \in Consumers, Take(c) PROVE NoConsumerForgotten'
  <2>1. Len(queue_') <= Len(queue_) - 1 /\ not_empty_' = not_empty_
        /\ need_stop_' = need_stop_
    <3>1. Batch(c) \in 1..Len(queue_) /\ Len(queue_') = Len(queue_) - Batch(c)
      BY <1>1, TakeShape DEF SafetyInv
    <3>2. not_empty_' = not_empty_ /\ need_stop_' = need_stop_
      BY <1>1 DEF Take
    <3> HIDE DEF items, awake
    <3> QED
      BY <1>0, <3>1, <3>2
  <2>2. Awake(Consumers)' = Awake(Consumers) \ {c}
    BY <1>0, <1>1 DEF Awake, Woken, Take, SafetyInv, TypeOK
  <2>3. awake - 1 <= awake' /\ items' <= items - 1
    BY <2>1, <2>2, AwakeLoses
  <2> HIDE DEF items, awake
  <2> QED
    BY <1>c, <1>d, <1>e, <2>1, <2>3
<1>2. ASSUME NEW p \in Producers, Add(p) PROVE NoConsumerForgotten'
  <2>1. Len(queue_') = Len(queue_) + 1 /\ need_stop_' = need_stop_
    BY <1>2 DEF Add, Pushed, SafetyInv, TypeOK
  <2>2. CASE not_empty_ = {}
    <3>1. not_empty_' = {}
      BY <1>2, <2>2 DEF Add, NotifyNotEmpty, NotifyOne
    <3> QED
      BY <1>e, <3>1
  <2>3. CASE not_empty_ # {}
    <3>1. PICK w \in not_empty_ : not_empty_' = not_empty_ \ {w}
      BY <1>2, <2>3 DEF Add, NotifyNotEmpty, NotifyOne
    <3>2. w \notin Awake(Consumers) /\ pc[w] = "waiting" /\ w \in Consumers
      BY <1>0 DEF Awake, Woken, SafetyInv, WaitersWait
    <3>3. Awake(Consumers)' = Awake(Consumers) \cup {w}
      <4>1. not_full_' = not_full_ /\ \A c \in Consumers : pc'[c] = pc[c]
        BY <1>2 DEF Add, SafetyInv, TypeOK
      <4> QED
        BY <1>0, <3>1, <3>2, <4>1 DEF Awake, Woken
    <3>4. awake' = awake + 1 /\ items' = items + 1
      BY <2>1, <3>2, <3>3, AwakeGains
    <3> HIDE DEF items, awake
    <3> QED
      BY <1>c, <1>d, <1>e, <2>1, <2>3, <3>4
  <2> QED
    BY <2>2, <2>3
<1>3. ASSUME NEW c \in Consumers, WaitNotEmpty(c) PROVE NoConsumerForgotten'
  <2>1. items' = 0
    BY <1>3 DEF WaitNotEmpty
  <2> HIDE DEF items, awake
  <2> QED
    BY <1>d, <1>e, <2>1
<1>4. ASSUME Awake(Consumers) \subseteq Awake(Consumers)', queue_' = queue_,
             need_stop_' = need_stop_, not_empty_' \subseteq not_empty_
      PROVE  NoConsumerForgotten'
  <2>1. awake <= awake' /\ items' = items
    BY <1>4, AwakeGrows
  <2> HIDE DEF items, awake
  <2> QED
    BY <1>4, <1>c, <1>d, <1>e, <2>1
<1>5. ASSUME NEW t \in Threads, SpuriousWake(t) PROVE NoConsumerForgotten'
  <2>1. Awake(Consumers) \subseteq Awake(Consumers)'
    BY <1>5 DEF Awake, Woken, SpuriousWake
  <2> QED
    BY <1>4, <1>5, <2>1 DEF SpuriousWake
<1>6. ASSUME NEW t \in Threads, CallPut(t) \/ CallTake(t) PROVE NoConsumerForgotten'
  <2>1. Awake(Consumers) \subseteq Awake(Consumers)'
    BY <1>6 DEF CallPut, CallTake, Awake, Woken, SafetyInv, TypeOK
  <2> QED
    BY <1>4, <1>6, <2>1 DEF CallPut, CallTake
<1>7. ASSUME NEW t \in Producers, WaitNotFull(t) PROVE NoConsumerForgotten'
  <2>1. Awake(Consumers) \subseteq Awake(Consumers)'
    BY <1>7 DEF WaitNotFull, SleepNotFull, Awake, Woken, SafetyInv, TypeOK
  <2> QED
    BY <1>4, <1>7, <2>1 DEF WaitNotFull, SleepNotFull
<1>8. ASSUME NEW t \in Threads, ReturnStopped(t) PROVE NoConsumerForgotten'
  BY <1>8, <1>e DEF ReturnStopped
<1>9. CASE SetStop \/ NotifyAllNotEmpty
  BY <1>9, <1>e DEF SetStop, NotifyAllNotEmpty
<1>10. CASE NotifyAllNotFull \/ UNCHANGED queueVars
  <2>1. Awake(Consumers) \subseteq Awake(Consumers)'
    BY <1>0, <1>10 DEF NotifyAllNotFull, StopNotifies, queueVars, Awake, Woken, SafetyInv, TypeOK
  <2> QED
    BY <1>4, <1>10, <2>1 DEF NotifyAllNotFull, queueVars
<1> QED
  BY <1>1, <1>2, <1>3, <1>5, <1>6, <1>7, <1>8, <1>9, <1>10
     DEF QueueNext, ProducerStep, ConsumerStep, StopStep

\* For any numbers of producers and consumers, any capacity and takes of one
\* item or of all: while a consumer sleeps, as many others have been woken as
\* there are items.
THEOREM ConsumersCorrect == QueueSpec => []NoConsumerForgotten
<1>1. QueueInit => NoConsumerForgotten
  BY DEF QueueInit, NoConsumerForgotten
<1>2. SafetyInv /\ SafetyInv' /\ NoConsumerForgotten /\ [QueueNext]_queueVars => NoConsumerForgotten'
  BY ConsumersNext
<1> QED
  BY <1>1, <1>2, SafetyInvariance, PTL DEF QueueSpec

\* The same for the producers and the free places, if every take is of one item.
THEOREM ProducersCorrect ==
  ASSUME BatchConsumers = {}
  PROVE  QueueSpec => []NoProducerForgotten
<1>1. QueueInit => NoProducerForgotten
  BY DEF QueueInit, NoProducerForgotten
<1>2. SafetyInv /\ SafetyInv' /\ NoProducerForgotten /\ [QueueNext]_queueVars => NoProducerForgotten'
  BY ProducersNext
<1> QED
  BY <1>1, <1>2, SafetyInvariance, PTL DEF QueueSpec

LEMMA StuckNext ==
  ASSUME SafetyInv, SafetyInv', NoProducerStuck, [QueueNext]_queueVars
  PROVE  NoProducerStuck'
<1> USE QueueAssumption DEF Threads
<1>0. /\ queue_ \in Seq(PutItems) /\ not_full_ \subseteq Producers
      /\ not_empty_ \subseteq Consumers /\ Producers \cap Consumers = {}
  BY DEF SafetyInv, TypeOK
<1>1. ASSUME NEW p \in Producers, Add(p) PROVE NoProducerStuck'
  <2>1. <<p, puts[p]>> \in PutItems
    BY <1>1 DEF SafetyInv, CallsBegun, Add, Running, PutItems
  <2>2. queue_' # << >>
    BY <1>0, <1>1, <2>1 DEF Add, Pushed
  <2> QED
    BY <2>2 DEF NoProducerStuck
<1>2. ASSUME NEW p \in Producers, WaitNotFull(p) PROVE NoProducerStuck'
  <2>1. queue_' = queue_ /\ Len(queue_) # 0
    BY <1>0, <1>2 DEF WaitNotFull, Room
  <2>2. queue_' # << >>
    BY <2>1
  <2> QED
    BY <2>2 DEF NoProducerStuck
<1>3. ASSUME NEW c \in Consumers, Take(c) PROVE NoProducerStuck'
  <2>1. CASE not_full_ = {}
    <3>1. not_full_' = {}
      BY <1>3, <2>1 DEF Take, NotifyNotFull, NotifyOne
    <3> QED
      BY <3>1 DEF NoProducerStuck
  <2>2. CASE not_full_ # {}
    <3>1. PICK w \in not_full_ : not_full_' = not_full_ \ {w}
      BY <1>3, <2>2 DEF Take, NotifyNotFull, NotifyOne
    <3>2. not_empty_' = not_empty_ /\ \A p \in Producers : pc'[p] = pc[p]
      BY <1>3 DEF Take, SafetyInv, TypeOK
    <3>3. w \in Producers /\ pc[w] = "waiting"
      BY <1>0 DEF SafetyInv, WaitersWait
    <3>4. w \in Awake(Producers)'
      BY <1>0, <3>1, <3>2, <3>3 DEF Awake, Woken
    <3> QED
      BY <3>4 DEF NoProducerStuck
  <2> QED
    BY <2>1, <2>2
<1>4. ASSUME Awake(Producers) \subseteq Awake(Producers)', queue_' = queue_,
             need_stop_' = need_stop_, not_full_' \subseteq not_full_
      PROVE  NoProducerStuck'
  BY <1>4 DEF NoProducerStuck
<1>5. ASSUME NEW t \in Threads, SpuriousWake(t) PROVE NoProducerStuck'
  <2>1. Awake(Producers) \subseteq Awake(Producers)'
    BY <1>5 DEF Awake, Woken, SpuriousWake
  <2> QED
    BY <1>4, <1>5, <2>1 DEF SpuriousWake
<1>6. ASSUME NEW t \in Threads, CallPut(t) \/ CallTake(t) PROVE NoProducerStuck'
  <2>1. Awake(Producers) \subseteq Awake(Producers)'
    BY <1>6 DEF CallPut, CallTake, Awake, Woken, SafetyInv, TypeOK
  <2> QED
    BY <1>4, <1>6, <2>1 DEF CallPut, CallTake
<1>7. ASSUME NEW t \in Consumers, WaitNotEmpty(t) PROVE NoProducerStuck'
  <2>1. Awake(Producers) \subseteq Awake(Producers)'
    BY <1>7 DEF WaitNotEmpty, Awake, Woken, SafetyInv, TypeOK
  <2> QED
    BY <1>4, <1>7, <2>1 DEF WaitNotEmpty
<1>8. ASSUME NEW t \in Threads, ReturnStopped(t) PROVE NoProducerStuck'
  BY <1>8 DEF ReturnStopped, NoProducerStuck
<1>9. CASE SetStop \/ NotifyAllNotFull
  BY <1>9 DEF SetStop, NotifyAllNotFull, StopNotifies, NoProducerStuck
<1>10. CASE NotifyAllNotEmpty \/ UNCHANGED queueVars
  <2>1. Awake(Producers) \subseteq Awake(Producers)'
    BY <1>0, <1>10 DEF NotifyAllNotEmpty, queueVars, Awake, Woken, SafetyInv, TypeOK
  <2> QED
    BY <1>4, <1>10, <2>1 DEF NotifyAllNotEmpty, queueVars
<1> QED
  BY <1>1, <1>2, <1>3, <1>5, <1>6, <1>7, <1>8, <1>9, <1>10
     DEF QueueNext, ProducerStep, ConsumerStep, StopStep

\* A batch take frees many places and notifies one producer; still, for any
\* threads and any capacity, the producers never all sleep in front of an empty
\* queue.
THEOREM ProducersNotStuck == QueueSpec => []NoProducerStuck
<1>1. QueueInit => NoProducerStuck
  BY DEF QueueInit, NoProducerStuck
<1>2. SafetyInv /\ SafetyInv' /\ NoProducerStuck /\ [QueueNext]_queueVars => NoProducerStuck'
  BY StuckNext
<1> QED
  BY <1>1, <1>2, SafetyInvariance, PTL DEF QueueSpec

=============================================================================
