---------------------------- MODULE MultipartProofs ----------------------------
(***************************************************************************)
(* PartsAsSent of Multipart, for any boundary, any number of parts with    *)
(* data of any length, and reads of any lengths.                           *)
(*                                                                         *)
(* ClientInv says where in the body the parts that were sent are, with the *)
(* boundary behind each, and what is to be of them.  Phase says what the   *)
(* parser and the reader keep when the next byte is the n-th of the body:  *)
(* it is in the opening, in a line of a part's headers, in a part's data   *)
(* with nothing or with a beginning of the boundary held back, or the form *)
(* is over.  A mark in the buffer is a place in the body, f bytes of which *)
(* were in the buffers before.  FormInv joins the two; each step of the    *)
(* parser keeps Phase, at the same byte or at a later one.                 *)
(***************************************************************************)
EXTENDS Multipart, SequenceTheorems, TLAPS

----------------------------------------------------------------------------
(* The invariant *)

\* The types of what the parser, the reader and the client keep.
Maps(K) == UNION {[D -> Seq(Bytes)] : D \in SUBSET K}
UploadFiles == [data : Seq(Bytes), name : {"ing", "kept"}]
FileLists == Seq(UploadFiles)
Forms == [form : Maps({"x", "y"}), files : FileLists]
States == {"START", "START_BOUNDARY", "HEADER_FIELD_START", "HEADER_FIELD", "HEADER_VALUE_START",
           "HEADER_VALUE", "HEADER_VALUE_ALMOST_DONE", "HEADERS_ALMOST_DONE", "PART_DATA_START",
           "PART_DATA", "END", "PARSE_ERROR"}
Readers ==
  [state : States, i : Nat, index : Nat, part : BOOLEAN, last : BOOLEAN, behind : Seq(Bytes),
   field : Nat, value : Nat, data : Nat, name : Seq(Bytes), text : Seq(Bytes),
   current : Maps({"d", "t"}), first : {"d", "t"}, headers : Maps({"d", "t"}), isFile : BOOLEAN,
   form : Maps({"x", "y"}), files : FileLists, lastKey : {"none", "x", "y"}, bad : BOOLEAN, done : BOOLEAN]
Clients ==
  [parts : Seq(FormParts), at : Seq(Nat), body : Seq(Bytes), ended : BOOLEAN, meant : Seq(Forms)]

\* The places in the body where the first value of the k-th part ends, its headers, its
\* data, and the boundary behind it.
KeyEnds(c, k)  == c.at[k] + (IF c.parts[k].file THEN 5 ELSE 4)
HeadEnds(c, k) == KeyEnds(c, k) + (IF c.parts[k].typed THEN 9 ELSE 4)
DataEnds(c, k) == HeadEnds(c, k) + Len(c.parts[k].data)
PartEnds(c, k) == DataEnds(c, k) + boundarySize

\* The bytes of the k-th part are where they should be.
HeadThere(b, part, a, e, h) ==
  /\ b[a + 1] = "d" /\ b[a + 2] = ":" /\ b[a + 3] = "SP" /\ b[a + 4] = part.key
  /\ part.file => b[a + 5] = "f"
  /\ b[e + 1] = "CR" /\ b[e + 2] = "LF"
  /\ part.typed => /\ b[e + 3] = "t" /\ b[e + 4] = ":" /\ b[e + 5] = "x"
                   /\ b[e + 6] = "CR" /\ b[e + 7] = "LF"
  /\ b[h - 1] = "CR" /\ b[h] = "LF"
DataThere(b, part, h, d) ==
  /\ \A j \in 1..Len(part.data) : b[h + j] = part.data[j]
  /\ \A j \in 1..boundarySize : b[d + j] = boundary[j]
PartThere(c, k) ==
  /\ HeadThere(c.body, c.parts[k], c.at[k], KeyEnds(c, k), HeadEnds(c, k))
  /\ DataThere(c.body, c.parts[k], HeadEnds(c, k), DataEnds(c, k))

\* What follows the boundary behind the k-th part.
Follows(c, k) ==
  IF k < Len(c.parts)
  THEN /\ c.at[k + 1] = PartEnds(c, k) + 2 /\ c.at[k + 1] <= Len(c.body)
       /\ c.body[PartEnds(c, k) + 1] = "CR" /\ c.body[PartEnds(c, k) + 2] = "LF"
  ELSE IF c.ended
  THEN /\ Len(c.body) = PartEnds(c, k) + 4
       /\ c.body[PartEnds(c, k) + 1] = "-" /\ c.body[PartEnds(c, k) + 2] = "-"
  ELSE Len(c.body) = PartEnds(c, k)

\* What precedes the first part.
Opens(c) ==
  /\ \A j \in 1..(boundarySize - 2) : c.body[j] = boundary[j + 2]
  /\ IF c.parts = << >> THEN ~c.ended /\ Len(c.body) = boundarySize - 2
     ELSE /\ c.at[1] = boundarySize /\ boundarySize <= Len(c.body)
          /\ c.body[boundarySize - 1] = "CR" /\ c.body[boundarySize] = "LF"

ClientInv(c) ==
  /\ c \in Clients
  /\ Len(c.at) = Len(c.parts) /\ Len(c.meant) = Len(c.parts) + 1
  /\ c.meant[1] = [form |-> << >>, files |-> << >>]
  /\ Opens(c)
  /\ \A k \in 1..Len(c.parts) :
       /\ \A j \in 0..Len(c.parts[k].data) : ~BoundaryIn(c.parts[k].data, j)
       /\ c.meant[k + 1] = WithPart(c.meant[k], c.parts[k])
       /\ PartEnds(c, k) <= Len(c.body)
       /\ PartThere(c, k) /\ Follows(c, k)

----------------------------------------------------------------------------

\* The value of a part's Content-Disposition.
NameValue(part) == IF part.file THEN <<part.key, "f">> ELSE <<part.key>>

\* No header is being read.
Idle(q) == q.field = Unmarked /\ q.value = Unmarked /\ q.name = << >> /\ q.text = << >>

\* Before the headers of the k-th part end, the form is what it is to be without it.
SoFar(c, q, k) ==
  /\ q.form = c.meant[k].form /\ q.files = c.meant[k].files
  /\ ~q.bad /\ ~q.done /\ ~q.part /\ ~q.last /\ q.data = Unmarked
  /\ q.first # "d" => DOMAIN q.headers \subseteq {"d"}

\* The headers of the k-th part that are complete.
Took(c, q, k, n) ==
  IF n <= KeyEnds(c, k) THEN DOMAIN q.current = {}
  ELSE /\ "d" \in DOMAIN q.current /\ q.current["d"] = NameValue(c.parts[k])
       /\ ~c.parts[k].typed => DOMAIN q.current = {"d"}

\* The name of the header at a place.
NameAt(c, k, n) == IF n <= KeyEnds(c, k) THEN <<"d">> ELSE <<"t">>

\* The text a key has before a part.
TextOf(m, key) == IF key \in DOMAIN m.form THEN m.form[key] ELSE << >>

\* Of the k-th part's data, d is handed on.
Got(c, q, k, d) ==
  /\ q.isFile = c.parts[k].file /\ ~q.bad /\ ~q.done
  /\ q.first # "d" => DOMAIN q.headers \subseteq {"d"}
  /\ FieldValue(q) = NameValue(c.parts[k])
  /\ c.parts[k].file => /\ q.form = c.meant[k].form
                        /\ q.files = Append(c.meant[k].files, [data |-> d, name |-> "ing"])
  /\ ~c.parts[k].file =>
       /\ q.files = c.meant[k].files
       /\ q.form = Put(c.meant[k].form, c.parts[k].key, TextOf(c.meant[k], c.parts[k].key) \o d)

\* The parser is at the n-th byte of the body, of which f are fed.
Opening(c, q, n) ==
  /\ n < boundarySize /\ Idle(q) /\ DOMAIN q.current = {} /\ SoFar(c, q, 1)
  /\ IF n = 0 THEN q.state = "START" ELSE q.state = "START_BOUNDARY" /\ q.index = n

LineStarts(c, q, k, n) ==
  /\ q.state = "HEADER_FIELD_START" /\ Idle(q)
  /\ n \in {c.at[k], KeyEnds(c, k) + 2, HeadEnds(c, k) - 2}

InName(c, q, k, f, n) ==
  /\ q.state = "HEADER_FIELD" /\ q.index = 1 /\ q.value = Unmarked /\ q.text = << >>
  /\ n = c.at[k] + 1 \/ (c.parts[k].typed /\ n = KeyEnds(c, k) + 3)
  /\ q.field > 0
  /\ \/ f + q.field = n /\ q.name = << >>
     \/ f + q.field = n + 1 /\ q.name = NameAt(c, k, n)

AfterName(c, q, k, n) ==
  /\ q.state = "HEADER_VALUE_START" /\ q.field = Unmarked /\ q.value = Unmarked /\ q.text = << >>
  /\ n \in {c.at[k] + 2, c.at[k] + 3} \/ (c.parts[k].typed /\ n = KeyEnds(c, k) + 4)
  /\ q.name = NameAt(c, k, n)

\* s is where the value starts.
InValueFrom(c, q, k, f, n, s) ==
  /\ q.value > 0 /\ s < f + q.value /\ f + q.value <= n + 1
  /\ q.text = SubSeq(c.body, s + 1, f + q.value - 1)
InValue(c, q, k, f, n) ==
  /\ q.state = "HEADER_VALUE" /\ q.field = Unmarked /\ q.name = NameAt(c, k, n)
  /\ \/ n \in (c.at[k] + 4)..KeyEnds(c, k) /\ InValueFrom(c, q, k, f, n, c.at[k] + 3)
     \/ c.parts[k].typed /\ n = KeyEnds(c, k) + 5 /\ InValueFrom(c, q, k, f, n, KeyEnds(c, k) + 4)

LineEnds(c, q, k, n) ==
  /\ q.state = "HEADER_VALUE_ALMOST_DONE" /\ Idle(q)
  /\ n = KeyEnds(c, k) + 1 \/ (c.parts[k].typed /\ n = KeyEnds(c, k) + 6)

HeadStops(c, q, k, n) ==
  q.state = "HEADERS_ALMOST_DONE" /\ Idle(q) /\ n = HeadEnds(c, k) - 1

InHead(c, q, k, f, n) ==
  /\ SoFar(c, q, k) /\ Took(c, q, k, n)
  /\ \/ LineStarts(c, q, k, n) \/ InName(c, q, k, f, n) \/ AfterName(c, q, k, n)
     \/ InValue(c, q, k, f, n) \/ LineEnds(c, q, k, n) \/ HeadStops(c, q, k, n)

DataStarts(c, q, k, n) ==
  /\ q.state = "PART_DATA_START" /\ Idle(q) /\ DOMAIN q.current = {}
  /\ q.data = Unmarked /\ ~q.part /\ ~q.last
  /\ n = HeadEnds(c, k) /\ Got(c, q, k, << >>)

\* The bytes of the k-th part's data up to the m-th of the body.
DataUpTo(c, k, m) == SubSeq(c.body, HeadEnds(c, k) + 1, m)

\* Nothing is held back: the data is handed on up to its mark.
Plainly(c, q, k, f, n) ==
  /\ q.index = 0 /\ ~q.part /\ ~q.last
  /\ q.data > 0 /\ HeadEnds(c, k) < f + q.data /\ f + q.data <= n + 1 /\ n <= DataEnds(c, k)
  /\ Got(c, q, k, DataUpTo(c, k, f + q.data - 1))

\* What is held back begins behind the s-th byte of the body.
Holding(c, q, k, n, s) ==
  /\ q.index > 0 /\ q.index <= boundarySize + 1 /\ s + q.index = n
  /\ HeadEnds(c, k) <= s /\ s <= DataEnds(c, k) /\ q.data = Unmarked
  /\ q.index <= Len(q.behind)
  /\ \A j \in 1..q.index : q.behind[j] = c.body[s + j]
  /\ \A j \in 1..q.index : j <= boundarySize => c.body[s + j] = boundary[j]
  /\ Got(c, q, k, DataUpTo(c, k, s))
  /\ q.index <= boundarySize => ~q.part /\ ~q.last
  /\ q.index > boundarySize =>
       s = DataEnds(c, k) /\ (q.part <=> k < Len(c.parts)) /\ (q.last <=> k = Len(c.parts))

InBodyOf(c, q, k, f, n) ==
  /\ q.state = "PART_DATA" /\ Idle(q) /\ DOMAIN q.current = {}
  /\ Plainly(c, q, k, f, n) \/ \E s \in Nat : Holding(c, q, k, n, s)

Over(c, q) ==
  /\ q.state = "END" /\ Idle(q) /\ q.data = Unmarked
  /\ c.ended /\ q.done /\ ~q.bad
  /\ q.form = c.meant[Len(c.meant)].form /\ q.files = c.meant[Len(c.meant)].files

Phase(c, q, f, n) ==
  \/ Opening(c, q, n)
  \/ \E k \in 1..Len(c.parts) : InHead(c, q, k, f, n) \/ DataStarts(c, q, k, n) \/ InBodyOf(c, q, k, f, n)
  \/ Over(c, q)

ReaderInv(c, q, f, r) ==
  /\ q \in Readers /\ q.i > 0
  /\ \E n \in Nat : n + 1 = f + q.i /\ n <= r /\ Phase(c, q, f, n)

FormInv ==
  /\ ClientInv(client) /\ "first" \in DOMAIN reader /\ reader.first \in {"d", "t"}
  /\ read \in Nat /\ fed \in Nat /\ fed <= read /\ read <= Len(client.body)
  /\ NameFirst(client, reader) => ReaderInv(client, reader, fed, read)

----------------------------------------------------------------------------
(* Texts, maps and files *)

\* Two texts joined.
LEMMA TextsJoined ==
  ASSUME NEW s \in Seq(Bytes), NEW t \in Seq(Bytes)
  PROVE  /\ s \o t \in Seq(Bytes) /\ Len(s) \in Nat /\ Len(t) \in Nat /\ Len(s \o t) = Len(s) + Len(t)
         /\ \A i \in 1..Len(s) : (s \o t)[i] = s[i]
         /\ \A i \in 1..Len(t) : (s \o t)[Len(s) + i] = t[i]
<1> DEFINE u == s \o t
           a == Len(s)
           b == Len(t)
<1>1. /\ u \in Seq(Bytes) /\ Len(u) = a + b /\ a \in Nat /\ b \in Nat
      /\ \A i \in 1..(a + b) : u[i] = IF i <= a THEN s[i] ELSE t[i - a]
  BY ConcatProperties
<1> HIDE DEF u, a, b
<1>2. \A i \in 1..a : u[i] = s[i]
  BY <1>1
<1>3. \A i \in 1..b : u[a + i] = t[i]
  BY <1>1
<1> QED
  BY <1>1, <1>2, <1>3 DEF u, a, b

\* The boundary begins with CR, which is not in it again.
LEMMA BoundaryIs ==
  /\ boundary \in Seq(Bytes) /\ boundarySize \in Nat /\ boundarySize >= 4
  /\ boundary[1] = "CR" /\ boundary[2] = "LF" /\ boundary[3] = "-" /\ boundary[4] = "-"
  /\ \A j \in 1..boundarySize : boundary[j] \in Bytes /\ (j > 1 => boundary[j] # "CR")
<1> DEFINE t == <<"CR", "LF", "-", "-">>
<1>1. t \in Seq(Bytes) /\ Len(t) = 4 /\ t[1] = "CR" /\ t[2] = "LF" /\ t[3] = "-" /\ t[4] = "-"
  BY DEF Bytes
<1>2. Token \in Seq(Bytes) /\ Len(Token) \in Nat /\ \A i \in 1..Len(Token) : Token[i] \in Bytes \ {"CR"}
  BY MultipartAssumption
<1>3. boundary = t \o Token
  BY DEF boundary
<1> HIDE DEF t
<1>4. /\ boundary \in Seq(Bytes) /\ boundarySize = 4 + Len(Token)
      /\ \A i \in 1..4 : boundary[i] = t[i]
      /\ \A i \in 1..Len(Token) : boundary[4 + i] = Token[i]
  <2>1. /\ t \o Token \in Seq(Bytes) /\ Len(t \o Token) = Len(t) + Len(Token)
        /\ \A i \in 1..Len(t) : (t \o Token)[i] = t[i]
        /\ \A i \in 1..Len(Token) : (t \o Token)[Len(t) + i] = Token[i]
    <3>1. t \in Seq(Bytes) /\ Token \in Seq(Bytes)
      BY <1>1, <1>2
    <3> QED
      BY <3>1, TextsJoined
  <2> QED
    BY <1>1, <1>3, <2>1 DEF boundarySize
<1>5. ASSUME NEW j \in 1..boundarySize PROVE boundary[j] \in Bytes /\ (j > 1 => boundary[j] # "CR")
  <2>1. CASE j > 4
    <3>1. PICK i \in 1..Len(Token) : j = 4 + i
      <4>1. j - 4 \in 1..Len(Token) /\ j = 4 + (j - 4)
        BY <1>2, <1>4, <2>1
      <4> QED
        BY <4>1
    <3> QED
      BY <1>2, <1>4, <3>1
  <2>2. CASE j = 1 \/ j = 2 \/ j = 3 \/ j = 4
    <3>1. boundary[j] = t[j]
      BY <1>4, <2>2
    <3>2. t[j] \in Bytes /\ (j # 1 => t[j] # "CR")
      <4>1. {t[1], t[2], t[3], t[4]} \subseteq Bytes /\ "CR" \notin {t[2], t[3], t[4]}
        BY <1>1 DEF Bytes
      <4> QED
        BY <2>2, <4>1
    <3> QED
      BY <3>1, <3>2
  <2>3. j > 4 \/ j = 1 \/ j = 2 \/ j = 3 \/ j = 4
    BY <1>2, <1>4
  <2> QED
    BY <2>1, <2>2, <2>3
<1> QED
  BY <1>1, <1>2, <1>4, <1>5 DEF boundarySize

\* Maps of texts.
LEMMA MapIs ==
  ASSUME NEW K, NEW m
  PROVE  m \in Maps(K) <=> m \in [DOMAIN m -> Seq(Bytes)] /\ DOMAIN m \subseteq K
BY DEF Maps

\* What Put makes of a map of texts.
LEMMA PutIs ==
  ASSUME NEW K, NEW m \in Maps(K), NEW key \in K, NEW v \in Seq(Bytes)
  PROVE  /\ Put(m, key, v) \in Maps(K) /\ DOMAIN Put(m, key, v) = DOMAIN m \union {key}
         /\ Put(m, key, v)[key] = v /\ \A k \in DOMAIN m : k # key => Put(m, key, v)[k] = m[k]
<1>1. m \in [DOMAIN m -> Seq(Bytes)] /\ DOMAIN m \subseteq K
  BY MapIs
<1>2. /\ DOMAIN Put(m, key, v) = DOMAIN m \union {key}
      /\ Put(m, key, v) \in [DOMAIN m \union {key} -> Seq(Bytes)]
  BY <1>1 DEF Put
<1>3. Put(m, key, v) \in Maps(K)
  BY <1>1, <1>2, MapIs
<1> QED
  BY <1>1, <1>2, <1>3 DEF Put

\* A key that is put twice.
LEMMA PutTwice ==
  ASSUME NEW m, NEW key, NEW u, NEW v
  PROVE  Put(Put(m, key, u), key, v) = Put(m, key, v)
BY DEF Put

\* A value that is set for a key that is there is put.
LEMMA PutThere ==
  ASSUME NEW K, NEW m \in Maps(K), NEW key \in DOMAIN m, NEW v
  PROVE  [m EXCEPT ![key] = v] = Put(m, key, v)
<1>1. m \in [DOMAIN m -> Seq(Bytes)]
  BY MapIs
<1> QED
  BY <1>1 DEF Put
\* The places of a part in the body are numbers in their order, and it is there.
LEMMA PlacesAre ==
  ASSUME NEW c, ClientInv(c), NEW k \in 1..Len(c.parts)
  PROVE  /\ k \in Nat /\ Len(c.parts) \in Nat /\ Len(c.body) \in Nat /\ c.body \in Seq(Bytes)
         /\ c.parts[k] \in FormParts /\ c.meant[k] \in Forms /\ c.meant[k + 1] = WithPart(c.meant[k], c.parts[k])
         /\ c.at[k] \in Nat /\ KeyEnds(c, k) \in {c.at[k] + 4, c.at[k] + 5}
         /\ HeadEnds(c, k) \in {KeyEnds(c, k) + 4, KeyEnds(c, k) + 9}
         /\ Len(c.parts[k].data) \in Nat
         /\ KeyEnds(c, k) \in Nat /\ HeadEnds(c, k) \in Nat /\ DataEnds(c, k) \in Nat /\ PartEnds(c, k) \in Nat
         /\ DataEnds(c, k) = HeadEnds(c, k) + Len(c.parts[k].data)
         /\ PartEnds(c, k) = DataEnds(c, k) + boundarySize /\ PartEnds(c, k) <= Len(c.body)
         /\ PartThere(c, k) /\ Follows(c, k)
         /\ \A j \in 0..Len(c.parts[k].data) : ~BoundaryIn(c.parts[k].data, j)
<1>1. /\ c.parts \in Seq(FormParts) /\ c.at \in Seq(Nat) /\ c.meant \in Seq(Forms) /\ c.body \in Seq(Bytes)
      /\ Len(c.at) = Len(c.parts) /\ Len(c.meant) = Len(c.parts) + 1
  BY DEF ClientInv, Clients
<1>2. Len(c.parts) \in Nat /\ Len(c.body) \in Nat /\ k \in Nat
  BY <1>1
<1>3. k \in 1..Len(c.at) /\ k \in 1..Len(c.meant)
  BY <1>1, <1>2
<1>4. c.parts[k] \in FormParts /\ c.at[k] \in Nat /\ c.meant[k] \in Forms
  BY <1>1, <1>3
<1>5. c.parts[k].data \in Seq(Bytes)
  BY <1>4 DEF FormParts
<1>6. Len(c.parts[k].data) \in Nat
  BY <1>5
<1>7. KeyEnds(c, k) \in {c.at[k] + 4, c.at[k] + 5} /\ KeyEnds(c, k) \in Nat
  BY <1>4 DEF KeyEnds
<1>8. HeadEnds(c, k) \in {KeyEnds(c, k) + 4, KeyEnds(c, k) + 9} /\ HeadEnds(c, k) \in Nat
  BY <1>7 DEF HeadEnds
<1>9. /\ DataEnds(c, k) = HeadEnds(c, k) + Len(c.parts[k].data) /\ DataEnds(c, k) \in Nat
      /\ PartEnds(c, k) = DataEnds(c, k) + boundarySize /\ PartEnds(c, k) \in Nat
  <2>1. DataEnds(c, k) = HeadEnds(c, k) + Len(c.parts[k].data) /\ DataEnds(c, k) \in Nat
    BY <1>6, <1>8, SMTT(30) DEF DataEnds
  <2>2. PartEnds(c, k) = DataEnds(c, k) + boundarySize /\ boundarySize \in Nat
    BY BoundaryIs DEF PartEnds
  <2> QED
    BY <2>1, <2>2
<1>10. /\ \A j \in 0..Len(c.parts[k].data) : ~BoundaryIn(c.parts[k].data, j)
       /\ c.meant[k + 1] = WithPart(c.meant[k], c.parts[k]) /\ PartEnds(c, k) <= Len(c.body)
       /\ PartThere(c, k) /\ Follows(c, k)
  BY DEF ClientInv
<1> QED
  BY <1>1, <1>2, <1>4, <1>6, <1>7, <1>8, <1>9, <1>10

\* What the value of a part's Content-Disposition holds.
LEMMA NameValueIs ==
  ASSUME NEW part \in FormParts
  PROVE  /\ NameValue(part) \in Seq(Bytes) /\ NameValue(part) # << >>
         /\ NameValue(part)[1] = part.key /\ part.key \in {"x", "y"} /\ part.data \in Seq(Bytes)
         /\ Holds(NameValue(part), "f") <=> part.file
<1>1. part.key \in {"x", "y"} /\ part.data \in Seq(Bytes) /\ part.file \in BOOLEAN
  BY DEF FormParts
<1>2. CASE part.file
  <2>1. NameValue(part) = <<part.key, "f">>
    BY <1>2 DEF NameValue
  <2>2. Holds(NameValue(part), "f")
    BY <2>1 DEF Holds
  <2>3. part.key \in Bytes /\ "f" \in Bytes
    BY <1>1 DEF Bytes
  <2>4. NameValue(part) \in Seq(Bytes) /\ NameValue(part) # << >> /\ NameValue(part)[1] = part.key
    BY <2>1, <2>3
  <2> QED
    BY <1>1, <1>2, <2>2, <2>4, Zenon
<1>3. CASE ~part.file
  <2>1. NameValue(part) = <<part.key>>
    BY <1>3 DEF NameValue
  <2>2. ~Holds(NameValue(part), "f")
    BY <1>1, <2>1 DEF Holds
  <2>3. part.key \in Bytes
    BY <1>1 DEF Bytes
  <2>4. NameValue(part) \in Seq(Bytes) /\ NameValue(part) # << >> /\ NameValue(part)[1] = part.key
    BY <2>1, <2>3
  <2> QED
    BY <1>1, <1>3, <2>2, <2>4, Zenon
<1> QED
  BY <1>2, <1>3

\* The key of a part is found in its Content-Disposition.
LEMMA FieldKeyIs ==
  ASSUME NEW part \in FormParts, NEW q, FieldValue(q) = NameValue(part)
  PROVE  FieldKey(q) = part.key /\ part.key # "none"
BY NameValueIs DEF FieldKey

\* Of two readers of which one has handed on something more, what is the same.
SameParser(q, r) ==
  /\ r.state = q.state /\ r.i = q.i /\ r.index = q.index /\ r.part = q.part /\ r.last = q.last
  /\ r.behind = q.behind /\ r.field = q.field /\ r.value = q.value /\ r.data = q.data
  /\ r.name = q.name /\ r.text = q.text /\ r.current = q.current
  /\ r.first = q.first /\ r.headers = q.headers /\ r.isFile = q.isFile
  /\ r.bad = q.bad /\ r.done = q.done

\* Text that is handed on for a key changes the form only.
LEMMA UpdateIs ==
  ASSUME NEW q \in Readers, NEW text \in Seq(Bytes), FieldKey(q) \in {"none", "x", "y"}
  PROVE  UpdateValue(q, text) \in Readers /\ SameParser(q, UpdateValue(q, text))
<1> DEFINE key == IF FieldKey(q) = "none" THEN q.lastKey ELSE FieldKey(q)
           a == [q EXCEPT !.lastKey = key]
<1>1. key \in {"none", "x", "y"}
  BY DEF Readers
<1> HIDE DEF key
<1>2. a \in Readers /\ SameParser(q, a) /\ a.form = q.form
  BY <1>1 DEF Readers, SameParser
<1> HIDE DEF a
<1>3. CASE key \notin DOMAIN q.form
  <2>1. UpdateValue(q, text) = a
    BY <1>3 DEF UpdateValue, key, a
  <2> QED
    BY <1>2, <2>1
<1>4. CASE key \in DOMAIN q.form
  <2>1. q.form \in Maps({"x", "y"})
    BY DEF Readers
  <2>2. q.form \in [DOMAIN q.form -> Seq(Bytes)] /\ DOMAIN q.form \subseteq {"x", "y"}
    BY <2>1, MapIs
  <2> DEFINE m == [q.form EXCEPT ![key] = @ \o text]
  <2>3. m = Put(q.form, key, q.form[key] \o text)
    BY <1>4, <2>1, PutThere
  <2>4. q.form[key] \o text \in Seq(Bytes)
    BY <1>4, <2>2, TextsJoined
  <2>5. m \in Maps({"x", "y"})
    <3>1. key \in {"x", "y"}
      BY <1>4, <2>2
    <3>2. Put(q.form, key, q.form[key] \o text) \in Maps({"x", "y"})
      BY <2>1, <2>4, <3>1, PutIs
    <3> QED
      BY <2>3, <3>2
  <2>6. UpdateValue(q, text) = [a EXCEPT !.form = m]
    BY <1>2, <1>4 DEF UpdateValue, key, a
  <2> HIDE DEF m
  <2>7. [a EXCEPT !.form = m] \in Readers /\ SameParser(a, [a EXCEPT !.form = m])
    BY <1>2, <2>5 DEF Readers, SameParser
  <2> QED
    BY <1>2, <2>6, <2>7 DEF SameParser
<1> QED
  BY <1>3, <1>4
\* The last of the files.
LEMMA FileIs ==
  ASSUME NEW fs \in FileLists, fs # << >>
  PROVE  /\ Len(fs) \in Nat /\ Len(fs) \in 1..Len(fs) /\ DOMAIN fs = 1..Len(fs)
         /\ fs[Len(fs)] \in UploadFiles
<1>1. Len(fs) \in Nat /\ Len(fs) # 0 /\ DOMAIN fs = 1..Len(fs)
  BY EmptySeq DEF FileLists
<1>2. Len(fs) \in 1..Len(fs)
  BY <1>1
<1> QED
  BY <1>1, <1>2, ElementOfSeq DEF FileLists

\* The last file with another text, or with another name.
LEMMA FileSet ==
  ASSUME NEW fs \in FileLists, fs # << >>, NEW e \in UploadFiles
  PROVE  [fs EXCEPT ![Len(fs)] = e] \in FileLists
BY FileIs, ExceptSeq DEF FileLists

\* The last file is the one that was appended.
LEMMA LastOfAppended ==
  ASSUME NEW fs \in FileLists, NEW e \in UploadFiles,
         NEW g \in UploadFiles
  PROVE  /\ Append(fs, e) \in FileLists /\ Append(fs, e) # << >>
         /\ Append(fs, e)[Len(Append(fs, e))] = e
         /\ [Append(fs, e) EXCEPT ![Len(Append(fs, e))] = g] = Append(fs, g)
<1> DEFINE R == UploadFiles
<1>1. fs \in Seq(R)
  BY DEF FileLists
<1> HIDE DEF R
<1>2. /\ Append(fs, e) \in Seq(R) /\ Append(fs, g) \in Seq(R) /\ Len(fs) \in Nat
      /\ Len(Append(fs, e)) = Len(fs) + 1 /\ Len(Append(fs, g)) = Len(fs) + 1
      /\ \A i \in 1..Len(fs) : Append(fs, e)[i] = fs[i] /\ Append(fs, g)[i] = fs[i]
      /\ Append(fs, e)[Len(fs) + 1] = e /\ Append(fs, g)[Len(fs) + 1] = g
  BY <1>1 DEF R
<1> DEFINE n == Len(fs) + 1
           u == [Append(fs, e) EXCEPT ![n] = g]
<1>3. /\ u \in Seq(R) /\ Len(u) = n /\ \A j \in 1..n : u[j] = IF j = n THEN g ELSE Append(fs, e)[j]
  <2> DEFINE s == Append(fs, e)
  <2>1. n \in 1..Len(s) /\ g \in R /\ s \in Seq(R) /\ Len(s) = n
    BY <1>2 DEF R
  <2> HIDE DEF s, n
  <2>2. /\ [s EXCEPT ![n] = g] \in Seq(R) /\ Len([s EXCEPT ![n] = g]) = Len(s)
        /\ \A j \in 1..Len(s) : [s EXCEPT ![n] = g][j] = IF j = n THEN g ELSE s[j]
    BY <2>1, ExceptSeq
  <2> QED
    BY <2>1, <2>2 DEF s
<1>4. \A j \in 1..n : u[j] = Append(fs, g)[j]
  <2> SUFFICES ASSUME NEW j \in 1..n PROVE u[j] = Append(fs, g)[j]
    OBVIOUS
  <2>1. CASE j = n
    BY <1>2, <1>3, <2>1
  <2>2. CASE j # n
    <3>1. j \in 1..Len(fs)
      BY <1>2, <2>2
    <3> QED
      BY <1>2, <1>3, <2>2, <3>1
  <2> QED
    BY <2>1, <2>2
<1>5. u = Append(fs, g)
  <2> HIDE DEF u
  <2> QED
    BY <1>2, <1>3, <1>4, SeqEqual
<1>6. Append(fs, e) \in FileLists
  BY <1>2 DEF FileLists, R
<1>7. Append(fs, e) # << >>
  BY <1>2
<1> QED
  BY <1>2, <1>5, <1>6, <1>7

\* Likewise, with a name for the longer list.
LEMMA LastSet ==
  ASSUME NEW fs \in FileLists, NEW e \in UploadFiles, NEW g \in UploadFiles,
         NEW t, t = Append(fs, e)
  PROVE  [t EXCEPT ![Len(t)] = g] = Append(fs, g)
BY LastOfAppended, Zenon

\* Data that is handed on changes the form and the files only.
LEMMA PartDataIs ==
  ASSUME NEW q \in Readers, NEW text \in Seq(Bytes), FieldKey(q) \in {"none", "x", "y"},
         q.isFile => q.files # << >>
  PROVE  PartData(q, text) \in Readers /\ SameParser(q, PartData(q, text))
<1>1. CASE text = << >> \/ q.bad
  <2>1. PartData(q, text) = q
    BY <1>1 DEF PartData
  <2> QED
    BY <2>1 DEF SameParser
<1>2. CASE ~(text = << >> \/ q.bad) /\ q.isFile
  <2>1. q.files \in FileLists /\ q.files # << >>
    BY <1>2 DEF Readers
  <2> DEFINE n == Len(q.files)
             e == [q.files[n] EXCEPT !.data = @ \o text]
             fs == [q.files EXCEPT ![n] = e]
  <2>2. q.files[n] \in UploadFiles /\ n \in DOMAIN q.files
    BY <2>1, FileIs
  <2>3. q.files[n].data \o text \in Seq(Bytes)
    <3>1. q.files[n].data \in Seq(Bytes)
      BY <2>2 DEF UploadFiles
    <3> QED
      BY <3>1, TextsJoined
  <2>4. e \in UploadFiles
    BY <2>2, <2>3 DEF UploadFiles
  <2>5. PartData(q, text) = [q EXCEPT !.files = fs]
    BY <1>2, <2>2 DEF PartData, Readers
  <2> HIDE DEF e
  <2>6. fs \in FileLists
    BY <2>1, <2>4, FileSet
  <2> HIDE DEF fs
  <2> QED
    BY <2>5, <2>6, ZenonT(30) DEF Readers, SameParser
<1>3. CASE ~(text = << >> \/ q.bad) /\ ~q.isFile
  <2>1. PartData(q, text) = UpdateValue(q, text)
    BY <1>3 DEF PartData
  <2> QED
    BY <2>1, UpdateIs
<1> QED
  BY <1>1, <1>2, <1>3
\* The text of a key before a part is a text.
LEMMA TextOfIs ==
  ASSUME NEW m \in Forms, NEW key
  PROVE  TextOf(m, key) \in Seq(Bytes) /\ m.form \in Maps({"x", "y"}) /\ m.files \in FileLists
<1>1. m.form \in Maps({"x", "y"}) /\ m.files \in FileLists
  BY DEF Forms
<1>2. m.form \in [DOMAIN m.form -> Seq(Bytes)]
  BY <1>1, MapIs
<1> QED
  BY <1>1, <1>2 DEF TextOf

\* What a part adds to the form.
LEMMA WithPartIs ==
  ASSUME NEW m \in Forms, NEW part \in FormParts
  PROVE  /\ part.file => /\ WithPart(m, part).form = m.form
                         /\ WithPart(m, part).files = Append(m.files, [data |-> part.data, name |-> "kept"])
         /\ ~part.file => /\ WithPart(m, part).form = Put(m.form, part.key, TextOf(m, part.key) \o part.data)
                          /\ WithPart(m, part).files = m.files
BY DEF WithPart, Forms, TextOf

\* What Put makes of a form.
LEMMA FormPut ==
  ASSUME NEW m \in Maps({"x", "y"}), NEW key \in {"x", "y"}, NEW v \in Seq(Bytes)
  PROVE  /\ Put(m, key, v) \in Maps({"x", "y"}) /\ key \in DOMAIN Put(m, key, v)
         /\ Put(m, key, v)[key] = v
<1>1. m \in [DOMAIN m -> Seq(Bytes)] /\ DOMAIN m \subseteq {"x", "y"}
  BY MapIs
<1>2. /\ DOMAIN Put(m, key, v) = DOMAIN m \union {key} /\ Put(m, key, v)[key] = v
      /\ Put(m, key, v) \in [DOMAIN m \union {key} -> Seq(Bytes)]
  BY <1>1 DEF Put
<1> DEFINE u == Put(m, key, v)
<1>3. u \in [DOMAIN u -> Seq(Bytes)] /\ DOMAIN u \subseteq {"x", "y"}
  BY <1>1, <1>2
<1> HIDE DEF u
<1>4. u \in Maps({"x", "y"})
  BY <1>3, MapIs
<1> QED
  BY <1>2, <1>4 DEF u

\* A file with other data.
LEMMA FileMore ==
  ASSUME NEW e, NEW d, NEW name, e = [data |-> d, name |-> name], NEW v
  PROVE  [e EXCEPT !.data = v] = [data |-> v, name |-> name]
OBVIOUS

\* What Got is about.
SameForm(q, r) ==
  /\ r.isFile = q.isFile /\ r.bad = q.bad /\ r.done = q.done /\ r.first = q.first /\ r.headers = q.headers
  /\ r.form = q.form /\ r.files = q.files

\* What was handed on depends on the form only.
LEMMA GotSame ==
  ASSUME NEW c, NEW q, NEW r, NEW k, NEW d, Got(c, q, k, d), SameForm(q, r)
  PROVE  Got(c, r, k, d)
<1>1. FieldValue(r) = FieldValue(q)
  BY DEF FieldValue, SameForm
<1> QED
  BY <1>1 DEF Got, SameForm

\* Data that is handed on is behind what was handed on before.
LEMMA GotMore ==
  ASSUME NEW c, ClientInv(c), NEW k \in 1..Len(c.parts), NEW q \in Readers,
         NEW d \in Seq(Bytes), NEW text \in Seq(Bytes), Got(c, q, k, d)
  PROVE  /\ PartData(q, text) \in Readers /\ SameParser(q, PartData(q, text))
         /\ Got(c, PartData(q, text), k, d \o text)
<1> DEFINE part == c.parts[k]
           m == c.meant[k]
           r == PartData(q, text)
<1>1. part \in FormParts /\ m \in Forms
  BY PlacesAre
<1>2. /\ q.isFile = part.file /\ ~q.bad /\ ~q.done /\ FieldValue(q) = NameValue(part)
      /\ part.file => q.form = m.form /\ q.files = Append(m.files, [data |-> d, name |-> "ing"])
      /\ ~part.file => q.files = m.files /\ q.form = Put(m.form, part.key, TextOf(m, part.key) \o d)
  BY DEF Got
<1>3. m.form \in Maps({"x", "y"}) /\ m.files \in FileLists /\ TextOf(m, part.key) \in Seq(Bytes)
  BY <1>1, TextOfIs
<1>4. FieldKey(q) = part.key /\ part.key # "none" /\ part.key \in {"x", "y"}
  BY <1>1, <1>2, FieldKeyIs, NameValueIs
<1> HIDE DEF part, m
<1> DEFINE e == [data |-> d, name |-> "ing"]
           g == [data |-> d \o text, name |-> "ing"]
<1>5. d \o text \in Seq(Bytes)
  BY TextsJoined
<1>6. e \in UploadFiles /\ g \in UploadFiles
  BY <1>5 DEF UploadFiles
<1>7. q.isFile => q.files # << >>
  <2> HIDE DEF e
  <2> QED
    BY <1>2, <1>3, <1>6, LastOfAppended DEF e
<1>8. r \in Readers /\ SameParser(q, r)
  BY <1>4, <1>7, PartDataIs
<1>9. ~text = << >> /\ part.file => r.form = m.form /\ r.files = Append(m.files, g)
  <2> SUFFICES ASSUME ~text = << >>, part.file PROVE r.form = m.form /\ r.files = Append(m.files, g)
    OBVIOUS
  <2> DEFINE n == Len(q.files)
  <2>1. r = [q EXCEPT !.files[n].data = @ \o text]
    BY <1>2 DEF PartData
  <2>2. q.files[n] = e
    <3> HIDE DEF e
    <3> QED
      BY <1>2, <1>3, <1>6, LastOfAppended DEF e
  <2>3. [q.files[n] EXCEPT !.data = @ \o text] = g
    <3> DEFINE x == q.files[n]
               w == d \o text
    <3>1. x = [data |-> d, name |-> "ing"]
      BY <2>2
    <3> HIDE DEF x, w
    <3>2. x.data \o text = w
      BY <3>1 DEF w
    <3>3. [x EXCEPT !.data = w] = [data |-> w, name |-> "ing"]
      BY <3>1, FileMore
    <3> QED
      BY <3>2, <3>3 DEF x, w
  <2>4. r.form = q.form /\ r.files = [q.files EXCEPT ![n] = [q.files[n] EXCEPT !.data = @ \o text]]
    BY <2>1 DEF Readers
  <2>5. r.files = [Append(m.files, e) EXCEPT ![Len(Append(m.files, e))] = g]
    BY <1>2, <2>3, <2>4
  <2>6. r.form = m.form
    BY <1>2, <2>4
  <2> HIDE DEF e, g, r
  <2>7. [Append(m.files, e) EXCEPT ![Len(Append(m.files, e))] = g] = Append(m.files, g)
    <3> DEFINE fs == m.files
    <3>1. fs \in FileLists
      BY <1>3
    <3> HIDE DEF fs
    <3> DEFINE t == Append(fs, e)
    <3>2. t = Append(fs, e)
      OBVIOUS
    <3> HIDE DEF t
    <3>3. [t EXCEPT ![Len(t)] = g] = Append(fs, g)
      BY <1>6, <3>1, <3>2, LastSet
    <3> QED
      BY <3>3 DEF fs, t
  <2> QED
    BY <2>5, <2>6, <2>7
<1>10. ~text = << >> /\ ~part.file =>
         r.files = m.files /\ r.form = Put(m.form, part.key, TextOf(m, part.key) \o (d \o text))
  <2> SUFFICES ASSUME ~text = << >>, ~part.file
               PROVE  r.files = m.files /\ r.form = Put(m.form, part.key, TextOf(m, part.key) \o (d \o text))
    OBVIOUS
  <2> DEFINE old == TextOf(m, part.key)
             key == part.key
  <2>1. old \in Seq(Bytes) /\ old \o d \in Seq(Bytes) /\ (old \o d) \o text = old \o (d \o text)
    BY <1>3, TextsJoined, ConcatAssociative
  <2>2. q.form = Put(m.form, key, old \o d)
    BY <1>2
  <2>3. q.form \in Maps({"x", "y"}) /\ key \in DOMAIN q.form /\ q.form[key] = old \o d
    <3> HIDE DEF old, key
    <3>1. key \in {"x", "y"}
      BY <1>4 DEF key
    <3> DEFINE w == old \o d
    <3>2. w \in Seq(Bytes) /\ q.form = Put(m.form, key, w)
      BY <2>1, <2>2
    <3> HIDE DEF w
    <3>3. /\ Put(m.form, key, w) \in Maps({"x", "y"}) /\ key \in DOMAIN Put(m.form, key, w)
          /\ Put(m.form, key, w)[key] = w
      BY <1>3, <3>1, <3>2, FormPut
    <3> QED
      BY <3>2, <3>3 DEF w
  <2>4. r = [[q EXCEPT !.lastKey = key] EXCEPT !.form[key] = @ \o text]
    BY <1>2, <1>4, <2>3 DEF PartData, UpdateValue, Readers
  <2>5. r.files = q.files /\ r.form = [q.form EXCEPT ![key] = q.form[key] \o text]
    BY <2>4 DEF Readers
  <2> HIDE DEF r, old, key
  <2>6. r.form = Put(q.form, key, q.form[key] \o text)
    <3>1. [q.form EXCEPT ![key] = q.form[key] \o text] = Put(q.form, key, q.form[key] \o text)
      BY <2>3, PutThere
    <3> QED
      BY <2>5, <3>1
  <2>7. r.form = Put(m.form, key, old \o (d \o text))
    BY <2>1, <2>2, <2>3, <2>6, PutTwice
  <2> QED
    BY <1>2, <2>5, <2>7 DEF old, key
<1>11. CASE text = << >>
  <2>1. r = q /\ d \o text = d
    BY <1>11, ConcatEmptySeq DEF PartData
  <2> QED
    BY <1>8, <2>1
<1>12. CASE ~text = << >>
  <2> HIDE DEF r
  <2>1. SameParser(q, r)
    BY <1>8
  <2>2. FieldValue(r) = FieldValue(q)
    BY <2>1 DEF SameParser, FieldValue
  <2>3. q.first # "d" => DOMAIN q.headers \subseteq {"d"}
    BY DEF Got
  <2>4. /\ r.isFile = part.file /\ ~r.bad /\ ~r.done /\ FieldValue(r) = NameValue(part)
        /\ r.first # "d" => DOMAIN r.headers \subseteq {"d"}
    BY <1>2, <2>1, <2>2, <2>3 DEF SameParser
  <2>5. Got(c, r, k, d \o text)
    BY <1>9, <1>10, <1>12, <2>4 DEF Got, part, m, g
  <2> QED
    BY <1>8, <2>5 DEF r
<1> QED
  BY <1>11, <1>12
\* Pieces of a text.
LEMMA PieceIs ==
  ASSUME NEW b \in Seq(Bytes), NEW m \in Nat, NEW n \in Nat, 1 <= m, m <= n + 1, n <= Len(b)
  PROVE  /\ SubSeq(b, m, n) \in Seq(Bytes) /\ Len(SubSeq(b, m, n)) = n + 1 - m
         /\ \A i \in 1..(n + 1 - m) : SubSeq(b, m, n)[i] = b[m + i - 1]
<1>1. m \in Int /\ n \in Int /\ Len(b) \in Nat
  OBVIOUS
<1>2. \A i \in m..n : b[i] \in Bytes
  BY <1>1, ElementOfSeq
<1> DEFINE s == SubSeq(b, m, n)
<1>3. /\ s \in Seq(Bytes) /\ Len(s) = IF m <= n THEN n - m + 1 ELSE 0
      /\ \A i \in 1..(n - m + 1) : s[i] = b[m + i - 1]
  BY <1>1, <1>2, SubSeqProperties
<1> HIDE DEF s
<1>4. Len(s) = n + 1 - m /\ \A i \in 1..(n + 1 - m) : s[i] = b[m + i - 1]
  BY <1>1, <1>3
<1> QED
  BY <1>3, <1>4 DEF s

\* A piece of the buffer is a piece of the body.
LEMMA PieceOfPiece ==
  ASSUME NEW b \in Seq(Bytes), NEW f \in Nat, NEW r \in Nat, f <= r, r <= Len(b),
         NEW i \in Nat, NEW j \in Nat, 1 <= i, i <= j + 1, f + j <= r
  PROVE  SubSeq(SubSeq(b, f + 1, r), i, j) = SubSeq(b, f + i, f + j)
<1>1. CASE i = j + 1
  <2>1. SubSeq(SubSeq(b, f + 1, r), i, j) = << >>
    BY <1>1, SubSeqEmpty
  <2>2. SubSeq(b, f + i, f + j) = << >>
    <3>1. f + i \in Int /\ f + j \in Int /\ f + j < f + i
      BY <1>1
    <3> QED
      BY <3>1, SubSeqEmpty
  <2> QED
    BY <2>1, <2>2
<1>2. CASE i # j + 1
  <2> DEFINE a == f + 1
  <2>1. /\ a \in 1..Len(b) /\ r \in 1..Len(b) /\ i \in 1..(r - a + 1) /\ j \in 1..(r - a + 1)
        /\ a + i - 1 = f + i /\ a + j - 1 = f + j
    BY <1>2
  <2> HIDE DEF a
  <2>2. SubSeq(SubSeq(b, a, r), i, j) = SubSeq(b, a + i - 1, a + j - 1)
    BY <2>1, SubSeqOfSubSeq
  <2> QED
    BY <2>1, <2>2 DEF a
<1> QED
  BY <1>1, <1>2

\* Two pieces that meet are one.
LEMMA PiecesJoin ==
  ASSUME NEW b \in Seq(Bytes), NEW m \in Nat, NEW k \in Nat, NEW n \in Nat,
         1 <= m, m <= k + 1, k <= n, n <= Len(b)
  PROVE  SubSeq(b, m, k) \o SubSeq(b, k + 1, n) = SubSeq(b, m, n)
<1>1. Len(b) \in Nat
  OBVIOUS
<1>2. m \in 1..(Len(b) + 1) /\ k \in (m - 1)..Len(b) /\ n \in k..Len(b)
  BY <1>1
<1> QED
  BY <1>2, ConcatAdjacentSubSeq

\* A map that is given what it has.
LEMMA PutSame ==
  ASSUME NEW m \in Maps({"x", "y"}), NEW key \in DOMAIN m
  PROVE  Put(m, key, m[key]) = m
<1>1. m \in [DOMAIN m -> Seq(Bytes)]
  BY MapIs
<1> QED
  BY <1>1 DEF Put

\* The empty map.
LEMMA EmptyMap ==
  << >> \in Maps({"d", "t"}) /\ << >> \in Maps({"x", "y"}) /\ DOMAIN << >> = {}
<1> DEFINE e == << >>
<1>1. DOMAIN e = {} /\ e \in [{} -> Seq(Bytes)]
  OBVIOUS
<1> HIDE DEF e
<1>2. e \in [DOMAIN e -> Seq(Bytes)] /\ DOMAIN e \subseteq {"d", "t"} /\ DOMAIN e \subseteq {"x", "y"}
  BY <1>1
<1>3. e \in Maps({"d", "t"}) /\ e \in Maps({"x", "y"})
  BY <1>2, MapIs
<1> QED
  BY <1>1, <1>3 DEF e

\* Of two readers: the parsers are at the same place.
SameMarks(q, r) ==
  /\ r.state = q.state /\ r.i = q.i /\ r.index = q.index /\ r.part = q.part /\ r.last = q.last
  /\ r.behind = q.behind /\ r.field = q.field /\ r.value = q.value /\ r.data = q.data
  /\ r.name = q.name /\ r.text = q.text /\ r.first = q.first /\ r.bad = q.bad /\ r.done = q.done

\* The headers of a part that has them all are its own, as far as on_part_begin looks.
LEMMA HeadersSet ==
  ASSUME NEW part \in FormParts, NEW q \in Readers,
         "d" \in DOMAIN q.current, q.current["d"] = NameValue(part),
         ~part.typed => DOMAIN q.current = {"d"}, q.first = "d" \/ ~part.typed,
         q.first # "d" => DOMAIN q.headers \subseteq {"d"}
  PROVE  /\ SetHeaders(q) \in Readers /\ SameMarks(q, SetHeaders(q)) /\ SetHeaders(q).current = << >>
         /\ SetHeaders(q).form = q.form /\ SetHeaders(q).files = q.files
         /\ SetHeaders(q).first # "d" => DOMAIN SetHeaders(q).headers \subseteq {"d"}
         /\ FieldValue(SetHeaders(q)) = NameValue(part)
         /\ IsMultipartFile(SetHeaders(q)) <=> part.file
<1> DEFINE h == [key \in DOMAIN q.current \union DOMAIN q.headers |->
                   IF key \in DOMAIN q.current THEN q.current[key] ELSE q.headers[key]]
           v == NameValue(part)
           a == [q EXCEPT !.headers = h, !.current = << >>]
<1>1. q.current \in Maps({"d", "t"}) /\ q.headers \in Maps({"d", "t"}) /\ q.first \in {"d", "t"}
  BY DEF Readers
<1>2. /\ q.current \in [DOMAIN q.current -> Seq(Bytes)] /\ DOMAIN q.current \subseteq {"d", "t"}
      /\ q.headers \in [DOMAIN q.headers -> Seq(Bytes)] /\ DOMAIN q.headers \subseteq {"d", "t"}
  BY <1>1, MapIs
<1>3. /\ DOMAIN h = DOMAIN q.current \union DOMAIN q.headers /\ h["d"] = v
      /\ h \in [DOMAIN q.current \union DOMAIN q.headers -> Seq(Bytes)]
  BY <1>2
<1>4. h \in [DOMAIN h -> Seq(Bytes)] /\ DOMAIN h \subseteq {"d", "t"} /\ "d" \in DOMAIN h
  BY <1>2, <1>3
<1>5. q.first # "d" => DOMAIN h \subseteq {"d"}
  BY <1>1, <1>3
<1> HIDE DEF h
<1>6. h \in Maps({"d", "t"})
  BY <1>4, MapIs
<1>7. a \in Readers /\ SameMarks(q, a) /\ a.current = << >> /\ a.headers = h /\ a.form = q.form /\ a.files = q.files
  BY <1>6, EmptyMap DEF Readers, SameMarks
<1>8. SetHeaders(q) = a
  BY DEF SetHeaders, h
<1> HIDE DEF a
<1>9. a.first = q.first
  BY <1>7 DEF SameMarks
<1>10. FieldValue(a) = v
  <2>1. CASE a.first = "d"
    BY <1>3, <1>4, <1>7, <2>1 DEF FieldValue
  <2>2. CASE a.first # "d"
    <3>1. DOMAIN h = {"d"}
      BY <1>4, <1>5, <1>9, <2>2
    <3>2. a.first \notin {"d"} /\ DOMAIN h # {} /\ \A x \in {"d"} : x = "d"
      BY <2>2, <3>1
    <3>3. (CHOOSE x \in DOMAIN h : TRUE) = "d"
      BY <3>1
    <3> QED
      BY <1>3, <1>7, <3>1, <3>2, <3>3 DEF FieldValue
  <2> QED
    BY <2>1, <2>2
<1>11. IsMultipartFile(a) <=> part.file
  BY <1>3, <1>4, <1>7, NameValueIs DEF IsMultipartFile
<1> QED
  BY <1>5, <1>7, <1>8, <1>9, <1>10, <1>11

\* The headers of a part are all there: nothing of its data is handed on.
LEMMA GotStarts ==
  ASSUME NEW c, ClientInv(c), NEW k \in 1..Len(c.parts), NEW q \in Readers, SoFar(c, q, k),
         "d" \in DOMAIN q.current, q.current["d"] = NameValue(c.parts[k]),
         ~c.parts[k].typed => DOMAIN q.current = {"d"}, q.first = "d" \/ ~c.parts[k].typed
  PROVE  /\ PartBegin(q) \in Readers /\ SameMarks(q, PartBegin(q)) /\ PartBegin(q).current = << >>
         /\ Got(c, PartBegin(q), k, << >>)
<1> DEFINE part == c.parts[k]
           m == c.meant[k]
           a == SetHeaders(q)
           r == Begun(a)
<1>1. part \in FormParts /\ m \in Forms
  BY PlacesAre
<1>2. /\ q.form = m.form /\ q.files = m.files /\ ~q.bad /\ ~q.done
      /\ q.first # "d" => DOMAIN q.headers \subseteq {"d"}
  BY DEF SoFar
<1>3. m.form \in Maps({"x", "y"}) /\ m.files \in FileLists /\ TextOf(m, part.key) \in Seq(Bytes)
  BY <1>1, TextOfIs
<1>4. /\ a \in Readers /\ SameMarks(q, a) /\ a.current = << >> /\ a.form = q.form /\ a.files = q.files
      /\ a.first # "d" => DOMAIN a.headers \subseteq {"d"}
      /\ FieldValue(a) = NameValue(part) /\ (IsMultipartFile(a) <=> part.file)
  BY <1>1, <1>2, HeadersSet
<1>5. /\ part.key \in {"x", "y"} /\ FieldKey(a) = part.key /\ part.key # "none"
      /\ Holds(NameValue(part), "f") <=> part.file
  BY <1>1, <1>4, FieldKeyIs, NameValueIs
<1>6. PartBegin(q) = r
  BY DEF PartBegin
<1> HIDE DEF part, m, a
<1> DEFINE e == [data |-> << >>, name |-> "ing"]
<1>7. e \in UploadFiles
  BY DEF UploadFiles
<1>8. CASE part.file
  <2> DEFINE g == Append(a.files, e)
             isf == IsMultipartFile(a)
  <2>1. r = [[a EXCEPT !.isFile = isf] EXCEPT !.files = Append(@, e)]
    BY <1>4, <1>5, <1>8 DEF Begun
  <2>2. isf = TRUE
    BY <1>4, <1>8 DEF IsMultipartFile, Holds
  <2> HIDE DEF e, isf
  <2>3. g \in FileLists
    BY <1>2, <1>3, <1>4, <1>7, LastOfAppended
  <2>4. r = [a EXCEPT !.isFile = TRUE, !.files = g]
    BY <1>4, <2>1, <2>2 DEF Readers
  <2> HIDE DEF g, r
  <2>5. /\ r \in Readers /\ SameMarks(a, r) /\ r.current = << >> /\ r.headers = a.headers /\ r.isFile = TRUE
        /\ r.form = a.form /\ r.files = g
    BY <1>4, <2>3, <2>4 DEF Readers, SameMarks
  <2>6. FieldValue(r) = NameValue(part)
    BY <1>4, <2>5 DEF FieldValue, SameMarks
  <2>7. /\ r.isFile = part.file /\ ~r.bad /\ ~r.done /\ r.first = a.first
        /\ r.form = m.form /\ r.files = Append(m.files, e)
    <3>1. part.file = TRUE
      BY <1>1, <1>8 DEF FormParts
    <3> QED
      BY <1>2, <1>4, <2>5, <3>1 DEF SameMarks, g
  <2>8. Got(c, r, k, << >>)
    BY <1>4, <1>8, <2>5, <2>6, <2>7 DEF Got, part, m, e
  <2> QED
    BY <1>4, <1>6, <2>5, <2>8 DEF SameMarks
<1>9. CASE ~part.file
  <2> DEFINE w == IF part.key \in DOMAIN a.form THEN a.form ELSE Put(a.form, part.key, << >>)
             isf == IsMultipartFile(a)
  <2>1. isf = FALSE
    BY <1>4, <1>9 DEF IsMultipartFile, Holds
  <2>2. w \in Maps({"x", "y"})
    <3>1. << >> \in Seq(Bytes)
      OBVIOUS
    <3> QED
      BY <1>2, <1>3, <1>4, <1>5, <3>1, FormPut
  <2>3. r = [a EXCEPT !.isFile = FALSE, !.form = w]
    <3>1. CASE part.key \in DOMAIN a.form
      BY <1>4, <1>5, <1>9, <2>1, <3>1 DEF Begun, Readers
    <3>2. CASE part.key \notin DOMAIN a.form
      BY <1>4, <1>5, <1>9, <2>1, <3>2 DEF Begun, Readers
    <3> QED
      BY <3>1, <3>2
  <2>4. w = Put(m.form, part.key, TextOf(m, part.key) \o << >>)
    <3>1. TextOf(m, part.key) \o << >> = TextOf(m, part.key)
      BY <1>3, ConcatEmptySeq
    <3>2. CASE part.key \in DOMAIN m.form
      <4>1. Put(m.form, part.key, m.form[part.key]) = m.form
        BY <1>3, <3>2, PutSame
      <4> QED
        BY <1>2, <1>4, <3>1, <3>2, <4>1 DEF TextOf
    <3>3. CASE part.key \notin DOMAIN m.form
      BY <1>2, <1>4, <3>1, <3>3 DEF TextOf
    <3> QED
      BY <3>2, <3>3
  <2> HIDE DEF w, r
  <2>5. /\ r \in Readers /\ SameMarks(a, r) /\ r.current = << >> /\ r.headers = a.headers /\ r.isFile = FALSE
        /\ r.form = w /\ r.files = a.files
    BY <1>4, <2>2, <2>3 DEF Readers, SameMarks
  <2>6. FieldValue(r) = NameValue(part)
    BY <1>4, <2>5 DEF FieldValue, SameMarks
  <2>7. r.isFile = part.file /\ ~r.bad /\ ~r.done /\ r.first = a.first /\ r.files = m.files
    <3>1. part.file = FALSE
      BY <1>1, <1>9 DEF FormParts
    <3> QED
      BY <1>2, <1>4, <2>5, <3>1 DEF SameMarks
  <2>8. Got(c, r, k, << >>)
    BY <1>4, <1>9, <2>4, <2>5, <2>6, <2>7 DEF Got, part, m
  <2> QED
    BY <1>4, <1>6, <2>5, <2>8 DEF SameMarks
<1> QED
  BY <1>8, <1>9

\* All of a part's data is handed on: the part is as it is to be.
LEMMA GotEnds ==
  ASSUME NEW c, ClientInv(c), NEW k \in 1..Len(c.parts), NEW q \in Readers, Got(c, q, k, c.parts[k].data)
  PROVE  /\ PartEnd(q) \in Readers /\ SameParser(q, PartEnd(q))
         /\ PartEnd(q).form = c.meant[k + 1].form /\ PartEnd(q).files = c.meant[k + 1].files
         /\ PartEnd(q).first # "d" => DOMAIN PartEnd(q).headers \subseteq {"d"}
<1> DEFINE part == c.parts[k]
           m == c.meant[k]
           d == part.data
           r == PartEnd(q)
<1>1. part \in FormParts /\ m \in Forms /\ c.meant[k + 1] = WithPart(m, part)
  BY PlacesAre
<1>2. m.form \in Maps({"x", "y"}) /\ m.files \in FileLists /\ d \in Seq(Bytes)
  <2>1. d \in Seq(Bytes)
    BY <1>1, NameValueIs
  <2> QED
    BY <1>1, <2>1, TextOfIs
<1>3. /\ q.isFile = part.file /\ ~q.bad
      /\ part.file => q.form = m.form /\ q.files = Append(m.files, [data |-> d, name |-> "ing"])
      /\ ~part.file => q.files = m.files /\ q.form = Put(m.form, part.key, TextOf(m, part.key) \o d)
      /\ q.first # "d" => DOMAIN q.headers \subseteq {"d"}
  BY DEF Got
<1>4. /\ part.file => /\ WithPart(m, part).form = m.form
                      /\ WithPart(m, part).files = Append(m.files, [data |-> d, name |-> "kept"])
      /\ ~part.file => /\ WithPart(m, part).form = Put(m.form, part.key, TextOf(m, part.key) \o d)
                       /\ WithPart(m, part).files = m.files
  <2> HIDE DEF part, m
  <2> QED
    BY <1>1, WithPartIs
<1> HIDE DEF part, m, d
<1>5. CASE ~part.file
  <2>1. r = q
    BY <1>3, <1>5 DEF PartEnd
  <2> QED
    BY <1>1, <1>3, <1>4, <1>5, <2>1 DEF SameParser
<1>6. CASE part.file
  <2> DEFINE e == [data |-> d, name |-> "ing"]
             g == [data |-> d, name |-> "kept"]
             n == Len(q.files)
             x == q.files[n]
             y == [x EXCEPT !.name = "kept"]
             fs == [q.files EXCEPT ![n] = y]
  <2>1. e \in UploadFiles /\ g \in UploadFiles
    BY <1>2 DEF UploadFiles
  <2>2. q.files = Append(m.files, e)
    BY <1>3, <1>6
  <2>3. r = [q EXCEPT !.files = fs]
    BY <1>3, <1>6 DEF PartEnd, Readers
  <2> HIDE DEF x
  <2>4. x = e
    <3> HIDE DEF e
    <3> QED
      BY <1>2, <2>1, <2>2, LastOfAppended DEF x
  <2>5. y = g
    BY <2>4
  <2> HIDE DEF e, g, y
  <2>6. fs = Append(m.files, g)
    <3> DEFINE t == q.files
               l == m.files
    <3>1. l \in FileLists /\ t = Append(l, e)
      BY <1>2, <2>2
    <3> HIDE DEF t, l
    <3>2. [t EXCEPT ![Len(t)] = g] = Append(l, g)
      BY <2>1, <3>1, LastSet
    <3> QED
      BY <2>5, <3>2 DEF t, l
  <2>7. Append(m.files, g) \in FileLists
    BY <1>2, <2>1, LastOfAppended
  <2> HIDE DEF fs, r
  <2>8. r \in Readers /\ SameParser(q, r) /\ r.form = q.form /\ r.files = fs
    BY <2>3, <2>6, <2>7 DEF Readers, SameParser
  <2>9. r.form = c.meant[k + 1].form /\ r.files = c.meant[k + 1].files
    BY <1>1, <1>3, <1>4, <1>6, <2>6, <2>8 DEF g
  <2>10. r.first # "d" => DOMAIN r.headers \subseteq {"d"}
    BY <1>3, <2>8 DEF SameParser
  <2> QED
    BY <2>8, <2>9, <2>10 DEF r
<1> QED
  BY <1>5, <1>6

----------------------------------------------------------------------------
(* A byte of the headers *)

\* feed is through with one byte.
Fed(q, ch, buffer) == [Byte(q, ch, buffer) EXCEPT !.i = @ + 1]

\* Of two readers: what the headers of a part do not change.
Kept(q, p) == SameForm(q, p) /\ p.part = q.part /\ p.last = q.last /\ p.data = q.data

\* A name and a text with what is marked.
NameTo(q, buffer) == q.name \o Marked(buffer, q.field, q)
TextTo(q, buffer) == q.text \o Marked(buffer, q.value, q)

\* The numbers and the texts of a reader.
LEMMA NumbersAre ==
  ASSUME NEW q \in Readers
  PROVE  /\ q.i \in Nat /\ q.index \in Nat /\ q.i + 1 \in Nat /\ q.index + 1 \in Nat
         /\ q.name \in Seq(Bytes) /\ q.text \in Seq(Bytes) /\ q.field \in Nat /\ q.value \in Nat
<1>1. /\ q.i \in Nat /\ q.index \in Nat
      /\ q.name \in Seq(Bytes) /\ q.text \in Seq(Bytes) /\ q.field \in Nat /\ q.value \in Nat
  BY DEF Readers
<1> QED
  BY <1>1

\* The next byte.
LEMMA Stepped ==
  ASSUME NEW q \in Readers, NEW p, p = [q EXCEPT !.i = @ + 1]
  PROVE  /\ p \in Readers /\ p.i = q.i + 1 /\ Kept(q, p) /\ p.state = q.state /\ p.index = q.index
         /\ p.field = q.field /\ p.value = q.value /\ p.name = q.name /\ p.text = q.text
         /\ p.current = q.current /\ p.behind = q.behind
<1> DEFINE j == q.i + 1
<1>1. j \in Nat /\ p = [q EXCEPT !.i = j]
  BY NumbersAre
<1> HIDE DEF j
<1>2. /\ p \in Readers /\ p.i = j /\ Kept(q, p) /\ p.state = q.state /\ p.index = q.index
      /\ p.field = q.field /\ p.value = q.value /\ p.name = q.name /\ p.text = q.text
      /\ p.current = q.current /\ p.behind = q.behind
  BY <1>1 DEF Readers, Kept, SameForm
<1> QED
  BY <1>2 DEF j

\* HEADER_FIELD_START: the first byte of a line.
LEMMA FedLineStart ==
  ASSUME NEW q \in Readers, q.state = "HEADER_FIELD_START", NEW ch, NEW buffer, NEW p, p = Fed(q, ch, buffer),
         ch \in {"CR", "d", "t"}
  PROVE  /\ p \in Readers /\ p.i = q.i + 1 /\ Kept(q, p)
         /\ p.value = q.value /\ p.name = q.name /\ p.text = q.text /\ p.current = q.current
         /\ ch = "CR" => p.state = "HEADERS_ALMOST_DONE" /\ p.field = Unmarked
         /\ ch # "CR" => p.state = "HEADER_FIELD" /\ p.field = q.i /\ p.index = 1
<1> DEFINE a == To([q EXCEPT !.field = q.i, !.index = 0], "HEADER_FIELD")
           b == HeaderField(a, ch, buffer)
<1>1. p = [b EXCEPT !.i = @ + 1]
  BY DEF Fed, Byte
<1>2. "HEADER_FIELD" \in States /\ "HEADERS_ALMOST_DONE" \in States
  BY DEF States
<1>3. CASE ch = "CR"
  <2>1. b = [q EXCEPT !.field = Unmarked, !.index = 0, !.state = "HEADERS_ALMOST_DONE"]
    BY <1>3 DEF HeaderField, To, Readers
  <2> HIDE DEF b
  <2>2. Unmarked \in Nat /\ 0 \in Nat
    BY DEF Unmarked
  <2>3. /\ b \in Readers /\ b.state = "HEADERS_ALMOST_DONE" /\ b.i = q.i /\ b.index = 0 /\ Kept(q, b)
        /\ b.current = q.current
        /\ b.field = Unmarked /\ b.value = q.value /\ b.name = q.name /\ b.text = q.text
    BY <1>2, <2>1, <2>2 DEF Readers, Kept, SameForm
  <2> QED
    BY <1>1, <1>3, <2>3, Stepped DEF Kept, SameForm
<1>4. CASE ch # "CR"
  <2>1. b = [a EXCEPT !.index = @ + 1]
    BY <1>4 DEF HeaderField, NameBytes
  <2>2. a.index = 0
    BY DEF To, Readers
  <2>3. b = [q EXCEPT !.field = q.i, !.index = 1, !.state = "HEADER_FIELD"]
    <3>1. b = [a EXCEPT !.index = 1]
      BY <2>1, <2>2
    <3> QED
      BY <3>1 DEF To, Readers
  <2> HIDE DEF b
  <2>4. q.i \in Nat /\ 1 \in Nat
    BY NumbersAre
  <2>5. /\ b \in Readers /\ b.state = "HEADER_FIELD" /\ b.i = q.i /\ b.index = 1 /\ Kept(q, b)
        /\ b.current = q.current
        /\ b.field = q.i /\ b.value = q.value /\ b.name = q.name /\ b.text = q.text
    BY <1>2, <2>3, <2>4 DEF Readers, Kept, SameForm
  <2> QED
    BY <1>1, <1>4, <2>5, Stepped DEF Kept, SameForm
<1> QED
  BY <1>3, <1>4

\* HEADER_FIELD: the colon behind a name.
LEMMA FedInName ==
  ASSUME NEW q \in Readers, q.state = "HEADER_FIELD", q.index = 1, NEW buffer, NEW p, p = Fed(q, ":", buffer),
         NEW v \in Seq(Bytes), v = NameTo(q, buffer)
  PROVE  /\ p \in Readers /\ p.i = q.i + 1 /\ Kept(q, p)
         /\ p.value = q.value /\ p.name = v /\ p.text = q.text /\ p.current = q.current
         /\ p.state = "HEADER_VALUE_START" /\ p.field = Unmarked
<1> DEFINE a == [q EXCEPT !.index = @ + 1]
           b == HeaderField(q, ":", buffer)
           l == Marked(buffer, a.field, a)
<1>1. p = [b EXCEPT !.i = @ + 1]
  BY DEF Fed, Byte
<1>2. a = [q EXCEPT !.index = 2]
  <2>1. q.index + 1 = 2
    OBVIOUS
  <2> QED
    BY <2>1
<1>3. /\ a.index # 1 /\ a.name = q.name /\ l = Marked(buffer, q.field, q)
  <2>1. a.index = 2 /\ a.name = q.name /\ a.field = q.field /\ a.i = q.i
    BY <1>2 DEF Readers
  <2> HIDE DEF a
  <2> QED
    BY <2>1 DEF Marked
<1>4. b = [[[a EXCEPT !.name = @ \o l] EXCEPT !.field = Unmarked] EXCEPT !.state = "HEADER_VALUE_START"]
  BY <1>3, Zenon DEF HeaderField, To
<1> HIDE DEF b, l
<1>5. b = [[[a EXCEPT !.name = v] EXCEPT !.field = Unmarked] EXCEPT !.state = "HEADER_VALUE_START"]
  <2>1. a.name \o l = v
    BY <1>3 DEF NameTo
  <2> HIDE DEF a
  <2> QED
    BY <1>4, <2>1
<1>6. "HEADER_VALUE_START" \in States /\ Unmarked \in Nat /\ 2 \in Nat
  BY DEF States, Unmarked
<1>7. /\ b \in Readers /\ b.state = "HEADER_VALUE_START" /\ b.i = q.i /\ Kept(q, b) /\ b.current = q.current
      /\ b.field = Unmarked /\ b.value = q.value /\ b.name = v /\ b.text = q.text
  BY <1>2, <1>5, <1>6 DEF Readers, Kept, SameForm
<1> QED
  BY <1>1, <1>7, Stepped DEF Kept, SameForm

\* HEADER_VALUE_START: the space, and the first byte of a value.
LEMMA FedAfterName ==
  ASSUME NEW q \in Readers, q.state = "HEADER_VALUE_START", NEW ch, NEW buffer, NEW p, p = Fed(q, ch, buffer),
         ch # "CR"
  PROVE  /\ p \in Readers /\ p.i = q.i + 1 /\ Kept(q, p)
         /\ p.name = q.name /\ p.text = q.text /\ p.current = q.current /\ p.field = q.field
         /\ ch = "SP" => p.state = "HEADER_VALUE_START" /\ p.value = q.value
         /\ ch # "SP" => p.state = "HEADER_VALUE" /\ p.value = q.i
<1>1. CASE ch = "SP"
  <2>1. p = [q EXCEPT !.i = @ + 1]
    BY <1>1 DEF Fed, Byte
  <2> QED
    BY <1>1, <2>1, Stepped
<1>2. CASE ch # "SP"
  <2> DEFINE b == To([q EXCEPT !.value = q.i], "HEADER_VALUE")
  <2>1. p = [b EXCEPT !.i = @ + 1]
    BY <1>2 DEF Fed, Byte, HeaderValue
  <2>2. "HEADER_VALUE" \in States /\ q.i \in Nat
    BY NumbersAre DEF States
  <2>3. /\ b \in Readers /\ b.state = "HEADER_VALUE" /\ b.i = q.i /\ Kept(q, b) /\ b.current = q.current
        /\ b.field = q.field /\ b.value = q.i /\ b.name = q.name /\ b.text = q.text
    BY <2>2 DEF To, Readers, Kept, SameForm
  <2> HIDE DEF b
  <2>4. /\ p \in Readers /\ p.i = b.i + 1 /\ Kept(b, p) /\ p.state = b.state
        /\ p.field = b.field /\ p.value = b.value /\ p.name = b.name /\ p.text = b.text
        /\ p.current = b.current
    BY <2>1, <2>3, Stepped
  <2> QED
    BY <1>2, <2>3, <2>4 DEF Kept, SameForm
<1> QED
  BY <1>1, <1>2

\* HEADER_VALUE: a byte of the value.
LEMMA FedInValue ==
  ASSUME NEW q \in Readers, q.state = "HEADER_VALUE", NEW ch, NEW buffer, NEW p, p = Fed(q, ch, buffer),
         ch # "CR"
  PROVE  /\ p \in Readers /\ p.i = q.i + 1 /\ Kept(q, p) /\ p.state = q.state
         /\ p.name = q.name /\ p.text = q.text /\ p.current = q.current /\ p.field = q.field /\ p.value = q.value
<1>1. p = [q EXCEPT !.i = @ + 1]
  BY DEF Fed, Byte, HeaderValue
<1> QED
  BY <1>1, Stepped

\* HEADER_VALUE: CR, where the header is set.
LEMMA FedValueEnd ==
  ASSUME NEW q \in Readers, q.state = "HEADER_VALUE", NEW buffer, NEW p, p = Fed(q, "CR", buffer),
         NEW v \in Seq(Bytes), v = TextTo(q, buffer),
         NEW key \in {"d", "t"}, q.name = <<key>>
  PROVE  /\ p \in Readers /\ p.i = q.i + 1 /\ Kept(q, p) /\ p.state = "HEADER_VALUE_ALMOST_DONE"
         /\ p.name = << >> /\ p.text = << >> /\ p.field = q.field /\ p.value = Unmarked
         /\ p.current = Put(q.current, key, v)
<1> DEFINE a == [[q EXCEPT !.text = @ \o Marked(buffer, q.value, q)] EXCEPT !.value = Unmarked]
           b == To(HeaderEnd(a), "HEADER_VALUE_ALMOST_DONE")
           w == Put(q.current, key, v)
<1>1. p = [b EXCEPT !.i = @ + 1]
  BY DEF Fed, Byte, HeaderValue
<1>2. a = [q EXCEPT !.text = v, !.value = Unmarked]
  BY DEF TextTo
<1>3. w \in Maps({"d", "t"})
  <2>1. q.current \in Maps({"d", "t"})
    BY DEF Readers
  <2>2. q.current \in [DOMAIN q.current -> Seq(Bytes)] /\ DOMAIN q.current \subseteq {"d", "t"}
    BY <2>1, MapIs
  <2>3. w \in [DOMAIN w -> Seq(Bytes)] /\ DOMAIN w = DOMAIN q.current \union {key}
    BY <2>2 DEF Put
  <2> HIDE DEF w
  <2>4. DOMAIN w \subseteq {"d", "t"}
    BY <2>2, <2>3
  <2> QED
    BY <2>3, <2>4, MapIs
<1> HIDE DEF a
<1>4. a.name[1] = key /\ a.text = v /\ a.current = q.current /\ Unmarked \in Nat
  <2>1. a.name = <<key>> /\ a.text = v /\ a.current = q.current
    BY <1>2 DEF Readers
  <2> QED
    BY <2>1 DEF Unmarked
<1>5. HeaderEnd(a) = [a EXCEPT !.current = w, !.name = << >>, !.text = << >>]
  BY <1>4 DEF HeaderEnd
<1>6. "HEADER_VALUE_ALMOST_DONE" \in States /\ << >> \in Seq(Bytes)
  BY DEF States
<1>7. b = [q EXCEPT !.text = << >>, !.value = Unmarked, !.current = w, !.name = << >>,
                    !.state = "HEADER_VALUE_ALMOST_DONE"]
  BY <1>2, <1>5 DEF To, Readers
<1> HIDE DEF b, w
<1>8. /\ b \in Readers /\ b.state = "HEADER_VALUE_ALMOST_DONE" /\ b.i = q.i /\ Kept(q, b) /\ b.current = w
      /\ b.field = q.field /\ b.value = Unmarked /\ b.name = << >> /\ b.text = << >>
  BY <1>3, <1>4, <1>6, <1>7 DEF Readers, Kept, SameForm
<1> QED
  BY <1>1, <1>8, Stepped DEF Kept, SameForm, w

\* HEADER_VALUE_ALMOST_DONE: LF.
LEMMA FedLineEnd ==
  ASSUME NEW q \in Readers, q.state = "HEADER_VALUE_ALMOST_DONE", NEW buffer, NEW p, p = Fed(q, "LF", buffer)
  PROVE  /\ p \in Readers /\ p.i = q.i + 1 /\ Kept(q, p) /\ p.state = "HEADER_FIELD_START"
         /\ p.name = q.name /\ p.text = q.text /\ p.current = q.current /\ p.field = q.field /\ p.value = q.value
<1> DEFINE b == To(q, "HEADER_FIELD_START")
<1>1. p = [b EXCEPT !.i = @ + 1]
  BY DEF Fed, Byte, Expect
<1>2. "HEADER_FIELD_START" \in States
  BY DEF States
<1>3. /\ b \in Readers /\ b.state = "HEADER_FIELD_START" /\ b.i = q.i /\ Kept(q, b) /\ b.current = q.current
      /\ b.field = q.field /\ b.value = q.value /\ b.name = q.name /\ b.text = q.text
  BY <1>2 DEF To, Readers, Kept, SameForm
<1> HIDE DEF b
<1> QED
  BY <1>1, <1>3, Stepped DEF Kept, SameForm

\* HEADERS_ALMOST_DONE: LF, where the part begins.
LEMMA FedHeadEnd ==
  ASSUME NEW q, q.state = "HEADERS_ALMOST_DONE", NEW buffer, NEW p, p = Fed(q, "LF", buffer),
         NEW a \in Readers, a = PartBegin(q)
  PROVE  /\ p \in Readers /\ p.i = a.i + 1 /\ Kept(a, p) /\ p.state = "PART_DATA_START"
         /\ p.name = a.name /\ p.text = a.text /\ p.current = a.current
         /\ p.field = a.field /\ p.value = a.value
<1> DEFINE b == To(a, "PART_DATA_START")
<1>1. p = [b EXCEPT !.i = @ + 1]
  BY DEF Fed, Byte
<1>2. "PART_DATA_START" \in States
  BY DEF States
<1>3. /\ b \in Readers /\ b.state = "PART_DATA_START" /\ b.i = a.i /\ Kept(a, b) /\ b.current = a.current
      /\ b.field = a.field /\ b.value = a.value /\ b.name = a.name /\ b.text = a.text
  BY <1>2 DEF To, Readers, Kept, SameForm
<1> HIDE DEF b
<1> QED
  BY <1>1, <1>3, Stepped DEF Kept, SameForm
\* A parser that is at the n-th byte of a body, of which f bytes are fed and r read.
At(c, q, f, r, n) ==
  /\ ClientInv(c) /\ q \in Readers /\ f \in Nat /\ r \in Nat /\ n \in Nat
  /\ q.i > 0 /\ n + 1 = f + q.i /\ n < r /\ r <= Len(c.body)

\* The types in At.
LEMMA AtIs ==
  ASSUME NEW c, NEW q, NEW f, NEW r, NEW n, At(c, q, f, r, n)
  PROVE  /\ ClientInv(c) /\ q \in Readers /\ f \in Nat /\ r \in Nat /\ n \in Nat /\ q.i \in Nat /\ q.i > 0
         /\ n + 1 = f + q.i /\ n < r /\ f <= n /\ r <= Len(c.body) /\ c.body \in Seq(Bytes) /\ Len(c.body) \in Nat
<1>1. c.body \in Seq(Bytes) /\ q.i \in Nat
  BY NumbersAre DEF At, ClientInv, Clients
<1>2. Len(c.body) \in Nat
  BY <1>1
<1> QED
  BY <1>1, <1>2 DEF At

\* What is marked is a piece of the body.
LEMMA MarkedIs ==
  ASSUME NEW c, NEW q, NEW f, NEW r, NEW n, At(c, q, f, r, n), NEW mark \in Nat, mark > 0, f + mark <= n + 1
  PROVE  Marked(SubSeq(c.body, f + 1, r), mark, q) = SubSeq(c.body, f + mark, n)
<1> DEFINE j == q.i - 1
           b == c.body
<1>1. /\ b \in Seq(Bytes) /\ f \in Nat /\ r \in Nat /\ f <= r /\ r <= Len(b) /\ j \in Nat
      /\ 1 <= mark /\ mark <= j + 1 /\ f + j = n /\ f + j <= r
  BY AtIs
<1>2. Marked(SubSeq(b, f + 1, r), mark, q) = SubSeq(SubSeq(b, f + 1, r), mark, j)
  BY DEF Marked
<1> HIDE DEF j, b
<1>3. SubSeq(SubSeq(b, f + 1, r), mark, j) = SubSeq(b, f + mark, f + j)
  BY <1>1, PieceOfPiece
<1> QED
  BY <1>1, <1>2, <1>3 DEF b

\* The name up to the byte the parser is at.
LEMMA NameMarked ==
  ASSUME NEW c, NEW q, NEW f, NEW r, NEW n, At(c, q, f, r, n), q.field > 0, f + q.field <= n + 1
  PROVE  Marked(SubSeq(c.body, f + 1, r), q.field, q) = SubSeq(c.body, f + q.field, n)
<1>1. q.field \in Nat
  BY AtIs, NumbersAre
<1> QED
  BY <1>1, MarkedIs

\* The value up to the byte the parser is at.
LEMMA ValueMarked ==
  ASSUME NEW c, NEW q, NEW f, NEW r, NEW n, At(c, q, f, r, n), q.value > 0, f + q.value <= n + 1
  PROVE  Marked(SubSeq(c.body, f + 1, r), q.value, q) = SubSeq(c.body, f + q.value, n)
<1>1. q.value \in Nat
  BY AtIs, NumbersAre
<1> QED
  BY <1>1, MarkedIs

\* The bytes of a part's headers.
LEMMA HeadBytes ==
  ASSUME NEW c, ClientInv(c), NEW k \in 1..Len(c.parts)
  PROVE  /\ c.at[k] \in Nat /\ KeyEnds(c, k) \in Nat /\ HeadEnds(c, k) \in Nat
         /\ KeyEnds(c, k) = IF c.parts[k].file THEN c.at[k] + 5 ELSE c.at[k] + 4
         /\ HeadEnds(c, k) = IF c.parts[k].typed THEN KeyEnds(c, k) + 9 ELSE KeyEnds(c, k) + 4
         /\ HeadThere(c.body, c.parts[k], c.at[k], KeyEnds(c, k), HeadEnds(c, k))
         /\ c.parts[k].key \in {"x", "y"}
<1>1. /\ c.at[k] \in Nat /\ KeyEnds(c, k) \in Nat /\ HeadEnds(c, k) \in Nat
      /\ PartThere(c, k) /\ c.parts[k] \in FormParts
  BY PlacesAre
<1>2. c.parts[k].key \in {"x", "y"}
  BY <1>1, NameValueIs
<1>3. KeyEnds(c, k) = IF c.parts[k].file THEN c.at[k] + 5 ELSE c.at[k] + 4
  BY DEF KeyEnds
<1>4. HeadEnds(c, k) = IF c.parts[k].typed THEN KeyEnds(c, k) + 9 ELSE KeyEnds(c, k) + 4
  BY DEF HeadEnds
<1>5. HeadThere(c.body, c.parts[k], c.at[k], KeyEnds(c, k), HeadEnds(c, k))
  BY <1>1 DEF PartThere
<1> QED
  BY <1>1, <1>2, <1>3, <1>4, <1>5

\* The form before a part depends on what Kept keeps.
LEMMA SoFarKept ==
  ASSUME NEW c, NEW q, NEW p, NEW k, SoFar(c, q, k), Kept(q, p)
  PROVE  SoFar(c, p, k)
BY DEF SoFar, Kept, SameForm

\* The headers that are complete are the same, but where a line ends.
LEMMA TookSame ==
  ASSUME NEW c, NEW q, NEW p, NEW k, NEW n \in Nat, Took(c, q, k, n), p.current = q.current,
         KeyEnds(c, k) \in Nat, n # KeyEnds(c, k)
  PROVE  Took(c, p, k, n + 1)
<1>1. n <= KeyEnds(c, k) <=> n + 1 <= KeyEnds(c, k)
  OBVIOUS
<1> QED
  BY <1>1 DEF Took

\* The parser at the first byte of a line goes on.
LEMMA LineGoesOn ==
  ASSUME NEW c, NEW q, NEW f, NEW r, NEW n, At(c, q, f, r, n), NEW k \in 1..Len(c.parts),
         SoFar(c, q, k), Took(c, q, k, n), LineStarts(c, q, k, n),
         NEW buffer, NEW p, p = Fed(q, c.body[n + 1], buffer)
  PROVE  p \in Readers /\ p.i = q.i + 1 /\ p.first = q.first /\ InHead(c, p, k, f, n + 1)
<1> DEFINE a == c.at[k]
           e == KeyEnds(c, k)
           h == HeadEnds(c, k)
           b == c.body
           ch == b[n + 1]
           part == c.parts[k]
<1>1. /\ a \in Nat /\ e \in Nat /\ h \in Nat /\ HeadThere(b, part, a, e, h)
      /\ e = IF part.file THEN a + 5 ELSE a + 4
      /\ h = IF part.typed THEN e + 9 ELSE e + 4
  <2>1. ClientInv(c)
    BY AtIs
  <2> QED
    BY <2>1, HeadBytes
<1>2. q \in Readers /\ f \in Nat /\ n \in Nat /\ q.i \in Nat /\ q.i > 0 /\ n + 1 = f + q.i
  BY AtIs
<1>3. q.state = "HEADER_FIELD_START" /\ Idle(q) /\ (n = a \/ n = e + 2 \/ n = h - 2)
  BY DEF LineStarts
<1> DEFINE typed == part.typed
<1> HIDE DEF a, e, h, b, part
<1>10. /\ typed => h = e + 9 /\ b[e + 3] = "t"
       /\ ~typed => h = e + 4
       /\ b[a + 1] = "d" /\ b[h - 1] = "CR" /\ (e = a + 4 \/ e = a + 5)
  BY <1>1 DEF HeadThere
<1> HIDE DEF typed
<1>4. /\ ch \in {"CR", "d", "t"} /\ n # e
      /\ ch = "CR" => n = h - 2
      /\ ch # "CR" => n = a \/ (typed /\ n = e + 2)
  <2>1. CASE n = a
    BY <1>1, <1>10, <2>1
  <2>2. CASE n = e + 2 /\ typed
    <3>1. n + 1 = e + 3
      BY <1>1, <1>10, <2>2
    <3> QED
      BY <1>1, <1>10, <2>2, <3>1
  <2>3. CASE n = h - 2
    <3>1. n + 1 = h - 1
      BY <1>1, <1>10, <2>3
    <3> QED
      BY <1>1, <1>10, <2>3, <3>1
  <2>4. CASE n = e + 2 /\ ~typed
    BY <1>1, <1>10, <2>3, <2>4
  <2> QED
    BY <1>3, <2>1, <2>2, <2>3, <2>4
<1>5. p = Fed(q, ch, buffer)
  BY DEF b
<1> HIDE DEF ch
<1>6. /\ p \in Readers /\ p.i = q.i + 1 /\ Kept(q, p)
      /\ p.value = q.value /\ p.name = q.name /\ p.text = q.text /\ p.current = q.current
      /\ ch = "CR" => p.state = "HEADERS_ALMOST_DONE" /\ p.field = Unmarked
      /\ ch # "CR" => p.state = "HEADER_FIELD" /\ p.field = q.i /\ p.index = 1
  BY <1>2, <1>3, <1>4, <1>5, FedLineStart
<1>7. SoFar(c, p, k) /\ Took(c, p, k, n + 1)
  BY <1>1, <1>10, <1>2, <1>4, <1>6, SoFarKept, TookSame DEF e
<1>8. CASE ch = "CR"
  <2>1. HeadStops(c, p, k, n + 1)
    <3>1. n + 1 = h - 1
      BY <1>1, <1>10, <1>2, <1>4, <1>8
    <3> QED
      BY <1>3, <1>6, <1>8, <3>1 DEF HeadStops, Idle, h
  <2> QED
    BY <1>6, <1>7, <2>1 DEF InHead, Kept, SameForm
<1>9. CASE ch # "CR"
  <2>1. InName(c, p, k, f, n + 1)
    <3>1. n + 1 = a + 1 \/ (typed /\ n + 1 = e + 3)
      BY <1>1, <1>10, <1>2, <1>4, <1>9
    <3>2. p.field > 0 /\ f + p.field = n + 1
      BY <1>2, <1>6, <1>9
    <3> QED
      BY <1>3, <1>6, <1>9, <3>1, <3>2 DEF InName, Idle, a, e, part, typed
  <2> QED
    BY <1>6, <1>7, <2>1 DEF InHead, Kept, SameForm
<1> QED
  BY <1>8, <1>9
\* A piece of one byte.
LEMMA OneByte ==
  ASSUME NEW b \in Seq(Bytes), NEW n \in 1..Len(b)
  PROVE  SubSeq(b, n, n) = <<b[n]>> /\ b[n] \in Bytes
<1> DEFINE s == SubSeq(b, n, n)
           x == b[n]
<1>1. n \in Nat /\ Len(b) \in Nat /\ 1 <= n /\ n <= n + 1 /\ n <= Len(b) /\ n + 1 - n = 1 /\ x \in Bytes
  OBVIOUS
<1>2. s \in Seq(Bytes) /\ Len(s) = 1 /\ s[1] = x
  <2>1. /\ s \in Seq(Bytes) /\ Len(s) = n + 1 - n
        /\ \A i \in 1..(n + 1 - n) : s[i] = b[n + i - 1]
    BY <1>1, PieceIs
  <2> HIDE DEF s
  <2> QED
    BY <1>1, <2>1
<1> HIDE DEF s, x
<1>3. s = <<x>>
  BY <1>1, <1>2
<1> QED
  BY <1>1, <1>3 DEF s, x

\* The parser in a name goes on.
LEMMA NameGoesOn ==
  ASSUME NEW c, NEW q, NEW f, NEW r, NEW n, At(c, q, f, r, n), NEW k \in 1..Len(c.parts),
         SoFar(c, q, k), Took(c, q, k, n), InName(c, q, k, f, n),
         NEW p, p = Fed(q, c.body[n + 1], SubSeq(c.body, f + 1, r))
  PROVE  p \in Readers /\ p.i = q.i + 1 /\ p.first = q.first /\ InHead(c, p, k, f, n + 1)
<1> DEFINE a == c.at[k]
           e == KeyEnds(c, k)
           h == HeadEnds(c, k)
           b == c.body
           ch == b[n + 1]
           part == c.parts[k]
           typed == part.typed
           buffer == SubSeq(c.body, f + 1, r)
           v == NameTo(q, buffer)
<1>1. /\ a \in Nat /\ e \in Nat /\ h \in Nat /\ HeadThere(b, part, a, e, h)
      /\ e = IF part.file THEN a + 5 ELSE a + 4
  <2>1. ClientInv(c)
    BY AtIs
  <2> QED
    BY <2>1, HeadBytes
<1>2. /\ q \in Readers /\ f \in Nat /\ n \in Nat /\ q.i \in Nat /\ q.i > 0 /\ n + 1 = f + q.i
      /\ b \in Seq(Bytes) /\ Len(b) \in Nat /\ n < Len(b)
  BY AtIs
<1>3. /\ q.state = "HEADER_FIELD" /\ q.index = 1 /\ q.value = Unmarked /\ q.text = << >>
      /\ n = a + 1 \/ (typed /\ n = e + 3)
      /\ q.field > 0
      /\ \/ f + q.field = n /\ q.name = << >>
         \/ f + q.field = n + 1 /\ q.name = NameAt(c, k, n)
  BY DEF InName
<1> HIDE DEF a, e, h, b, part
<1>4. /\ typed => b[e + 3] = "t" /\ b[e + 4] = ":"
      /\ b[a + 1] = "d" /\ b[a + 2] = ":" /\ (e = a + 4 \/ e = a + 5)
  BY <1>1 DEF HeadThere
<1> HIDE DEF typed
<1>5. /\ ch = ":" /\ n # e /\ n > 0
      /\ n <= e => n = a + 1 /\ b[n] = "d" /\ n + 1 <= e
      /\ ~(n <= e) => b[n] = "t" /\ ~(n + 1 <= e)
  <2>1. CASE n = a + 1
    <3>1. n + 1 = a + 2
      BY <1>1, <2>1
    <3> QED
      BY <1>1, <1>4, <2>1, <3>1
  <2>2. CASE typed /\ n = e + 3
    <3>1. n + 1 = e + 4
      BY <1>1, <2>2
    <3> QED
      BY <1>1, <1>4, <2>2, <3>1
  <2> QED
    BY <1>3, <2>1, <2>2
<1>6. q.field \in Nat /\ q.name \in Seq(Bytes)
  BY <1>2, NumbersAre
<1>7. Marked(buffer, q.field, q) = SubSeq(b, f + q.field, n)
  <2>1. f + q.field <= n + 1
    BY <1>2, <1>3, <1>6
  <2> QED
    BY <1>3, <2>1, NameMarked DEF b
<1>8. v = NameAt(c, k, n + 1) /\ v \in Seq(Bytes)
  <2>1. NameAt(c, k, n + 1) = NameAt(c, k, n) /\ NameAt(c, k, n) = <<b[n]>> /\ b[n] \in Bytes
    <3>1. NameAt(c, k, n + 1) = NameAt(c, k, n) /\ NameAt(c, k, n) = <<b[n]>>
      BY <1>5 DEF NameAt, e
    <3>2. b[n] \in Bytes
      BY <1>5 DEF Bytes
    <3> QED
      BY <3>1, <3>2
  <2>2. v = q.name \o SubSeq(b, f + q.field, n)
    BY <1>7 DEF NameTo
  <2>3. CASE f + q.field = n /\ q.name = << >>
    <3>1. SubSeq(b, n, n) = <<b[n]>>
      BY <1>2, <1>5, OneByte
    <3>2. <<b[n]>> \in Seq(Bytes)
      BY <2>1
    <3>3. v = << >> \o <<b[n]>>
      BY <2>2, <2>3, <3>1
    <3>4. << >> \o <<b[n]>> = <<b[n]>>
      BY <3>2, ConcatEmptySeq
    <3> QED
      BY <2>1, <3>2, <3>3, <3>4
  <2>4. CASE f + q.field = n + 1 /\ q.name = NameAt(c, k, n)
    <3>1. SubSeq(b, n + 1, n) = << >>
      BY <1>2, SubSeqEmpty
    <3>2. q.name \o << >> = q.name
      BY <1>6, ConcatEmptySeq
    <3> QED
      BY <1>6, <2>1, <2>2, <2>4, <3>1, <3>2
  <2> QED
    BY <1>3, <2>3, <2>4
<1> HIDE DEF v, ch
<1>9. p = Fed(q, ":", buffer)
  BY <1>5 DEF b, ch
<1>10. /\ p \in Readers /\ p.i = q.i + 1 /\ Kept(q, p)
       /\ p.value = q.value /\ p.name = v /\ p.text = q.text /\ p.current = q.current
       /\ p.state = "HEADER_VALUE_START" /\ p.field = Unmarked
  <2>1. v = NameTo(q, buffer)
    BY DEF v
  <2> QED
    BY <1>2, <1>3, <1>8, <1>9, <2>1, FedInName
<1>11. SoFar(c, p, k) /\ Took(c, p, k, n + 1)
  BY <1>1, <1>2, <1>5, <1>10, SoFarKept, TookSame DEF e
<1>12. AfterName(c, p, k, n + 1)
  <2>1. n + 1 \in {a + 2, a + 3} \/ (typed /\ n + 1 = e + 4)
    BY <1>1, <1>2, <1>3
  <2> QED
    BY <1>3, <1>8, <1>10, <2>1 DEF AfterName, a, e, part, typed
<1> QED
  BY <1>10, <1>11, <1>12 DEF InHead, Kept, SameForm

\* The parser behind a name goes on.
LEMMA AfterNameGoesOn ==
  ASSUME NEW c, NEW q, NEW f, NEW r, NEW n, At(c, q, f, r, n), NEW k \in 1..Len(c.parts),
         SoFar(c, q, k), Took(c, q, k, n), AfterName(c, q, k, n),
         NEW buffer, NEW p, p = Fed(q, c.body[n + 1], buffer)
  PROVE  p \in Readers /\ p.i = q.i + 1 /\ p.first = q.first /\ InHead(c, p, k, f, n + 1)
<1> DEFINE a == c.at[k]
           e == KeyEnds(c, k)
           h == HeadEnds(c, k)
           b == c.body
           ch == b[n + 1]
           part == c.parts[k]
           typed == part.typed
<1>1. /\ a \in Nat /\ e \in Nat /\ h \in Nat /\ HeadThere(b, part, a, e, h)
      /\ e = IF part.file THEN a + 5 ELSE a + 4
      /\ part.key \in {"x", "y"}
  <2>1. ClientInv(c)
    BY AtIs
  <2> QED
    BY <2>1, HeadBytes
<1>2. /\ q \in Readers /\ f \in Nat /\ n \in Nat /\ q.i \in Nat /\ q.i > 0 /\ n + 1 = f + q.i
  BY AtIs
<1>3. /\ q.state = "HEADER_VALUE_START" /\ q.field = Unmarked /\ q.value = Unmarked /\ q.text = << >>
      /\ n = a + 2 \/ n = a + 3 \/ (typed /\ n = e + 4)
      /\ q.name = NameAt(c, k, n)
  BY DEF AfterName
<1> HIDE DEF a, e, h, b, part
<1>4. /\ typed => b[e + 5] = "x"
      /\ b[a + 3] = "SP" /\ b[a + 4] \in {"x", "y"} /\ (e = a + 4 \/ e = a + 5)
  BY <1>1 DEF HeadThere
<1> HIDE DEF typed
<1>5. /\ ch # "CR" /\ n # e
      /\ ch = "SP" <=> n = a + 2
      /\ n <= e <=> n + 1 <= e
  <2>1. CASE n = a + 2
    <3>1. n + 1 = a + 3
      BY <1>1, <2>1
    <3> QED
      BY <1>1, <1>4, <2>1, <3>1
  <2>2. CASE n = a + 3
    <3>1. n + 1 = a + 4
      BY <1>1, <2>2
    <3> QED
      BY <1>1, <1>4, <2>2, <3>1
  <2>3. CASE typed /\ n = e + 4
    <3>1. n + 1 = e + 5
      BY <1>1, <2>3
    <3> QED
      BY <1>1, <1>4, <2>3, <3>1
  <2> QED
    BY <1>3, <2>1, <2>2, <2>3
<1>6. p = Fed(q, ch, buffer)
  BY DEF b
<1> HIDE DEF ch
<1>7. /\ p \in Readers /\ p.i = q.i + 1 /\ Kept(q, p)
      /\ p.name = q.name /\ p.text = q.text /\ p.current = q.current /\ p.field = q.field
      /\ ch = "SP" => p.state = "HEADER_VALUE_START" /\ p.value = q.value
      /\ ch # "SP" => p.state = "HEADER_VALUE" /\ p.value = q.i
  BY <1>2, <1>3, <1>5, <1>6, FedAfterName
<1>8. SoFar(c, p, k) /\ Took(c, p, k, n + 1)
  BY <1>1, <1>2, <1>5, <1>7, SoFarKept, TookSame DEF e
<1>9. p.name = NameAt(c, k, n + 1)
  BY <1>3, <1>5, <1>7 DEF NameAt, e
<1>10. CASE ch = "SP"
  <2>1. AfterName(c, p, k, n + 1)
    <3>1. n + 1 = a + 3
      BY <1>1, <1>5, <1>10
    <3> QED
      BY <1>3, <1>7, <1>9, <1>10, <3>1 DEF AfterName, a
  <2> QED
    BY <1>7, <1>8, <2>1 DEF InHead, Kept, SameForm
<1>11. CASE ch # "SP"
  <2>1. p.value > 0 /\ f + p.value = n + 1 /\ p.text = << >> /\ p.value \in Nat
    BY <1>2, <1>3, <1>7, <1>11
  <2>2. ASSUME NEW s \in Nat, n = s PROVE InValueFrom(c, p, k, f, n + 1, s)
    <3>1. SubSeq(c.body, s + 1, f + p.value - 1) = << >>
      BY <1>2, <2>1, <2>2, SubSeqEmpty
    <3>2. s < f + p.value /\ f + p.value <= n + 1 + 1
      BY <1>2, <2>1, <2>2
    <3> QED
      BY <2>1, <3>1, <3>2 DEF InValueFrom
  <2>3. InValue(c, p, k, f, n + 1)
    <3>1. CASE n = a + 3
      <4>1. n + 1 \in (a + 4)..e
        BY <1>1, <1>4, <3>1
      <4>2. InValueFrom(c, p, k, f, n + 1, a + 3)
        BY <1>1, <2>2, <3>1
      <4> QED
        BY <1>3, <1>7, <1>9, <1>11, <4>1, <4>2 DEF InValue, a, e
    <3>2. CASE typed /\ n = e + 4
      <4>1. n + 1 = e + 5
        BY <1>1, <3>2
      <4>2. InValueFrom(c, p, k, f, n + 1, e + 4)
        BY <1>1, <2>2, <3>2
      <4> QED
        BY <1>3, <1>7, <1>9, <1>11, <3>2, <4>1, <4>2 DEF InValue, e, part, typed
    <3> QED
      BY <1>3, <1>5, <1>11, <3>1, <3>2
  <2> QED
    BY <1>7, <1>8, <2>3 DEF InHead, Kept, SameForm
<1> QED
  BY <1>10, <1>11
\* The value of Content-Disposition is where it should be.
LEMMA ValueThere ==
  ASSUME NEW c, ClientInv(c), NEW k \in 1..Len(c.parts)
  PROVE  SubSeq(c.body, c.at[k] + 4, KeyEnds(c, k)) = NameValue(c.parts[k])
<1> DEFINE a == c.at[k]
           e == KeyEnds(c, k)
           b == c.body
           part == c.parts[k]
           s == SubSeq(b, a + 4, e)
           v == NameValue(part)
<1>1. /\ a \in Nat /\ e \in Nat /\ HeadThere(b, part, a, e, HeadEnds(c, k))
      /\ e = IF part.file THEN a + 5 ELSE a + 4
  BY HeadBytes
<1>2. b \in Seq(Bytes) /\ Len(b) \in Nat /\ part \in FormParts /\ e <= Len(b)
  <2>1. /\ b \in Seq(Bytes) /\ Len(b) \in Nat /\ part \in FormParts /\ Len(part.data) \in Nat
        /\ PartEnds(c, k) <= Len(b) /\ PartEnds(c, k) = DataEnds(c, k) + boundarySize
        /\ DataEnds(c, k) = HeadEnds(c, k) + Len(part.data)
        /\ HeadEnds(c, k) \in {e + 4, e + 9} /\ HeadEnds(c, k) \in Nat
    BY PlacesAre
  <2>2. boundarySize \in Nat
    BY BoundaryIs
  <2> DEFINE h == HeadEnds(c, k)
             d == DataEnds(c, k)
             l == Len(part.data)
             x == Len(b)
  <2>3. /\ e \in Nat /\ h \in Nat /\ l \in Nat /\ x \in Nat /\ boundarySize \in Nat
        /\ d + boundarySize <= x /\ d = h + l /\ h \in {e + 4, e + 9}
    BY <1>1, <2>1, <2>2
  <2> HIDE DEF e, h, d, l, x
  <2>4. e <= x
    BY <2>3
  <2> QED
    BY <2>1, <2>4 DEF x
<1> HIDE DEF a, e, b, part
<1>3. /\ s \in Seq(Bytes) /\ Len(s) = e + 1 - (a + 4)
      /\ \A i \in 1..(e + 1 - (a + 4)) : s[i] = b[a + 4 + i - 1]
  <2> DEFINE m == a + 4
  <2>1. m \in Nat /\ 1 <= m /\ m <= e + 1
    BY <1>1
  <2> HIDE DEF m
  <2>2. /\ SubSeq(b, m, e) \in Seq(Bytes) /\ Len(SubSeq(b, m, e)) = e + 1 - m
        /\ \A i \in 1..(e + 1 - m) : SubSeq(b, m, e)[i] = b[m + i - 1]
    BY <1>1, <1>2, <2>1, PieceIs
  <2> QED
    BY <2>2 DEF m
<1>4. v \in Seq(Bytes)
  BY <1>2, NameValueIs
<1>5. b[a + 4] = part.key /\ (part.file => b[a + 5] = "f")
  BY <1>1 DEF HeadThere
<1>6. CASE part.file
  <2>1. v = <<part.key, "f">>
    BY <1>6 DEF NameValue
  <2>2. Len(v) = 2 /\ v[1] = part.key /\ v[2] = "f"
    BY <2>1
  <2>3. Len(s) = 2 /\ s[1] = part.key /\ s[2] = "f"
    <3> HIDE DEF s, v
    <3>1. e + 1 - (a + 4) = 2 /\ a + 4 + 1 - 1 = a + 4 /\ a + 4 + 2 - 1 = a + 5
      BY <1>1, <1>6
    <3>2. s[1] = b[a + 4 + 1 - 1] /\ s[2] = b[a + 4 + 2 - 1] /\ Len(s) = 2
      BY <1>3, <3>1
    <3> QED
      BY <1>5, <1>6, <3>1, <3>2
  <2> HIDE DEF s, v
  <2>4. \A i \in 1..Len(s) : s[i] = v[i]
    BY <2>2, <2>3
  <2>5. s = v
    BY <1>3, <1>4, <2>2, <2>3, <2>4, SeqEqual
  <2> QED
    BY <2>5 DEF s, v, a, e, b, part
<1>7. CASE ~part.file
  <2>1. v = <<part.key>>
    BY <1>7 DEF NameValue
  <2>2. Len(v) = 1 /\ v[1] = part.key
    BY <2>1
  <2>3. Len(s) = 1 /\ s[1] = part.key
    <3> HIDE DEF s, v
    <3>1. e + 1 - (a + 4) = 1 /\ a + 4 + 1 - 1 = a + 4
      BY <1>1, <1>7
    <3>2. s[1] = b[a + 4 + 1 - 1] /\ Len(s) = 1
      BY <1>3, <3>1
    <3> QED
      BY <1>5, <3>1, <3>2
  <2> HIDE DEF s, v
  <2>4. \A i \in 1..Len(s) : s[i] = v[i]
    BY <2>2, <2>3
  <2>5. s = v
    BY <1>3, <1>4, <2>2, <2>3, <2>4, SeqEqual
  <2> QED
    BY <2>5 DEF s, v, a, e, b, part
<1> QED
  BY <1>6, <1>7

\* The parser in a value goes on.
LEMMA ValueGoesOn ==
  ASSUME NEW c, NEW q, NEW f, NEW r, NEW n, At(c, q, f, r, n), NEW k \in 1..Len(c.parts),
         SoFar(c, q, k), Took(c, q, k, n), InValue(c, q, k, f, n),
         NEW p, p = Fed(q, c.body[n + 1], SubSeq(c.body, f + 1, r))
  PROVE  p \in Readers /\ p.i = q.i + 1 /\ p.first = q.first /\ InHead(c, p, k, f, n + 1)
<1> DEFINE a == c.at[k]
           e == KeyEnds(c, k)
           h == HeadEnds(c, k)
           b == c.body
           ch == b[n + 1]
           part == c.parts[k]
           typed == part.typed
           buffer == SubSeq(c.body, f + 1, r)
           v == TextTo(q, buffer)
<1>1. /\ a \in Nat /\ e \in Nat /\ h \in Nat /\ HeadThere(b, part, a, e, h)
      /\ e = IF part.file THEN a + 5 ELSE a + 4
  <2>1. ClientInv(c)
    BY AtIs
  <2> QED
    BY <2>1, HeadBytes
<1>2. /\ q \in Readers /\ f \in Nat /\ n \in Nat /\ q.i \in Nat /\ q.i > 0 /\ n + 1 = f + q.i
      /\ b \in Seq(Bytes) /\ Len(b) \in Nat /\ n < Len(b) /\ q.value \in Nat /\ ClientInv(c)
  BY AtIs, NumbersAre
<1>3. /\ q.state = "HEADER_VALUE" /\ q.field = Unmarked /\ q.name = NameAt(c, k, n)
      /\ \/ n \in (a + 4)..e /\ InValueFrom(c, q, k, f, n, a + 3)
         \/ typed /\ n = e + 5 /\ InValueFrom(c, q, k, f, n, e + 4)
  BY DEF InValue
<1>4. p = Fed(q, ch, buffer)
  OBVIOUS
<1>5. v = TextTo(q, buffer)
  OBVIOUS
<1>6. a + 3 + 1 = a + 4 /\ a + 3 \in Nat /\ e + 4 \in Nat
  BY <1>1, SMTT(30)
<1> HIDE DEF a, e, h, b, part, v
<1>7. /\ typed => b[e + 6] = "CR"
      /\ part.file => b[a + 5] = "f"
      /\ b[e + 1] = "CR"
  BY <1>1 DEF HeadThere
<1> HIDE DEF typed
<1>13. ASSUME NEW s \in Nat, InValueFrom(c, q, k, f, n, s)
       PROVE  v = SubSeq(b, s + 1, n) /\ v \in Seq(Bytes)
  <2> DEFINE m == s + 1
             w == f + q.value - 1
  <2>1. q.value > 0 /\ s < f + q.value /\ f + q.value <= n + 1
    BY <1>13 DEF InValueFrom
  <2>7. q.text = SubSeq(b, m, w)
    BY <1>13 DEF InValueFrom, b
  <2>2. /\ m \in Nat /\ w \in Nat /\ 1 <= m /\ m <= w + 1 /\ w <= n /\ n <= Len(b) /\ m <= n + 1
        /\ w + 1 = f + q.value
    <3> DEFINE y == q.value
               x == Len(b)
    <3>1. /\ f \in Nat /\ n \in Nat /\ y \in Nat /\ x \in Nat /\ s \in Nat /\ n < x
          /\ y > 0 /\ s < f + y /\ f + y <= n + 1
      BY <1>2, <2>1
    <3> HIDE DEF x, y
    <3>2. /\ s + 1 \in Nat /\ f + y - 1 \in Nat /\ 1 <= s + 1 /\ s + 1 <= f + y - 1 + 1 /\ f + y - 1 <= n
          /\ n <= x /\ s + 1 <= n + 1 /\ f + y - 1 + 1 = f + y
      BY <3>1
    <3> QED
      BY <3>2 DEF x, y
  <2>3. Marked(buffer, q.value, q) = SubSeq(b, w + 1, n)
    <3>1. Marked(buffer, q.value, q) = SubSeq(b, f + q.value, n)
      BY <2>1, ValueMarked DEF b
    <3> QED
      BY <2>2, <3>1
  <2> HIDE DEF m, w
  <2>4. SubSeq(b, m, w) \o SubSeq(b, w + 1, n) = SubSeq(b, m, n)
    BY <1>2, <2>2, PiecesJoin
  <2>5. SubSeq(b, m, n) \in Seq(Bytes)
    BY <1>2, <2>2, PieceIs
  <2>6. v = q.text \o Marked(buffer, q.value, q)
    BY <1>5 DEF TextTo
  <2> QED
    BY <2>3, <2>4, <2>5, <2>6, <2>7 DEF m
<1>8. CASE n \in (a + 4)..e /\ n # e
  <2>1. n = a + 4 /\ n + 1 = a + 5 /\ part.file /\ n + 1 \in (a + 4)..e /\ n <= e /\ n + 1 <= e
    BY <1>1, <1>2, <1>8
  <2>2. InValueFrom(c, q, k, f, n, a + 3)
    BY <1>1, <1>3, <1>8
  <2>3. ch # "CR"
    BY <1>7, <2>1
  <2> HIDE DEF ch
  <2>4. /\ p \in Readers /\ p.i = q.i + 1 /\ Kept(q, p) /\ p.state = q.state
        /\ p.name = q.name /\ p.text = q.text /\ p.current = q.current /\ p.field = q.field /\ p.value = q.value
    BY <1>2, <1>3, <1>4, <2>3, FedInValue
  <2>5. SoFar(c, p, k) /\ Took(c, p, k, n + 1)
    BY <1>1, <1>2, <1>8, <2>4, SoFarKept, TookSame DEF e
  <2>6. InValueFrom(c, p, k, f, n + 1, a + 3)
    <3>1. f + q.value <= n + 1 => f + q.value <= n + 1 + 1
      BY <1>2
    <3> QED
      BY <2>2, <2>4, <3>1 DEF InValueFrom
  <2>7. p.name = NameAt(c, k, n + 1)
    BY <1>3, <2>1, <2>4 DEF NameAt, e
  <2>8. InValue(c, p, k, f, n + 1)
    BY <1>3, <2>1, <2>4, <2>6, <2>7 DEF InValue, a, e
  <2> QED
    BY <2>4, <2>5, <2>8 DEF InHead, Kept, SameForm
<1>9. ASSUME ch = "CR", v \in Seq(Bytes), NEW key \in {"d", "t"}, NameAt(c, k, n) = <<key>>
      PROVE  /\ p \in Readers /\ p.i = q.i + 1 /\ Kept(q, p) /\ p.state = "HEADER_VALUE_ALMOST_DONE"
             /\ Idle(p) /\ p.current = Put(q.current, key, v)
  <2>1. p = Fed(q, "CR", buffer)
    BY <1>4, <1>9
  <2> HIDE DEF ch, buffer
  <2>2. q.name = <<key>>
    BY <1>3, <1>9
  <2>3. /\ p \in Readers /\ p.i = q.i + 1 /\ Kept(q, p) /\ p.state = "HEADER_VALUE_ALMOST_DONE"
        /\ p.name = << >> /\ p.text = << >> /\ p.field = q.field /\ p.value = Unmarked
        /\ p.current = Put(q.current, key, v)
    BY <1>2, <1>3, <1>5, <1>9, <2>1, <2>2, FedValueEnd
  <2> QED
    BY <1>3, <2>3 DEF Idle
<1>10. q.current \in Maps({"d", "t"})
  BY <1>2 DEF Readers
<1>11. CASE n \in (a + 4)..e /\ n = e
  <2>1. InValueFrom(c, q, k, f, n, a + 3)
    BY <1>1, <1>3, <1>11
  <2>2. v = SubSeq(b, a + 4, e) /\ v \in Seq(Bytes)
    <3> DEFINE s == a + 3
    <3>1. s \in Nat /\ InValueFrom(c, q, k, f, n, s) /\ s + 1 = a + 4
      BY <1>6, <2>1
    <3> HIDE DEF s
    <3>2. v = SubSeq(b, s + 1, n) /\ v \in Seq(Bytes)
      BY <1>13, <3>1
    <3> QED
      BY <1>11, <3>1, <3>2
  <2>3. v = NameValue(part)
    BY <1>2, <2>2, ValueThere DEF a, e, b, part
  <2>4. ch = "CR" /\ NameAt(c, k, n) = <<"d">>
    BY <1>1, <1>7, <1>11 DEF NameAt, e
  <2>5. /\ p \in Readers /\ p.i = q.i + 1 /\ Kept(q, p) /\ p.state = "HEADER_VALUE_ALMOST_DONE"
        /\ Idle(p) /\ p.current = Put(q.current, "d", v)
    BY <1>9, <2>2, <2>4
  <2>6. DOMAIN q.current = {}
    BY <1>1, <1>11 DEF Took, e
  <2>7. "d" \in DOMAIN p.current /\ p.current["d"] = NameValue(part) /\ DOMAIN p.current = {"d"}
    <3>1. q.current \in [DOMAIN q.current -> Seq(Bytes)]
      BY <1>10, MapIs
    <3> QED
      BY <2>3, <2>5, <2>6, <3>1 DEF Put
  <2>8. SoFar(c, p, k) /\ Took(c, p, k, n + 1)
    <3>1. ~(n + 1 <= e)
      BY <1>1, <1>11
    <3>2. SoFar(c, p, k)
      BY <2>5, SoFarKept
    <3>3. Took(c, p, k, n + 1)
      BY <2>7, <3>1 DEF Took, e, part
    <3> QED
      BY <3>2, <3>3
  <2>9. LineEnds(c, p, k, n + 1)
    BY <1>11, <2>5 DEF LineEnds, e
  <2> QED
    BY <2>5, <2>8, <2>9 DEF InHead, Kept, SameForm
<1>12. CASE typed /\ n = e + 5
  <2>1. InValueFrom(c, q, k, f, n, e + 4)
    BY <1>1, <1>3, <1>12
  <2>2. v \in Seq(Bytes)
    BY <1>6, <1>13, <2>1
  <2>3. n + 1 = e + 6 /\ ~(n <= e) /\ ~(n + 1 <= e)
    BY <1>1, <1>12
  <2>4. ch = "CR" /\ NameAt(c, k, n) = <<"t">>
    BY <1>7, <1>12, <2>3 DEF NameAt, e
  <2>5. /\ p \in Readers /\ p.i = q.i + 1 /\ Kept(q, p) /\ p.state = "HEADER_VALUE_ALMOST_DONE"
        /\ Idle(p) /\ p.current = Put(q.current, "t", v)
    BY <1>9, <2>2, <2>4
  <2>6. "d" \in DOMAIN q.current /\ q.current["d"] = NameValue(part)
    BY <2>3 DEF Took, e, part
  <2>7. "d" \in DOMAIN p.current /\ p.current["d"] = NameValue(part)
    <3>1. q.current \in [DOMAIN q.current -> Seq(Bytes)]
      BY <1>10, MapIs
    <3> QED
      BY <2>5, <2>6, <3>1 DEF Put
  <2>8. SoFar(c, p, k) /\ Took(c, p, k, n + 1)
    <3>1. SoFar(c, p, k)
      BY <2>5, SoFarKept
    <3>2. Took(c, p, k, n + 1)
      BY <1>12, <2>3, <2>7 DEF Took, e, part, typed
    <3> QED
      BY <3>1, <3>2
  <2>9. LineEnds(c, p, k, n + 1)
    BY <1>12, <2>3, <2>5 DEF LineEnds, e, part, typed
  <2> QED
    BY <2>5, <2>8, <2>9 DEF InHead, Kept, SameForm
<1> QED
  BY <1>3, <1>8, <1>11, <1>12
\* The parser at the LF of a line goes on.
LEMMA LineEndGoesOn ==
  ASSUME NEW c, NEW q, NEW f, NEW r, NEW n, At(c, q, f, r, n), NEW k \in 1..Len(c.parts),
         SoFar(c, q, k), Took(c, q, k, n), LineEnds(c, q, k, n),
         NEW buffer, NEW p, p = Fed(q, c.body[n + 1], buffer)
  PROVE  p \in Readers /\ p.i = q.i + 1 /\ p.first = q.first /\ InHead(c, p, k, f, n + 1)
<1> DEFINE e == KeyEnds(c, k)
           h == HeadEnds(c, k)
           b == c.body
           ch == b[n + 1]
           part == c.parts[k]
           typed == part.typed
<1>1. /\ e \in Nat /\ h \in Nat /\ HeadThere(b, part, c.at[k], e, h)
      /\ h = IF typed THEN e + 9 ELSE e + 4
  <2>1. ClientInv(c)
    BY AtIs
  <2> QED
    BY <2>1, HeadBytes
<1>2. q \in Readers /\ n \in Nat
  BY AtIs
<1>3. q.state = "HEADER_VALUE_ALMOST_DONE" /\ Idle(q) /\ (n = e + 1 \/ (typed /\ n = e + 6))
  BY DEF LineEnds
<1> HIDE DEF e, h, b, part
<1>4. b[e + 2] = "LF" /\ (typed => b[e + 7] = "LF")
  BY <1>1 DEF HeadThere
<1> HIDE DEF typed
<1>5. ch = "LF" /\ n # e /\ (n + 1 = e + 2 \/ n + 1 = h - 2)
  <2>1. CASE n = e + 1
    <3>1. n + 1 = e + 2 /\ n # e
      BY <1>1, <2>1
    <3> QED
      BY <1>4, <3>1
  <2>2. CASE typed /\ n = e + 6
    <3>1. n + 1 = e + 7 /\ n # e /\ n + 1 = h - 2
      BY <1>1, <2>2
    <3> QED
      BY <1>4, <2>2, <3>1
  <2> QED
    BY <1>3, <2>1, <2>2
<1>6. p = Fed(q, "LF", buffer)
  BY <1>5 DEF b
<1>7. /\ p \in Readers /\ p.i = q.i + 1 /\ Kept(q, p) /\ p.state = "HEADER_FIELD_START"
      /\ p.name = q.name /\ p.text = q.text /\ p.current = q.current /\ p.field = q.field /\ p.value = q.value
  BY <1>2, <1>3, <1>6, FedLineEnd
<1>8. SoFar(c, p, k) /\ Took(c, p, k, n + 1)
  BY <1>1, <1>2, <1>5, <1>7, SoFarKept, TookSame DEF e
<1>9. LineStarts(c, p, k, n + 1)
  BY <1>3, <1>5, <1>7 DEF LineStarts, Idle, e, h
<1> QED
  BY <1>7, <1>8, <1>9 DEF InHead, Kept, SameForm

\* The parser at the LF that ends the headers begins the part.
LEMMA HeadStopsGoesOn ==
  ASSUME NEW c, NEW q, NEW f, NEW r, NEW n, At(c, q, f, r, n), NEW k \in 1..Len(c.parts),
         SoFar(c, q, k), Took(c, q, k, n), HeadStops(c, q, k, n), q.first = "d" \/ ~c.parts[k].typed,
         NEW buffer, NEW p, p = Fed(q, c.body[n + 1], buffer)
  PROVE  p \in Readers /\ p.i = q.i + 1 /\ p.first = q.first /\ DataStarts(c, p, k, n + 1)
<1> DEFINE e == KeyEnds(c, k)
           h == HeadEnds(c, k)
           b == c.body
           part == c.parts[k]
           a == PartBegin(q)
<1>1. /\ e \in Nat /\ h \in Nat /\ HeadThere(b, part, c.at[k], e, h)
      /\ h = IF part.typed THEN e + 9 ELSE e + 4
  <2>1. ClientInv(c)
    BY AtIs
  <2> QED
    BY <2>1, HeadBytes
<1>2. q \in Readers /\ n \in Nat /\ ClientInv(c)
  BY AtIs
<1>3. q.state = "HEADERS_ALMOST_DONE" /\ Idle(q) /\ n = h - 1
  BY DEF HeadStops
<1>4. n + 1 = h /\ ~(n <= e)
  <2> HIDE DEF e, h, part
  <2> QED
    BY <1>1, <1>2, <1>3
<1>5. c.body[n + 1] = "LF"
  <2> HIDE DEF e, h, part
  <2> QED
    BY <1>1, <1>4 DEF HeadThere
<1>6. /\ "d" \in DOMAIN q.current /\ q.current["d"] = NameValue(part)
      /\ ~part.typed => DOMAIN q.current = {"d"}
  BY <1>4 DEF Took
<1>7. a \in Readers /\ SameMarks(q, a) /\ a.current = << >> /\ Got(c, a, k, << >>)
  BY <1>2, <1>6, GotStarts
<1>8. p = Fed(q, "LF", buffer) /\ a = PartBegin(q)
  BY <1>5
<1> HIDE DEF a
<1>9. /\ p \in Readers /\ p.i = a.i + 1 /\ Kept(a, p) /\ p.state = "PART_DATA_START"
      /\ p.name = a.name /\ p.text = a.text /\ p.current = a.current
      /\ p.field = a.field /\ p.value = a.value
  BY <1>3, <1>7, <1>8, FedHeadEnd
<1>10. Got(c, p, k, << >>)
  BY <1>7, <1>9, GotSame DEF Kept
<1>11. ~q.part /\ ~q.last /\ q.data = Unmarked
  BY DEF SoFar
<1>12. DOMAIN p.current = {}
  BY <1>7, <1>9, EmptyMap
<1>13. DataStarts(c, p, k, n + 1)
  BY <1>3, <1>4, <1>7, <1>9, <1>10, <1>11, <1>12 DEF DataStarts, Idle, SameMarks, Kept
<1> QED
  BY <1>7, <1>9, <1>13 DEF SameMarks, Kept, SameForm

\* A byte of the headers of a part.
LEMMA HeadGoesOn ==
  ASSUME NEW c, NEW q, NEW f, NEW r, NEW n, At(c, q, f, r, n), NEW k \in 1..Len(c.parts),
         InHead(c, q, k, f, n), q.first = "d" \/ ~c.parts[k].typed,
         NEW p, p = Fed(q, c.body[n + 1], SubSeq(c.body, f + 1, r))
  PROVE  /\ p \in Readers /\ p.i = q.i + 1 /\ p.first = q.first
         /\ InHead(c, p, k, f, n + 1) \/ DataStarts(c, p, k, n + 1)
<1>1. SoFar(c, q, k) /\ Took(c, q, k, n)
  BY DEF InHead
<1>2. CASE LineStarts(c, q, k, n)
  BY <1>1, <1>2, LineGoesOn
<1>3. CASE InName(c, q, k, f, n)
  BY <1>1, <1>3, NameGoesOn
<1>4. CASE AfterName(c, q, k, n)
  BY <1>1, <1>4, AfterNameGoesOn
<1>5. CASE InValue(c, q, k, f, n)
  BY <1>1, <1>5, ValueGoesOn
<1>6. CASE LineEnds(c, q, k, n)
  BY <1>1, <1>6, LineEndGoesOn
<1>7. CASE HeadStops(c, q, k, n)
  BY <1>1, <1>7, HeadStopsGoesOn
<1> QED
  BY <1>2, <1>3, <1>4, <1>5, <1>6, <1>7 DEF InHead

----------------------------------------------------------------------------
(* A byte of the opening, and the beginning of a part's data *)

\* The bytes before the first part.
LEMMA FedOpening ==
  ASSUME NEW q \in Readers, NEW n \in Nat,
         IF n = 0 THEN q.state = "START" ELSE q.state = "START_BOUNDARY" /\ q.index = n,
         NEW ch, NEW buffer, NEW p, p = Fed(q, ch, buffer)
  PROVE  /\ ((n = boundarySize - 2 /\ ch = "CR") \/ (n < boundarySize - 2 /\ ch = boundary[n + 3])) =>
              /\ p \in Readers /\ p.i = q.i + 1 /\ Kept(q, p) /\ p.state = "START_BOUNDARY" /\ p.index = n + 1
              /\ p.field = q.field /\ p.value = q.value /\ p.name = q.name /\ p.text = q.text
              /\ p.current = q.current
         /\ n = boundarySize - 1 /\ ch = "LF" =>
              /\ p \in Readers /\ p.i = q.i + 1 /\ Kept(q, p) /\ p.state = "HEADER_FIELD_START"
              /\ p.field = q.field /\ p.value = q.value /\ p.name = q.name /\ p.text = q.text
              /\ p.current = q.current
<1> DEFINE a == IF n = 0 THEN To([q EXCEPT !.index = 0], "START_BOUNDARY") ELSE q
           b == StartBoundary(a, ch)
<1>1. p = [b EXCEPT !.i = @ + 1]
  <2>1. CASE n = 0
    BY <2>1 DEF Fed, Byte
  <2>2. CASE n # 0
    BY <2>2 DEF Fed, Byte
  <2> QED
    BY <2>1, <2>2
<1>2. /\ a \in Readers /\ a.i = q.i /\ Kept(q, a) /\ a.state = "START_BOUNDARY" /\ a.index = n
      /\ a.field = q.field /\ a.value = q.value /\ a.name = q.name /\ a.text = q.text /\ a.current = q.current
  <2>1. "START_BOUNDARY" \in States
    BY DEF States
  <2>2. CASE n = 0
    BY <2>1, <2>2 DEF To, Readers, Kept, SameForm
  <2>3. CASE n # 0
    BY <2>3 DEF Kept, SameForm
  <2> QED
    BY <2>2, <2>3
<1> HIDE DEF a
<1>3. boundarySize \in Nat /\ boundarySize >= 4
  BY BoundaryIs
<1>4. CASE (n = boundarySize - 2 /\ ch = "CR") \/ (n < boundarySize - 2 /\ ch = boundary[n + 3])
  <2>1. b = [a EXCEPT !.index = n + 1]
    <3>1. CASE n = boundarySize - 2 /\ ch = "CR"
      BY <1>2, <3>1 DEF StartBoundary
    <3>2. CASE n < boundarySize - 2 /\ ch = boundary[n + 3]
      <4>1. a.index # boundarySize - 2 /\ a.index # boundarySize - 1
        BY <1>2, <1>3, <3>2
      <4> QED
        BY <1>2, <3>2, <4>1 DEF StartBoundary
    <3> QED
      BY <1>4, <3>1, <3>2
  <2>2. n + 1 \in Nat
    OBVIOUS
  <2> HIDE DEF b
  <2>3. /\ b \in Readers /\ b.i = q.i /\ Kept(q, b) /\ b.state = "START_BOUNDARY" /\ b.index = n + 1
        /\ b.field = q.field /\ b.value = q.value /\ b.name = q.name /\ b.text = q.text /\ b.current = q.current
    BY <1>2, <2>1, <2>2 DEF Readers, Kept, SameForm
  <2>4. n # boundarySize - 1
    BY <1>3, <1>4
  <2> QED
    BY <1>1, <2>3, <2>4, Stepped DEF Kept, SameForm
<1>5. CASE n = boundarySize - 1 /\ ch = "LF"
  <2>1. b = [a EXCEPT !.index = 0, !.state = "HEADER_FIELD_START"]
    <3>1. a.index # boundarySize - 2 /\ a.index = boundarySize - 1
      BY <1>2, <1>3, <1>5
    <3> QED
      BY <1>5, <3>1 DEF StartBoundary, To
  <2>2. 0 \in Nat /\ "HEADER_FIELD_START" \in States
    BY DEF States
  <2> HIDE DEF b
  <2>3. /\ b \in Readers /\ b.i = q.i /\ Kept(q, b) /\ b.state = "HEADER_FIELD_START"
        /\ b.field = q.field /\ b.value = q.value /\ b.name = q.name /\ b.text = q.text /\ b.current = q.current
    BY <1>2, <2>1, <2>2 DEF Readers, Kept, SameForm
  <2>4. ~((n = boundarySize - 2 /\ ch = "CR") \/ (n < boundarySize - 2 /\ ch = boundary[n + 3]))
    BY <1>3, <1>5
  <2> QED
    BY <1>1, <2>3, <2>4, Stepped DEF Kept, SameForm
<1> QED
  BY <1>4, <1>5

\* The parser before the first part goes on.
LEMMA OpeningGoesOn ==
  ASSUME NEW c, NEW q, NEW f, NEW r, NEW n, At(c, q, f, r, n), Opening(c, q, n),
         NEW buffer, NEW p, p = Fed(q, c.body[n + 1], buffer)
  PROVE  /\ p \in Readers /\ p.i = q.i + 1 /\ p.first = q.first
         /\ Opening(c, p, n + 1) \/ (1 \in 1..Len(c.parts) /\ InHead(c, p, 1, f, n + 1))
<1> DEFINE b == c.body
           ch == b[n + 1]
           z == boundarySize
<1>1. /\ q \in Readers /\ n \in Nat /\ n < Len(b) /\ Len(b) \in Nat /\ z \in Nat /\ z >= 4 /\ ClientInv(c)
  <2>1. z \in Nat /\ z >= 4
    BY BoundaryIs
  <2> QED
    BY <2>1, AtIs
<1>2. /\ n < z /\ Idle(q) /\ DOMAIN q.current = {} /\ SoFar(c, q, 1)
      /\ IF n = 0 THEN q.state = "START" ELSE q.state = "START_BOUNDARY" /\ q.index = n
  BY DEF Opening
<1>3. /\ \A j \in 1..(z - 2) : b[j] = boundary[j + 2]
      /\ IF c.parts = << >> THEN Len(b) = z - 2
         ELSE c.at[1] = z /\ b[z - 1] = "CR" /\ b[z] = "LF"
  BY <1>1 DEF ClientInv, Opens
<1>4. p = Fed(q, ch, buffer)
  OBVIOUS
<1> HIDE DEF b, z
<1>5. CASE n < z - 1
  <2>1. (n = z - 2 /\ ch = "CR") \/ (n < z - 2 /\ ch = boundary[n + 3])
    <3>1. CASE n = z - 2
      <4>1. c.parts # << >>
        BY <1>1, <1>3, <3>1
      <4>2. n + 1 = z - 1
        BY <1>1, <3>1
      <4> QED
        BY <1>3, <3>1, <4>1, <4>2
    <3>2. CASE n < z - 2
      <4>1. n + 1 \in 1..(z - 2) /\ n + 1 + 2 = n + 3
        BY <1>1, <3>2
      <4>2. b[n + 1] = boundary[n + 1 + 2]
        BY <1>3, <4>1
      <4> QED
        BY <3>2, <4>1, <4>2
    <3> QED
      BY <1>1, <1>5, <3>1, <3>2
  <2> HIDE DEF ch
  <2>2. /\ p \in Readers /\ p.i = q.i + 1 /\ Kept(q, p) /\ p.state = "START_BOUNDARY" /\ p.index = n + 1
        /\ p.field = q.field /\ p.value = q.value /\ p.name = q.name /\ p.text = q.text
        /\ p.current = q.current
    BY <1>1, <1>2, <1>4, <2>1, FedOpening DEF z
  <2>3. SoFar(c, p, 1)
    BY <1>2, <2>2, SoFarKept
  <2>4. n + 1 < z /\ n + 1 # 0
    BY <1>1, <1>5
  <2>5. Opening(c, p, n + 1)
    BY <1>2, <2>2, <2>3, <2>4 DEF Opening, Idle, z
  <2> QED
    BY <2>2, <2>5 DEF Kept, SameForm
<1>6. CASE n = z - 1
  <2>1. c.parts # << >> /\ n + 1 = z
    BY <1>1, <1>3, <1>6
  <2>2. ch = "LF" /\ c.at[1] = n + 1
    BY <1>3, <2>1
  <2> HIDE DEF ch
  <2>3. /\ p \in Readers /\ p.i = q.i + 1 /\ Kept(q, p) /\ p.state = "HEADER_FIELD_START"
        /\ p.field = q.field /\ p.value = q.value /\ p.name = q.name /\ p.text = q.text
        /\ p.current = q.current
    BY <1>1, <1>2, <1>4, <1>6, <2>2, FedOpening DEF z
  <2>4. SoFar(c, p, 1)
    BY <1>2, <2>3, SoFarKept
  <2>5. 1 \in 1..Len(c.parts)
    <3>1. c.parts \in Seq(FormParts)
      BY <1>1 DEF ClientInv, Clients
    <3>2. Len(c.parts) \in Nat /\ Len(c.parts) # 0
      BY <2>1, <3>1, EmptySeq
    <3> QED
      BY <3>2
  <2>6. c.at[1] \in Nat /\ KeyEnds(c, 1) \in {c.at[1] + 4, c.at[1] + 5}
    BY <1>1, <2>5, PlacesAre
  <2>7. Took(c, p, 1, n + 1)
    <3>1. n + 1 <= KeyEnds(c, 1)
      BY <2>2, <2>6
    <3> QED
      BY <1>2, <2>3, <3>1 DEF Took
  <2>8. LineStarts(c, p, 1, n + 1)
    BY <1>2, <2>2, <2>3 DEF LineStarts, Idle
  <2> QED
    BY <2>3, <2>4, <2>5, <2>7, <2>8 DEF InHead, Kept, SameForm
<1>7. n < z - 1 \/ n = z - 1
  BY <1>1, <1>2
<1> QED
  BY <1>5, <1>6, <1>7

\* The data of a part starts.
LEMMA DataGoesOn ==
  ASSUME NEW c, NEW q, NEW f, NEW r, NEW n, At(c, q, f, r, n), NEW k \in 1..Len(c.parts),
         DataStarts(c, q, k, n), NEW p, p = To([q EXCEPT !.data = q.i, !.index = 0], "PART_DATA")
  PROVE  /\ p \in Readers /\ p.i = q.i /\ p.first = q.first /\ InBodyOf(c, p, k, f, n)
<1> DEFINE h == HeadEnds(c, k)
<1>1. /\ q \in Readers /\ n \in Nat /\ f \in Nat /\ q.i \in Nat /\ q.i > 0 /\ n + 1 = f + q.i
      /\ n < Len(c.body) /\ Len(c.body) \in Nat /\ ClientInv(c)
  BY AtIs
<1>2. /\ q.state = "PART_DATA_START" /\ Idle(q) /\ DOMAIN q.current = {}
      /\ ~q.part /\ ~q.last /\ n = h /\ Got(c, q, k, << >>)
  BY DEF DataStarts
<1>3. /\ p \in Readers /\ p.i = q.i /\ p.state = "PART_DATA" /\ p.index = 0 /\ p.data = q.i /\ p.current = q.current
      /\ p.part = q.part /\ p.last = q.last /\ SameForm(q, p)
      /\ p.field = q.field /\ p.value = q.value /\ p.name = q.name /\ p.text = q.text
  <2>1. "PART_DATA" \in States /\ 0 \in Nat
    BY DEF States
  <2> QED
    BY <1>1, <2>1 DEF To, Readers, SameForm
<1>4. f + p.data - 1 = h /\ h \in Nat /\ h < f + p.data /\ f + p.data <= n + 1
  BY <1>1, <1>2, <1>3
<1>5. DataUpTo(c, k, h) = << >>
  <2>1. SubSeq(c.body, h + 1, h) = << >>
    BY <1>4, SubSeqEmpty
  <2> QED
    BY <2>1 DEF DataUpTo
<1>6. Got(c, p, k, DataUpTo(c, k, f + p.data - 1))
  <2>1. Got(c, p, k, << >>)
    BY <1>2, <1>3, GotSame
  <2> QED
    BY <1>4, <1>5, <2>1
<1>7. n <= DataEnds(c, k)
  <2>1. DataEnds(c, k) = h + Len(c.parts[k].data) /\ Len(c.parts[k].data) \in Nat
    BY <1>1, PlacesAre
  <2> HIDE DEF h
  <2> QED
    BY <1>2, <1>4, <2>1
<1>8. Plainly(c, p, k, f, n)
  BY <1>1, <1>2, <1>3, <1>4, <1>6, <1>7 DEF Plainly
<1> QED
  BY <1>2, <1>3, <1>8 DEF InBodyOf, Idle, SameForm

----------------------------------------------------------------------------
(* The data and the boundary *)

\* The bytes of a part's data and of the boundary behind it.
LEMMA DataBytes ==
  ASSUME NEW c, ClientInv(c), NEW k \in 1..Len(c.parts), NEW h, NEW d, h = HeadEnds(c, k), d = DataEnds(c, k)
  PROVE  /\ h \in Nat /\ d \in Nat /\ h <= d /\ d + boundarySize <= Len(c.body) /\ d = h + Len(c.parts[k].data)
         /\ \A j \in 1..Len(c.parts[k].data) : c.body[h + j] = c.parts[k].data[j]
         /\ \A j \in 1..boundarySize : c.body[d + j] = boundary[j]
         /\ c.body[d + 1] = "CR"
<1> DEFINE l == Len(c.parts[k].data)
           b == c.body
<1>1. /\ h \in Nat /\ d \in Nat /\ l \in Nat /\ d = h + l /\ PartEnds(c, k) = d + boundarySize
      /\ PartEnds(c, k) <= Len(b) /\ PartThere(c, k)
  BY PlacesAre
<1>2. DataThere(b, c.parts[k], h, d)
  BY <1>1 DEF PartThere
<1>3. boundarySize \in Nat /\ boundarySize >= 4 /\ boundary[1] = "CR"
  BY BoundaryIs
<1>4. /\ \A j \in 1..l : b[h + j] = c.parts[k].data[j]
      /\ \A j \in 1..boundarySize : b[d + j] = boundary[j]
  BY <1>2 DEF DataThere
<1> HIDE DEF l, b
<1>5. b[d + 1] = "CR"
  <2>1. 1 \in 1..boundarySize
    BY <1>3
  <2> QED
    BY <1>3, <1>4, <2>1
<1>6. h <= d
  BY <1>1
<1> QED
  BY <1>1, <1>4, <1>5, <1>6 DEF l, b

\* What begins like the boundary in a part's data ends in it: it begins with CR, and has
\* no other.
LEMMA LeadEnds ==
  ASSUME NEW c, ClientInv(c), NEW k \in 1..Len(c.parts), NEW s \in Nat, NEW j \in Nat, j <= boundarySize,
         s < DataEnds(c, k), \A i \in 1..j : c.body[s + i] = boundary[i]
  PROVE  s + j <= DataEnds(c, k)
<1> DEFINE d == DataEnds(c, k)
           b == c.body
<1>1. d \in Nat /\ b[d + 1] = "CR"
  BY DataBytes
<1>2. boundarySize \in Nat /\ \A i \in 1..boundarySize : i > 1 => boundary[i] # "CR"
  BY BoundaryIs
<1> HIDE DEF d
<1>3. s < d /\ \A i \in 1..j : b[s + i] = boundary[i]
  BY DEF d
<1>4. ASSUME s + j > d PROVE FALSE
  <2> DEFINE i == d + 1 - s
  <2>1. i \in 1..j /\ i \in 1..boundarySize /\ i > 1 /\ s + i = d + 1
    BY <1>1, <1>2, <1>3, <1>4
  <2> HIDE DEF i
  <2>2. b[s + i] = boundary[i]
    BY <1>3, <2>1
  <2> QED
    BY <1>1, <1>2, <2>1, <2>2
<1> QED
  BY <1>1, <1>4 DEF d

\* And the boundary is not in it.
LEMMA NoneBefore ==
  ASSUME NEW c, ClientInv(c), NEW k \in 1..Len(c.parts), NEW s \in Nat,
         HeadEnds(c, k) <= s, s <= DataEnds(c, k), \A i \in 1..boundarySize : c.body[s + i] = boundary[i]
  PROVE  s = DataEnds(c, k)
<1> DEFINE h == HeadEnds(c, k)
           d == DataEnds(c, k)
           b == c.body
           t == c.parts[k].data
<1>1. /\ h \in Nat /\ d \in Nat /\ d = h + Len(t)
      /\ \A j \in 1..Len(t) : b[h + j] = t[j]
  BY DataBytes
<1>2. boundarySize \in Nat /\ boundarySize <= boundarySize
  BY BoundaryIs
<1>3. Len(t) \in Nat /\ \A j \in 0..Len(t) : ~BoundaryIn(t, j)
  BY PlacesAre
<1> HIDE DEF h, d
<1>4. h <= s /\ s <= d /\ \A i \in 1..boundarySize : b[s + i] = boundary[i]
  BY DEF h, d
<1> SUFFICES ASSUME s # d PROVE FALSE
  BY DEF d
<1>5. s < d
  BY <1>1, <1>4
<1>6. s + boundarySize <= d
  BY <1>2, <1>4, <1>5, LeadEnds DEF d
<1> DEFINE j == s - h
<1>7. j \in 0..Len(t) /\ j + boundarySize <= Len(t) /\ h + j = s /\ j \in Nat
  BY <1>1, <1>2, <1>3, <1>4, <1>6
<1> HIDE DEF j, t, b
<1>8. ASSUME NEW i \in 1..boundarySize PROVE t[j + i] = boundary[i]
  <2>1. j + i \in 1..Len(t) /\ h + (j + i) = s + i
    BY <1>1, <1>2, <1>3, <1>7, SMTT(30)
  <2>2. b[h + (j + i)] = t[j + i]
    BY <1>1, <2>1
  <2> QED
    BY <1>4, <2>1, <2>2
<1>9. BoundaryIn(t, j)
  BY <1>7, <1>8 DEF BoundaryIn
<1> QED
  BY <1>3, <1>7, <1>9

\* A byte of the buffer is a byte of the body.
LEMMA BufferByte ==
  ASSUME NEW b \in Seq(Bytes), NEW f \in Nat, NEW r \in Nat, f <= r, r <= Len(b),
         NEW i \in Nat, i > 0, f + i <= r
  PROVE  /\ SubSeq(b, f + 1, r) \in Seq(Bytes) /\ Len(SubSeq(b, f + 1, r)) = r - f
         /\ SubSeq(b, f + 1, r)[i] = b[f + i]
<1> DEFINE m == f + 1
<1>1. Len(b) \in Nat /\ m \in Nat /\ 1 <= m /\ m <= r + 1
  OBVIOUS
<1>2. r + 1 - m = r - f /\ i \in 1..(r + 1 - m) /\ m + i - 1 = f + i
  OBVIOUS
<1> HIDE DEF m
<1>3. /\ SubSeq(b, m, r) \in Seq(Bytes) /\ Len(SubSeq(b, m, r)) = r + 1 - m
      /\ \A x \in 1..(r + 1 - m) : SubSeq(b, m, r)[x] = b[m + x - 1]
  BY <1>1, PieceIs
<1> DEFINE t == SubSeq(b, m, r)
<1> HIDE DEF t
<1>4. t \in Seq(Bytes) /\ Len(t) = r - f /\ t[i] = b[f + i]
  <2>1. t[i] = b[m + i - 1]
    BY <1>2, <1>3 DEF t
  <2> QED
    BY <1>2, <1>3, <2>1 DEF t
<1> QED
  BY <1>4 DEF t, m

BufferOf(c, f, r) == SubSeq(c.body, f + 1, r)

\* Likewise for the parser at its byte.
LEMMA ReadByte ==
  ASSUME NEW c, NEW q, NEW f, NEW r, NEW n, At(c, q, f, r, n), NEW i \in Nat, i > 0, f + i <= r
  PROVE  BufferOf(c, f, r)[i] = c.body[f + i]
<1> DEFINE b == c.body
<1>1. f \in Nat /\ r \in Nat /\ f <= r /\ r <= Len(b) /\ b \in Seq(Bytes)
  <2>1. f \in Nat /\ r \in Nat /\ n \in Nat /\ f <= n /\ n < r /\ r <= Len(b) /\ b \in Seq(Bytes)
    BY AtIs
  <2> QED
    BY <2>1
<1> HIDE DEF b
<1>2. SubSeq(b, f + 1, r)[i] = b[f + i]
  BY <1>1, BufferByte
<1> QED
  BY <1>2 DEF b, BufferOf

Passed(q) == [q EXCEPT !.i = @ + boundarySize]

\* A run of the boundary's length is passed over.
LEMMA SkipGoesOn ==
  ASSUME NEW c, NEW q, NEW f, NEW r, NEW n, At(c, q, f, r, n), NEW k \in 1..Len(c.parts),
         InBodyOf(c, q, k, f, n), Skippable(q, SubSeq(c.body, f + 1, r)),
         NEW p, p = Passed(q)
  PROVE  /\ p \in Readers /\ p.i = q.i + boundarySize /\ p.first = q.first /\ f + p.i <= r + 1
         /\ InBodyOf(c, p, k, f, n + boundarySize)
<1> DEFINE b == c.body
           d == DataEnds(c, k)
           z == boundarySize
           t == SubSeq(b, f + 1, r)
<1>1. /\ ClientInv(c) /\ q \in Readers /\ f \in Nat /\ r \in Nat /\ n \in Nat /\ q.i \in Nat /\ q.i > 0
      /\ n + 1 = f + q.i /\ n < r /\ f <= n /\ r <= Len(b) /\ b \in Seq(Bytes) /\ Len(b) \in Nat
  BY AtIs
<1>2. z \in Nat /\ z >= 4 /\ boundary \in Seq(Bytes) /\ Len(boundary) = z /\ DOMAIN boundary = 1..z
  BY BoundaryIs DEF boundarySize
<1>3. d \in Nat /\ \A j \in 1..z : b[d + j] = boundary[j]
  BY <1>1, DataBytes
<1>4. q.index = 0 /\ q.i + z - 1 <= Len(t) /\ ~Holds(boundary, t[q.i + z - 1])
  BY DEF Skippable
<1>5. /\ q.state = "PART_DATA" /\ Idle(q) /\ DOMAIN q.current = {} /\ Plainly(c, q, k, f, n)
  <2>1. ~ \E s \in Nat : Holding(c, q, k, n, s)
    BY <1>4 DEF Holding
  <2> QED
    BY <2>1 DEF InBodyOf
<1>6. /\ q.index = 0 /\ ~q.part /\ ~q.last
      /\ q.data > 0 /\ HeadEnds(c, k) < f + q.data /\ f + q.data <= n + 1 /\ n <= d
      /\ Got(c, q, k, DataUpTo(c, k, f + q.data - 1))
  BY <1>5 DEF Plainly
<1> HIDE DEF z
<1>7. p \in Readers /\ p.i = q.i + z /\ SameForm(q, p) /\ p.state = q.state /\ p.index = q.index /\ p.part = q.part
      /\ p.last = q.last /\ p.data = q.data /\ p.current = q.current
      /\ p.field = q.field /\ p.value = q.value /\ p.name = q.name /\ p.text = q.text
  <2> DEFINE x == q.i + z
  <2>1. x \in Nat
    BY <1>1, <1>2
  <2>2. p = [q EXCEPT !.i = x]
    BY <1>1 DEF z, Passed
  <2> HIDE DEF x
  <2>3. p \in Readers /\ p.i = x
    BY <1>1, <2>1, <2>2 DEF Readers
  <2>4. SameForm(q, p) /\ p.state = q.state /\ p.index = q.index /\ p.part = q.part
      /\ p.last = q.last /\ p.data = q.data /\ p.current = q.current
      /\ p.field = q.field /\ p.value = q.value /\ p.name = q.name /\ p.text = q.text
    BY <1>1, <2>2 DEF Readers, SameForm
  <2> QED
    BY <2>3, <2>4 DEF x
<1> HIDE DEF b, d
<1>8. Len(t) = r - f
  <2>1. f <= r /\ f + 1 <= r
    BY <1>1
  <2> QED
    BY <1>1, <2>1, BufferByte
<1> HIDE DEF t
<1> DEFINE i == q.i + z - 1
<1>9. i \in Nat /\ i > 0 /\ f + i <= r /\ f <= r /\ f + i = n + z
  <2> DEFINE x == q.i
             l == Len(t)
  <2>1. x \in Nat /\ x > 0 /\ z \in Nat /\ z >= 4 /\ f \in Nat /\ r \in Nat /\ n \in Nat /\ n + 1 = f + x /\ n < r
    BY <1>1, <1>2
  <2>2. l = r - f /\ x + z - 1 <= l
    BY <1>4, <1>8
  <2> HIDE DEF x, l
  <2>3. x + z - 1 \in Nat
    BY <2>1, <2>2
  <2>4. x + z - 1 > 0
    BY <2>1, <2>2
  <2>5. f <= r
    BY <2>1, <2>2
  <2>6. f + (x + z - 1) = n + z
    <3>1. x \in Nat /\ z \in Nat /\ f \in Nat /\ n \in Nat /\ n + 1 = f + x
      BY <2>1
    <3> HIDE DEF i
    <3> QED
      BY ONLY <3>1
  <2>7. f + (x + z - 1) <= r
    BY <2>1, <2>2
  <2> QED
    BY <2>3, <2>4, <2>5, <2>6, <2>7 DEF x
<1> HIDE DEF i
<1>10. t[i] = b[n + z]
  <2>1. i \in Nat /\ i > 0 /\ f + i <= r
    BY <1>9
  <2>2. BufferOf(c, f, r)[i] = c.body[f + i]
    BY <2>1, ReadByte
  <2> QED
    BY <1>9, <2>2 DEF t, b, BufferOf
<1>11. n + z <= d
  <2> SUFFICES ASSUME n + z > d PROVE FALSE
    BY <1>1, <1>2, <1>3
  <2> DEFINE j == n + z - d
  <2>1. j \in 1..z /\ d + j = n + z
    BY <1>1, <1>2, <1>3, <1>6
  <2> HIDE DEF j
  <2>2. b[n + z] = boundary[j] /\ j \in DOMAIN boundary
    BY <1>2, <1>3, <2>1
  <2>3. Holds(boundary, t[i])
    BY <1>10, <2>2 DEF Holds
  <2> QED
    BY <1>4, <2>3 DEF i
<1>12. f + p.i <= r + 1
  BY <1>1, <1>2, <1>7, <1>9
<1>13. Got(c, p, k, DataUpTo(c, k, f + p.data - 1))
  BY <1>6, <1>7, GotSame
<1>14. f + p.data <= n + z + 1
  <2>1. q.data \in Nat
    BY <1>1 DEF Readers
  <2> QED
    BY <1>1, <1>2, <1>6, <1>7, <2>1
<1>15. Plainly(c, p, k, f, n + z)
  BY <1>6, <1>7, <1>11, <1>13, <1>14 DEF Plainly, d
<1>16. InBodyOf(c, p, k, f, n + z)
  BY <1>5, <1>7, <1>15 DEF InBodyOf, Idle
<1> QED
  BY <1>7, <1>12, <1>16 DEF z, SameForm

----------------------------------------------------------------------------
(* A byte of the data, and any byte *)

\* Of two readers: but for its place and what is held back the parser is the same.
Alike(q, p) ==
  /\ Kept(q, p) /\ p.state = q.state /\ p.field = q.field /\ p.value = q.value
  /\ p.name = q.name /\ p.text = q.text /\ p.current = q.current

\* One byte more is held back.
OneMore(q, p, ch) ==
  /\ Len(p.behind) = q.index + 1 /\ p.behind[q.index + 1] = ch
  /\ \A j \in 1..q.index : p.behind[j] = q.behind[j]

\* A byte is held back.
LEMMA HeldIs ==
  ASSUME NEW q \in Readers, NEW ch \in Bytes, q.index <= Len(q.behind), NEW p, p = Held(q, ch)
  PROVE  /\ p \in Readers /\ p.i = q.i /\ p.index = q.index + 1 /\ Alike(q, p) /\ OneMore(q, p, ch)
<1> DEFINE x == q.index
           t == q.behind
           s == SubSeq(t, 1, x)
           u == <<ch>>
           v == s \o u
           y == x + 1
<1>1. x \in Nat /\ t \in Seq(Bytes) /\ x <= Len(t) /\ y \in Nat
  <2>1. x \in Nat /\ t \in Seq(Bytes)
    BY DEF Readers
  <2> QED
    BY <2>1
<1>2. p = [q EXCEPT !.index = y, !.behind = v]
  BY DEF Held
<1>3. u \in Seq(Bytes) /\ Len(u) = 1 /\ u[1] = ch
  OBVIOUS
<1> HIDE DEF x, t, u
<1>4. s \in Seq(Bytes) /\ Len(s) = x /\ \A j \in 1..x : s[j] = t[j]
  <2>1. /\ s \in Seq(Bytes) /\ Len(s) = x + 1 - 1
        /\ \A j \in 1..(x + 1 - 1) : s[j] = t[1 + j - 1]
    <3>1. 1 \in Nat /\ 1 <= 1 /\ 1 <= x + 1
      BY <1>1
    <3> QED
      BY <1>1, <3>1, PieceIs
  <2>2. x + 1 - 1 = x /\ \A j \in 1..x : 1 + j - 1 = j
    BY <1>1
  <2> HIDE DEF s
  <2> QED
    BY <2>1, <2>2
<1> HIDE DEF s
<1>5. /\ v \in Seq(Bytes) /\ Len(v) = x + 1 /\ v[x + 1] = ch
      /\ \A j \in 1..x : v[j] = s[j]
  <2>1. /\ s \o u \in Seq(Bytes) /\ Len(s \o u) = Len(s) + Len(u)
        /\ \A i \in 1..Len(s) : (s \o u)[i] = s[i]
        /\ \A i \in 1..Len(u) : (s \o u)[Len(s) + i] = u[i]
    BY <1>3, <1>4, TextsJoined
  <2> HIDE DEF v
  <2>2. /\ v \in Seq(Bytes) /\ Len(v) = x + 1
        /\ \A i \in 1..x : v[i] = s[i]
        /\ \A i \in 1..1 : v[x + i] = u[i]
    BY <1>3, <1>4, <2>1 DEF v
  <2>3. 1 \in 1..1
    OBVIOUS
  <2> QED
    BY <1>3, <2>2, <2>3
<1> HIDE DEF v, y
<1>6. p \in Readers /\ p.i = q.i /\ p.index = y /\ p.behind = v
  BY <1>1, <1>2, <1>5, ZenonT(30) DEF Readers
<1>7. Alike(q, p)
  BY <1>2 DEF Readers, Alike, Kept, SameForm
<1>8. \A j \in 1..x : v[j] = t[j]
  BY <1>4, <1>5
<1> QED
  BY <1>5, <1>6, <1>7, <1>8 DEF x, y, t, OneMore

\* The byte a reader is at is done with.
Past(q) == [q EXCEPT !.i = @ + 1]

\* What is held back is dropped, and the byte is looked at again.
LEMMA FalseLeadIs ==
  ASSUME NEW q \in Readers, q.i > 0, NEW a \in Readers, SameParser(q, a),
         a = PartData(q, SubSeq(q.behind, 1, q.index)),
         NEW p, p = Past(FalseLead(q))
  PROVE  /\ p \in Readers /\ p.i = q.i /\ p.index = 0 /\ p.data = q.i /\ SameForm(a, p)
         /\ p.part = q.part /\ p.last = q.last /\ p.state = q.state /\ p.field = q.field /\ p.value = q.value
         /\ p.name = q.name /\ p.text = q.text /\ p.current = q.current
<1> DEFINE x == q.i
           y == x - 1
<1>1. x \in Nat /\ y \in Nat /\ y + 1 = x /\ 0 \in Nat
  <2>1. x \in Nat
    BY DEF Readers
  <2> QED
    BY <2>1
<1>2. a.i = x
  BY DEF SameParser
<1> DEFINE e == [a EXCEPT !.index = 0, !.data = x, !.i = y]
<1>3. FalseLead(q) = e
  BY <1>2 DEF FalseLead
<1> HIDE DEF x, y
<1>4. e \in Readers /\ e.i = y
  BY <1>1 DEF Readers
<1>5. /\ e.index = 0 /\ e.data = x /\ SameForm(a, e)
      /\ e.part = a.part /\ e.last = a.last /\ e.state = a.state /\ e.field = a.field /\ e.value = a.value
      /\ e.name = a.name /\ e.text = a.text /\ e.current = a.current
  BY <1>1 DEF Readers, SameForm
<1> HIDE DEF e
<1>6. p = [e EXCEPT !.i = @ + 1]
  BY <1>3 DEF Past
<1>7. p \in Readers /\ p.i = e.i + 1 /\ Kept(e, p) /\ p.state = e.state /\ p.index = e.index
      /\ p.field = e.field /\ p.value = e.value /\ p.name = e.name /\ p.text = e.text
      /\ p.current = e.current
  BY <1>4, <1>6, Stepped
<1>8. p.i = x
  BY <1>1, <1>4, <1>7
<1> QED
  BY <1>5, <1>7, <1>8 DEF x, Kept, SameForm, SameParser

\* What is marked as data is a piece of the body.
LEMMA DataMarked ==
  ASSUME NEW c, NEW q, NEW f, NEW r, NEW n, At(c, q, f, r, n), q.data > 0, f + q.data <= n + 1
  PROVE  Marked(BufferOf(c, f, r), q.data, q) = SubSeq(c.body, f + q.data, n)
<1>1. q.data \in Nat
  BY DEF At, Readers
<1>2. Marked(SubSeq(c.body, f + 1, r), q.data, q) = SubSeq(c.body, f + q.data, n)
  BY <1>1, MarkedIs
<1> QED
  BY <1>2 DEF BufferOf

\* A byte of the data when nothing is held back.
LEMMA PlainGoesOn ==
  ASSUME NEW c, NEW q, NEW f, NEW r, NEW n, At(c, q, f, r, n), NEW k \in 1..Len(c.parts),
         q.state = "PART_DATA", Idle(q), DOMAIN q.current = {}, Plainly(c, q, k, f, n),
         NEW p, p = Fed(q, c.body[n + 1], BufferOf(c, f, r))
  PROVE  p \in Readers /\ p.i = q.i + 1 /\ p.first = q.first /\ InBodyOf(c, p, k, f, n + 1)
<1> DEFINE b == c.body
           h == HeadEnds(c, k)
           d == DataEnds(c, k)
           ch == b[n + 1]
           buffer == BufferOf(c, f, r)
           m == q.data
<1>1. /\ ClientInv(c) /\ q \in Readers /\ f \in Nat /\ r \in Nat /\ n \in Nat /\ q.i \in Nat /\ q.i > 0
      /\ n + 1 = f + q.i /\ n < r /\ f <= n /\ r <= Len(b) /\ b \in Seq(Bytes) /\ Len(b) \in Nat
  BY AtIs
<1>2. h \in Nat /\ d \in Nat /\ b[d + 1] = "CR"
  BY <1>1, DataBytes
<1>3. boundarySize \in Nat /\ boundarySize >= 4 /\ boundary[1] = "CR"
  BY BoundaryIs
<1>4. /\ q.index = 0 /\ ~q.part /\ ~q.last
      /\ m > 0 /\ h < f + m /\ f + m <= n + 1 /\ n <= d
      /\ Got(c, q, k, DataUpTo(c, k, f + m - 1))
  BY DEF Plainly
<1>5. m \in Nat
  BY <1>1 DEF Readers
<1>6. ch \in Bytes
  <2>1. n + 1 \in 1..Len(b)
    BY <1>1
  <2> QED
    BY <1>1, <2>1
<1>7. p = [Scan(q, ch, buffer) EXCEPT !.i = @ + 1]
  BY DEF Fed, Byte
<1>8. Marked(buffer, m, q) = SubSeq(b, f + m, n)
  BY <1>4, DataMarked
<1> HIDE DEF b, h, d, ch, buffer, m
<1>9. CASE ch = "CR"
  <2> DEFINE u == DataUpTo(c, k, f + m - 1)
             v == SubSeq(b, f + m, n)
             w == DataUpTo(c, k, n)
             x == PartData(q, v)
             y == [x EXCEPT !.data = Unmarked]
             z == Held(y, ch)
  <2>1. u \in Seq(Bytes) /\ v \in Seq(Bytes) /\ u \o v = w
    <3> DEFINE j == f + m - 1
    <3>1. h + 1 \in Nat /\ j \in Nat /\ 1 <= h + 1 /\ h + 1 <= j + 1 /\ j <= n /\ n <= Len(b) /\ j <= Len(b)
          /\ j + 1 = f + m /\ j + 1 \in Nat /\ 1 <= j + 1 /\ j + 1 <= n + 1
      BY <1>1, <1>2, <1>4, <1>5
    <3> HIDE DEF j
    <3>2. SubSeq(b, h + 1, j) \in Seq(Bytes)
      BY <1>1, <3>1, PieceIs
    <3>3. SubSeq(b, j + 1, n) \in Seq(Bytes)
      BY <1>1, <3>1, PieceIs
    <3>4. SubSeq(b, h + 1, j) \o SubSeq(b, j + 1, n) = SubSeq(b, h + 1, n)
      BY <1>1, <3>1, PiecesJoin, ZenonT(30)
    <3>5. SubSeq(b, j + 1, n) = v
      BY <3>1
    <3> HIDE DEF v
    <3> QED
      BY <3>2, <3>3, <3>4, <3>5 DEF DataUpTo, b, h, j
  <2>2. Scan(q, ch, buffer) = z
    BY <1>3, <1>4, <1>8, <1>9 DEF Scan, m, Unmarked
  <2> HIDE DEF u, v, w
  <2>3. x \in Readers /\ SameParser(q, x) /\ Got(c, x, k, u \o v)
    BY <1>1, <1>4, <2>1, GotMore DEF u
  <2> HIDE DEF x
  <2>4. /\ y \in Readers /\ y.data = 0 /\ SameForm(x, y)
        /\ y.i = x.i /\ y.index = x.index /\ y.behind = x.behind
        /\ y.part = x.part /\ y.last = x.last /\ y.state = x.state /\ y.field = x.field /\ y.value = x.value
        /\ y.name = x.name /\ y.text = x.text /\ y.current = x.current
    <3>1. 0 \in Nat
      OBVIOUS
    <3> QED
      BY <2>3, <3>1 DEF Readers, SameForm, Unmarked
  <2> HIDE DEF y
  <2>5. y.index = 0 /\ y.index <= Len(y.behind)
    <3>1. y.behind \in Seq(Bytes)
      BY <2>4 DEF Readers
    <3> QED
      BY <1>4, <2>3, <2>4, <3>1 DEF SameParser
  <2>6. /\ z \in Readers /\ z.i = y.i /\ z.index = 1 /\ Alike(y, z)
        /\ Len(z.behind) = 1 /\ z.behind[1] = ch
    <3>1. z = Held(y, ch)
      OBVIOUS
    <3> HIDE DEF z
    <3>2. /\ z \in Readers /\ z.i = y.i /\ z.index = y.index + 1 /\ Alike(y, z)
          /\ OneMore(y, z, ch)
      BY <1>6, <2>4, <2>5, <3>1, HeldIs
    <3>3. y.index + 1 = 1
      BY <2>5
    <3> QED
      BY <3>2, <3>3 DEF OneMore
  <2> HIDE DEF z
  <2>7. /\ p \in Readers /\ p.i = z.i + 1 /\ Kept(z, p) /\ p.state = z.state /\ p.index = z.index
        /\ p.field = z.field /\ p.value = z.value /\ p.name = z.name /\ p.text = z.text
        /\ p.current = z.current /\ p.behind = z.behind
    BY <1>7, <2>2, <2>6, Stepped
  <2>8. /\ p.i = q.i + 1 /\ p.index = 1 /\ p.behind = z.behind /\ p.data = 0 /\ p.state = q.state
        /\ p.part = q.part /\ p.last = q.last /\ p.field = q.field /\ p.value = q.value
        /\ p.name = q.name /\ p.text = q.text /\ SameForm(x, p)
    BY <2>3, <2>4, <2>6, <2>7 DEF SameParser, Alike, Kept, SameForm
  <2>9. Got(c, p, k, w)
    BY <2>1, <2>3, <2>8, GotSame
  <2>10. Holding(c, p, k, n + 1, n)
    <3>1. h <= n /\ n + 1 = n + p.index /\ p.index > 0 /\ p.index <= boundarySize + 1 /\ ~(p.index > boundarySize)
      BY <1>1, <1>2, <1>3, <1>4, <1>5, <2>8
    <3>2. p.index <= Len(p.behind) /\ \A j \in 1..p.index : p.behind[j] = b[n + j] /\ b[n + j] = boundary[j]
      <4>1. 1..p.index = {1}
        BY <2>8
      <4>2. p.behind[1] = b[n + 1] /\ b[n + 1] = boundary[1]
        BY <1>3, <1>9, <2>6, <2>8 DEF ch
      <4> QED
        BY <2>6, <2>8, <4>1, <4>2
    <3> QED
      BY <1>4, <2>8, <2>9, <3>1, <3>2 DEF Holding, b, h, d, w, Unmarked
  <2>11. DOMAIN p.current = {} /\ p.first = q.first
    BY <2>3, <2>4, <2>6, <2>7 DEF SameParser, Alike, Kept, SameForm
  <2>12. InBodyOf(c, p, k, f, n + 1)
    BY <1>1, <2>8, <2>10, <2>11 DEF InBodyOf, Idle
  <2> QED
    BY <2>7, <2>8, <2>11, <2>12
<1>10. CASE ch # "CR"
  <2>1. Scan(q, ch, buffer) = q
    BY <1>3, <1>4, <1>10 DEF Scan
  <2>2. /\ p \in Readers /\ p.i = q.i + 1 /\ Kept(q, p) /\ p.state = q.state /\ p.index = q.index
        /\ p.field = q.field /\ p.value = q.value /\ p.name = q.name /\ p.text = q.text
        /\ p.current = q.current
    BY <1>1, <1>7, <2>1, Stepped
  <2>3. n + 1 <= d
    <3>1. n # d
      BY <1>2, <1>10 DEF ch
    <3> QED
      BY <1>1, <1>2, <1>4, <3>1
  <2>4. f + m <= n + 1 + 1
    BY <1>1, <1>4, <1>5
  <2>5. Got(c, p, k, DataUpTo(c, k, f + m - 1)) /\ p.data = m
    BY <1>4, <2>2, GotSame DEF Kept, m
  <2>6. Plainly(c, p, k, f, n + 1)
    BY <1>4, <2>2, <2>3, <2>4, <2>5 DEF Plainly, Kept, h, d
  <2>7. InBodyOf(c, p, k, f, n + 1)
    BY <2>2, <2>6 DEF InBodyOf, Idle
  <2> QED
    BY <2>2, <2>7 DEF Kept, SameForm
<1> QED
  BY <1>9, <1>10

\* A parser that has set nothing but part and last, and a byte that it is to hold back.
HoldsOn(c, q, a, k, s, ch) ==
  /\ a \in Readers /\ SameForm(q, a) /\ a.i = q.i /\ a.index = q.index /\ a.behind = q.behind
  /\ a.state = q.state /\ a.data = q.data /\ a.field = q.field /\ a.value = q.value
  /\ a.name = q.name /\ a.text = q.text /\ a.current = q.current
  /\ q.index <= boundarySize
  /\ q.index < boundarySize => ch = boundary[q.index + 1] /\ ~a.part /\ ~a.last
  /\ q.index = boundarySize =>
       s = DataEnds(c, k) /\ (a.part <=> k < Len(c.parts)) /\ (a.last <=> k = Len(c.parts))

InHold(c, q, k, n, s) ==
  /\ k \in 1..Len(c.parts) /\ q.state = "PART_DATA" /\ Idle(q) /\ DOMAIN q.current = {}
  /\ s \in Nat /\ Holding(c, q, k, n, s)

\* One byte more that is held back is one byte more of the boundary, or behind it.
LEMMA HeldGoesOn ==
  ASSUME NEW c, NEW q, NEW f, NEW r, NEW n, At(c, q, f, r, n), NEW k, NEW s, InHold(c, q, k, n, s),
         NEW a, NEW ch, ch = c.body[n + 1], HoldsOn(c, q, a, k, s, ch), NEW p, p = Past(Held(a, ch))
  PROVE  p \in Readers /\ p.i = q.i + 1 /\ p.first = q.first /\ InBodyOf(c, p, k, f, n + 1)
<1> DEFINE b == c.body
           h == HeadEnds(c, k)
           d == DataEnds(c, k)
           z == boundarySize
           e == Held(a, ch)
           x == q.index
<1> SUFFICES ASSUME k \in 1..Len(c.parts), q.state = "PART_DATA", Idle(q), DOMAIN q.current = {},
                    s \in Nat, Holding(c, q, k, n, s)
             PROVE  p \in Readers /\ p.i = q.i + 1 /\ p.first = q.first /\ InBodyOf(c, p, k, f, n + 1)
  BY DEF InHold
<1>1. /\ ClientInv(c) /\ q \in Readers /\ f \in Nat /\ r \in Nat /\ n \in Nat /\ q.i \in Nat /\ q.i > 0
      /\ n + 1 = f + q.i /\ n < r /\ f <= n /\ r <= Len(b) /\ b \in Seq(Bytes) /\ Len(b) \in Nat
  BY AtIs
<1>2. z \in Nat /\ z >= 4 /\ x \in Nat
  BY <1>1, BoundaryIs DEF Readers
<1>3. ch \in Bytes /\ ch = b[n + 1]
  <2>1. n + 1 \in 1..Len(b)
    BY <1>1
  <2> QED
    BY <1>1, <2>1
<1>4. /\ x > 0 /\ s + x = n /\ h <= s /\ s <= d /\ q.data = Unmarked /\ x <= Len(q.behind)
      /\ \A j \in 1..x : q.behind[j] = b[s + j]
      /\ \A j \in 1..x : j <= z => b[s + j] = boundary[j]
      /\ Got(c, q, k, DataUpTo(c, k, s))
  BY DEF Holding
<1>5. /\ a \in Readers /\ SameForm(q, a) /\ a.i = q.i /\ a.index = x /\ a.behind = q.behind
      /\ a.state = q.state /\ a.data = q.data /\ a.field = q.field /\ a.value = q.value
      /\ a.name = q.name /\ a.text = q.text /\ a.current = q.current
      /\ x <= z
      /\ x < z => ch = boundary[x + 1] /\ ~a.part /\ ~a.last
      /\ x = z => s = d /\ (a.part <=> k < Len(c.parts)) /\ (a.last <=> k = Len(c.parts))
  BY DEF HoldsOn
<1>6. p = [e EXCEPT !.i = @ + 1]
  BY DEF Past
<1> HIDE DEF b, h, d, z
<1>7. e \in Readers /\ e.i = a.i /\ e.index = a.index + 1 /\ Alike(a, e) /\ OneMore(a, e, ch)
  <2>1. e = Held(a, ch) /\ a.index <= Len(a.behind)
    BY <1>4, <1>5
  <2> HIDE DEF e
  <2> QED
    BY <1>3, <1>5, <2>1, HeldIs
<1> HIDE DEF e, x
<1>8. /\ e.index = x + 1 /\ Len(e.behind) = x + 1 /\ e.behind[x + 1] = ch
      /\ \A j \in 1..x : e.behind[j] = q.behind[j]
  BY <1>5, <1>7 DEF OneMore
<1>9. /\ p \in Readers /\ p.i = e.i + 1 /\ Kept(e, p) /\ p.state = e.state /\ p.index = e.index
      /\ p.field = e.field /\ p.value = e.value /\ p.name = e.name /\ p.text = e.text
      /\ p.current = e.current /\ p.behind = e.behind
  BY <1>6, <1>7, Stepped
<1>10. /\ p.i = q.i + 1 /\ p.index = x + 1 /\ p.behind = e.behind /\ p.data = Unmarked /\ p.state = q.state
       /\ p.part = a.part /\ p.last = a.last /\ p.field = q.field /\ p.value = q.value
       /\ p.name = q.name /\ p.text = q.text /\ p.current = q.current /\ SameForm(q, p)
  BY <1>4, <1>5, <1>7, <1>8, <1>9 DEF Alike, Kept, SameForm
<1>11. Got(c, p, k, DataUpTo(c, k, s))
  BY <1>4, <1>10, GotSame
<1>12. s + (x + 1) = n + 1 /\ x + 1 > 0 /\ x + 1 <= z + 1
  BY <1>1, <1>2, <1>4, <1>5
<1>13. ASSUME NEW j \in 1..(x + 1) PROVE p.behind[j] = b[s + j] /\ (j <= z => b[s + j] = boundary[j])
  <2>1. CASE j = x + 1
    <3>1. s + j = n + 1
      BY <1>12, <2>1
    <3>2. p.behind[j] = ch /\ ch = b[n + 1]
      BY <1>3, <1>8, <1>10, <2>1
    <3>3. j <= z => x < z
      BY <1>2, <2>1
    <3> QED
      BY <1>5, <2>1, <3>1, <3>2, <3>3
  <2>2. CASE j # x + 1
    <3>1. j \in 1..x
      BY <1>2, <2>2
    <3> QED
      BY <1>4, <1>8, <1>10, <3>1
  <2> QED
    BY <2>1, <2>2
<1>14. /\ x + 1 <= z => ~a.part /\ ~a.last
       /\ x + 1 > z => s = d /\ (a.part <=> k < Len(c.parts)) /\ (a.last <=> k = Len(c.parts))
  <2>1. (x + 1 <= z => x < z) /\ (x + 1 > z => x = z)
    BY <1>2, <1>5
  <2> QED
    BY <1>5, <2>1
<1>15. Holding(c, p, k, n + 1, s)
  <2> DEFINE y == x + 1
  <2>1. /\ p.index = y /\ s + y = n + 1 /\ y > 0 /\ y <= z + 1 /\ y <= Len(p.behind)
        /\ \A j \in 1..y : p.behind[j] = b[s + j]
        /\ \A j \in 1..y : j <= z => b[s + j] = boundary[j]
        /\ y <= z => ~p.part /\ ~p.last
        /\ y > z => s = d /\ (p.part <=> k < Len(c.parts)) /\ (p.last <=> k = Len(c.parts))
    BY <1>2, <1>8, <1>10, <1>12, <1>13, <1>14
  <2> HIDE DEF y
  <2> QED
    BY <1>4, <1>10, <1>11, <2>1 DEF Holding, b, h, d, z
<1>16. InBodyOf(c, p, k, f, n + 1)
  BY <1>10, <1>15 DEF InBodyOf, Idle
<1> QED
  BY <1>9, <1>10, <1>16 DEF SameForm

\* Fewer bytes are held back than the boundary has.
LEMMA LeadGoesOn ==
  ASSUME NEW c, NEW q, NEW f, NEW r, NEW n, At(c, q, f, r, n), NEW k \in 1..Len(c.parts),
         q.state = "PART_DATA", Idle(q), DOMAIN q.current = {}, NEW s \in Nat, Holding(c, q, k, n, s),
         q.index < boundarySize, NEW buffer, NEW p, p = Fed(q, c.body[n + 1], buffer)
  PROVE  /\ p \in Readers /\ p.first = q.first
         /\ \/ p.i = q.i /\ InBodyOf(c, p, k, f, n)
            \/ p.i = q.i + 1 /\ InBodyOf(c, p, k, f, n + 1)
<1> DEFINE b == c.body
           h == HeadEnds(c, k)
           d == DataEnds(c, k)
           z == boundarySize
           ch == b[n + 1]
           x == q.index
<1>1. /\ ClientInv(c) /\ q \in Readers /\ f \in Nat /\ r \in Nat /\ n \in Nat /\ q.i \in Nat /\ q.i > 0
      /\ n + 1 = f + q.i /\ n < r /\ f <= n /\ r <= Len(b) /\ b \in Seq(Bytes) /\ Len(b) \in Nat
  BY AtIs
<1>2. z \in Nat /\ z >= 4 /\ x \in Nat /\ x < z /\ ~(x = z)
  BY <1>1, BoundaryIs DEF Readers
<1>3. /\ x > 0 /\ s + x = n /\ h <= s /\ s <= d /\ q.data = Unmarked /\ x <= Len(q.behind)
      /\ \A j \in 1..x : q.behind[j] = b[s + j]
      /\ \A j \in 1..x : j <= z => b[s + j] = boundary[j]
      /\ Got(c, q, k, DataUpTo(c, k, s)) /\ (x <= z => ~q.part /\ ~q.last)
  BY DEF Holding
<1>4. p = [Scan(q, ch, buffer) EXCEPT !.i = @ + 1]
  BY DEF Fed, Byte
<1>5. ~q.part /\ ~q.last
  BY <1>2, <1>3
<1> HIDE DEF b, h, d, z, ch, x
<1>6. CASE boundary[x + 1] = ch
  <2>1. Scan(q, ch, buffer) = Held(q, ch)
    BY <1>2, <1>3, <1>6 DEF Scan, z, x
  <2>2. p = Past(Held(q, ch))
    BY <1>4, <2>1 DEF Past
  <2>3. HoldsOn(c, q, q, k, s, ch)
    BY <1>1, <1>2, <1>5, <1>6 DEF HoldsOn, SameForm, z, x
  <2>4. ch = c.body[n + 1]
    BY DEF b, ch
  <2>5. p \in Readers /\ p.i = q.i + 1 /\ p.first = q.first /\ InBodyOf(c, p, k, f, n + 1)
    <3>1. InHold(c, q, k, n, s)
      BY DEF InHold
    <3> QED
      BY <2>2, <2>3, <2>4, <3>1, HeldGoesOn
  <2> QED
    BY <2>5
<1>7. CASE boundary[x + 1] # ch
  <2> DEFINE t == SubSeq(q.behind, 1, x)
             a == PartData(q, t)
             u == DataUpTo(c, k, s)
             w == DataUpTo(c, k, n)
  <2>1. Scan(q, ch, buffer) = FalseLead(q)
    BY <1>2, <1>3, <1>7 DEF Scan, z, x
  <2>2. n <= d /\ d \in Nat /\ h \in Nat /\ n < Len(b)
    <3>1. /\ h \in Nat /\ d \in Nat /\ d + z <= Len(b)
          /\ \A j \in 1..z : b[d + j] = boundary[j]
      BY <1>1, DataBytes DEF b, d, h, z
    <3>2. s # d
      <4> SUFFICES ASSUME s = d PROVE FALSE
        OBVIOUS
      <4>1. x + 1 \in 1..z /\ d + (x + 1) = n + 1
        BY <1>1, <1>2, <1>3, <3>1
      <4>2. b[n + 1] = boundary[x + 1]
        BY <3>1, <4>1
      <4> QED
        BY <1>7, <4>2 DEF ch
    <3>3. s < d
      BY <1>3, <3>1, <3>2
    <3>4. \A i \in 1..x : b[s + i] = boundary[i]
      <4>1. \A i \in 1..x : i <= z
        BY <1>2
      <4> QED
        BY <1>3, <4>1
    <3>5. s + x <= d
      <4>1. x <= boundarySize /\ s < DataEnds(c, k) /\ \A i \in 1..x : c.body[s + i] = boundary[i]
        BY <1>2, <3>3, <3>4 DEF b, d, z
      <4>2. s + x <= DataEnds(c, k)
        BY <1>1, <1>2, <4>1, LeadEnds
      <4> QED
        BY <4>2 DEF d
    <3> QED
      BY <1>1, <1>3, <3>1, <3>5
  <2>3. t \in Seq(Bytes) /\ u \in Seq(Bytes) /\ u \o t = w
    <3> DEFINE v == SubSeq(b, s + 1, n)
               g == q.behind
    <3>1. g \in Seq(Bytes) /\ Len(g) \in Nat
      BY <1>1 DEF Readers
    <3>2. t \in Seq(Bytes) /\ Len(t) = x + 1 - 1 /\ \A i \in 1..(x + 1 - 1) : t[i] = g[1 + i - 1]
      <4>1. 1 \in Nat /\ 1 <= 1 /\ 1 <= x + 1 /\ x <= Len(g)
        BY <1>2, <1>3
      <4> HIDE DEF g
      <4> QED
        BY <1>2, <3>1, <4>1, PieceIs DEF g
    <3> HIDE DEF t, g
    <3>3. Len(t) = x /\ \A i \in 1..x : t[i] = b[s + i]
      <4>1. x + 1 - 1 = x /\ \A i \in 1..x : 1 + i - 1 = i
        BY <1>2
      <4>2. \A i \in 1..x : t[i] = g[i]
        BY <3>2, <4>1
      <4> QED
        BY <1>3, <3>2, <4>1, <4>2 DEF g
    <3> DEFINE m == s + 1
    <3>4. m \in Nat /\ 1 <= m /\ m <= n + 1 /\ n <= Len(b) /\ n + 1 - m = x /\ s <= Len(b) /\ s <= n
          /\ h + 1 \in Nat /\ 1 <= h + 1 /\ h + 1 <= s + 1
      BY <1>1, <1>2, <1>3, <2>2, SMTT(30)
    <3> HIDE DEF m
    <3>5. /\ SubSeq(b, m, n) \in Seq(Bytes) /\ Len(SubSeq(b, m, n)) = n + 1 - m
          /\ \A i \in 1..(n + 1 - m) : SubSeq(b, m, n)[i] = b[m + i - 1]
      BY <1>1, <3>4, PieceIs
    <3>6. v = SubSeq(b, m, n)
      BY DEF m
    <3> HIDE DEF v
    <3>7. v \in Seq(Bytes) /\ Len(v) = x /\ \A i \in 1..x : v[i] = b[s + i]
      <4>1. \A i \in 1..x : m + i - 1 = s + i
        BY DEF m
      <4>2. v \in Seq(Bytes) /\ Len(v) = x /\ \A i \in 1..x : v[i] = b[m + i - 1]
        BY <3>4, <3>5, <3>6
      <4> QED
        BY <4>1, <4>2
    <3>8. t = v
      BY <3>2, <3>3, <3>7, SeqEqual
    <3>9. SubSeq(b, h + 1, s) \in Seq(Bytes)
      BY <1>1, <3>4, PieceIs
    <3>10. SubSeq(b, h + 1, s) \o SubSeq(b, s + 1, n) = SubSeq(b, h + 1, n)
      <4> DEFINE l == h + 1
      <4>1. l \in Nat /\ 1 <= l /\ l <= s + 1 /\ s <= n /\ n <= Len(b)
        BY <3>4
      <4> HIDE DEF l
      <4>2. SubSeq(b, l, s) \o SubSeq(b, s + 1, n) = SubSeq(b, l, n)
        BY <1>1, <4>1, PiecesJoin
      <4> QED
        BY <4>2 DEF l
    <3> QED
      BY <3>2, <3>8, <3>9, <3>10 DEF v, DataUpTo, b, h
  <2> HIDE DEF u, w
  <2>4. a \in Readers /\ SameParser(q, a) /\ Got(c, a, k, w)
    <3>1. Got(c, q, k, u)
      BY <1>3 DEF u
    <3> HIDE DEF t
    <3> QED
      BY <1>1, <2>3, <3>1, GotMore
  <2>5. a = PartData(q, SubSeq(q.behind, 1, q.index)) /\ p = Past(FalseLead(q))
    BY <1>4, <2>1 DEF Past, x
  <2> HIDE DEF a, t
  <2>6. /\ p \in Readers /\ p.i = q.i /\ p.index = 0 /\ p.data = q.i /\ SameForm(a, p)
        /\ p.part = q.part /\ p.last = q.last /\ p.state = q.state /\ p.field = q.field /\ p.value = q.value
        /\ p.name = q.name /\ p.text = q.text /\ p.current = q.current
    BY <1>1, <2>4, <2>5, FalseLeadIs
  <2>7. f + p.data - 1 = n /\ p.data > 0 /\ h < f + p.data /\ f + p.data <= n + 1
    <3> DEFINE y == q.i
    <3>1. /\ y \in Nat /\ y > 0 /\ n + 1 = f + y /\ h <= s /\ s + x = n
          /\ f \in Nat /\ n \in Nat /\ h \in Nat /\ x \in Nat
      BY <1>1, <1>2, <1>3, <2>2
    <3> HIDE DEF y
    <3>2. f + y - 1 = n /\ h < f + y /\ f + y <= n + 1
      BY <3>1
    <3>3. p.data = y
      BY <2>6 DEF y
    <3> QED
      BY <3>1, <3>2, <3>3
  <2>8. Got(c, p, k, DataUpTo(c, k, f + p.data - 1))
    <3>1. Got(c, p, k, w)
      BY <2>4, <2>6, GotSame
    <3> QED
      BY <2>7, <3>1 DEF w
  <2>9. Plainly(c, p, k, f, n)
    BY <1>5, <2>2, <2>6, <2>7, <2>8 DEF Plainly, h, d
  <2>10. InBodyOf(c, p, k, f, n)
    BY <2>6, <2>9 DEF InBodyOf, Idle
  <2>11. p.first = q.first
    BY <2>4, <2>6 DEF SameForm, SameParser
  <2> QED
    BY <2>6, <2>10, <2>11
<1> QED
  BY <1>6, <1>7

\* What comes behind the boundary, if anything was read of it.
Behind(c, k, e) ==
  /\ k < Len(c.parts) => /\ c.at[k + 1] = e + 2 /\ c.body[e + 1] = "CR" /\ c.body[e + 2] = "LF"
  /\ ~(k < Len(c.parts)) => /\ k = Len(c.parts) /\ c.ended /\ Len(c.body) = e + 4
                            /\ c.body[e + 1] = "-" /\ c.body[e + 2] = "-"

\* What a client sends behind the boundary of a part.
LEMMA BehindIs ==
  ASSUME NEW c, ClientInv(c), NEW k \in 1..Len(c.parts), NEW e, e = PartEnds(c, k), Len(c.body) > e
  PROVE  e \in Nat /\ e = DataEnds(c, k) + boundarySize /\ Behind(c, k, e)
<1>1. /\ e \in Nat /\ e = DataEnds(c, k) + boundarySize /\ Follows(c, k) /\ Len(c.body) \in Nat
      /\ Len(c.parts) \in Nat /\ k \in Nat
  BY PlacesAre
<1>2. ~(Len(c.body) = e)
  BY <1>1
<1>3. ~(k < Len(c.parts)) => k = Len(c.parts)
  BY <1>1
<1> QED
  BY <1>1, <1>2, <1>3 DEF Follows, Behind

\* All of the boundary is held back.
LEMMA BoundaryGoesOn ==
  ASSUME NEW c, NEW q, NEW f, NEW r, NEW n, At(c, q, f, r, n), NEW k, NEW s, InHold(c, q, k, n, s),
         q.index = boundarySize, NEW buffer, NEW p, p = Fed(q, c.body[n + 1], buffer)
  PROVE  p \in Readers /\ p.i = q.i + 1 /\ p.first = q.first /\ InBodyOf(c, p, k, f, n + 1)
<1> DEFINE b == c.body
           d == DataEnds(c, k)
           z == boundarySize
           ch == b[n + 1]
           x == q.index
           e == PartEnds(c, k)
<1>1. /\ ClientInv(c) /\ q \in Readers /\ f \in Nat /\ r \in Nat /\ n \in Nat /\ q.i \in Nat /\ q.i > 0
      /\ n + 1 = f + q.i /\ n < r /\ f <= n /\ r <= Len(b) /\ b \in Seq(Bytes) /\ Len(b) \in Nat
  BY AtIs
<1>2. /\ k \in 1..Len(c.parts) /\ q.state = "PART_DATA" /\ Idle(q) /\ DOMAIN q.current = {}
      /\ s \in Nat /\ Holding(c, q, k, n, s)
  BY DEF InHold
<1>3. z \in Nat /\ z >= 4 /\ x = z /\ ~(x < z)
  BY BoundaryIs
<1>4. /\ s + x = n /\ HeadEnds(c, k) <= s /\ s <= d
      /\ \A j \in 1..x : j <= z => b[s + j] = boundary[j]
  BY <1>2 DEF Holding
<1>5. s = d
  <2>1. \A i \in 1..boundarySize : c.body[s + i] = boundary[i]
    <3> HIDE DEF x
    <3>1. \A i \in 1..z : i <= z
      BY <1>3
    <3> QED
      BY <1>3, <1>4, <3>1
  <2> QED
    BY <1>1, <1>2, <1>4, <2>1, NoneBefore
<1>6. p = Past(Scan(q, ch, buffer))
  BY <1>2 DEF Fed, Byte, Past
<1>7. e \in Nat /\ e = d + z /\ n = e /\ Len(b) > e
  <2>1. d \in Nat /\ e \in Nat /\ e = d + z
    BY <1>1, <1>2, PlacesAre
  <2> HIDE DEF b, d, e, x, z
  <2> QED
    BY <1>1, <1>3, <1>4, <1>5, <2>1
<1>8. /\ k < Len(c.parts) => ch = "CR"
      /\ ~(k < Len(c.parts)) => k = Len(c.parts) /\ ch = "-"
  <2>1. /\ k < Len(c.parts) => c.body[e + 1] = "CR"
        /\ ~(k < Len(c.parts)) => k = Len(c.parts) /\ c.body[e + 1] = "-"
    BY <1>1, <1>2, <1>7, BehindIs DEF Behind
  <2> QED
    BY <1>7, <2>1
<1>9. ~q.part /\ ~q.last
  BY <1>2, <1>3 DEF Holding
<1> HIDE DEF b, d, ch, e, z, x
<1>10. PICK a : HoldsOn(c, q, a, k, s, ch) /\ Scan(q, ch, buffer) = Held(a, ch)
  <2>1. x = q.index /\ x = boundarySize /\ ~(x < boundarySize) /\ boundarySize <= boundarySize
    BY <1>3 DEF x, z
  <2>2. CASE k < Len(c.parts)
    <3> DEFINE g == [q EXCEPT !.part = TRUE]
    <3>1. Scan(q, ch, buffer) = Held(g, ch)
      BY <1>8, <2>1, <2>2 DEF Scan
    <3>2. TRUE \in BOOLEAN /\ ~(k = Len(c.parts))
      BY <1>1, <1>2, <2>2, PlacesAre
    <3>3. /\ g \in Readers /\ SameForm(q, g) /\ g.i = q.i /\ g.index = q.index /\ g.behind = q.behind
          /\ g.state = q.state /\ g.data = q.data /\ g.field = q.field /\ g.value = q.value
          /\ g.name = q.name /\ g.text = q.text /\ g.current = q.current /\ g.part /\ g.last = q.last
      BY <1>1, <3>2 DEF Readers, SameForm
    <3> HIDE DEF g
    <3>4. HoldsOn(c, q, g, k, s, ch)
      BY <1>5, <1>9, <2>1, <2>2, <3>2, <3>3 DEF HoldsOn, d
    <3> QED
      BY <3>1, <3>4
  <2>3. CASE ~(k < Len(c.parts))
    <3> DEFINE g == [q EXCEPT !.last = TRUE]
    <3>1. Scan(q, ch, buffer) = Held(g, ch)
      BY <1>8, <2>1, <2>3 DEF Scan
    <3>2. TRUE \in BOOLEAN /\ k = Len(c.parts)
      BY <1>8, <2>3
    <3>3. /\ g \in Readers /\ SameForm(q, g) /\ g.i = q.i /\ g.index = q.index /\ g.behind = q.behind
          /\ g.state = q.state /\ g.data = q.data /\ g.field = q.field /\ g.value = q.value
          /\ g.name = q.name /\ g.text = q.text /\ g.current = q.current /\ g.part = q.part /\ g.last
      BY <1>1, <3>2 DEF Readers, SameForm
    <3> HIDE DEF g
    <3>4. HoldsOn(c, q, g, k, s, ch)
      BY <1>5, <1>9, <2>1, <2>3, <3>2, <3>3 DEF HoldsOn, d
    <3> QED
      BY <3>1, <3>4
  <2> QED
    BY <2>2, <2>3
<1>11. p = Past(Held(a, ch)) /\ ch = c.body[n + 1]
  BY <1>6, <1>10 DEF ch, b
<1> QED
  BY <1>10, <1>11, HeldGoesOn

\* And the byte behind it, too: the part is complete.
LEMMA EndGoesOn ==
  ASSUME NEW c, NEW q, NEW f, NEW r, NEW n, At(c, q, f, r, n), NEW k, NEW s, InHold(c, q, k, n, s),
         q.index = boundarySize + 1, NEW buffer, NEW p, p = Fed(q, c.body[n + 1], buffer)
  PROVE  /\ p \in Readers /\ p.i = q.i + 1 /\ p.first = q.first
         /\ Over(c, p) \/ \E l \in 1..Len(c.parts) : InHead(c, p, l, f, n + 1)
<1> DEFINE b == c.body
           h == HeadEnds(c, k)
           d == DataEnds(c, k)
           z == boundarySize
           ch == b[n + 1]
           x == q.index
           e == PartEnds(c, k)
           data == c.parts[k].data
           a == PartEnd(q)
<1>1. /\ ClientInv(c) /\ q \in Readers /\ f \in Nat /\ r \in Nat /\ n \in Nat /\ q.i \in Nat /\ q.i > 0
      /\ n + 1 = f + q.i /\ n < r /\ f <= n /\ r <= Len(b) /\ b \in Seq(Bytes) /\ Len(b) \in Nat
  BY AtIs
<1>2. /\ k \in 1..Len(c.parts) /\ q.state = "PART_DATA" /\ Idle(q) /\ DOMAIN q.current = {}
      /\ s \in Nat /\ Holding(c, q, k, n, s)
  BY DEF InHold
<1>3. z \in Nat /\ z >= 4 /\ x = z + 1 /\ x > z /\ ~(x < z) /\ x # z
  BY BoundaryIs
<1>4. /\ s + x = n /\ q.data = Unmarked /\ Got(c, q, k, DataUpTo(c, k, s))
      /\ s = d /\ (q.part <=> k < Len(c.parts)) /\ (q.last <=> k = Len(c.parts))
  BY <1>2, <1>3 DEF Holding
<1>5. p = Past(Scan(q, ch, buffer))
  BY <1>2 DEF Fed, Byte, Past
<1>6. e \in Nat /\ e = d + z /\ n = e + 1 /\ Len(b) > e /\ d \in Nat
  <2>1. d \in Nat /\ e \in Nat /\ e = d + z
    BY <1>1, <1>2, PlacesAre
  <2> HIDE DEF b, d, e, x, z
  <2> QED
    BY <1>1, <1>3, <1>4, <2>1
<1>7. /\ k < Len(c.parts) => c.at[k + 1] = e + 2 /\ b[e + 2] = "LF"
      /\ ~(k < Len(c.parts)) => k = Len(c.parts) /\ c.ended /\ b[e + 2] = "-"
  <2>1. Behind(c, k, e)
    BY <1>1, <1>2, <1>6, BehindIs
  <2> QED
    BY <2>1 DEF Behind
<1>8. e + 2 = n + 1
  <2> HIDE DEF e
  <2> QED
    BY <1>6
<1>9. DataUpTo(c, k, d) = data
  <2>1. /\ h \in Nat /\ d \in Nat /\ h <= d /\ d + z <= Len(b) /\ d = h + Len(data)
        /\ \A j \in 1..Len(data) : b[h + j] = data[j]
    BY <1>1, <1>2, DataBytes
  <2>2. data \in Seq(Bytes) /\ Len(data) \in Nat
    <3>1. c.parts[k] \in FormParts
      BY <1>1, <1>2, PlacesAre
    <3> QED
      BY <3>1, NameValueIs
  <2> DEFINE m == h + 1
             t == SubSeq(b, m, d)
  <2> HIDE DEF b, h, d, data, z
  <2>3. m \in Nat /\ 1 <= m /\ m <= d + 1 /\ d <= Len(b) /\ d + 1 - m = Len(data)
    BY <1>1, <1>3, <2>1, <2>2
  <2>4. \A i \in 1..Len(data) : m + i - 1 = h + i
    BY <2>1
  <2> HIDE DEF m
  <2>5. t \in Seq(Bytes) /\ Len(t) = d + 1 - m /\ \A i \in 1..(d + 1 - m) : t[i] = b[m + i - 1]
    BY <1>1, <2>1, <2>3, PieceIs, SMTT(30)
  <2> HIDE DEF t
  <2>6. Len(t) = Len(data) /\ \A i \in 1..Len(data) : t[i] = data[i]
    BY <2>1, <2>3, <2>4, <2>5
  <2>7. t = data
    BY <2>2, <2>5, <2>6, SeqEqual
  <2> QED
    BY <2>7 DEF DataUpTo, t, m, b, h
<1>10. Got(c, q, k, c.parts[k].data)
  BY <1>4, <1>9
<1>11. /\ a \in Readers /\ SameParser(q, a)
       /\ a.form = c.meant[k + 1].form /\ a.files = c.meant[k + 1].files
       /\ a.first # "d" => DOMAIN a.headers \subseteq {"d"}
  BY <1>1, <1>2, <1>10, GotEnds
<1>12. ~q.bad /\ ~q.done
  BY <1>10 DEF Got
<1>13. ch = b[e + 2]
  BY <1>8
<1> HIDE DEF b, h, d, ch, e, z, x, data, a
<1>14. ~(x < boundarySize) /\ ~(x = boundarySize) /\ x = q.index
  BY <1>3 DEF x, z
<1>15. CASE k < Len(c.parts)
  <2> DEFINE g == [a EXCEPT !.index = 0, !.part = FALSE, !.state = "HEADER_FIELD_START"]
  <2>1. Scan(q, ch, buffer) = g
    BY <1>4, <1>7, <1>13, <1>14, <1>15 DEF Scan, To, a
  <2>2. 0 \in Nat /\ FALSE \in BOOLEAN /\ "HEADER_FIELD_START" \in States /\ k # Len(c.parts)
    BY <1>1, <1>2, <1>15, PlacesAre DEF States
  <2>3. /\ g \in Readers /\ g.state = "HEADER_FIELD_START" /\ g.i = a.i /\ ~g.part /\ g.last = a.last /\ g.data = a.data
        /\ g.field = a.field /\ g.value = a.value /\ g.name = a.name /\ g.text = a.text /\ g.current = a.current
        /\ SameForm(a, g)
    BY <1>11, <2>2 DEF Readers, SameForm
  <2> HIDE DEF g
  <2>4. p = [g EXCEPT !.i = @ + 1]
    BY <1>5, <2>1 DEF Past
  <2>5. /\ p \in Readers /\ p.i = g.i + 1 /\ Kept(g, p) /\ p.state = g.state
        /\ p.field = g.field /\ p.value = g.value /\ p.name = g.name /\ p.text = g.text
        /\ p.current = g.current
    BY <2>3, <2>4, Stepped
  <2>6. /\ p.state = "HEADER_FIELD_START" /\ p.i = q.i + 1 /\ ~p.part /\ ~p.last /\ p.data = Unmarked
        /\ p.field = q.field /\ p.value = q.value /\ p.name = q.name /\ p.text = q.text /\ p.current = q.current
        /\ SameForm(a, p)
    BY <1>4, <1>11, <2>2, <2>3, <2>5 DEF Kept, SameForm, SameParser
  <2> DEFINE l == k + 1
  <2>7. l \in 1..Len(c.parts)
    <3>1. k \in Nat /\ Len(c.parts) \in Nat
      BY <1>1, <1>2, PlacesAre
    <3> QED
      BY <1>15, <3>1
  <2>8. c.at[l] = n + 1
    BY <1>7, <1>8, <1>15
  <2>9. p.form = c.meant[l].form /\ p.files = c.meant[l].files
    BY <1>11, <2>6 DEF SameForm
  <2> HIDE DEF l
  <2>10. SoFar(c, p, l)
    BY <1>11, <1>12, <2>6, <2>9 DEF SoFar, SameForm, SameParser
  <2>11. Took(c, p, l, n + 1)
    <3>1. c.at[l] \in Nat /\ KeyEnds(c, l) \in {c.at[l] + 4, c.at[l] + 5}
      BY <1>1, <2>7, PlacesAre
    <3>2. n + 1 <= KeyEnds(c, l)
      BY <2>8, <3>1
    <3> QED
      BY <1>2, <2>6, <3>2 DEF Took
  <2>12. LineStarts(c, p, l, n + 1)
    BY <1>2, <2>6, <2>8 DEF LineStarts, Idle
  <2>13. InHead(c, p, l, f, n + 1)
    BY <2>10, <2>11, <2>12 DEF InHead
  <2>14. p.first = q.first
    BY <1>11, <2>6 DEF SameForm, SameParser
  <2> QED
    BY <2>5, <2>6, <2>7, <2>13, <2>14
<1>16. CASE ~(k < Len(c.parts))
  <2> DEFINE g == FormEnd(a)
  <2>1. Scan(q, ch, buffer) = g
    BY <1>4, <1>7, <1>13, <1>14, <1>16 DEF Scan, a
  <2>2. "END" \in States /\ TRUE \in BOOLEAN /\ ~a.bad
    BY <1>11, <1>12 DEF States, SameParser
  <2>3. g = [a EXCEPT !.state = "END", !.done = TRUE]
    BY <2>2 DEF FormEnd
  <2> HIDE DEF g
  <2>4. /\ g \in Readers /\ g.state = "END" /\ g.done /\ g.i = a.i /\ g.data = a.data
        /\ g.field = a.field /\ g.value = a.value /\ g.name = a.name /\ g.text = a.text
        /\ g.form = a.form /\ g.files = a.files /\ g.bad = a.bad /\ g.first = a.first
    BY <1>11, <2>2, <2>3 DEF Readers
  <2>5. p = [g EXCEPT !.i = @ + 1]
    BY <1>5, <2>1 DEF Past
  <2>6. /\ p \in Readers /\ p.i = g.i + 1 /\ Kept(g, p) /\ p.state = g.state
        /\ p.field = g.field /\ p.value = g.value /\ p.name = g.name /\ p.text = g.text
    BY <2>4, <2>5, Stepped
  <2>7. Len(c.meant) = k + 1 /\ k = Len(c.parts)
    BY <1>1, <1>7, <1>16 DEF ClientInv
  <2>8. p.state = "END" /\ p.i = q.i + 1 /\ p.data = Unmarked /\ p.done /\ ~p.bad /\ p.first = q.first
        /\ p.field = q.field /\ p.value = q.value /\ p.name = q.name /\ p.text = q.text
        /\ p.form = a.form /\ p.files = a.files
    BY <1>4, <1>11, <2>2, <2>4, <2>6 DEF Kept, SameForm, SameParser
  <2>9. Over(c, p)
    BY <1>2, <1>7, <1>11, <1>16, <2>7, <2>8 DEF Over, Idle
  <2> QED
    BY <2>6, <2>8, <2>9
<1> QED
  BY <1>15, <1>16

\* A byte of the data of a part, or of the boundary behind it.
LEMMA PartGoesOn ==
  ASSUME NEW c, NEW q, NEW f, NEW r, NEW n, At(c, q, f, r, n), NEW k \in 1..Len(c.parts), InBodyOf(c, q, k, f, n),
         NEW p, p = Fed(q, c.body[n + 1], BufferOf(c, f, r))
  PROVE  /\ p \in Readers /\ p.first = q.first
         /\ \/ p.i = q.i /\ Phase(c, p, f, n)
            \/ p.i = q.i + 1 /\ Phase(c, p, f, n + 1)
<1>1. q.state = "PART_DATA" /\ Idle(q) /\ DOMAIN q.current = {}
  BY DEF InBodyOf
<1>2. CASE Plainly(c, q, k, f, n)
  BY <1>1, <1>2, PlainGoesOn DEF Phase
<1>3. ASSUME NEW s \in Nat, Holding(c, q, k, n, s)
      PROVE  /\ p \in Readers /\ p.first = q.first
             /\ \/ p.i = q.i /\ Phase(c, p, f, n)
                \/ p.i = q.i + 1 /\ Phase(c, p, f, n + 1)
  <2>1. InHold(c, q, k, n, s)
    BY <1>1, <1>3 DEF InHold
  <2>2. q.index \in Nat /\ boundarySize \in Nat /\ q.index <= boundarySize + 1
    BY <1>3, AtIs, NumbersAre, BoundaryIs DEF Holding
  <2>3. CASE q.index < boundarySize
    BY <1>1, <1>3, <2>3, LeadGoesOn DEF Phase
  <2>4. CASE q.index = boundarySize
    BY <2>1, <2>4, BoundaryGoesOn DEF Phase
  <2>5. CASE q.index = boundarySize + 1
    BY <2>1, <2>5, EndGoesOn DEF Phase
  <2>6. q.index < boundarySize \/ q.index = boundarySize \/ q.index = boundarySize + 1
    BY <2>2
  <2> QED
    BY <2>3, <2>4, <2>5, <2>6
<1> QED
  BY <1>2, <1>3 DEF InBodyOf

\* Of the form, nothing is to come.
LEMMA OverGoesOn ==
  ASSUME NEW c, NEW q \in Readers, Over(c, q), NEW ch, NEW buffer, NEW p, p = Fed(q, ch, buffer)
  PROVE  p \in Readers /\ p.first = q.first /\ p.i = q.i + 1 /\ Over(c, p)
<1>1. q.state = "END"
  BY DEF Over
<1>2. p = [q EXCEPT !.i = @ + 1]
  BY <1>1 DEF Fed, Byte
<1>3. /\ p \in Readers /\ p.i = q.i + 1 /\ Kept(q, p) /\ p.state = q.state
      /\ p.field = q.field /\ p.value = q.value /\ p.name = q.name /\ p.text = q.text
  BY <1>2, Stepped
<1> QED
  BY <1>3 DEF Over, Idle, Kept, SameForm

\* Any byte.
LEMMA ByteGoesOn ==
  ASSUME NEW c, NEW q, NEW f, NEW r, NEW n, At(c, q, f, r, n), Phase(c, q, f, n), NameFirst(c, q),
         q.state # "PART_DATA_START", NEW p, p = Fed(q, c.body[n + 1], BufferOf(c, f, r))
  PROVE  /\ p \in Readers /\ p.first = q.first
         /\ \/ p.i = q.i /\ Phase(c, p, f, n)
            \/ p.i = q.i + 1 /\ Phase(c, p, f, n + 1)
<1>1. CASE Opening(c, q, n)
  BY <1>1, OpeningGoesOn DEF Phase
<1>2. CASE Over(c, q)
  BY <1>2, AtIs, OverGoesOn DEF Phase
<1>3. ASSUME NEW k \in 1..Len(c.parts), InHead(c, q, k, f, n)
      PROVE  p \in Readers /\ p.first = q.first /\ p.i = q.i + 1 /\ Phase(c, p, f, n + 1)
  <2>1. q.first = "d" \/ ~c.parts[k].typed
    <3>1. DOMAIN c.parts = 1..Len(c.parts)
      BY AtIs DEF ClientInv, Clients
    <3> QED
      BY <3>1 DEF NameFirst
  <2>2. p = Fed(q, c.body[n + 1], SubSeq(c.body, f + 1, r))
    BY DEF BufferOf
  <2>3. /\ p \in Readers /\ p.i = q.i + 1 /\ p.first = q.first
        /\ InHead(c, p, k, f, n + 1) \/ DataStarts(c, p, k, n + 1)
    BY <1>3, <2>1, <2>2, HeadGoesOn
  <2> QED
    BY <2>3 DEF Phase
<1>4. ASSUME NEW k \in 1..Len(c.parts), DataStarts(c, q, k, n) PROVE FALSE
  BY <1>4 DEF DataStarts
<1>5. ASSUME NEW k \in 1..Len(c.parts), InBodyOf(c, q, k, f, n)
      PROVE  /\ p \in Readers /\ p.first = q.first
             /\ \/ p.i = q.i /\ Phase(c, p, f, n)
                \/ p.i = q.i + 1 /\ Phase(c, p, f, n + 1)
  BY <1>5, PartGoesOn
<1> QED
  BY <1>1, <1>2, <1>3, <1>4, <1>5 DEF Phase

----------------------------------------------------------------------------
(* The end of a buffer *)

\* A parser that is at the end of what was read, with its marks in it.
AtEnd(c, q, f, r) ==
  /\ ClientInv(c) /\ q \in Readers /\ f \in Nat /\ r \in Nat /\ f < r /\ r <= Len(c.body)
  /\ f + q.field <= r + 1 /\ f + q.value <= r + 1 /\ f + q.data <= r + 1

\* What is marked at the end of a buffer, and where its mark is in the next one.
RestOf(buffer, mark) == IF mark = Unmarked THEN << >> ELSE SubSeq(buffer, mark, Len(buffer))
Rest(c, f, r, mark) == IF mark = Unmarked THEN << >> ELSE SubSeq(c.body, f + mark, r)
NextMark(mark) == IF mark = Unmarked THEN Unmarked ELSE 1
NameRest(c, q, f, r) == q.name \o Rest(c, f, r, q.field)
TextRest(c, q, f, r) == q.text \o Rest(c, f, r, q.value)
WithRest(c, q, f, r) == [q EXCEPT !.name = NameRest(c, q, f, r), !.text = TextRest(c, q, f, r)]

\* What is marked at the end of the buffer is a piece of the body.
LEMMA RestIs ==
  ASSUME NEW c, ClientInv(c), NEW f \in Nat, NEW r \in Nat, f < r, r <= Len(c.body),
         NEW mark \in Nat, f + mark <= r + 1
  PROVE  /\ Rest(c, f, r, mark) \in Seq(Bytes)
         /\ RestOf(BufferOf(c, f, r), mark) = Rest(c, f, r, mark)
<1> DEFINE b == c.body
           t == BufferOf(c, f, r)
<1>1. b \in Seq(Bytes) /\ Len(b) \in Nat
  BY DEF ClientInv, Clients
<1>2. << >> \in Seq(Bytes)
  OBVIOUS
<1>3. CASE mark = Unmarked
  BY <1>2, <1>3 DEF Rest, RestOf
<1>4. CASE mark # Unmarked
  <2>1. mark > 0 /\ mark # 0
    BY <1>4 DEF Unmarked
  <2> DEFINE m == f + 1
             j == r - f
             g == f + mark
  <2>2. /\ m \in Nat /\ 1 <= m /\ m <= r + 1 /\ r + 1 - m = j /\ j \in Nat /\ f + j = r /\ f + j <= r /\ f <= r
        /\ 1 <= mark /\ mark <= j + 1 /\ g \in Nat /\ 1 <= g /\ g <= r + 1
    BY <2>1
  <2> HIDE DEF m, j, g
  <2>3. SubSeq(b, m, r) \in Seq(Bytes) /\ Len(SubSeq(b, m, r)) = j
    <3>1. r <= Len(b)
      OBVIOUS
    <3> HIDE DEF b
    <3> QED
      BY <1>1, <2>2, <3>1, PieceIs
  <2>4. t = SubSeq(b, m, r)
    BY DEF BufferOf, m
  <2>5. SubSeq(t, mark, Len(t)) = SubSeq(b, g, r)
    <3>1. r <= Len(b)
      OBVIOUS
    <3> HIDE DEF b
    <3>2. SubSeq(SubSeq(b, f + 1, r), mark, j) = SubSeq(b, f + mark, f + j)
      BY <1>1, <2>2, <3>1, PieceOfPiece
    <3> HIDE DEF t
    <3> QED
      BY <2>2, <2>3, <2>4, <3>2 DEF m, g
  <2>6. SubSeq(b, g, r) \in Seq(Bytes)
    <3>1. r <= Len(b)
      OBVIOUS
    <3> HIDE DEF b
    <3> QED
      BY <1>1, <2>2, <3>1, PieceIs
  <2>7. Rest(c, f, r, mark) = SubSeq(b, g, r)
    BY <1>4 DEF Rest, g
  <2> HIDE DEF b, t
  <2> QED
    BY <1>4, <2>5, <2>6, <2>7 DEF t, RestOf
<1> QED
  BY <1>3, <1>4

\* What feed leaves.
Returned(c, q, a, f, r, p) ==
  /\ p \in Readers /\ p.i = 1 /\ SameForm(a, p) /\ p.name = NameRest(c, q, f, r) /\ p.text = TextRest(c, q, f, r)
  /\ p.field = NextMark(q.field) /\ p.value = NextMark(q.value) /\ p.data = NextMark(q.data)
  /\ p.state = q.state /\ p.index = q.index /\ p.part = q.part /\ p.last = q.last /\ p.behind = q.behind
  /\ p.current = q.current

\* Likewise for the name and the value.
LEMMA RestsAre ==
  ASSUME NEW c, NEW q, NEW f, NEW r, AtEnd(c, q, f, r)
  PROVE  /\ NameRest(c, q, f, r) \in Seq(Bytes) /\ TextRest(c, q, f, r) \in Seq(Bytes)
         /\ Rest(c, f, r, q.data) \in Seq(Bytes)
         /\ WithRest(c, q, f, r) \in Readers /\ SameForm(q, WithRest(c, q, f, r))
<1> DEFINE u == Rest(c, f, r, q.field)
           v == Rest(c, f, r, q.value)
           w == Rest(c, f, r, q.data)
<1>1. q \in Readers
  BY DEF AtEnd
<1>2. /\ q.field \in Nat /\ q.value \in Nat /\ q.data \in Nat /\ q.name \in Seq(Bytes) /\ q.text \in Seq(Bytes)
  BY <1>1 DEF Readers
<1>3. u \in Seq(Bytes) /\ v \in Seq(Bytes) /\ w \in Seq(Bytes)
  BY <1>2, RestIs DEF AtEnd
<1> HIDE DEF u, v, w
<1>4. q.name \o u \in Seq(Bytes) /\ q.text \o v \in Seq(Bytes)
  BY <1>2, <1>3, TextsJoined
<1>5. NameRest(c, q, f, r) \in Seq(Bytes) /\ TextRest(c, q, f, r) \in Seq(Bytes)
  BY <1>4 DEF NameRest, TextRest, u, v
<1>6. WithRest(c, q, f, r) \in Readers /\ SameForm(q, WithRest(c, q, f, r))
  BY <1>1, <1>5 DEF WithRest, Readers, SameForm
<1> QED
  BY <1>3, <1>5, <1>6 DEF w

\* What feed leaves when it has handed on the data that is marked.
LEMMA ReturnedIs ==
  ASSUME NEW c, NEW q, NEW f, NEW r, AtEnd(c, q, f, r),
         NEW a \in Readers, SameParser(WithRest(c, q, f, r), a),
         a = PartData(WithRest(c, q, f, r), Rest(c, f, r, q.data)), NEW p, p = BufferEnd(q, BufferOf(c, f, r))
  PROVE  Returned(c, q, a, f, r, p)
<1> DEFINE t == BufferOf(c, f, r)
           rest(mark) == IF mark = Unmarked THEN << >> ELSE SubSeq(t, mark, Len(t))
           x == WithRest(c, q, f, r)
           e == [a EXCEPT !.field = NextMark(q.field), !.value = NextMark(q.value), !.data = NextMark(q.data), !.i = 1]
<1>1. q \in Readers /\ q.field \in Nat /\ q.value \in Nat /\ q.data \in Nat
  BY DEF AtEnd, Readers
<1>2. rest(q.field) = Rest(c, f, r, q.field) /\ rest(q.value) = Rest(c, f, r, q.value)
      /\ rest(q.data) = Rest(c, f, r, q.data)
  <2>1. RestOf(t, q.field) = Rest(c, f, r, q.field)
    BY <1>1, RestIs DEF AtEnd
  <2>2. RestOf(t, q.value) = Rest(c, f, r, q.value)
    BY <1>1, RestIs DEF AtEnd
  <2>3. RestOf(t, q.data) = Rest(c, f, r, q.data)
    BY <1>1, RestIs DEF AtEnd
  <2> QED
    BY <2>1, <2>2, <2>3 DEF RestOf
<1>3. p = [PartData([q EXCEPT !.name = @ \o rest(q.field), !.text = @ \o rest(q.value)], rest(q.data))
             EXCEPT !.field = NextMark(@), !.value = NextMark(@), !.data = NextMark(@), !.i = 1]
  BY DEF BufferEnd, NextMark
<1> HIDE DEF rest, t
<1>4. [q EXCEPT !.name = @ \o rest(q.field), !.text = @ \o rest(q.value)] = x
  BY <1>2 DEF WithRest, NameRest, TextRest
<1>5. /\ x.field = q.field /\ x.value = q.value /\ x.data = q.data
      /\ x.name = NameRest(c, q, f, r) /\ x.text = TextRest(c, q, f, r)
      /\ x.state = q.state /\ x.index = q.index /\ x.part = q.part /\ x.last = q.last /\ x.behind = q.behind
      /\ x.current = q.current
  BY <1>1 DEF WithRest, Readers
<1> HIDE DEF x
<1>6. p = [a EXCEPT !.field = NextMark(@), !.value = NextMark(@), !.data = NextMark(@), !.i = 1]
  BY <1>2, <1>3, <1>4 DEF x
<1>7. /\ a.field = q.field /\ a.value = q.value /\ a.data = q.data
      /\ a.name = NameRest(c, q, f, r) /\ a.text = TextRest(c, q, f, r)
      /\ a.state = q.state /\ a.index = q.index /\ a.part = q.part /\ a.last = q.last /\ a.behind = q.behind
      /\ a.current = q.current
  BY <1>5 DEF SameParser, x
<1>8. p = e
  BY <1>6, <1>7
<1>9. NextMark(q.field) \in Nat /\ NextMark(q.value) \in Nat /\ NextMark(q.data) \in Nat /\ 1 \in Nat
  BY DEF NextMark, Unmarked
<1> HIDE DEF e
<1>10. p \in Readers
  BY <1>8, <1>9, ZenonT(30) DEF Readers, e
<1>11. /\ p.i = 1 /\ p.field = NextMark(q.field) /\ p.value = NextMark(q.value) /\ p.data = NextMark(q.data)
       /\ SameForm(a, p) /\ p.name = a.name /\ p.text = a.text
       /\ p.state = a.state /\ p.index = a.index /\ p.part = a.part /\ p.last = a.last /\ p.behind = a.behind
       /\ p.current = a.current
  BY <1>8, <1>9 DEF Readers, SameForm, e
<1> QED
  BY <1>7, <1>10, <1>11 DEF Returned

\* When no data is marked the form is as it was.
LEMMA NoneMarked ==
  ASSUME NEW c, NEW q, NEW f, NEW r, AtEnd(c, q, f, r), q.data = Unmarked,
         NEW p, p = BufferEnd(q, BufferOf(c, f, r))
  PROVE  Returned(c, q, q, f, r, p)
<1> DEFINE a == WithRest(c, q, f, r)
<1>1. a \in Readers /\ SameForm(q, a)
  BY RestsAre
<1>2. Rest(c, f, r, q.data) = << >>
  BY DEF Rest
<1>3. a = PartData(a, Rest(c, f, r, q.data))
  BY <1>2 DEF PartData
<1> HIDE DEF a
<1>4. SameParser(a, a)
  BY DEF SameParser
<1>5. Returned(c, q, a, f, r, p)
  BY <1>1, <1>3, <1>4, ReturnedIs DEF a
<1> QED
  BY <1>1, <1>5 DEF Returned, SameForm

\* What is idle stays so.
LEMMA StaysIdle ==
  ASSUME NEW c, NEW q, NEW a, NEW f, NEW r, NEW p, Idle(q), Returned(c, q, a, f, r, p)
  PROVE  Idle(p)
<1>1. q.field = Unmarked /\ q.value = Unmarked /\ q.name = << >> /\ q.text = << >>
  BY DEF Idle
<1>2. NameRest(c, q, f, r) = << >> /\ TextRest(c, q, f, r) = << >>
  <2>1. << >> \o << >> = << >>
    OBVIOUS
  <2> QED
    BY <1>1, <2>1 DEF NameRest, TextRest, Rest
<1>3. NextMark(Unmarked) = Unmarked
  BY DEF NextMark
<1> QED
  BY <1>1, <1>2, <1>3 DEF Idle, Returned

Ends(c, q, f, r) ==
  /\ ClientInv(c) /\ q \in Readers /\ f \in Nat /\ r \in Nat /\ f < r /\ r <= Len(c.body)

\* No marks are left in the buffer when nothing is marked.
LEMMA IdleAtEnd ==
  ASSUME NEW c, NEW q, NEW f, NEW r, Ends(c, q, f, r), Idle(q), q.data = Unmarked
  PROVE  AtEnd(c, q, f, r)
<1>1. f \in Nat /\ r \in Nat /\ f < r /\ q.field = 0 /\ q.value = 0 /\ q.data = 0
  BY DEF Ends, Idle, Unmarked
<1>2. f + 0 <= r + 1
  BY <1>1
<1> QED
  BY <1>1, <1>2 DEF Ends, AtEnd

\* What is known of the headers stays so.
LEMMA HeadKept ==
  ASSUME NEW c, NEW q, NEW f, NEW r, NEW p, Returned(c, q, q, f, r, p), NEW k, SoFar(c, q, k), Took(c, q, k, r)
  PROVE  SoFar(c, p, k) /\ Took(c, p, k, r)
<1>1. q.data = Unmarked /\ NextMark(Unmarked) = Unmarked
  BY DEF SoFar, NextMark
<1>2. Kept(q, p)
  BY <1>1 DEF Returned, Kept
<1>3. p.current = q.current
  BY DEF Returned
<1>4. SoFar(c, p, k)
  BY <1>2, SoFarKept
<1> QED
  BY <1>3, <1>4 DEF Took

\* The buffer ends in the name of a header.
LEMMA NameReturns ==
  ASSUME NEW c, NEW q, NEW f, NEW r, Ends(c, q, f, r), NEW k \in 1..Len(c.parts), SoFar(c, q, k), Took(c, q, k, r),
         InName(c, q, k, f, r), NEW p, p = BufferEnd(q, BufferOf(c, f, r))
  PROVE  p \in Readers /\ p.i = 1 /\ p.first = q.first /\ InHead(c, p, k, r, r)
<1> DEFINE b == c.body
           m == q.field
           a == c.at[k]
           e == KeyEnds(c, k)
           part == c.parts[k]
           u == Rest(c, f, r, m)
           name == NameAt(c, k, r)
<1>1. /\ ClientInv(c) /\ q \in Readers /\ f \in Nat /\ r \in Nat /\ f < r /\ r <= Len(b) /\ b \in Seq(Bytes)
      /\ m \in Nat /\ Len(b) \in Nat
  <2>1. /\ ClientInv(c) /\ q \in Readers /\ f \in Nat /\ r \in Nat /\ f < r /\ r <= Len(b)
    BY DEF Ends
  <2>2. b \in Seq(Bytes)
    BY <2>1 DEF ClientInv, Clients
  <2>3. m \in Nat
    BY <2>1, NumbersAre
  <2> QED
    BY <2>1, <2>2, <2>3
<1>2. /\ q.state = "HEADER_FIELD" /\ q.index = 1 /\ q.value = Unmarked /\ q.text = << >>
      /\ r = a + 1 \/ (part.typed /\ r = e + 3)
      /\ m > 0
      /\ \/ f + m = r /\ q.name = << >>
         \/ f + m = r + 1 /\ q.name = name
  BY DEF InName
<1>3. q.data = Unmarked
  BY DEF SoFar
<1>4. /\ a \in Nat /\ e \in Nat /\ HeadThere(b, part, a, e, HeadEnds(c, k))
      /\ e = IF part.file THEN a + 5 ELSE a + 4
  BY <1>1, HeadBytes
<1>5. u = SubSeq(b, f + m, r)
  <2>1. m # 0
    <3> HIDE DEF m
    <3> QED
      BY <1>1, <1>2
  <2> QED
    BY <2>1 DEF Rest, Unmarked
<1>6. b[r] = name[1] /\ name \in Seq(Bytes) /\ Len(name) = 1 /\ name = <<name[1]>>
  <2>1. CASE r = a + 1
    <3>1. r <= e
      <4> HIDE DEF a, e, part
      <4> QED
        BY <1>4, <2>1
    <3>2. name = <<"d">>
      BY <3>1 DEF NameAt
    <3>3. b[a + 1] = "d"
      BY <1>4 DEF HeadThere
    <3> HIDE DEF a, b, name
    <3>4. b[r] = "d" /\ "d" \in Bytes
      BY <2>1, <3>3 DEF Bytes
    <3>5. name \in Seq(Bytes) /\ Len(name) = 1 /\ name[1] = "d"
      BY <3>2, <3>4
    <3> QED
      BY <3>2, <3>4, <3>5
  <2>2. CASE part.typed /\ r = e + 3
    <3>1. ~(r <= e)
      <4> HIDE DEF a, e, part
      <4> QED
        BY <1>4, <2>2
    <3>2. name = <<"t">>
      BY <3>1 DEF NameAt
    <3>3. b[e + 3] = "t"
      BY <1>4, <2>2 DEF HeadThere
    <3> HIDE DEF e, b, name
    <3>4. b[r] = "t" /\ "t" \in Bytes
      BY <2>2, <3>3 DEF Bytes
    <3>5. name \in Seq(Bytes) /\ Len(name) = 1 /\ name[1] = "t"
      BY <3>2, <3>4
    <3> QED
      BY <3>2, <3>4, <3>5
  <2> QED
    BY <1>2, <2>1, <2>2
<1> HIDE DEF b, m, a, e, part, u, name
<1>7. q.name \o u = name
  <2>1. CASE f + m = r /\ q.name = << >>
    <3>1. r \in Nat /\ 1 <= r /\ r <= r + 1 /\ r <= Len(b) /\ r + 1 - r = 1 /\ r + 1 - 1 = r
      BY <1>1
    <3>2. /\ SubSeq(b, r, r) \in Seq(Bytes) /\ Len(SubSeq(b, r, r)) = r + 1 - r
          /\ \A i \in 1..(r + 1 - r) : SubSeq(b, r, r)[i] = b[r + i - 1]
      BY <1>1, <3>1, PieceIs
    <3>3. u = SubSeq(b, r, r)
      BY <1>5, <2>1
    <3> HIDE DEF u
    <3>4. u \in Seq(Bytes) /\ Len(u) = 1 /\ u[1] = b[r + 1 - 1]
      <4>1. 1 \in 1..(r + 1 - r)
        BY <3>1
      <4> QED
        BY <3>1, <3>2, <3>3, <4>1
    <3>5. u = name
      <4>1. Len(u) = Len(name) /\ \A i \in 1..Len(u) : u[i] = name[i]
        <5>1. \A i \in 1..1 : i = 1
          OBVIOUS
        <5> QED
          BY <1>6, <3>1, <3>4, <5>1
      <4> QED
        BY <1>6, <3>4, <4>1, SeqEqual
    <3>6. << >> \o u = u
      BY <3>4
    <3> QED
      BY <2>1, <3>5, <3>6
  <2>2. CASE f + m = r + 1 /\ q.name = name
    <3>1. u = SubSeq(b, r + 1, r)
      BY <1>5, <2>2
    <3>2. SubSeq(b, r + 1, r) = << >>
      BY <1>1, SubSeqEmpty
    <3>3. name \o << >> = name
      BY <1>6
    <3> QED
      BY <2>2, <3>1, <3>2, <3>3
  <2> QED
    BY <1>2, <2>1, <2>2
<1>8. AtEnd(c, q, f, r)
  <2>1. f + m <= r + 1 /\ f + 0 <= r + 1
    BY <1>1, <1>2
  <2> QED
    BY <1>1, <1>2, <1>3, <2>1 DEF AtEnd, Unmarked, m, b
<1>9. Returned(c, q, q, f, r, p)
  BY <1>3, <1>8, NoneMarked
<1>10. SoFar(c, p, k) /\ Took(c, p, k, r)
  BY <1>9, HeadKept
<1>11. /\ p \in Readers /\ p.i = 1 /\ SameForm(q, p) /\ p.name = q.name \o u /\ p.text = TextRest(c, q, f, r)
       /\ p.field = NextMark(m) /\ p.value = NextMark(q.value) /\ p.state = q.state /\ p.index = q.index
  BY <1>9 DEF Returned, NameRest, u, m
<1>12. p.text = << >> /\ p.value = Unmarked /\ p.field = 1 /\ p.name = name
  <2>1. << >> \o << >> = << >>
    OBVIOUS
  <2>2. TextRest(c, q, f, r) = << >>
    BY <1>2, <2>1 DEF TextRest, Rest
  <2>3. m # Unmarked
    BY <1>2 DEF Unmarked
  <2> QED
    BY <1>2, <1>7, <1>11, <2>2, <2>3 DEF NextMark
<1>13. InName(c, p, k, r, r)
  <2>1. p.field > 0 /\ r + p.field = r + 1
    BY <1>12
  <2> QED
    BY <1>2, <1>11, <1>12, <2>1 DEF InName, a, e, part, name
<1> QED
  BY <1>10, <1>11, <1>13 DEF InHead, SameForm

\* It ends behind the name.
LEMMA AfterNameReturns ==
  ASSUME NEW c, NEW q, NEW f, NEW r, Ends(c, q, f, r), NEW k \in 1..Len(c.parts), SoFar(c, q, k), Took(c, q, k, r),
         AfterName(c, q, k, r), NEW p, p = BufferEnd(q, BufferOf(c, f, r))
  PROVE  p \in Readers /\ p.i = 1 /\ p.first = q.first /\ InHead(c, p, k, r, r)
<1>1. /\ q.field = Unmarked /\ q.value = Unmarked /\ q.text = << >> /\ q.name \in Seq(Bytes) /\ q.data = Unmarked
  BY DEF AfterName, Ends, Readers, SoFar
<1>2. AtEnd(c, q, f, r)
  <2>1. f + 0 <= r + 1
    BY DEF Ends
  <2> QED
    BY <1>1, <2>1 DEF AtEnd, Ends, Unmarked
<1>3. Returned(c, q, q, f, r, p)
  BY <1>1, <1>2, NoneMarked
<1>4. SoFar(c, p, k) /\ Took(c, p, k, r)
  BY <1>3, HeadKept
<1>5. NameRest(c, q, f, r) = q.name /\ TextRest(c, q, f, r) = << >>
  <2>1. << >> \o << >> = << >> /\ q.name \o << >> = q.name
    BY <1>1
  <2> QED
    BY <1>1, <2>1 DEF NameRest, TextRest, Rest
<1>6. /\ p \in Readers /\ p.i = 1 /\ SameForm(q, p) /\ p.name = q.name /\ p.text = q.text
      /\ p.field = Unmarked /\ p.value = Unmarked /\ p.state = q.state
  BY <1>1, <1>3, <1>5 DEF Returned, NextMark
<1>7. AfterName(c, p, k, r)
  BY <1>1, <1>6 DEF AfterName
<1> QED
  BY <1>4, <1>6, <1>7 DEF InHead, SameForm

\* It ends in the value of a header.
LEMMA ValueReturns ==
  ASSUME NEW c, NEW q, NEW f, NEW r, Ends(c, q, f, r), NEW k \in 1..Len(c.parts), SoFar(c, q, k), Took(c, q, k, r),
         InValue(c, q, k, f, r), NEW p, p = BufferEnd(q, BufferOf(c, f, r))
  PROVE  p \in Readers /\ p.i = 1 /\ p.first = q.first /\ InHead(c, p, k, r, r)
<1> DEFINE b == c.body
           m == q.value
           v == Rest(c, f, r, m)
<1>1. /\ ClientInv(c) /\ q \in Readers /\ f \in Nat /\ r \in Nat /\ f < r /\ r <= Len(b) /\ b \in Seq(Bytes)
      /\ m \in Nat /\ Len(b) \in Nat /\ q.name \in Seq(Bytes)
  <2>1. /\ ClientInv(c) /\ q \in Readers /\ f \in Nat /\ r \in Nat /\ f < r /\ r <= Len(b)
    BY DEF Ends
  <2>2. b \in Seq(Bytes)
    BY <2>1 DEF ClientInv, Clients
  <2>3. m \in Nat /\ q.name \in Seq(Bytes)
    BY <2>1, NumbersAre
  <2> QED
    BY <2>1, <2>2, <2>3
<1>2. q.state = "HEADER_VALUE" /\ q.field = Unmarked /\ q.name = NameAt(c, k, r) /\ q.data = Unmarked
  BY DEF InValue, SoFar
<1>3. ASSUME NEW s \in Nat, InValueFrom(c, q, k, f, r, s)
      PROVE  /\ p \in Readers /\ p.i = 1 /\ p.first = q.first /\ SoFar(c, p, k) /\ Took(c, p, k, r)
             /\ p.state = q.state /\ p.field = Unmarked /\ p.name = q.name /\ InValueFrom(c, p, k, r, r, s)
  <2> DEFINE j == f + m - 1
             l == s + 1
  <2>1. m > 0 /\ s < f + m /\ f + m <= r + 1 /\ q.text = SubSeq(b, l, j)
    BY <1>3 DEF InValueFrom
  <2>2. j \in Nat /\ l \in Nat /\ 1 <= l /\ l <= j + 1 /\ j <= r /\ f + m = j + 1 /\ f + 0 <= r + 1
    <3>1. /\ m \in Nat /\ f \in Nat /\ r \in Nat /\ f < r /\ m > 0 /\ s < f + m /\ f + m <= r + 1
      BY <1>1, <2>1
    <3> HIDE DEF m
    <3> QED
      BY <3>1
  <2>3. v = SubSeq(b, j + 1, r)
    <3>1. m # 0
      BY <1>1, <2>1
    <3> QED
      BY <2>2, <3>1 DEF Rest, Unmarked
  <2> HIDE DEF j, l, v, b, m
  <2>4. q.text \o v = SubSeq(b, l, r)
    BY <1>1, <2>1, <2>2, <2>3, PiecesJoin
  <2>5. AtEnd(c, q, f, r)
    BY <1>1, <1>2, <2>1, <2>2 DEF AtEnd, Unmarked, m, b
  <2>6. Returned(c, q, q, f, r, p)
    BY <1>2, <2>5, NoneMarked
  <2>7. SoFar(c, p, k) /\ Took(c, p, k, r)
    BY <2>6, HeadKept
  <2>8. NameRest(c, q, f, r) = q.name
    <3>1. q.name \o << >> = q.name
      BY <1>1
    <3> QED
      BY <1>2, <3>1 DEF NameRest, Rest
  <2>9. /\ p \in Readers /\ p.i = 1 /\ SameForm(q, p) /\ p.name = q.name /\ p.text = q.text \o v
        /\ p.field = NextMark(q.field) /\ p.value = NextMark(m) /\ p.state = q.state
    BY <2>6, <2>8 DEF Returned, TextRest, v, m
  <2>10. p.field = Unmarked /\ p.value = 1
    <3>1. m # 0
      BY <1>1, <2>1
    <3> QED
      BY <1>2, <2>9, <3>1 DEF NextMark, Unmarked
  <2>11. InValueFrom(c, p, k, r, r, s)
    <3>1. s < r + 1 /\ r + 1 <= r + 1 /\ r + 1 - 1 = r /\ 1 > 0
      BY <1>1, <2>1, <2>2
    <3>2. p.text = SubSeq(c.body, s + 1, r + 1 - 1)
      BY <2>4, <2>9, <3>1 DEF l, b
    <3> QED
      BY <2>10, <3>1, <3>2 DEF InValueFrom
  <2> QED
    BY <2>7, <2>9, <2>10, <2>11 DEF SameForm
<1>4. c.at[k] \in Nat /\ KeyEnds(c, k) \in Nat
  BY <1>1, PlacesAre
<1>5. CASE r \in (c.at[k] + 4)..KeyEnds(c, k) /\ InValueFrom(c, q, k, f, r, c.at[k] + 3)
  <2> DEFINE s == c.at[k] + 3
  <2>1. s \in Nat
    BY <1>4
  <2>2. InValueFrom(c, q, k, f, r, s)
    BY <1>5
  <2> HIDE DEF s
  <2>3. /\ p \in Readers /\ p.i = 1 /\ p.first = q.first /\ SoFar(c, p, k) /\ Took(c, p, k, r)
        /\ p.state = q.state /\ p.field = Unmarked /\ p.name = q.name /\ InValueFrom(c, p, k, r, r, s)
    BY <1>3, <2>1, <2>2
  <2>4. InValue(c, p, k, r, r)
    BY <1>2, <1>5, <2>3 DEF InValue, s
  <2> QED
    BY <2>3, <2>4 DEF InHead
<1>6. CASE c.parts[k].typed /\ r = KeyEnds(c, k) + 5 /\ InValueFrom(c, q, k, f, r, KeyEnds(c, k) + 4)
  <2> DEFINE s == KeyEnds(c, k) + 4
  <2>1. s \in Nat
    BY <1>4
  <2>2. InValueFrom(c, q, k, f, r, s)
    BY <1>6
  <2> HIDE DEF s
  <2>3. /\ p \in Readers /\ p.i = 1 /\ p.first = q.first /\ SoFar(c, p, k) /\ Took(c, p, k, r)
        /\ p.state = q.state /\ p.field = Unmarked /\ p.name = q.name /\ InValueFrom(c, p, k, r, r, s)
    BY <1>3, <2>1, <2>2
  <2>4. InValue(c, p, k, r, r)
    BY <1>2, <1>6, <2>3 DEF InValue, s
  <2> QED
    BY <2>3, <2>4 DEF InHead
<1> QED
  BY <1>5, <1>6 DEF InValue

\* It ends in the headers of a part.
LEMMA HeadReturns ==
  ASSUME NEW c, NEW q, NEW f, NEW r, Ends(c, q, f, r), NEW k \in 1..Len(c.parts), InHead(c, q, k, f, r),
         NEW p, p = BufferEnd(q, BufferOf(c, f, r))
  PROVE  p \in Readers /\ p.i = 1 /\ p.first = q.first /\ InHead(c, p, k, r, r)
<1>1. SoFar(c, q, k) /\ Took(c, q, k, r) /\ q.data = Unmarked
  BY DEF InHead, SoFar
<1>2. CASE LineStarts(c, q, k, r) \/ LineEnds(c, q, k, r) \/ HeadStops(c, q, k, r)
  <2>1. Idle(q)
    BY <1>2 DEF LineStarts, LineEnds, HeadStops
  <2>2. AtEnd(c, q, f, r)
    BY <1>1, <2>1, IdleAtEnd
  <2>3. Returned(c, q, q, f, r, p)
    BY <1>1, <2>2, NoneMarked
  <2>4. Idle(p)
    BY <2>1, <2>3, StaysIdle
  <2>5. SoFar(c, p, k) /\ Took(c, p, k, r)
    BY <1>1, <2>3, HeadKept
  <2>6. p \in Readers /\ p.i = 1 /\ SameForm(q, p) /\ p.state = q.state
    BY <2>3 DEF Returned
  <2>7. LineStarts(c, p, k, r) \/ LineEnds(c, p, k, r) \/ HeadStops(c, p, k, r)
    BY <1>2, <2>4, <2>6 DEF LineStarts, LineEnds, HeadStops
  <2> QED
    BY <2>5, <2>6, <2>7 DEF InHead, SameForm
<1>3. CASE InName(c, q, k, f, r)
  BY <1>1, <1>3, NameReturns
<1>4. CASE AfterName(c, q, k, r)
  BY <1>1, <1>4, AfterNameReturns
<1>5. CASE InValue(c, q, k, f, r)
  BY <1>1, <1>5, ValueReturns
<1> QED
  BY <1>2, <1>3, <1>4, <1>5 DEF InHead

\* It ends in the data of a part: that is handed on as far as it is marked.
LEMMA DataReturns ==
  ASSUME NEW c, NEW q, NEW f, NEW r, Ends(c, q, f, r), NEW k \in 1..Len(c.parts), Idle(q), Plainly(c, q, k, f, r),
         NEW p, p = BufferEnd(q, BufferOf(c, f, r))
  PROVE  /\ p \in Readers /\ p.i = 1 /\ p.first = q.first /\ Idle(p) /\ Plainly(c, p, k, r, r)
         /\ p.state = q.state /\ p.current = q.current
<1> DEFINE b == c.body
           h == HeadEnds(c, k)
           m == q.data
           w == Rest(c, f, r, m)
           u == DataUpTo(c, k, f + m - 1)
           x == WithRest(c, q, f, r)
           a == PartData(x, w)
<1>1. /\ ClientInv(c) /\ q \in Readers /\ f \in Nat /\ r \in Nat /\ f < r /\ r <= Len(b) /\ b \in Seq(Bytes)
      /\ m \in Nat /\ Len(b) \in Nat
  <2>1. /\ ClientInv(c) /\ q \in Readers /\ f \in Nat /\ r \in Nat /\ f < r /\ r <= Len(b)
    BY DEF Ends
  <2>2. b \in Seq(Bytes)
    BY <2>1 DEF ClientInv, Clients
  <2>3. m \in Nat
    BY <2>1 DEF Readers
  <2> QED
    BY <2>1, <2>2, <2>3
<1>2. h \in Nat
  BY <1>1, DataBytes
<1>3. /\ q.index = 0 /\ ~q.part /\ ~q.last
      /\ m > 0 /\ h < f + m /\ f + m <= r + 1 /\ r <= DataEnds(c, k)
      /\ Got(c, q, k, u)
  BY DEF Plainly
<1>4. AtEnd(c, q, f, r)
  <2>1. f + 0 <= r + 1 /\ q.field = 0 /\ q.value = 0
    BY <1>1 DEF Idle, Unmarked
  <2> QED
    BY <1>1, <1>3, <2>1 DEF AtEnd
<1>5. w \in Seq(Bytes) /\ x \in Readers /\ SameForm(q, x)
  BY <1>4, RestsAre
<1>6. u \in Seq(Bytes) /\ u \o w = DataUpTo(c, k, r)
  <2> DEFINE j == f + m - 1
             l == h + 1
  <2>1. w = SubSeq(b, f + m, r)
    <3>1. m # 0
      <4> HIDE DEF m
      <4> QED
        BY <1>1, <1>3
    <3> QED
      BY <3>1 DEF Rest, Unmarked
  <2>2. /\ j \in Nat /\ l \in Nat /\ 1 <= l /\ l <= j + 1 /\ j <= r /\ j <= Len(b) /\ f + m = j + 1
    <3> HIDE DEF m, h, b
    <3> QED
      BY <1>1, <1>2, <1>3
  <2>3. u = SubSeq(b, l, j)
    BY DEF DataUpTo
  <2> HIDE DEF j, l, u, w, b
  <2>4. u \in Seq(Bytes)
    BY <1>1, <2>2, <2>3, PieceIs
  <2>5. u \o w = SubSeq(b, l, r)
    <3>1. w = SubSeq(b, j + 1, r)
      BY <2>1, <2>2
    <3>2. SubSeq(b, l, j) \o SubSeq(b, j + 1, r) = SubSeq(b, l, r)
      BY <1>1, <2>2, PiecesJoin
    <3> QED
      BY <2>3, <3>1, <3>2
  <2> QED
    BY <2>4, <2>5 DEF DataUpTo, l, b
<1> HIDE DEF u, w, x
<1>7. a \in Readers /\ SameParser(x, a) /\ Got(c, a, k, u \o w)
  <2>1. Got(c, x, k, u)
    BY <1>3, <1>5, GotSame
  <2> QED
    BY <1>1, <1>5, <1>6, <2>1, GotMore
<1> HIDE DEF a
<1>8. Returned(c, q, a, f, r, p)
  <2>1. a = PartData(WithRest(c, q, f, r), Rest(c, f, r, q.data)) /\ SameParser(WithRest(c, q, f, r), a)
    BY <1>7 DEF a, x, w
  <2> QED
    BY <1>4, <1>7, <2>1, ReturnedIs
<1>9. Idle(p)
  BY <1>8, StaysIdle
<1>10. /\ p \in Readers /\ p.i = 1 /\ SameForm(a, p) /\ p.data = NextMark(m)
       /\ p.state = q.state /\ p.index = q.index /\ p.part = q.part /\ p.last = q.last /\ p.current = q.current
  BY <1>8 DEF Returned
<1>11. p.data = 1
  <2>1. m # 0
    <3> HIDE DEF m
    <3> QED
      BY <1>1, <1>3
  <2> QED
    BY <1>10, <2>1 DEF NextMark, Unmarked
<1>12. Got(c, p, k, DataUpTo(c, k, r))
  BY <1>6, <1>7, <1>10, GotSame
<1>13. Plainly(c, p, k, r, r)
  <2>1. h < r + 1 /\ r + 1 <= r + 1 /\ r + 1 - 1 = r /\ 1 > 0
    <3> HIDE DEF m, h, b
    <3> QED
      BY <1>1, <1>2, <1>3
  <2> QED
    BY <1>3, <1>10, <1>11, <1>12, <2>1 DEF Plainly
<1>14. p.first = q.first
  BY <1>5, <1>7, <1>10 DEF SameForm, SameParser
<1> QED
  BY <1>9, <1>10, <1>13, <1>14

\* Wherever feed returns, the next buffer goes on.
LEMMA ReturnGoesOn ==
  ASSUME NEW c, NEW q, NEW f, NEW r, Ends(c, q, f, r), Phase(c, q, f, r), NEW p, p = BufferEnd(q, BufferOf(c, f, r))
  PROVE  p \in Readers /\ p.i = 1 /\ p.first = q.first /\ Phase(c, p, r, r)
<1>1. ASSUME Idle(q), q.data = Unmarked
      PROVE  /\ p \in Readers /\ p.i = 1 /\ SameForm(q, p) /\ Idle(p) /\ p.data = Unmarked
             /\ p.state = q.state /\ p.index = q.index /\ p.part = q.part /\ p.last = q.last /\ p.behind = q.behind
             /\ p.current = q.current
  <2>1. Returned(c, q, q, f, r, p)
    BY <1>1, IdleAtEnd, NoneMarked
  <2>2. Idle(p)
    BY <1>1, <2>1, StaysIdle
  <2>3. NextMark(Unmarked) = Unmarked
    BY DEF NextMark
  <2> QED
    BY <1>1, <2>1, <2>2, <2>3 DEF Returned
<1>2. CASE Opening(c, q, r)
  <2>1. Idle(q) /\ q.data = Unmarked /\ SoFar(c, q, 1)
    BY <1>2 DEF Opening, SoFar
  <2>2. Kept(q, p)
    BY <1>1, <2>1 DEF Kept
  <2>3. SoFar(c, p, 1)
    BY <2>1, <2>2, SoFarKept
  <2>4. Opening(c, p, r)
    BY <1>1, <1>2, <2>1, <2>3 DEF Opening
  <2> QED
    BY <1>1, <2>1, <2>4 DEF Phase, SameForm
<1>3. CASE Over(c, q)
  <2>1. Idle(q) /\ q.data = Unmarked
    BY <1>3 DEF Over
  <2>2. Over(c, p)
    BY <1>1, <1>3, <2>1 DEF Over, SameForm
  <2> QED
    BY <1>1, <2>1, <2>2 DEF Phase, SameForm
<1>4. ASSUME NEW k \in 1..Len(c.parts), InHead(c, q, k, f, r)
      PROVE  p \in Readers /\ p.i = 1 /\ p.first = q.first /\ Phase(c, p, r, r)
  <2>1. p \in Readers /\ p.i = 1 /\ p.first = q.first /\ InHead(c, p, k, r, r)
    BY <1>4, HeadReturns
  <2> QED
    BY <2>1 DEF Phase
<1>5. ASSUME NEW k \in 1..Len(c.parts), DataStarts(c, q, k, r)
      PROVE  p \in Readers /\ p.i = 1 /\ p.first = q.first /\ Phase(c, p, r, r)
  <2>1. Idle(q) /\ q.data = Unmarked /\ Got(c, q, k, << >>)
    BY <1>5 DEF DataStarts
  <2>2. Got(c, p, k, << >>)
    BY <1>1, <2>1, GotSame
  <2>3. DataStarts(c, p, k, r)
    BY <1>1, <1>5, <2>1, <2>2 DEF DataStarts
  <2> QED
    BY <1>1, <2>1, <2>3 DEF Phase, SameForm
<1>6. ASSUME NEW k \in 1..Len(c.parts), InBodyOf(c, q, k, f, r)
      PROVE  p \in Readers /\ p.i = 1 /\ p.first = q.first /\ Phase(c, p, r, r)
  <2>1. q.state = "PART_DATA" /\ Idle(q) /\ DOMAIN q.current = {}
    BY <1>6 DEF InBodyOf
  <2>2. CASE Plainly(c, q, k, f, r)
    <3>1. /\ p \in Readers /\ p.i = 1 /\ p.first = q.first /\ Idle(p) /\ Plainly(c, p, k, r, r)
          /\ p.state = q.state /\ p.current = q.current
      BY <2>1, <2>2, DataReturns
    <3> QED
      BY <2>1, <3>1 DEF Phase, InBodyOf
  <2>3. ASSUME NEW s \in Nat, Holding(c, q, k, r, s)
        PROVE  p \in Readers /\ p.i = 1 /\ p.first = q.first /\ Phase(c, p, r, r)
    <3>1. q.data = Unmarked /\ Got(c, q, k, DataUpTo(c, k, s))
      BY <2>3 DEF Holding
    <3>2. Got(c, p, k, DataUpTo(c, k, s))
      BY <1>1, <2>1, <3>1, GotSame
    <3>3. Holding(c, p, k, r, s)
      BY <1>1, <2>1, <2>3, <3>1, <3>2 DEF Holding
    <3>4. InBodyOf(c, p, k, r, r)
      BY <1>1, <2>1, <3>1, <3>3 DEF InBodyOf
    <3> QED
      BY <1>1, <2>1, <3>1, <3>4 DEF Phase, SameForm
  <2> QED
    BY <1>6, <2>2, <2>3 DEF InBodyOf
<1> QED
  BY <1>2, <1>3, <1>4, <1>5, <1>6 DEF Phase

----------------------------------------------------------------------------
(* What the client sends more *)

\* A client that has sent more.
Extends(c, e) ==
  /\ ClientInv(c) /\ ~c.ended /\ Len(e.parts) \in Nat /\ Len(c.parts) <= Len(e.parts) /\ e.meant[1] = c.meant[1]
  /\ \A k \in 1..Len(c.parts) : e.parts[k] = c.parts[k] /\ e.at[k] = c.at[k] /\ e.meant[k] = c.meant[k]
  /\ e.body \in Seq(Bytes) /\ Len(c.body) <= Len(e.body)
  /\ \A j \in 1..Len(c.body) : e.body[j] = c.body[j]

\* A piece of what was sent before is as it was.
LEMMA PieceKept ==
  ASSUME NEW c, NEW e, Extends(c, e), NEW m \in Nat, NEW n \in Nat, 1 <= m, m <= n + 1, n <= Len(c.body)
  PROVE  SubSeq(e.body, m, n) = SubSeq(c.body, m, n)
<1> DEFINE x == e.body
           b == c.body
           s == SubSeq(x, m, n)
           t == SubSeq(b, m, n)
<1>1. b \in Seq(Bytes) /\ x \in Seq(Bytes) /\ Len(b) <= Len(x) /\ \A j \in 1..Len(b) : x[j] = b[j]
  BY DEF Extends, ClientInv, Clients
<1>2. n <= Len(b) /\ n <= Len(x) /\ Len(b) \in Nat /\ Len(x) \in Nat
  BY <1>1
<1> HIDE DEF x, b
<1>3. s \in Seq(Bytes) /\ Len(s) = n + 1 - m /\ \A i \in 1..(n + 1 - m) : s[i] = x[m + i - 1]
  BY <1>1, <1>2, PieceIs
<1>4. t \in Seq(Bytes) /\ Len(t) = n + 1 - m /\ \A i \in 1..(n + 1 - m) : t[i] = b[m + i - 1]
  BY <1>1, <1>2, PieceIs
<1> HIDE DEF s, t
<1>5. ASSUME NEW i \in 1..(n + 1 - m) PROVE s[i] = t[i]
  <2>1. m + i - 1 \in 1..Len(b)
    BY <1>2
  <2> QED
    BY <1>1, <1>3, <1>4, <2>1
<1>6. s = t
  BY <1>3, <1>4, <1>5, SeqEqual
<1> QED
  BY <1>6 DEF s, t, x, b

\* The places in the body are where they were.
LEMMA PlacesKept ==
  ASSUME NEW c, NEW e, Extends(c, e), NEW k \in 1..Len(c.parts)
  PROVE  /\ e.parts[k] = c.parts[k] /\ e.at[k] = c.at[k] /\ e.meant[k] = c.meant[k]
         /\ KeyEnds(e, k) = KeyEnds(c, k) /\ HeadEnds(e, k) = HeadEnds(c, k)
         /\ DataEnds(e, k) = DataEnds(c, k) /\ PartEnds(e, k) = PartEnds(c, k)
         /\ k \in 1..Len(e.parts)
<1>1. /\ e.parts[k] = c.parts[k] /\ e.at[k] = c.at[k] /\ e.meant[k] = c.meant[k]
      /\ ClientInv(c) /\ Len(e.parts) \in Nat /\ Len(c.parts) <= Len(e.parts)
  BY DEF Extends
<1>2. k \in 1..Len(e.parts)
  <2>1. Len(c.parts) \in Nat /\ k \in Nat
    BY <1>1, PlacesAre
  <2> QED
    BY <1>1, <2>1
<1> QED
  BY <1>1, <1>2 DEF KeyEnds, HeadEnds, DataEnds, PartEnds

\* What is handed on of a part is the same.
LEMMA GotKept ==
  ASSUME NEW c, NEW e, Extends(c, e), NEW k \in 1..Len(c.parts), NEW q, NEW d, Got(c, q, k, d)
  PROVE  Got(e, q, k, d)
<1>1. e.parts[k] = c.parts[k] /\ e.meant[k] = c.meant[k]
  BY PlacesKept
<1> QED
  BY <1>1 DEF Got

\* A parser in the headers of a part stays there when the client sends more.
LEMMA HeadStays ==
  ASSUME NEW c, NEW e, Extends(c, e), NEW k \in 1..Len(c.parts), NEW q \in Readers, NEW f \in Nat, NEW n \in Nat,
         n <= Len(c.body), InHead(c, q, k, f, n)
  PROVE  InHead(e, q, k, f, n)
<1>1. /\ e.parts[k] = c.parts[k] /\ e.at[k] = c.at[k] /\ e.meant[k] = c.meant[k]
      /\ KeyEnds(e, k) = KeyEnds(c, k) /\ HeadEnds(e, k) = HeadEnds(c, k)
  BY PlacesKept
<1>2. SoFar(e, q, k) /\ Took(e, q, k, n)
  BY <1>1 DEF InHead, SoFar, Took
<1>3. NameAt(e, k, n) = NameAt(c, k, n)
  BY <1>1 DEF NameAt
<1>4. ASSUME NEW s \in Nat, InValueFrom(c, q, k, f, n, s) PROVE InValueFrom(e, q, k, f, n, s)
  <2> DEFINE m == q.value
             j == f + m - 1
             l == s + 1
  <2>1. m > 0 /\ s < f + m /\ f + m <= n + 1 /\ q.text = SubSeq(c.body, l, j)
    BY <1>4 DEF InValueFrom
  <2>2. m \in Nat
    BY NumbersAre
  <2>3. j \in Nat /\ l \in Nat /\ 1 <= l /\ l <= j + 1 /\ j <= Len(c.body)
    <3>1. Len(c.body) \in Nat
      BY DEF Extends, ClientInv, Clients
    <3> HIDE DEF m
    <3> QED
      BY <2>1, <2>2, <3>1
  <2> HIDE DEF j, l
  <2>4. SubSeq(e.body, l, j) = SubSeq(c.body, l, j)
    BY <2>3, PieceKept
  <2> QED
    BY <2>1, <2>4 DEF InValueFrom, l, j
<1>5. c.at[k] \in Nat /\ KeyEnds(c, k) \in Nat
  <2>1. ClientInv(c)
    BY DEF Extends
  <2> QED
    BY <2>1, PlacesAre
<1>6. CASE LineStarts(c, q, k, n)
  BY <1>1, <1>2, <1>6 DEF LineStarts, InHead
<1>7. CASE InName(c, q, k, f, n)
  BY <1>1, <1>2, <1>3, <1>7 DEF InName, InHead
<1>8. CASE AfterName(c, q, k, n)
  BY <1>1, <1>2, <1>3, <1>8 DEF AfterName, InHead
<1>9. CASE InValue(c, q, k, f, n)
  <2>1. q.state = "HEADER_VALUE" /\ q.field = Unmarked /\ q.name = NameAt(c, k, n)
    BY <1>9 DEF InValue
  <2>2. CASE n \in (c.at[k] + 4)..KeyEnds(c, k) /\ InValueFrom(c, q, k, f, n, c.at[k] + 3)
    <3>1. c.at[k] + 3 \in Nat
      BY <1>5
    <3>2. InValueFrom(e, q, k, f, n, c.at[k] + 3)
      BY <1>4, <2>2, <3>1
    <3>3. InValue(e, q, k, f, n)
      BY <1>1, <1>3, <2>1, <2>2, <3>2 DEF InValue
    <3> QED
      BY <1>2, <3>3 DEF InHead
  <2>3. CASE c.parts[k].typed /\ n = KeyEnds(c, k) + 5 /\ InValueFrom(c, q, k, f, n, KeyEnds(c, k) + 4)
    <3>1. KeyEnds(c, k) + 4 \in Nat
      BY <1>5
    <3>2. InValueFrom(e, q, k, f, n, KeyEnds(c, k) + 4)
      BY <1>4, <2>3, <3>1
    <3>3. InValue(e, q, k, f, n)
      BY <1>1, <1>3, <2>1, <2>3, <3>2 DEF InValue
    <3> QED
      BY <1>2, <3>3 DEF InHead
  <2> QED
    BY <1>9, <2>2, <2>3 DEF InValue
<1>10. CASE LineEnds(c, q, k, n)
  BY <1>1, <1>2, <1>10 DEF LineEnds, InHead
<1>11. CASE HeadStops(c, q, k, n)
  BY <1>1, <1>2, <1>11 DEF HeadStops, InHead
<1> QED
  BY <1>6, <1>7, <1>8, <1>9, <1>10, <1>11 DEF InHead

\* So does one in its data.
LEMMA DataStays ==
  ASSUME NEW c, NEW e, Extends(c, e), NEW k \in 1..Len(c.parts), NEW q \in Readers, NEW f \in Nat, NEW n \in Nat,
         n <= Len(c.body), InBodyOf(c, q, k, f, n)
  PROVE  InBodyOf(e, q, k, f, n)
<1>1. /\ e.parts[k] = c.parts[k] /\ e.at[k] = c.at[k] /\ e.meant[k] = c.meant[k]
      /\ HeadEnds(e, k) = HeadEnds(c, k) /\ DataEnds(e, k) = DataEnds(c, k)
  BY PlacesKept
<1>2. ClientInv(c) /\ Len(c.body) \in Nat /\ q.data \in Nat /\ q.index \in Nat
  <2>1. ClientInv(c)
    BY DEF Extends
  <2>2. Len(c.body) \in Nat
    BY <2>1 DEF ClientInv, Clients
  <2>3. q.data \in Nat
    BY DEF Readers
  <2> QED
    BY <2>1, <2>2, <2>3, NumbersAre
<1>3. HeadEnds(c, k) \in Nat /\ DataEnds(c, k) \in Nat /\ boundarySize \in Nat /\ boundarySize >= 4
  BY <1>2, DataBytes, BoundaryIs
<1>4. ASSUME NEW m \in Nat, HeadEnds(c, k) <= m, m <= n PROVE DataUpTo(e, k, m) = DataUpTo(c, k, m)
  <2> DEFINE l == HeadEnds(c, k) + 1
  <2>1. l \in Nat /\ 1 <= l /\ l <= m + 1 /\ m <= Len(c.body)
    BY <1>2, <1>3, <1>4
  <2> HIDE DEF l
  <2>2. SubSeq(e.body, l, m) = SubSeq(c.body, l, m)
    BY <2>1, PieceKept
  <2> QED
    BY <1>1, <2>2 DEF DataUpTo, l
<1>5. CASE Plainly(c, q, k, f, n)
  <2> DEFINE m == f + q.data - 1
  <2>1. /\ q.data > 0 /\ HeadEnds(c, k) < f + q.data /\ f + q.data <= n + 1 /\ Got(c, q, k, DataUpTo(c, k, m))
    BY <1>5 DEF Plainly
  <2>2. m \in Nat /\ HeadEnds(c, k) <= m /\ m <= n
    <3> DEFINE y == q.data
               h == HeadEnds(c, k)
    <3>1. y \in Nat /\ h \in Nat /\ y > 0 /\ h < f + y /\ f + y <= n + 1
      BY <1>2, <1>3, <2>1
    <3> HIDE DEF y, h
    <3>2. f + y - 1 \in Nat /\ h <= f + y - 1 /\ f + y - 1 <= n
      BY <3>1
    <3> QED
      BY <3>2 DEF y, h
  <2> HIDE DEF m
  <2>3. Got(e, q, k, DataUpTo(e, k, m))
    BY <1>4, <2>1, <2>2, GotKept
  <2>4. Plainly(e, q, k, f, n)
    BY <1>1, <1>5, <2>3 DEF Plainly, m
  <2> QED
    BY <2>4 DEF InBodyOf
<1>6. ASSUME NEW s \in Nat, Holding(c, q, k, n, s) PROVE InBodyOf(e, q, k, f, n)
  <2> DEFINE x == q.index
             z == boundarySize
             d == DataEnds(c, k)
  <2>1. /\ x > 0 /\ x <= z + 1 /\ s + x = n /\ HeadEnds(c, k) <= s /\ s <= d
        /\ \A j \in 1..x : q.behind[j] = c.body[s + j]
        /\ \A j \in 1..x : j <= z => c.body[s + j] = boundary[j]
        /\ Got(c, q, k, DataUpTo(c, k, s))
        /\ x > z => s = d /\ (q.part <=> k < Len(c.parts)) /\ (q.last <=> k = Len(c.parts))
    BY <1>6 DEF Holding
  <2>2. s <= n
    <3> HIDE DEF x
    <3> QED
      BY <1>2, <2>1 DEF x
  <2>3. Got(e, q, k, DataUpTo(e, k, s))
    BY <1>4, <2>1, <2>2, GotKept
  <2>4. \A j \in 1..x : e.body[s + j] = c.body[s + j]
    <3>1. x \in Nat
      BY <1>2
    <3> HIDE DEF x
    <3>2. \A j \in 1..x : s + j \in 1..Len(c.body)
      BY <1>2, <2>1, <3>1
    <3> QED
      BY <3>2 DEF Extends
  <2>5. x > z => (q.part <=> k < Len(e.parts)) /\ (q.last <=> k = Len(e.parts))
    <3> SUFFICES ASSUME x > z PROVE (q.part <=> k < Len(e.parts)) /\ (q.last <=> k = Len(e.parts))
      OBVIOUS
    <3> DEFINE g == PartEnds(c, k)
    <3>1. g \in Nat /\ g = d + z /\ d \in Nat
      BY <1>2, PlacesAre
    <3>2. Len(c.body) > g
      <4>1. x \in Nat /\ z \in Nat
        BY <1>2, <1>3
      <4> HIDE DEF x, z, d, g
      <4> QED
        BY <1>2, <2>1, <3>1, <4>1
    <3>3. Behind(c, k, g)
      BY <1>2, <3>2, BehindIs
    <3>4. k < Len(c.parts)
      BY <3>3 DEF Behind, Extends
    <3>5. k < Len(e.parts) /\ k # Len(e.parts) /\ k # Len(c.parts)
      <4>1. Len(c.parts) \in Nat /\ k \in Nat
        BY <1>2, PlacesAre
      <4>2. Len(e.parts) \in Nat /\ Len(c.parts) <= Len(e.parts)
        BY DEF Extends
      <4> QED
        BY <3>4, <4>1, <4>2
    <3> QED
      BY <2>1, <3>4, <3>5
  <2>6. Holding(e, q, k, n, s)
    BY <1>1, <1>6, <2>1, <2>3, <2>4, <2>5 DEF Holding
  <2>7. q.state = "PART_DATA" /\ Idle(q) /\ DOMAIN q.current = {}
    BY DEF InBodyOf
  <2> QED
    BY <2>6, <2>7 DEF InBodyOf
<1> QED
  BY <1>5, <1>6 DEF InBodyOf

\* What the client sends more does not change what the parser has made of it.
LEMMA PhaseStays ==
  ASSUME NEW c, NEW e, Extends(c, e), NEW q \in Readers, NEW f \in Nat, NEW n \in Nat, n <= Len(c.body),
         Phase(c, q, f, n)
  PROVE  Phase(e, q, f, n)
<1>1. CASE Opening(c, q, n)
  <2>1. SoFar(e, q, 1)
    BY <1>1 DEF Opening, SoFar, Extends
  <2>2. Opening(e, q, n)
    BY <1>1, <2>1 DEF Opening
  <2> QED
    BY <2>2 DEF Phase
<1>2. CASE Over(c, q)
  BY <1>2 DEF Over, Extends
<1>3. ASSUME NEW k \in 1..Len(c.parts), InHead(c, q, k, f, n) PROVE Phase(e, q, f, n)
  BY <1>3, HeadStays, PlacesKept DEF Phase
<1>4. ASSUME NEW k \in 1..Len(c.parts), DataStarts(c, q, k, n) PROVE Phase(e, q, f, n)
  <2>1. Got(e, q, k, << >>)
    BY <1>4, GotKept DEF DataStarts
  <2>2. HeadEnds(e, k) = HeadEnds(c, k) /\ k \in 1..Len(e.parts)
    BY PlacesKept
  <2>3. DataStarts(e, q, k, n)
    BY <1>4, <2>1, <2>2 DEF DataStarts
  <2> QED
    BY <2>2, <2>3 DEF Phase
<1>5. ASSUME NEW k \in 1..Len(c.parts), InBodyOf(c, q, k, f, n) PROVE Phase(e, q, f, n)
  BY <1>5, DataStays, PlacesKept DEF Phase
<1> QED
  BY <1>1, <1>2, <1>3, <1>4, <1>5 DEF Phase

----------------------------------------------------------------------------
(* The bytes of what is sent *)

\* A line of text.
IsLine(v, n, l) ==
  /\ l \in Seq(Bytes) /\ Len(l) = n + 2 /\ l[n + 1] = "CR" /\ l[n + 2] = "LF" /\ n \in Nat
  /\ \A i \in 1..n : l[i] = v[i]

\* Line makes one.
LEMMA LineIs ==
  ASSUME NEW v \in Seq(Bytes), NEW n, n = Len(v), NEW l, l = Line(v)
  PROVE  IsLine(v, n, l)
<1> DEFINE u == <<"CR", "LF">>
<1>1. u \in Seq(Bytes) /\ Len(u) = 2 /\ u[1] = "CR" /\ u[2] = "LF"
  BY DEF Bytes
<1>2. l = v \o u
  BY DEF Line
<1> HIDE DEF u
<1>3. /\ v \o u \in Seq(Bytes) /\ Len(v) \in Nat /\ Len(v \o u) = Len(v) + Len(u)
      /\ \A i \in 1..Len(v) : (v \o u)[i] = v[i]
      /\ \A i \in 1..Len(u) : (v \o u)[Len(v) + i] = u[i]
  BY <1>1, TextsJoined
<1>4. /\ l \in Seq(Bytes) /\ n \in Nat /\ Len(l) = n + 2
      /\ \A i \in 1..n : l[i] = v[i]
      /\ \A i \in 1..2 : l[n + i] = u[i]
  BY <1>1, <1>2, <1>3
<1>5. 1 \in 1..2 /\ 2 \in 1..2
  OBVIOUS
<1> QED
  BY <1>1, <1>4, <1>5 DEF IsLine

\* Two texts joined, with names for all of it.
Joined(s, t, v, m, n) ==
  /\ v \in Seq(Bytes) /\ m \in Nat /\ n \in Nat /\ Len(v) = m + n
  /\ \A i \in 1..m : v[i] = s[i]
  /\ \A i \in 1..n : v[m + i] = t[i]

\* The two texts are where they should be.
LEMMA JoinedIs ==
  ASSUME NEW s \in Seq(Bytes), NEW t \in Seq(Bytes), NEW v, v = s \o t, NEW m, m = Len(s), NEW n, n = Len(t)
  PROVE  Joined(s, t, v, m, n)
<1>1. /\ s \o t \in Seq(Bytes) /\ Len(s) \in Nat /\ Len(t) \in Nat /\ Len(s \o t) = Len(s) + Len(t)
      /\ \A i \in 1..Len(s) : (s \o t)[i] = s[i]
      /\ \A i \in 1..Len(t) : (s \o t)[Len(s) + i] = t[i]
  BY TextsJoined
<1> QED
  BY <1>1 DEF Joined

\* Where the first value ends, and the headers.
KeyLength(part) == IF part.file THEN 5 ELSE 4
HeadLength(part) == KeyLength(part) + (IF part.typed THEN 9 ELSE 4)

\* The first header of a part, without the end of its line.
LEMMA FirstLine ==
  ASSUME NEW part \in FormParts,
         NEW v, v = <<"d", ":", "SP", part.key>> \o (IF part.file THEN <<"f">> ELSE << >>)
  PROVE  /\ v \in Seq(Bytes) /\ Len(v) = KeyLength(part)
         /\ v[1] = "d" /\ v[2] = ":" /\ v[3] = "SP" /\ v[4] = part.key /\ (part.file => v[5] = "f")
<1> DEFINE s == <<"d", ":", "SP", part.key>>
           t == IF part.file THEN <<"f">> ELSE << >>
           n == IF part.file THEN 1 ELSE 0
<1>1. part.key \in Bytes
  BY DEF FormParts, Bytes
<1>2. s \in Seq(Bytes) /\ Len(s) = 4 /\ s[1] = "d" /\ s[2] = ":" /\ s[3] = "SP" /\ s[4] = part.key
  <2>1. "d" \in Bytes /\ ":" \in Bytes /\ "SP" \in Bytes
    BY DEF Bytes
  <2> QED
    BY <1>1, <2>1
<1>3. t \in Seq(Bytes) /\ Len(t) = n /\ (part.file => t[1] = "f")
  <2>1. "f" \in Bytes
    BY DEF Bytes
  <2>2. CASE part.file
    BY <2>1, <2>2
  <2>3. CASE ~part.file
    BY <2>3
  <2> QED
    BY <2>2, <2>3
<1>4. v = s \o t
  OBVIOUS
<1> HIDE DEF s, t
<1>5. Joined(s, t, v, 4, n)
  <2> HIDE DEF n
  <2> QED
    BY <1>2, <1>3, <1>4, JoinedIs
<1>6. /\ v \in Seq(Bytes) /\ Len(v) = 4 + n
      /\ \A i \in 1..4 : v[i] = s[i]
      /\ \A i \in 1..n : v[4 + i] = t[i]
  BY <1>5 DEF Joined
<1>7. 1 \in 1..4 /\ 2 \in 1..4 /\ 3 \in 1..4 /\ 4 \in 1..4
  OBVIOUS
<1>8. v[1] = "d" /\ v[2] = ":" /\ v[3] = "SP" /\ v[4] = part.key
  BY <1>2, <1>6, <1>7
<1>9. part.file => v[5] = "f"
  <2> SUFFICES ASSUME part.file PROVE v[5] = "f"
    OBVIOUS
  <2>1. 1 \in 1..n /\ 4 + 1 = 5
    OBVIOUS
  <2>2. v[4 + 1] = t[1]
    BY <1>6, <2>1
  <2> QED
    BY <1>3, <2>1, <2>2
<1>10. 4 + n = KeyLength(part)
  BY DEF KeyLength
<1> QED
  BY <1>6, <1>8, <1>9, <1>10

\* The headers of a part.
LEMMA HeadTextIs ==
  ASSUME NEW part \in FormParts, NEW t, t = HeadText(part)
  PROVE  /\ t \in Seq(Bytes) /\ Len(t) = HeadLength(part) /\ KeyLength(part) \in {4, 5}
         /\ HeadThere(t, part, 0, KeyLength(part), HeadLength(part))
<1> DEFINE e == KeyLength(part)
           v == <<"d", ":", "SP", part.key>> \o (IF part.file THEN <<"f">> ELSE << >>)
           l == Line(v)
           m == IF part.typed THEN Line(<<"t", ":", "x">>) ELSE << >>
           n == IF part.typed THEN 5 ELSE 0
           o == Line(<< >>)
           w == l \o m
<1>1. e \in {4, 5} /\ e \in Nat
  BY DEF KeyLength
<1>2. /\ v \in Seq(Bytes) /\ Len(v) = e
      /\ v[1] = "d" /\ v[2] = ":" /\ v[3] = "SP" /\ v[4] = part.key /\ (part.file => v[5] = "f")
  BY FirstLine, ZenonT(30)
<1>3. t = w \o o
  BY DEF HeadText
<1> HIDE DEF v
<1>4. /\ l \in Seq(Bytes) /\ Len(l) = e + 2 /\ l[e + 1] = "CR" /\ l[e + 2] = "LF"
      /\ \A i \in 1..e : l[i] = v[i]
  <2> HIDE DEF l
  <2>1. l = Line(v)
    BY DEF l
  <2> HIDE DEF e
  <2> QED
    BY <1>2, <2>1, LineIs DEF IsLine
<1>5. m \in Seq(Bytes) /\ Len(m) = n /\ n \in Nat
      /\ (part.typed => m[1] = "t" /\ m[2] = ":" /\ m[3] = "x" /\ m[4] = "CR" /\ m[5] = "LF")
  <2>1. CASE part.typed
    <3> DEFINE y == <<"t", ":", "x">>
               x == Line(y)
    <3>1. y \in Seq(Bytes) /\ Len(y) = 3 /\ y[1] = "t" /\ y[2] = ":" /\ y[3] = "x"
      BY DEF Bytes
    <3>2. m = x /\ n = 5 /\ x = Line(y)
      BY <2>1
    <3> HIDE DEF m, n, x, y
    <3>3. /\ x \in Seq(Bytes) /\ Len(x) = 3 + 2 /\ x[3 + 1] = "CR" /\ x[3 + 2] = "LF"
          /\ \A i \in 1..3 : x[i] = y[i]
      <4> DEFINE g == 3
      <4>1. g = Len(y)
        BY <3>1
      <4> HIDE DEF g
      <4>2. /\ x \in Seq(Bytes) /\ Len(x) = g + 2 /\ x[g + 1] = "CR" /\ x[g + 2] = "LF"
            /\ \A i \in 1..g : x[i] = y[i]
        <5>1. IsLine(y, g, x)
          BY <3>1, <3>2, <4>1, LineIs
        <5> QED
          BY <5>1 DEF IsLine
      <4> QED
        BY <4>2 DEF g
    <3>4. 1 \in 1..3 /\ 2 \in 1..3 /\ 3 \in 1..3
      OBVIOUS
    <3>5. x[1] = "t" /\ x[2] = ":" /\ x[3] = "x" /\ x[4] = "CR" /\ x[5] = "LF" /\ Len(x) = 5
      BY <3>1, <3>3, <3>4
    <3> QED
      BY <3>2, <3>3, <3>5
  <2>2. CASE ~part.typed
    <3>1. m = << >> /\ n = 0
      BY <2>2
    <3> QED
      BY <2>2, <3>1
  <2> QED
    BY <2>1, <2>2
<1>6. o \in Seq(Bytes) /\ Len(o) = 2 /\ o[1] = "CR" /\ o[2] = "LF"
  <2> DEFINE y == << >>
             g == 0
  <2>1. y \in Seq(Bytes) /\ g = Len(y) /\ o = Line(y)
    OBVIOUS
  <2> HIDE DEF y, g, o
  <2>2. o \in Seq(Bytes) /\ Len(o) = g + 2 /\ o[g + 1] = "CR" /\ o[g + 2] = "LF"
    BY <2>1, LineIs DEF IsLine
  <2> QED
    BY <2>2 DEF g
<1> HIDE DEF e, l, m, n, o, w
<1>7. Joined(l, m, w, e + 2, n)
  <2> DEFINE g == e + 2
  <2>1. g = Len(l) /\ w = l \o m
    BY <1>4 DEF w
  <2> HIDE DEF g
  <2>2. Joined(l, m, w, g, n)
    BY <1>4, <1>5, <2>1, JoinedIs
  <2> QED
    BY <2>2 DEF g
<1>8. /\ w \in Seq(Bytes) /\ Len(w) = e + 2 + n
      /\ \A i \in 1..(e + 2) : w[i] = l[i]
      /\ \A i \in 1..n : w[e + 2 + i] = m[i]
  BY <1>7 DEF Joined
<1>9. Joined(w, o, t, e + 2 + n, 2)
  <2> DEFINE g == e + 2 + n
  <2>1. g = Len(w)
    BY <1>8
  <2> HIDE DEF g
  <2>2. Joined(w, o, t, g, 2)
    BY <1>3, <1>6, <1>8, <2>1, JoinedIs
  <2> QED
    BY <2>2 DEF g
<1> DEFINE x == e + 2 + n
<1>10. /\ t \in Seq(Bytes) /\ Len(t) = x + 2
       /\ \A i \in 1..x : t[i] = w[i]
       /\ \A i \in 1..2 : t[x + i] = o[i]
  BY <1>9 DEF Joined
<1>11. x \in Nat /\ x >= e + 2
  BY <1>1, <1>5
<1>12. HeadLength(part) = x + 2
  BY <1>1 DEF HeadLength, e, n
<1>13. t[x + 1] = "CR" /\ t[x + 2] = "LF"
  <2>1. 1 \in 1..2 /\ 2 \in 1..2
    OBVIOUS
  <2> HIDE DEF x
  <2> QED
    BY <1>6, <1>10, <2>1
<1>14. \A i \in 1..(e + 2) : t[i] = l[i]
  <2>1. \A i \in 1..(e + 2) : i \in 1..x
    BY <1>1, <1>11
  <2> HIDE DEF x
  <2> QED
    BY <1>8, <1>10, <2>1
<1>15. \A i \in 1..n : t[e + 2 + i] = m[i]
  <2>1. \A i \in 1..n : e + 2 + i \in 1..x
    BY <1>1, <1>5
  <2> HIDE DEF x
  <2> QED
    BY <1>8, <1>10, <2>1
<1>16. /\ t[1] = "d" /\ t[2] = ":" /\ t[3] = "SP" /\ t[4] = part.key /\ (part.file => t[5] = "f")
       /\ t[e + 1] = "CR" /\ t[e + 2] = "LF"
  <2>1. /\ 1 \in 1..e /\ 2 \in 1..e /\ 3 \in 1..e /\ 4 \in 1..e /\ (part.file => 5 \in 1..e)
        /\ e + 1 \in 1..(e + 2) /\ e + 2 \in 1..(e + 2) /\ \A i \in 1..e : i \in 1..(e + 2)
    BY <1>1 DEF e, KeyLength
  <2>2. \A i \in 1..e : t[i] = v[i]
    BY <1>4, <1>14, <2>1
  <2> QED
    BY <1>2, <1>4, <1>14, <2>1, <2>2
<1>17. part.typed => /\ t[e + 3] = "t" /\ t[e + 4] = ":" /\ t[e + 5] = "x"
                     /\ t[e + 6] = "CR" /\ t[e + 7] = "LF"
  <2> SUFFICES ASSUME part.typed
               PROVE  t[e + 3] = "t" /\ t[e + 4] = ":" /\ t[e + 5] = "x" /\ t[e + 6] = "CR" /\ t[e + 7] = "LF"
    OBVIOUS
  <2>1. n = 5
    BY DEF n
  <2>2. 1 \in 1..n /\ 2 \in 1..n /\ 3 \in 1..n /\ 4 \in 1..n /\ 5 \in 1..n
    BY <2>1
  <2>3. e + 2 + 1 = e + 3 /\ e + 2 + 2 = e + 4 /\ e + 2 + 3 = e + 5 /\ e + 2 + 4 = e + 6 /\ e + 2 + 5 = e + 7
    BY <1>1
  <2>4. /\ t[e + 2 + 1] = m[1] /\ t[e + 2 + 2] = m[2] /\ t[e + 2 + 3] = m[3] /\ t[e + 2 + 4] = m[4]
        /\ t[e + 2 + 5] = m[5]
    BY <1>15, <2>2
  <2> QED
    BY <1>5, <2>3, <2>4
<1>18. HeadThere(t, part, 0, e, x + 2)
  <2>1. 0 + 1 = 1 /\ 0 + 2 = 2 /\ 0 + 3 = 3 /\ 0 + 4 = 4 /\ 0 + 5 = 5
    OBVIOUS
  <2> DEFINE y == x + 2
  <2>2. t[y - 1] = "CR" /\ t[y] = "LF"
    <3> HIDE DEF x
    <3>1. y - 1 = x + 1
      BY <1>11
    <3> QED
      BY <1>13, <3>1
  <2> HIDE DEF x, y
  <2>3. t[0 + 1] = "d" /\ t[0 + 2] = ":" /\ t[0 + 3] = "SP" /\ t[0 + 4] = part.key /\ (part.file => t[0 + 5] = "f")
    BY <1>16, <2>1
  <2>4. HeadThere(t, part, 0, e, y)
    BY <1>16, <1>17, <2>2, <2>3 DEF HeadThere
  <2> QED
    BY <2>4 DEF y
<1> QED
  BY <1>1, <1>10, <1>12, <1>18 DEF e

\* What is sent already stays where it should be.
LEMMA ThereKept ==
  ASSUME NEW c, NEW e, Extends(c, e), NEW k \in 1..Len(c.parts)
  PROVE  PartThere(e, k) /\ PartEnds(e, k) <= Len(e.body)
<1> DEFINE b == c.body
           x == e.body
           a == c.at[k]
           y == KeyEnds(c, k)
           h == HeadEnds(c, k)
           d == DataEnds(c, k)
           part == c.parts[k]
           l == Len(part.data)
           z == boundarySize
<1>1. ClientInv(c) /\ x \in Seq(Bytes) /\ Len(b) <= Len(x) /\ \A j \in 1..Len(b) : x[j] = b[j]
  BY DEF Extends
<1>2. /\ e.parts[k] = part /\ e.at[k] = a /\ KeyEnds(e, k) = y /\ HeadEnds(e, k) = h /\ DataEnds(e, k) = d
      /\ PartEnds(e, k) = PartEnds(c, k)
  BY PlacesKept
<1>3. /\ Len(b) \in Nat /\ a \in Nat /\ y \in {a + 4, a + 5} /\ h \in {y + 4, y + 9} /\ l \in Nat
      /\ y \in Nat /\ h \in Nat /\ d \in Nat /\ d = h + l /\ PartEnds(c, k) = d + z /\ PartEnds(c, k) <= Len(b)
      /\ PartThere(c, k)
  BY <1>1, PlacesAre
<1>4. z \in Nat /\ z >= 4
  BY BoundaryIs
<1>5. y = (IF part.file THEN a + 5 ELSE a + 4) /\ h = (IF part.typed THEN y + 9 ELSE y + 4)
  BY <1>1, HeadBytes
<1>6. HeadThere(b, part, a, y, h) /\ DataThere(b, part, h, d)
  BY <1>3 DEF PartThere
<1>7. PartEnds(e, k) <= Len(x) /\ h <= Len(b) /\ d + z <= Len(b) /\ d <= Len(b)
  <2>1. Len(x) \in Nat
    BY <1>1
  <2> HIDE DEF b, x, a, y, h, d, l, z, part
  <2> QED
    BY <1>1, <1>2, <1>3, <1>4, <2>1, SMTT(30)
<1> HIDE DEF b, x, a, y, h, d, l, z, part
<1>8. HeadThere(x, part, a, y, h)
  <2>1. /\ a + 1 \in 1..Len(b) /\ a + 2 \in 1..Len(b) /\ a + 3 \in 1..Len(b) /\ a + 4 \in 1..Len(b)
        /\ (part.file => a + 5 \in 1..Len(b)) /\ y + 1 \in 1..Len(b) /\ y + 2 \in 1..Len(b)
        /\ h - 1 \in 1..Len(b) /\ h \in 1..Len(b)
    BY <1>3, <1>5, <1>7
  <2>2. part.typed => /\ y + 3 \in 1..Len(b) /\ y + 4 \in 1..Len(b) /\ y + 5 \in 1..Len(b)
                      /\ y + 6 \in 1..Len(b) /\ y + 7 \in 1..Len(b)
    BY <1>3, <1>5, <1>7
  <2> QED
    BY <1>1, <1>6, <2>1, <2>2 DEF HeadThere
<1>9. DataThere(x, part, h, d)
  <2>1. \A j \in 1..l : h + j \in 1..Len(b)
    BY <1>3, <1>7
  <2>2. \A j \in 1..z : d + j \in 1..Len(b)
    BY <1>3, <1>4, <1>7
  <2> QED
    BY <1>1, <1>6, <2>1, <2>2 DEF DataThere, l, z
<1>10. PartThere(e, k)
  BY <1>2, <1>8, <1>9 DEF PartThere, x
<1> QED
  BY <1>7, <1>10 DEF x

\* A text is in another, behind its a-th byte.
Within(b, a, t, h) == \A i \in 1..h : b[a + i] = t[i]

\* The headers of a part at a place in the body.
LEMMA HeadMoved ==
  ASSUME NEW t, NEW part, NEW e \in Nat, NEW h \in Nat, HeadThere(t, part, 0, e, h),
         e = (IF part.file THEN 5 ELSE 4), h = e + (IF part.typed THEN 9 ELSE 4),
         NEW b, NEW a \in Nat, Within(b, a, t, h), NEW f, f = a + e, NEW g, g = a + h
  PROVE  HeadThere(b, part, a, f, g)
<1> USE DEF Within
<1>1. /\ b[a + 1] = "d" /\ b[a + 2] = ":" /\ b[a + 3] = "SP" /\ b[a + 4] = part.key /\ (part.file => b[a + 5] = "f")
  <2>1. /\ 1 \in 1..h /\ 2 \in 1..h /\ 3 \in 1..h /\ 4 \in 1..h /\ (part.file => 5 \in 1..h)
        /\ 0 + 1 = 1 /\ 0 + 2 = 2 /\ 0 + 3 = 3 /\ 0 + 4 = 4 /\ 0 + 5 = 5
    OBVIOUS
  <2> QED
    BY <2>1 DEF HeadThere
<1>2. b[a + e + 1] = "CR" /\ b[a + e + 2] = "LF"
  <2>1. e + 1 \in 1..h /\ e + 2 \in 1..h /\ a + (e + 1) = a + e + 1 /\ a + (e + 2) = a + e + 2
    OBVIOUS
  <2> QED
    BY <2>1 DEF HeadThere
<1>3. part.typed => /\ b[a + e + 3] = "t" /\ b[a + e + 4] = ":" /\ b[a + e + 5] = "x"
                    /\ b[a + e + 6] = "CR" /\ b[a + e + 7] = "LF"
  <2> SUFFICES ASSUME part.typed
               PROVE  /\ b[a + e + 3] = "t" /\ b[a + e + 4] = ":" /\ b[a + e + 5] = "x"
                      /\ b[a + e + 6] = "CR" /\ b[a + e + 7] = "LF"
    OBVIOUS
  <2>1. /\ e + 3 \in 1..h /\ e + 4 \in 1..h /\ e + 5 \in 1..h /\ e + 6 \in 1..h /\ e + 7 \in 1..h
        /\ a + (e + 3) = a + e + 3 /\ a + (e + 4) = a + e + 4 /\ a + (e + 5) = a + e + 5
        /\ a + (e + 6) = a + e + 6 /\ a + (e + 7) = a + e + 7
    OBVIOUS
  <2> QED
    BY <2>1 DEF HeadThere
<1>4. b[(a + h) - 1] = "CR" /\ b[a + h] = "LF"
  <2>1. h - 1 \in 1..h /\ h \in 1..h /\ a + (h - 1) = (a + h) - 1
    OBVIOUS
  <2> QED
    BY <2>1 DEF HeadThere
<1>5. /\ b[f + 1] = "CR" /\ b[f + 2] = "LF" /\ b[g - 1] = "CR" /\ b[g] = "LF"
      /\ part.typed => /\ b[f + 3] = "t" /\ b[f + 4] = ":" /\ b[f + 5] = "x"
                       /\ b[f + 6] = "CR" /\ b[f + 7] = "LF"
  BY <1>2, <1>3, <1>4
<1> QED
  BY <1>1, <1>5 DEF HeadThere

\* The body with a part more.
Grown(b, x, part) ==
  LET a == Len(b) + 2
      h == HeadLength(part)
      d == a + h + Len(part.data)
  IN /\ x \in Seq(Bytes) /\ Len(x) = d + boundarySize
     /\ \A i \in 1..Len(b) : x[i] = b[i]
     /\ x[Len(b) + 1] = "CR" /\ x[Len(b) + 2] = "LF"
     /\ HeadThere(x, part, a, a + KeyLength(part), a + h)
     /\ DataThere(x, part, a + h, d)

\* SendPart makes such a body.
LEMMA GrownIs ==
  ASSUME NEW b \in Seq(Bytes), NEW part \in FormParts, NEW x, x = Line(b) \o PartText(part)
  PROVE  Grown(b, x, part)
<1> DEFINE n == Len(b)
           a == n + 2
           e == KeyLength(part)
           h == HeadLength(part)
           l == Len(part.data)
           z == boundarySize
           t == HeadText(part)
           u == part.data
           g == Line(b)
           y == t \o u
           w == y \o boundary
<1>1. t \in Seq(Bytes) /\ Len(t) = h /\ e \in {4, 5} /\ HeadThere(t, part, 0, e, h)
  BY HeadTextIs
<1>2. u \in Seq(Bytes) /\ l \in Nat /\ l = Len(u)
  BY DEF FormParts
<1>3. boundary \in Seq(Bytes) /\ z = Len(boundary) /\ z \in Nat
  BY BoundaryIs DEF boundarySize
<1>4. /\ e = (IF part.file THEN 5 ELSE 4) /\ h = e + (IF part.typed THEN 9 ELSE 4) /\ e \in Nat /\ h \in Nat
  BY DEF KeyLength, HeadLength
<1>5. IsLine(b, n, g)
  <2>1. n = Len(b) /\ g = Line(b)
    OBVIOUS
  <2> HIDE DEF n, g
  <2> QED
    BY <2>1, LineIs
<1>6. x = g \o w
  BY DEF PartText
<1>7. g \in Seq(Bytes) /\ Len(g) = a /\ n \in Nat /\ g[n + 1] = "CR" /\ g[n + 2] = "LF" /\ \A i \in 1..n : g[i] = b[i]
  BY <1>5 DEF IsLine
<1> HIDE DEF n, e, h, l, z, t, u, g
<1>8. Joined(t, u, y, h, l)
  <2>1. y = t \o u
    OBVIOUS
  <2> HIDE DEF y
  <2> QED
    BY <1>1, <1>2, <2>1, JoinedIs
<1>9. /\ y \in Seq(Bytes) /\ Len(y) = h + l
      /\ \A i \in 1..h : y[i] = t[i]
      /\ \A i \in 1..l : y[h + i] = u[i]
  BY <1>8 DEF Joined
<1> HIDE DEF y
<1> DEFINE j == h + l
<1>10. Joined(y, boundary, w, j, z)
  <2>1. w = y \o boundary /\ j = Len(y)
    BY <1>9
  <2> HIDE DEF w, j
  <2> QED
    BY <1>3, <1>9, <2>1, JoinedIs
<1>11. /\ w \in Seq(Bytes) /\ Len(w) = j + z
       /\ \A i \in 1..j : w[i] = y[i]
       /\ \A i \in 1..z : w[j + i] = boundary[i]
  BY <1>10 DEF Joined
<1> HIDE DEF w
<1> DEFINE k == j + z
<1>12. Joined(g, w, x, a, k)
  <2>1. a = Len(g) /\ k = Len(w)
    BY <1>7, <1>11
  <2> HIDE DEF a, k
  <2> QED
    BY <1>6, <1>7, <1>11, <2>1, JoinedIs
<1>13. /\ x \in Seq(Bytes) /\ Len(x) = a + k
       /\ \A i \in 1..a : x[i] = g[i]
       /\ \A i \in 1..k : x[a + i] = w[i]
  BY <1>12 DEF Joined
<1>14. a \in Nat /\ j \in Nat /\ k \in Nat
  BY <1>2, <1>3, <1>4, <1>7
<1>15. /\ \A i \in 1..n : x[i] = b[i]
       /\ x[n + 1] = "CR" /\ x[n + 2] = "LF"
  <2>1. n + 1 \in 1..a /\ n + 2 \in 1..a /\ \A i \in 1..n : i \in 1..a
    BY <1>7
  <2> HIDE DEF a, k
  <2> QED
    BY <1>7, <1>13, <2>1
<1>16. \A i \in 1..h : x[a + i] = t[i]
  <2>1. \A i \in 1..h : i \in 1..j /\ i \in 1..k
    BY <1>2, <1>3, <1>4
  <2> HIDE DEF a, k, j
  <2> QED
    BY <1>9, <1>11, <1>13, <2>1
<1>17. HeadThere(x, part, a, a + e, a + h)
  <2> DEFINE f == a + e
             m == a + h
  <2>1. f = a + e /\ m = a + h
    OBVIOUS
  <2>3. Within(x, a, t, h)
    BY <1>16 DEF Within
  <2> HIDE DEF a, f, m
  <2>2. HeadThere(x, part, a, f, m)
    BY <1>1, <1>4, <1>14, <2>1, <2>3, HeadMoved
  <2> QED
    BY <2>2 DEF f, m
<1> DEFINE m == a + h
           d == m + l
<1>18. DataThere(x, part, m, d)
  <2>1. ASSUME NEW i \in 1..l PROVE x[m + i] = u[i]
    <3>1. h + i \in 1..j /\ h + i \in 1..k /\ a + (h + i) = m + i
      BY ONLY <1>2, <1>3, <1>4, <1>7, i \in 1..l
    <3> HIDE DEF a, k, j, m
    <3>2. x[a + (h + i)] = w[h + i] /\ w[h + i] = y[h + i] /\ y[h + i] = u[i]
      BY <1>9, <1>11, <1>13, <3>1
    <3> QED
      BY <3>1, <3>2
  <2>2. ASSUME NEW i \in 1..z PROVE x[d + i] = boundary[i]
    <3>1. j + i \in 1..k /\ a + (j + i) = d + i
      BY ONLY <1>2, <1>3, <1>4, <1>7, i \in 1..z
    <3> HIDE DEF a, k, j, m, d
    <3>2. x[a + (j + i)] = w[j + i] /\ w[j + i] = boundary[i]
      BY <1>11, <1>13, <3>1
    <3> QED
      BY <3>1, <3>2
  <2> HIDE DEF m, d
  <2> QED
    BY <2>1, <2>2 DEF DataThere, l, z, u
<1>19. Len(x) = d + z
  <2>1. a + k = d + z
    BY ONLY <1>2, <1>3, <1>4, <1>7
  <2> QED
    BY <1>13, <2>1
<1> HIDE DEF m, d
<1>20. Grown(b, x, part) <=>
         /\ x \in Seq(Bytes) /\ Len(x) = d + z
         /\ \A i \in 1..n : x[i] = b[i]
         /\ x[n + 1] = "CR" /\ x[n + 2] = "LF"
         /\ HeadThere(x, part, a, a + e, a + h)
         /\ DataThere(x, part, m, d)
  BY DEF Grown, n, e, h, l, z, m, d
<1> QED
  BY <1>13, <1>15, <1>17, <1>18, <1>19, <1>20

----------------------------------------------------------------------------
(* A part more, and the end of the body *)

\* What a form is to be with a part more is a form.
LEMMA WithPartKept ==
  ASSUME NEW m \in Forms, NEW part \in FormParts
  PROVE  WithPart(m, part) \in Forms
<1> DEFINE t == TextOf(m, part.key)
           v == t \o part.data
<1>1. t \in Seq(Bytes) /\ m.form \in Maps({"x", "y"}) /\ m.files \in FileLists
  BY TextOfIs
<1>2. part.data \in Seq(Bytes) /\ part.key \in {"x", "y"}
  BY DEF FormParts
<1> HIDE DEF t
<1>3. v \in Seq(Bytes)
  BY <1>1, <1>2, TextsJoined
<1> HIDE DEF v
<1>4. Put(m.form, part.key, v) \in Maps({"x", "y"})
  BY <1>1, <1>2, <1>3, FormPut
<1> DEFINE u == [data |-> part.data, name |-> "kept"]
<1>5. u \in UploadFiles
  BY <1>2 DEF UploadFiles
<1> HIDE DEF u
<1>6. Append(m.files, u) \in FileLists
  BY <1>1, <1>5, LastOfAppended
<1>7. CASE part.file
  <2>1. WithPart(m, part) = [m EXCEPT !.files = Append(@, u)]
    BY <1>7 DEF WithPart, u
  <2> QED
    BY <1>6, <2>1 DEF Forms
<1>8. CASE ~part.file
  <2>1. WithPart(m, part) = [m EXCEPT !.form = Put(@, part.key, v)]
    BY <1>8 DEF WithPart, v, t, TextOf
  <2> QED
    BY <1>4, <2>1 DEF Forms
<1> QED
  BY <1>7, <1>8

\* A client that sends one part more, which has no boundary in it.
Longer(c, part) ==
  [c EXCEPT
     !.parts = Append(@, part), !.at = Append(@, Len(c.body) + 2),
     !.body = Line(@) \o PartText(part),
     !.meant = Append(@, WithPart(c.meant[Len(c.meant)], part))]
Sound(part) == part \in FormParts /\ \A j \in 0..Len(part.data) : ~BoundaryIn(part.data, j)

\* What is in its lists, of which n were there.
Listed(c, e, part, n) ==
  /\ n \in Nat /\ n = Len(c.parts) /\ Len(e.parts) = n + 1 /\ Len(e.at) = n + 1 /\ Len(e.meant) = n + 2
  /\ \A k \in 1..n : e.parts[k] = c.parts[k] /\ e.at[k] = c.at[k] /\ e.meant[k] = c.meant[k]
  /\ e.parts[n + 1] = part /\ e.at[n + 1] = Len(c.body) + 2
  /\ e.meant[n + 1] = c.meant[n + 1] /\ e.meant[n + 2] = WithPart(c.meant[n + 1], part)

\* What SendPart makes of each of the lists.
LEMMA LongerIs ==
  ASSUME NEW c, ClientInv(c), NEW part, Sound(part), NEW e, e = Longer(c, part), NEW n, n = Len(c.parts)
  PROVE  e \in Clients /\ e.ended = c.ended /\ Grown(c.body, e.body, part) /\ Listed(c, e, part, n)
<1> DEFINE b == c.body
           m == c.meant
           l == Len(m)
           w == WithPart(m[l], part)
           a == Len(b) + 2
           x == Line(b) \o PartText(part)
<1>1. /\ c \in Clients /\ part \in FormParts /\ Len(c.at) = Len(c.parts) /\ Len(m) = Len(c.parts) + 1
  BY DEF ClientInv, Sound
<1>2. /\ c.parts \in Seq(FormParts) /\ c.at \in Seq(Nat) /\ b \in Seq(Bytes) /\ m \in Seq(Forms)
      /\ c.ended \in BOOLEAN
  BY <1>1 DEF Clients
<1>3. n \in Nat /\ l = n + 1 /\ Len(c.at) = n
  BY <1>1, <1>2
<1>4. m[l] \in Forms
  <2>1. l \in 1..Len(m)
    BY <1>3
  <2> HIDE DEF l, m
  <2> QED
    BY <1>2, <2>1
<1>5. w \in Forms
  <2> HIDE DEF m, l
  <2> QED
    BY <1>1, <1>4, WithPartKept
<1>6. Grown(b, x, part)
  <2> HIDE DEF b
  <2>1. x = Line(b) \o PartText(part)
    OBVIOUS
  <2> HIDE DEF x
  <2> QED
    BY <1>1, <1>2, <2>1, GrownIs
<1>7. x \in Seq(Bytes)
  <2> HIDE DEF x, b
  <2> QED
    BY <1>6 DEF Grown
<1>8. a \in Nat
  BY <1>2
<1>9. e = [c EXCEPT !.parts = Append(@, part), !.at = Append(@, a), !.body = x, !.meant = Append(@, w)]
  BY DEF Longer
<1> HIDE DEF w, a, x, l
<1>10. /\ Append(c.parts, part) \in Seq(FormParts) /\ Len(Append(c.parts, part)) = n + 1
       /\ \A k \in 1..n : Append(c.parts, part)[k] = c.parts[k]
       /\ Append(c.parts, part)[n + 1] = part
  BY <1>1, <1>2, AppendProperties
<1>11. /\ Append(c.at, a) \in Seq(Nat) /\ Len(Append(c.at, a)) = n + 1
       /\ \A k \in 1..n : Append(c.at, a)[k] = c.at[k]
       /\ Append(c.at, a)[n + 1] = a
  BY <1>2, <1>3, <1>8, AppendProperties
<1>12. /\ Append(m, w) \in Seq(Forms) /\ Len(Append(m, w)) = l + 1
       /\ \A k \in 1..l : Append(m, w)[k] = m[k]
       /\ Append(m, w)[l + 1] = w
  <2> HIDE DEF m
  <2> QED
    BY <1>2, <1>5, AppendProperties DEF l
<1>13. /\ e.parts = Append(c.parts, part) /\ e.at = Append(c.at, a) /\ e.body = x /\ e.meant = Append(m, w)
       /\ e.ended = c.ended
  BY <1>1, <1>9 DEF Clients
<1>14. e \in Clients
  BY <1>1, <1>7, <1>9, <1>10, <1>11, <1>12 DEF Clients
<1>15. l + 1 = n + 2 /\ l = n + 1 /\ (n + 1 \in 1..l) /\ \A k \in 1..n : k \in 1..l
  BY <1>3
<1>16. /\ Len(Append(m, w)) = n + 2 /\ \A k \in 1..n : Append(m, w)[k] = m[k]
       /\ Append(m, w)[n + 1] = m[n + 1] /\ Append(m, w)[n + 2] = w
  <2> HIDE DEF m
  <2> QED
    BY <1>12, <1>15
<1>17. Listed(c, e, part, n)
  BY <1>3, <1>10, <1>11, <1>13, <1>15, <1>16 DEF Listed, w, a
<1> QED
  BY <1>6, <1>13, <1>14, <1>17

\* A client that has sent more, of whose parts n were there.
LEMMA MoreSent ==
  ASSUME NEW c, ClientInv(c), ~c.ended, NEW part, Sound(part), NEW e, e = Longer(c, part), NEW n, n = Len(c.parts)
  PROVE  Extends(c, e)
<1>1. e \in Clients /\ Grown(c.body, e.body, part) /\ Listed(c, e, part, n)
  BY LongerIs
<1>2. /\ n \in Nat /\ Len(e.parts) = n + 1 /\ n <= n + 1
      /\ \A k \in 1..n : e.parts[k] = c.parts[k] /\ e.at[k] = c.at[k] /\ e.meant[k] = c.meant[k]
      /\ e.meant[n + 1] = c.meant[n + 1]
  BY <1>1 DEF Listed
<1>3. e.meant[1] = c.meant[1]
  <2>1. CASE n = 0
    <3>1. n + 1 = 1
      BY <2>1
    <3> QED
      BY <1>2, <3>1
  <2>2. CASE n # 0
    <3>1. 1 \in 1..n
      BY <1>2, <2>2
    <3> QED
      BY <1>2, <3>1
  <2> QED
    BY <2>1, <2>2
<1>4. e.body \in Seq(Bytes) /\ Len(c.body) <= Len(e.body) /\ \A j \in 1..Len(c.body) : e.body[j] = c.body[j]
  <2> DEFINE h == HeadLength(part)
             l == Len(part.data)
             z == boundarySize
             b == c.body
             x == e.body
  <2>1. x \in Seq(Bytes) /\ Len(x) = Len(b) + 2 + h + l + z /\ \A j \in 1..Len(b) : x[j] = b[j]
    BY <1>1 DEF Grown
  <2>2. h \in Nat
    BY DEF HeadLength, KeyLength
  <2>3. l \in Nat /\ z \in Nat /\ Len(b) \in Nat
    <3>1. part.data \in Seq(Bytes) /\ b \in Seq(Bytes)
      BY DEF Sound, FormParts, ClientInv, Clients
    <3> QED
      BY <3>1, BoundaryIs
  <2> HIDE DEF h, l, z, b, x
  <2>4. Len(b) <= Len(x)
    BY <2>1, <2>2, <2>3
  <2> QED
    BY <2>1, <2>4 DEF b, x
<1> QED
  BY <1>2, <1>3, <1>4 DEF Extends

\* What precedes the first part once there is one.
LEMMA OpensStill ==
  ASSUME NEW c, ClientInv(c), ~c.ended, NEW part, Sound(part), NEW e, e = Longer(c, part)
  PROVE  Opens(e)
<1> DEFINE n == Len(c.parts)
           z == boundarySize
           b == c.body
           x == e.body
<1>1. Grown(b, x, part) /\ Listed(c, e, part, n)
  BY LongerIs
<1>2. Extends(c, e)
  BY MoreSent
<1>3. /\ n \in Nat /\ Len(e.parts) = n + 1
      /\ \A k \in 1..n : e.at[k] = c.at[k]
      /\ e.at[n + 1] = Len(b) + 2
  BY <1>1 DEF Listed
<1>4. x \in Seq(Bytes) /\ b \in Seq(Bytes) /\ Len(b) <= Len(x) /\ \A j \in 1..Len(b) : x[j] = b[j]
  BY <1>2 DEF Extends, ClientInv, Clients
<1>5. z \in Nat /\ z >= 4
  BY BoundaryIs
<1>6. Opens(c)
  BY DEF ClientInv
<1>7. z - 2 <= Len(b)
  <2>1. Len(b) = z - 2 \/ z <= Len(b)
    BY <1>6 DEF Opens
  <2>2. Len(b) \in Nat
    BY <1>4
  <2> QED
    BY <1>5, <2>1, <2>2
<1>8. \A j \in 1..(z - 2) : x[j] = boundary[j + 2]
  <2>1. \A j \in 1..(z - 2) : b[j] = boundary[j + 2]
    BY <1>6 DEF Opens
  <2>2. \A j \in 1..(z - 2) : j \in 1..Len(b)
    BY <1>4, <1>5, <1>7
  <2> QED
    BY <1>4, <2>1, <2>2
<1>9. e.parts # << >>
  BY <1>3
<1>10. e.at[1] = z /\ z <= Len(x) /\ x[z - 1] = "CR" /\ x[z] = "LF"
  <2>1. CASE n = 0
    <3>1. c.parts = << >>
      <4>1. c.parts \in Seq(FormParts)
        BY DEF ClientInv, Clients
      <4> QED
        BY <2>1, <4>1
    <3>2. Len(b) = z - 2 /\ ~c.ended
      BY <1>6, <3>1 DEF Opens
    <3>3. Len(b) + 2 = z /\ Len(b) + 1 = z - 1 /\ n + 1 = 1
      BY <1>5, <2>1, <3>2
    <3>4. x[Len(b) + 1] = "CR" /\ x[Len(b) + 2] = "LF"
      BY <1>1 DEF Grown
    <3>5. e.at[1] = z /\ x[z - 1] = "CR" /\ x[z] = "LF"
      BY <1>3, <3>3, <3>4
    <3>6. z <= Len(x)
      <4> DEFINE h == HeadLength(part)
                 l == Len(part.data)
      <4>1. Len(x) = Len(b) + 2 + h + l + z
        BY <1>1 DEF Grown
      <4>2. h \in Nat
        BY DEF HeadLength, KeyLength
      <4>3. l \in Nat /\ Len(b) \in Nat
        <5>1. part.data \in Seq(Bytes)
          BY DEF Sound, FormParts
        <5> QED
          BY <1>4, <5>1
      <4> HIDE DEF h, l, b, x, z
      <4> QED
        BY <1>5, <4>1, <4>2, <4>3
    <3> QED
      BY <3>5, <3>6
  <2>2. CASE n # 0
    <3>1. c.parts # << >> /\ 1 \in 1..n
      BY <1>3, <2>2
    <3>2. c.at[1] = z /\ z <= Len(b) /\ b[z - 1] = "CR" /\ b[z] = "LF"
      BY <1>6, <3>1 DEF Opens
    <3>3. z \in 1..Len(b) /\ z - 1 \in 1..Len(b) /\ z <= Len(x)
      <4>1. Len(b) \in Nat /\ Len(x) \in Nat
        BY <1>4
      <4> HIDE DEF b, x, z
      <4> QED
        BY <1>4, <1>5, <3>2, <4>1
    <3> QED
      BY <1>3, <1>4, <3>1, <3>2, <3>3
  <2> QED
    BY <2>1, <2>2
<1> HIDE DEF z
<1> QED
  BY <1>8, <1>9, <1>10 DEF Opens, z

\* The part sent last is there.
LEMMA LastThere ==
  ASSUME NEW c, ClientInv(c), NEW part, Sound(part), NEW e, e = Longer(c, part), NEW k, k = Len(c.parts) + 1
  PROVE  PartThere(e, k) /\ PartEnds(e, k) = Len(e.body)
<1> DEFINE n == Len(c.parts)
           b == c.body
           x == e.body
           a == Len(b) + 2
           y == KeyLength(part)
           h == HeadLength(part)
           l == Len(part.data)
<1>1. Grown(b, x, part) /\ Listed(c, e, part, n)
  BY LongerIs
<1>2. e.parts[k] = part /\ e.at[k] = a
  BY <1>1 DEF Listed
<1>3. Len(b) \in Nat /\ l \in Nat /\ a \in Nat /\ y \in {4, 5} /\ boundarySize \in Nat
  <2>1. b \in Seq(Bytes) /\ part.data \in Seq(Bytes)
    BY DEF Sound, FormParts, ClientInv, Clients
  <2>2. y \in {4, 5}
    BY DEF KeyLength
  <2> QED
    BY <2>1, <2>2, BoundaryIs
<1>4. Len(x) = a + h + l + boundarySize /\ HeadThere(x, part, a, a + y, a + h) /\ DataThere(x, part, a + h, a + h + l)
  BY <1>1 DEF Grown
<1>5. h = y + (IF part.typed THEN 9 ELSE 4) /\ y = IF part.file THEN 5 ELSE 4
  BY DEF HeadLength, KeyLength
<1> HIDE DEF a, y, h, l, x
<1>6. KeyEnds(e, k) = a + y
  BY <1>2, <1>5 DEF KeyEnds
<1>7. HeadEnds(e, k) = a + h
  <2>1. HeadEnds(e, k) = a + y + (IF part.typed THEN 9 ELSE 4)
    BY <1>2, <1>6 DEF HeadEnds
  <2> QED
    BY <1>3, <1>5, <2>1
<1>8. DataEnds(e, k) = a + h + l
  BY <1>2, <1>7 DEF DataEnds, l
<1>9. PartEnds(e, k) = Len(x)
  BY <1>4, <1>8 DEF PartEnds
<1>10. PartThere(e, k)
  BY <1>2, <1>4, <1>6, <1>7, <1>8 DEF PartThere, x
<1> QED
  BY <1>9, <1>10 DEF x

\* What follows the boundary behind a part that was there.
LEMMA FollowsStill ==
  ASSUME NEW c, ClientInv(c), ~c.ended, NEW part, Sound(part), NEW e, e = Longer(c, part),
         NEW k \in 1..Len(c.parts)
  PROVE  Follows(e, k)
<1> DEFINE n == Len(c.parts)
           b == c.body
           x == e.body
           g == PartEnds(c, k)
           i == k + 1
<1>1. Grown(b, x, part) /\ Listed(c, e, part, n)
  BY LongerIs
<1>2. Extends(c, e)
  BY MoreSent
<1>3. /\ x \in Seq(Bytes) /\ b \in Seq(Bytes) /\ Len(b) <= Len(x) /\ (\A j \in 1..Len(b) : x[j] = b[j])
      /\ Len(b) \in Nat /\ Len(x) \in Nat
  BY <1>2 DEF Extends, ClientInv, Clients
<1>4. /\ n \in Nat /\ Len(e.parts) = n + 1 /\ e.at[n + 1] = Len(b) + 2
      /\ \A j \in 1..n : e.at[j] = c.at[j]
  BY <1>1 DEF Listed
<1>5. PartEnds(e, k) = g /\ g \in Nat /\ k \in Nat /\ Follows(c, k) /\ g <= Len(b)
  BY <1>2, PlacesKept, PlacesAre
<1>6. k < Len(e.parts) /\ k <= n
  BY <1>4, <1>5
<1>7. e.at[i] = g + 2 /\ e.at[i] <= Len(x) /\ x[g + 1] = "CR" /\ x[g + 2] = "LF"
  <2>1. CASE k < n
    <3>1. c.at[i] = g + 2 /\ c.at[i] <= Len(b) /\ b[g + 1] = "CR" /\ b[g + 2] = "LF"
      BY <1>5, <2>1 DEF Follows
    <3>2. i \in 1..n
      BY <1>4, <1>5, <2>1
    <3>3. e.at[i] = c.at[i]
      BY <1>4, <3>2
    <3> HIDE DEF i, g
    <3>4. g + 1 \in 1..Len(b) /\ g + 2 \in 1..Len(b) /\ e.at[i] <= Len(x)
      BY <1>3, <1>5, <3>1, <3>3
    <3> QED
      BY <1>3, <3>1, <3>3, <3>4
  <2>2. CASE k = n
    <3>1. Len(b) = g
      BY <1>5, <2>2 DEF Follows
    <3>2. e.at[i] = g + 2
      BY <1>4, <2>2, <3>1
    <3>3. x[g + 1] = "CR" /\ x[g + 2] = "LF"
      BY <1>1, <3>1 DEF Grown
    <3>4. g + 2 <= Len(x)
      <4> DEFINE h == HeadLength(part)
                 l == Len(part.data)
                 z == boundarySize
      <4>1. Len(x) = Len(b) + 2 + h + l + z
        BY <1>1 DEF Grown
      <4>2. h \in Nat
        BY DEF HeadLength, KeyLength
      <4>3. l \in Nat /\ z \in Nat
        <5>1. part.data \in Seq(Bytes)
          BY DEF Sound, FormParts
        <5> QED
          BY <5>1, BoundaryIs
      <4> HIDE DEF h, l, b, x, z, g
      <4> QED
        BY <1>3, <1>5, <3>1, <4>1, <4>2, <4>3
    <3> QED
      BY <3>2, <3>3, <3>4
  <2> QED
    BY <1>6, <2>1, <2>2, <1>4, <1>5
<1> HIDE DEF g
<1> QED
  BY <1>5, <1>6, <1>7 DEF Follows

\* What the client sends is well formed, with a part more.
LEMMA PartSent ==
  ASSUME NEW c, ClientInv(c), ~c.ended, NEW part, Sound(part), NEW e, e = Longer(c, part)
  PROVE  ClientInv(e) /\ Extends(c, e)
<1> DEFINE n == Len(c.parts)
<1>1. e \in Clients /\ e.ended = c.ended /\ Listed(c, e, part, n)
  BY LongerIs
<1>2. Extends(c, e)
  BY MoreSent
<1>3. Opens(e)
  BY OpensStill
<1>4. /\ n \in Nat /\ Len(e.parts) = n + 1 /\ Len(e.at) = n + 1 /\ Len(e.meant) = n + 2
      /\ \A k \in 1..n : e.parts[k] = c.parts[k] /\ e.at[k] = c.at[k] /\ e.meant[k] = c.meant[k]
      /\ e.parts[n + 1] = part /\ e.at[n + 1] = Len(c.body) + 2
      /\ e.meant[n + 1] = c.meant[n + 1] /\ e.meant[n + 2] = WithPart(c.meant[n + 1], part)
  BY <1>1 DEF Listed
<1>5. Len(e.at) = Len(e.parts) /\ Len(e.meant) = Len(e.parts) + 1
  BY <1>4
<1>6. e.meant[1] = [form |-> << >>, files |-> << >>]
  BY <1>2 DEF Extends, ClientInv
<1>7. ASSUME NEW k \in 1..Len(e.parts)
      PROVE  /\ \A j \in 0..Len(e.parts[k].data) : ~BoundaryIn(e.parts[k].data, j)
             /\ e.meant[k + 1] = WithPart(e.meant[k], e.parts[k])
             /\ PartEnds(e, k) <= Len(e.body)
             /\ PartThere(e, k) /\ Follows(e, k)
  <2>1. CASE k = n + 1
    <3>1. PartThere(e, k) /\ PartEnds(e, k) = Len(e.body)
      BY <2>1, LastThere
    <3>2. ~(k < Len(e.parts)) /\ ~e.ended /\ k + 1 = n + 2
      BY <1>1, <1>4, <2>1
    <3>3. Follows(e, k)
      BY <3>1, <3>2 DEF Follows
    <3>4. PartEnds(e, k) <= Len(e.body)
      <4>1. Len(e.body) \in Nat
        BY <1>1 DEF Clients
      <4> QED
        BY <3>1, <4>1
    <3>5. \A j \in 0..Len(part.data) : ~BoundaryIn(part.data, j)
      BY DEF Sound
    <3> QED
      BY <1>4, <2>1, <3>1, <3>2, <3>3, <3>4, <3>5
  <2>2. CASE k # n + 1
    <3>1. k \in 1..n
      BY <1>4, <2>2
    <3>2. PartThere(e, k) /\ PartEnds(e, k) <= Len(e.body)
      BY <1>2, <3>1, ThereKept
    <3>3. Follows(e, k)
      BY <3>1, FollowsStill
    <3>4. /\ c.meant[k + 1] = WithPart(c.meant[k], c.parts[k])
          /\ \A j \in 0..Len(c.parts[k].data) : ~BoundaryIn(c.parts[k].data, j)
      BY <3>1, PlacesAre
    <3>5. e.meant[k + 1] = c.meant[k + 1]
      <4>1. k + 1 \in 1..n \/ k + 1 = n + 1
        BY <1>4, <3>1
      <4> QED
        BY <1>4, <4>1
    <3> QED
      BY <1>4, <3>1, <3>2, <3>3, <3>4, <3>5
  <2> QED
    BY <2>1, <2>2
<1> QED
  BY <1>1, <1>2, <1>3, <1>5, <1>6, <1>7 DEF ClientInv

\* A client that ends the body.
Ended(c) == [c EXCEPT !.body = @ \o <<"-", "-", "CR", "LF">>, !.ended = TRUE]

\* What the client sends is well formed when it has ended.
LEMMA EndSent ==
  ASSUME NEW c, ClientInv(c), ~c.ended, c.parts # << >>, NEW e, e = Ended(c)
  PROVE  ClientInv(e) /\ Extends(c, e)
<1> DEFINE n == Len(c.parts)
           b == c.body
           t == <<"-", "-", "CR", "LF">>
           x == b \o t
           l == Len(b)
<1>1. c \in Clients /\ Len(c.at) = n /\ Len(c.meant) = n + 1 /\ c.parts \in Seq(FormParts) /\ b \in Seq(Bytes)
  BY DEF ClientInv, Clients
<1>2. t \in Seq(Bytes) /\ Len(t) = 4 /\ t[1] = "-" /\ t[2] = "-"
  BY DEF Bytes
<1>3. e = [c EXCEPT !.body = x, !.ended = TRUE]
  BY DEF Ended
<1> HIDE DEF t
<1>4. Joined(b, t, x, l, 4)
  <2>1. x = b \o t /\ l = Len(b)
    OBVIOUS
  <2> HIDE DEF x, l, b
  <2> QED
    BY <1>1, <1>2, <2>1, JoinedIs
<1> HIDE DEF x
<1>5. /\ x \in Seq(Bytes) /\ l \in Nat /\ Len(x) = l + 4
      /\ \A j \in 1..l : x[j] = b[j]
      /\ \A j \in 1..4 : x[l + j] = t[j]
  BY <1>4 DEF Joined
<1>6. x[l + 1] = "-" /\ x[l + 2] = "-"
  <2>1. 1 \in 1..4 /\ 2 \in 1..4
    OBVIOUS
  <2> QED
    BY <1>2, <1>5, <2>1
<1>7. /\ e.parts = c.parts /\ e.at = c.at /\ e.meant = c.meant /\ e.body = x /\ e.ended /\ e \in Clients
  BY <1>1, <1>3, <1>5 DEF Clients
<1>8. n \in Nat /\ n # 0 /\ n <= n
  BY <1>1
<1>9. l <= l + 4 /\ l <= Len(x)
  <2> HIDE DEF l
  <2> QED
    BY <1>5
<1>10. Extends(c, e)
  BY <1>5, <1>7, <1>8, <1>9 DEF Extends
<1>11. Opens(e)
  <2> DEFINE z == boundarySize
  <2>1. z \in Nat /\ z >= 4
    BY BoundaryIs
  <2>2. /\ \A j \in 1..(z - 2) : b[j] = boundary[j + 2]
        /\ c.at[1] = z /\ z <= l /\ b[z - 1] = "CR" /\ b[z] = "LF"
    BY DEF ClientInv, Opens
  <2>3. z \in 1..l /\ z - 1 \in 1..l /\ (\A j \in 1..(z - 2) : j \in 1..l) /\ z <= Len(x)
    <3> HIDE DEF z, l
    <3> QED
      BY <1>5, <2>1, <2>2
  <2> HIDE DEF l
  <2>4. /\ \A j \in 1..(z - 2) : x[j] = boundary[j + 2]
        /\ x[z - 1] = "CR" /\ x[z] = "LF"
    BY <1>5, <2>2, <2>3
  <2> HIDE DEF z
  <2> QED
    BY <1>7, <2>2, <2>3, <2>4 DEF Opens, z
<1>12. ASSUME NEW k \in 1..n
       PROVE  PartEnds(e, k) <= Len(e.body) /\ PartThere(e, k) /\ Follows(e, k)
  <2> DEFINE g == PartEnds(c, k)
             i == k + 1
  <2>1. PartThere(e, k) /\ PartEnds(e, k) <= Len(e.body)
    BY <1>10, ThereKept
  <2>2. PartEnds(e, k) = g /\ g \in Nat /\ k \in Nat /\ Follows(c, k) /\ g <= l
    BY <1>10, PlacesKept, PlacesAre
  <2>3. CASE k < n
    <3>1. c.at[i] = g + 2 /\ c.at[i] <= l /\ b[g + 1] = "CR" /\ b[g + 2] = "LF"
      BY <2>2, <2>3 DEF Follows
    <3> HIDE DEF g, i, l
    <3>2. g + 1 \in 1..l /\ g + 2 \in 1..l /\ c.at[i] <= Len(x)
      BY <1>5, <1>9, <2>2, <3>1
    <3>3. x[g + 1] = "CR" /\ x[g + 2] = "LF"
      BY <1>5, <3>1, <3>2
    <3>4. Follows(e, k)
      BY <1>7, <2>2, <2>3, <3>1, <3>2, <3>3 DEF Follows, i
    <3> QED
      BY <2>1, <3>4
  <2>4. CASE k = n
    <3>1. l = g
      BY <2>2, <2>4 DEF Follows
    <3>2. ~(k < n)
      BY <1>8, <2>4
    <3> HIDE DEF g, l
    <3>3. Follows(e, k)
      BY <1>5, <1>6, <1>7, <2>2, <3>1, <3>2 DEF Follows
    <3> QED
      BY <2>1, <3>3
  <2> QED
    BY <1>8, <2>3, <2>4
<1>13. /\ c.meant[1] = [form |-> << >>, files |-> << >>]
       /\ \A k \in 1..n : /\ \A j \in 0..Len(c.parts[k].data) : ~BoundaryIn(c.parts[k].data, j)
                          /\ c.meant[k + 1] = WithPart(c.meant[k], c.parts[k])
  BY DEF ClientInv
<1>14. ClientInv(e)
  BY <1>1, <1>7, <1>11, <1>12, <1>13 DEF ClientInv
<1> QED
  BY <1>10, <1>14

----------------------------------------------------------------------------
(* The order of the map *)

\* What a map has first is the same, in a step of the parser and the reader.
Firsts(q, p) == "first" \in DOMAIN q => ("first" \in DOMAIN p /\ p.first = q.first)

\* Two steps one after the other.
LEMMA FirstsJoin ==
  ASSUME NEW q, NEW a, NEW p, Firsts(q, a), Firsts(a, p)
  PROVE  Firsts(q, p)
BY DEF Firsts

\* Data that is handed on leaves the order of the map.
LEMMA DataFirsts ==
  ASSUME NEW q, NEW text
  PROVE  Firsts(q, PartData(q, text))
<1> DEFINE key == IF FieldKey(q) = "none" THEN q.lastKey ELSE FieldKey(q)
           a == [q EXCEPT !.lastKey = key]
           p == [q EXCEPT !.files[Len(q.files)].data = @ \o text]
           r == [a EXCEPT !.form[key] = @ \o text]
<1>1. Firsts(q, q)
  BY DEF Firsts
<1>2. Firsts(q, p)
  BY DEF Firsts
<1>3. Firsts(q, a)
  <2> HIDE DEF key
  <2> QED
    BY DEF Firsts
<1>4. Firsts(a, r)
  <2> HIDE DEF key, a
  <2> QED
    BY DEF Firsts
<1>5. UpdateValue(q, text) = IF key \in DOMAIN q.form THEN r ELSE a
  BY DEF UpdateValue
<1>6. PartData(q, text) \in {q, p, a, r}
  <2> HIDE DEF p, a, r, key
  <2> QED
    BY <1>5 DEF PartData, p
<1> HIDE DEF p, a, r
<1> QED
  BY <1>1, <1>2, <1>3, <1>4, <1>6, FirstsJoin

\* So do on_part_end and on_end.
LEMMA EndFirsts ==
  ASSUME NEW q
  PROVE  Firsts(q, PartEnd(q)) /\ Firsts(q, FormEnd(q))
<1>1. Firsts(q, [q EXCEPT !.files[Len(q.files)].name = "kept"]) /\ Firsts(q, q)
  BY DEF Firsts
<1>2. Firsts(q, FormEnd(q))
  BY DEF Firsts, FormEnd
<1> QED
  BY <1>1, <1>2 DEF PartEnd

\* So does on_part_begin.
LEMMA BeginFirsts ==
  ASSUME NEW q
  PROVE  Firsts(q, PartBegin(q))
<1>1. Firsts(q, SetHeaders(q))
  BY DEF Firsts, SetHeaders
<1> DEFINE r == SetHeaders(q)
<1>2. Firsts(r, Begun(r))
  <2> HIDE DEF r
  <2> DEFINE m == IsMultipartFile(r)
             a == [r EXCEPT !.isFile = m]
             e == [data |-> << >>, name |-> "ing"]
             k == FieldKey(r)
  <2>1. Firsts(r, a)
    <3> HIDE DEF m
    <3> QED
      BY DEF Firsts
  <2> HIDE DEF k, e
  <2>2. Firsts(a, [a EXCEPT !.files = Append(@, e)]) /\ Firsts(a, [a EXCEPT !.bad = TRUE])
        /\ Firsts(a, [a EXCEPT !.form = Put(@, k, << >>)]) /\ Firsts(a, a)
    <3> HIDE DEF a
    <3> QED
      BY DEF Firsts
  <2>3. Firsts(a, Begun(r))
    <3>1. Begun(r) \in {[a EXCEPT !.files = Append(@, e)], [a EXCEPT !.bad = TRUE],
                        [a EXCEPT !.form = Put(@, k, << >>)], a}
      <4>1. Begun(r) = IF m
                       THEN IF Holds(FieldValue(r), "f") THEN [a EXCEPT !.files = Append(@, e)]
                            ELSE [a EXCEPT !.bad = TRUE]
                       ELSE IF k = "none" \/ k \in DOMAIN r.form THEN a
                       ELSE [a EXCEPT !.form = Put(@, k, << >>)]
        BY DEF Begun, e, k
      <4> HIDE DEF a, m
      <4> QED
        BY <4>1
    <3> HIDE DEF a
    <3> QED
      BY <2>2, <3>1
  <2> HIDE DEF a
  <2> QED
    BY <2>1, <2>3, FirstsJoin
<1> HIDE DEF r
<1> QED
  BY <1>1, <1>2, FirstsJoin DEF PartBegin, r

\* So do the states of the headers.
LEMMA HeadFirsts ==
  ASSUME NEW q, NEW ch, NEW buffer, NEW state
  PROVE  /\ Firsts(q, StartBoundary(q, ch)) /\ Firsts(q, HeaderField(q, ch, buffer))
         /\ Firsts(q, HeaderValue(q, ch, buffer)) /\ Firsts(q, Expect(q, ch, state))
         /\ Firsts(q, Refused(q)) /\ Firsts(q, To(q, state)) /\ Firsts(q, q)
<1>1. ASSUME NEW r, NEW s PROVE Firsts(r, To(r, s)) /\ Firsts(r, Refused(r)) /\ Firsts(r, r)
  BY DEF Firsts, To, Refused
<1>2. Firsts(q, StartBoundary(q, ch))
  <2> DEFINE a == [q EXCEPT !.index = @ + 1]
             b == [q EXCEPT !.index = 0]
  <2>1. Firsts(q, a) /\ Firsts(q, b)
    BY DEF Firsts
  <2>2. StartBoundary(q, ch) \in {a, To(b, "HEADER_FIELD_START"), Refused(q)}
    <3> HIDE DEF a, b
    <3> QED
      BY DEF StartBoundary, a, b
  <2> HIDE DEF a, b
  <2>3. Firsts(b, To(b, "HEADER_FIELD_START")) /\ Firsts(q, Refused(q))
    BY <1>1
  <2>4. Firsts(q, To(b, "HEADER_FIELD_START"))
    BY <2>1, <2>3, FirstsJoin
  <2> QED
    BY <2>1, <2>2, <2>3, <2>4
<1>3. Firsts(q, HeaderField(q, ch, buffer))
  <2> DEFINE b == [q EXCEPT !.field = Unmarked]
             a == [q EXCEPT !.index = @ + 1]
             n == a.name \o Marked(buffer, a.field, a)
             d == [a EXCEPT !.name = n, !.field = Unmarked]
  <2>1. Firsts(q, a) /\ Firsts(q, b)
    BY DEF Firsts
  <2>2. Firsts(a, d)
    <3> HIDE DEF a, n
    <3> QED
      BY DEF Firsts
  <2>3. HeaderField(q, ch, buffer) \in {To(b, "HEADERS_ALMOST_DONE"), a, Refused(a), To(d, "HEADER_VALUE_START")}
    <3>1. HeaderField(q, ch, buffer) =
            IF ch = "CR" THEN To(b, "HEADERS_ALMOST_DONE")
            ELSE IF ch = "-" THEN a
            ELSE IF ch = ":" THEN IF a.index = 1 THEN Refused(a) ELSE To(d, "HEADER_VALUE_START")
            ELSE IF ch \in NameBytes THEN a ELSE Refused(a)
      BY DEF HeaderField
    <3> HIDE DEF a, b, d
    <3> QED
      BY <3>1
  <2> HIDE DEF a, b, d
  <2>4. Firsts(q, d)
    BY <2>1, <2>2, FirstsJoin
  <2>5. /\ Firsts(b, To(b, "HEADERS_ALMOST_DONE")) /\ Firsts(a, Refused(a))
        /\ Firsts(d, To(d, "HEADER_VALUE_START"))
    BY <1>1
  <2>6. /\ Firsts(q, To(b, "HEADERS_ALMOST_DONE")) /\ Firsts(q, Refused(a))
        /\ Firsts(q, To(d, "HEADER_VALUE_START"))
    BY <2>1, <2>4, <2>5, FirstsJoin
  <2> QED
    BY <2>1, <2>3, <2>6
<1>4. Firsts(q, HeaderValue(q, ch, buffer))
  <2> DEFINE v == q.text \o Marked(buffer, q.value, q)
             a == [q EXCEPT !.text = v, !.value = Unmarked]
             d == HeaderEnd(a)
  <2>1. Firsts(q, a)
    <3> HIDE DEF v
    <3> QED
      BY DEF Firsts
  <2>2. HeaderValue(q, ch, buffer) = IF ch # "CR" THEN q ELSE To(d, "HEADER_VALUE_ALMOST_DONE")
    BY DEF HeaderValue
  <2> HIDE DEF a
  <2>3. Firsts(a, d)
    BY DEF Firsts, HeaderEnd
  <2> HIDE DEF d
  <2>4. Firsts(q, d)
    BY <2>1, <2>3, FirstsJoin
  <2> QED
    BY <1>1, <2>2, <2>4, FirstsJoin
<1>5. Firsts(q, Expect(q, ch, state))
  BY <1>1 DEF Expect
<1> QED
  BY <1>1, <1>2, <1>3, <1>4, <1>5

\* So does processPartData.
LEMMA ScanFirsts ==
  ASSUME NEW q, NEW ch, NEW buffer
  PROVE  Firsts(q, Scan(q, ch, buffer))
<1>1. ASSUME NEW r PROVE Firsts(r, r)
  BY DEF Firsts
<1>2. ASSUME NEW r PROVE Firsts(r, Held(r, ch))
  BY DEF Firsts, Held
<1>3. Firsts(q, FalseLead(q))
  <2> DEFINE a == PartData(q, SubSeq(q.behind, 1, q.index))
             d == q.i
             r == [a EXCEPT !.index = 0, !.data = d, !.i = @ - 1]
  <2>1. Firsts(q, a)
    BY DataFirsts
  <2>2. FalseLead(q) = r
    BY DEF FalseLead
  <2> HIDE DEF a, d
  <2>3. Firsts(a, r)
    BY DEF Firsts
  <2> HIDE DEF r
  <2> QED
    BY <2>1, <2>2, <2>3, FirstsJoin
<1> DEFINE a == PartData(q, Marked(buffer, q.data, q))
           b == [a EXCEPT !.data = Unmarked]
           d == [q EXCEPT !.part = TRUE]
           e == [q EXCEPT !.last = TRUE]
           f == PartEnd(q)
           g == [f EXCEPT !.index = 0, !.part = FALSE]
           h == To(g, "HEADER_FIELD_START")
           l == FormEnd(f)
<1>4. Firsts(q, d) /\ Firsts(q, e)
  BY DEF Firsts
<1>5. Firsts(q, a) /\ Firsts(q, f)
  BY DataFirsts, EndFirsts
<1>6. Scan(q, ch, buffer) \in {Held(b, ch), Held(q, ch), FalseLead(q), q, Held(d, ch), Held(e, ch), h, l}
  <2>1. Scan(q, ch, buffer) =
          IF q.index < boundarySize
          THEN IF boundary[q.index + 1] = ch
               THEN IF q.index = 0 /\ q.data # Unmarked THEN Held(b, ch) ELSE Held(q, ch)
               ELSE IF q.index > 0 THEN FalseLead(q) ELSE q
          ELSE IF q.index = boundarySize
          THEN IF ch = "CR" THEN Held(d, ch) ELSE IF ch = "-" THEN Held(e, ch) ELSE FalseLead(q)
          ELSE IF q.part /\ ch = "LF" THEN h
          ELSE IF ~q.part /\ q.last /\ ch = "-" THEN l
          ELSE FalseLead(q)
    BY DEF Scan
  <2> HIDE DEF b, d, e, h, l
  <2> QED
    BY <2>1
<1> HIDE DEF a, d, e, f
<1>7. Firsts(a, b) /\ Firsts(f, g)
  BY DEF Firsts
<1> HIDE DEF b, g
<1>8. Firsts(g, h) /\ Firsts(f, l)
  BY HeadFirsts, EndFirsts
<1> HIDE DEF h, l
<1>9. Firsts(q, b) /\ Firsts(q, g) /\ Firsts(q, l)
  BY <1>5, <1>7, <1>8, FirstsJoin
<1>10. Firsts(q, h)
  BY <1>8, <1>9, FirstsJoin
<1>11. Firsts(b, Held(b, ch)) /\ Firsts(q, Held(q, ch)) /\ Firsts(d, Held(d, ch)) /\ Firsts(e, Held(e, ch))
  BY <1>2
<1>12. Firsts(q, Held(b, ch)) /\ Firsts(q, Held(q, ch)) /\ Firsts(q, Held(d, ch)) /\ Firsts(q, Held(e, ch))
  BY <1>4, <1>9, <1>11, FirstsJoin
<1> QED
  BY <1>1, <1>3, <1>6, <1>9, <1>10, <1>12

\* So does a byte.
LEMMA ByteFirsts ==
  ASSUME NEW q, NEW ch, NEW buffer
  PROVE  Firsts(q, Fed(q, ch, buffer))
<1> DEFINE a == [q EXCEPT !.index = 0]
           b == To(a, "START_BOUNDARY")
           i == q.i
           d == [q EXCEPT !.field = i, !.index = 0]
           e == To(d, "HEADER_FIELD")
           f == [q EXCEPT !.value = i]
           g == To(f, "HEADER_VALUE")
           m == PartBegin(q)
           p == Byte(q, ch, buffer)
<1>1. Firsts(q, a) /\ Firsts(q, d) /\ Firsts(q, f)
  <2> HIDE DEF i
  <2> QED
    BY DEF Firsts
<1>2. p \in {StartBoundary(b, ch), StartBoundary(q, ch), HeaderField(e, ch, buffer), HeaderField(q, ch, buffer), q,
             HeaderValue(g, ch, buffer), HeaderValue(q, ch, buffer), Expect(q, ch, "HEADER_FIELD_START"),
             To(m, "PART_DATA_START"), Refused(q), Scan(q, ch, buffer)}
  <2> HIDE DEF b, e, g, m
  <2> QED
    BY DEF Byte, b, e, g, m
<1> HIDE DEF a, d, f, i
<1>3. Firsts(a, b) /\ Firsts(d, e) /\ Firsts(f, g) /\ Firsts(q, m)
  BY HeadFirsts, BeginFirsts
<1> HIDE DEF b, e, g, m
<1>4. Firsts(q, b) /\ Firsts(q, e) /\ Firsts(q, g)
  BY <1>1, <1>3, FirstsJoin
<1>5. /\ Firsts(b, StartBoundary(b, ch)) /\ Firsts(e, HeaderField(e, ch, buffer))
      /\ Firsts(g, HeaderValue(g, ch, buffer)) /\ Firsts(m, To(m, "PART_DATA_START"))
  BY HeadFirsts
<1>6. /\ Firsts(q, StartBoundary(b, ch)) /\ Firsts(q, HeaderField(e, ch, buffer))
      /\ Firsts(q, HeaderValue(g, ch, buffer)) /\ Firsts(q, To(m, "PART_DATA_START"))
  BY <1>3, <1>4, <1>5, FirstsJoin
<1>7. /\ Firsts(q, StartBoundary(q, ch)) /\ Firsts(q, HeaderField(q, ch, buffer)) /\ Firsts(q, q)
      /\ Firsts(q, HeaderValue(q, ch, buffer)) /\ Firsts(q, Expect(q, ch, "HEADER_FIELD_START"))
      /\ Firsts(q, Refused(q)) /\ Firsts(q, Scan(q, ch, buffer))
  BY HeadFirsts, ScanFirsts
<1>8. Firsts(q, p)
  BY <1>2, <1>6, <1>7
<1> HIDE DEF p
<1>9. Firsts(p, [p EXCEPT !.i = @ + 1])
  BY DEF Firsts
<1> QED
  BY <1>8, <1>9, FirstsJoin DEF Fed, p

\* So does the end of a buffer.
LEMMA ReturnFirsts ==
  ASSUME NEW q, NEW buffer
  PROVE  Firsts(q, BufferEnd(q, buffer))
<1> DEFINE rest(mark) == IF mark = Unmarked THEN << >> ELSE SubSeq(buffer, mark, Len(buffer))
           next(mark) == IF mark = Unmarked THEN Unmarked ELSE 1
           u == q.name \o rest(q.field)
           v == q.text \o rest(q.value)
           a == [q EXCEPT !.name = u, !.text = v]
           d == rest(q.data)
           b == PartData(a, d)
           p == [b EXCEPT !.field = next(@), !.value = next(@), !.data = next(@), !.i = 1]
<1>1. Firsts(q, a)
  <2> HIDE DEF u, v
  <2> QED
    BY DEF Firsts
<1>2. BufferEnd(q, buffer) = p
  BY DEF BufferEnd
<1> HIDE DEF a, d
<1>3. Firsts(a, b)
  BY DataFirsts
<1> HIDE DEF b
<1>4. Firsts(b, p)
  BY DEF Firsts
<1> HIDE DEF p
<1> QED
  BY <1>1, <1>2, <1>3, <1>4, FirstsJoin

----------------------------------------------------------------------------
(* The invariance *)

\* What the reads bring.
Fine(c, f, r) == ClientInv(c) /\ f \in Nat /\ r \in Nat /\ f <= r /\ r <= Len(c.body)

\* The buffer of a read.
LEMMA BufferIs ==
  ASSUME NEW c, NEW f, NEW r, Fine(c, f, r), f < r
  PROVE  /\ BufferOf(c, f, r) \in Seq(Bytes) /\ Len(BufferOf(c, f, r)) = r - f
         /\ \A i \in 1..(r - f) : BufferOf(c, f, r)[i] = c.body[f + i]
<1> DEFINE b == c.body
<1>1. b \in Seq(Bytes) /\ f \in Nat /\ r \in Nat /\ f <= r /\ r <= Len(b)
  BY DEF Fine, ClientInv, Clients
<1> HIDE DEF b
<1>2. /\ SubSeq(b, f + 1, r) \in Seq(Bytes) /\ Len(SubSeq(b, f + 1, r)) = r - f
  <2>1. 1 \in Nat /\ f + 1 <= r
    BY <1>1
  <2> QED
    BY <1>1, <2>1, BufferByte
<1>3. ASSUME NEW i \in 1..(r - f) PROVE SubSeq(b, f + 1, r)[i] = b[f + i]
  <2>1. i \in Nat /\ i > 0 /\ f + i <= r
    BY <1>1
  <2> QED
    BY <1>1, <2>1, BufferByte
<1> QED
  BY <1>2, <1>3 DEF BufferOf, b

\* One byte keeps the reader where it should be.
LEMMA FeedKeeps ==
  ASSUME NEW c, NEW f, NEW r, Fine(c, f, r), f < r, NEW q, ReaderInv(c, q, f, r), NameFirst(c, q),
         q.state # "PART_DATA_START", q.i <= Len(BufferOf(c, f, r)),
         NEW ch, ch = BufferOf(c, f, r)[q.i], NEW p, p = Fed(q, ch, BufferOf(c, f, r))
  PROVE  ReaderInv(c, p, f, r)
<1> DEFINE i == q.i
<1>1. q \in Readers /\ i > 0 /\ i \in Nat
  BY DEF ReaderInv, Readers
<1>2. f \in Nat /\ r \in Nat /\ ClientInv(c) /\ r <= Len(c.body)
  BY DEF Fine
<1>3. PICK n \in Nat : n + 1 = f + i /\ n <= r /\ Phase(c, q, f, n)
  BY DEF ReaderInv
<1>4. i \in 1..(r - f) /\ n < r
  <2>1. i <= r - f
    BY BufferIs
  <2> HIDE DEF i
  <2> QED
    BY <1>1, <1>2, <1>3, <2>1
<1>5. At(c, q, f, r, n)
  BY <1>1, <1>2, <1>3, <1>4 DEF At
<1>6. ch = c.body[n + 1]
  BY <1>3, <1>4, BufferIs
<1>7. p = Fed(q, c.body[n + 1], BufferOf(c, f, r))
  BY <1>6
<1>8. /\ p \in Readers
      /\ \/ p.i = i /\ Phase(c, p, f, n)
         \/ p.i = i + 1 /\ Phase(c, p, f, n + 1)
  BY <1>3, <1>5, <1>7, ByteGoesOn
<1>9. CASE p.i = i /\ Phase(c, p, f, n)
  BY <1>1, <1>3, <1>8, <1>9 DEF ReaderInv
<1>10. CASE p.i = i + 1 /\ Phase(c, p, f, n + 1)
  <2> DEFINE m == n + 1
  <2>1. m \in Nat /\ m + 1 = f + p.i /\ m <= r /\ p.i > 0
    <3> HIDE DEF i
    <3> QED
      BY <1>1, <1>2, <1>3, <1>4, <1>10
  <2>2. Phase(c, p, f, m)
    BY <1>10
  <2> HIDE DEF m
  <2> QED
    BY <1>8, <2>1, <2>2 DEF ReaderInv
<1> QED
  BY <1>8, <1>9, <1>10

\* A parser whose state is PART_DATA, or the one before it, is in a part's data.
LEMMA InBodyIs ==
  ASSUME NEW c, NEW q, NEW f, NEW n, Phase(c, q, f, n)
  PROVE  /\ q.state # "PARSE_ERROR"
         /\ q.state = "PART_DATA" => \E k \in 1..Len(c.parts) : InBodyOf(c, q, k, f, n)
         /\ q.state = "PART_DATA_START" => \E k \in 1..Len(c.parts) : DataStarts(c, q, k, n)
<1>1. CASE Opening(c, q, n)
  BY <1>1 DEF Opening
<1>2. CASE Over(c, q)
  BY <1>2 DEF Over
<1>3. ASSUME NEW k \in 1..Len(c.parts), InHead(c, q, k, f, n)
      PROVE  q.state \notin {"PARSE_ERROR", "PART_DATA", "PART_DATA_START"}
  BY <1>3 DEF InHead, LineStarts, InName, AfterName, InValue, LineEnds, HeadStops
<1>4. ASSUME NEW k \in 1..Len(c.parts), DataStarts(c, q, k, n) PROVE q.state = "PART_DATA_START"
  BY <1>4 DEF DataStarts
<1>5. ASSUME NEW k \in 1..Len(c.parts), InBodyOf(c, q, k, f, n) PROVE q.state = "PART_DATA"
  BY <1>5 DEF InBodyOf
<1> QED
  BY <1>1, <1>2, <1>3, <1>4, <1>5 DEF Phase

\* So does a run of bytes that is passed over.
LEMMA SkipKeeps ==
  ASSUME NEW c, NEW f, NEW r, Fine(c, f, r), f < r, NEW q, ReaderInv(c, q, f, r),
         Skippable(q, BufferOf(c, f, r)), NEW p, p = Passed(q)
  PROVE  ReaderInv(c, p, f, r)
<1> DEFINE i == q.i
           z == boundarySize
<1>1. q \in Readers /\ i > 0 /\ i \in Nat
  BY DEF ReaderInv, Readers
<1>2. f \in Nat /\ r \in Nat /\ ClientInv(c) /\ r <= Len(c.body) /\ z \in Nat /\ z >= 4
  BY BoundaryIs DEF Fine
<1>3. PICK n \in Nat : n + 1 = f + i /\ n <= r /\ Phase(c, q, f, n)
  BY DEF ReaderInv
<1>4. q.state = "PART_DATA" /\ i + z - 1 <= r - f
  BY BufferIs DEF Skippable
<1>5. n < r
  <2> HIDE DEF i, z
  <2> QED
    BY <1>1, <1>2, <1>3, <1>4
<1>6. At(c, q, f, r, n)
  BY <1>1, <1>2, <1>3, <1>5 DEF At
<1>7. PICK k \in 1..Len(c.parts) : InBodyOf(c, q, k, f, n)
  BY <1>3, <1>4, InBodyIs
<1>8. Skippable(q, SubSeq(c.body, f + 1, r))
  BY DEF BufferOf
<1>9. p \in Readers /\ p.i = i + z /\ f + p.i <= r + 1 /\ InBodyOf(c, p, k, f, n + z)
  BY <1>6, <1>7, <1>8, SkipGoesOn
<1> DEFINE m == n + z
<1>10. m \in Nat /\ m + 1 = f + p.i /\ m <= r /\ p.i > 0
  <2> HIDE DEF i, z
  <2> QED
    BY <1>1, <1>2, <1>3, <1>9
<1>11. Phase(c, p, f, m)
  BY <1>9 DEF Phase
<1> HIDE DEF m
<1> QED
  BY <1>9, <1>10, <1>11 DEF ReaderInv

\* So does the mark at the beginning of the data.
LEMMA StartKeeps ==
  ASSUME NEW c, NEW f, NEW r, Fine(c, f, r), f < r, NEW q, ReaderInv(c, q, f, r),
         q.state = "PART_DATA_START", q.i <= Len(BufferOf(c, f, r)),
         NEW p, p = To([q EXCEPT !.data = q.i, !.index = 0], "PART_DATA")
  PROVE  ReaderInv(c, p, f, r)
<1> DEFINE i == q.i
<1>1. q \in Readers /\ i > 0 /\ i \in Nat
  BY DEF ReaderInv, Readers
<1>2. f \in Nat /\ r \in Nat /\ ClientInv(c) /\ r <= Len(c.body)
  BY DEF Fine
<1>3. PICK n \in Nat : n + 1 = f + i /\ n <= r /\ Phase(c, q, f, n)
  BY DEF ReaderInv
<1>4. n < r
  <2>1. i <= r - f
    BY BufferIs
  <2> HIDE DEF i
  <2> QED
    BY <1>1, <1>2, <1>3, <2>1
<1>5. At(c, q, f, r, n)
  BY <1>1, <1>2, <1>3, <1>4 DEF At
<1>6. PICK k \in 1..Len(c.parts) : DataStarts(c, q, k, n)
  BY <1>3, InBodyIs
<1>7. p \in Readers /\ p.i = i /\ InBodyOf(c, p, k, f, n)
  BY <1>5, <1>6, DataGoesOn
<1>8. Phase(c, p, f, n)
  BY <1>7 DEF Phase
<1> QED
  BY <1>1, <1>3, <1>7, <1>8 DEF ReaderInv

\* So does the end of a buffer, for the next one.
LEMMA ReturnKeeps ==
  ASSUME NEW c, NEW f, NEW r, Fine(c, f, r), f < r, NEW q, ReaderInv(c, q, f, r),
         q.i > Len(BufferOf(c, f, r)), NEW p, p = BufferEnd(q, BufferOf(c, f, r))
  PROVE  ReaderInv(c, p, r, r)
<1> DEFINE i == q.i
<1>1. q \in Readers /\ i > 0 /\ i \in Nat
  BY DEF ReaderInv, Readers
<1>2. f \in Nat /\ r \in Nat /\ ClientInv(c) /\ r <= Len(c.body)
  BY DEF Fine
<1>3. PICK n \in Nat : n + 1 = f + i /\ n <= r /\ Phase(c, q, f, n)
  BY DEF ReaderInv
<1>4. n = r
  <2>1. i > r - f
    BY BufferIs
  <2> HIDE DEF i
  <2> QED
    BY <1>1, <1>2, <1>3, <2>1
<1>5. Ends(c, q, f, r) /\ Phase(c, q, f, r)
  BY <1>1, <1>2, <1>3, <1>4 DEF Ends
<1>6. p \in Readers /\ p.i = 1 /\ Phase(c, p, r, r)
  BY <1>5, ReturnGoesOn
<1>7. p.i > 0 /\ r + 1 = r + p.i /\ r <= r
  BY <1>2, <1>6
<1> QED
  BY <1>2, <1>6, <1>7 DEF ReaderInv

\* So does what the client sends more.
LEMMA MoreKeeps ==
  ASSUME NEW c, NEW e, Extends(c, e), NEW f, NEW r, Fine(c, f, r), NEW q, ReaderInv(c, q, f, r)
  PROVE  ReaderInv(e, q, f, r)
<1>1. q \in Readers /\ q.i > 0 /\ f \in Nat /\ r \in Nat /\ r <= Len(c.body)
  BY DEF ReaderInv, Fine
<1>2. PICK n \in Nat : n + 1 = f + q.i /\ n <= r /\ Phase(c, q, f, n)
  BY DEF ReaderInv
<1>3. n <= Len(c.body)
  <2>1. Len(c.body) \in Nat
    BY DEF Fine, ClientInv, Clients
  <2> QED
    BY <1>1, <1>2, <2>1
<1>4. Phase(e, q, f, n)
  BY <1>1, <1>2, <1>3, PhaseStays
<1> QED
  BY <1>1, <1>2, <1>4 DEF ReaderInv

\* More that is read changes nothing.
LEMMA ReadKeeps ==
  ASSUME NEW c, NEW f, NEW r \in Nat, NEW s \in Nat, r <= s, NEW q, ReaderInv(c, q, f, r)
  PROVE  ReaderInv(c, q, f, s)
<1>1. PICK n \in Nat : n + 1 = f + q.i /\ n <= r /\ Phase(c, q, f, n)
  BY DEF ReaderInv
<1>2. n <= s
  BY <1>1
<1> QED
  BY <1>1, <1>2 DEF ReaderInv

\* What the map has first mattered no less before more was sent.
LEMMA FirstStays ==
  ASSUME NEW c, NEW e, Extends(c, e), e \in Clients, NEW q, NameFirst(e, q)
  PROVE  NameFirst(c, q)
<1>1. DOMAIN c.parts = 1..Len(c.parts) /\ DOMAIN e.parts = 1..Len(e.parts)
  <2>1. c.parts \in Seq(FormParts) /\ e.parts \in Seq(FormParts)
    BY DEF Extends, ClientInv, Clients
  <2> QED
    BY <2>1
<1>2. ASSUME NEW k \in DOMAIN c.parts PROVE k \in DOMAIN e.parts /\ e.parts[k] = c.parts[k]
  BY <1>1, <1>2, PlacesKept
<1> QED
  BY <1>2 DEF NameFirst

\* In the headers of a part, the boundary behind its data is still to come.
LEMMA HeadShort ==
  ASSUME NEW c, ClientInv(c), NEW k \in 1..Len(c.parts), NEW q, NEW f, NEW n \in Nat, InHead(c, q, k, f, n)
  PROVE  n < PartEnds(c, k)
<1> DEFINE a == c.at[k]
           y == KeyEnds(c, k)
           h == HeadEnds(c, k)
           d == DataEnds(c, k)
           g == PartEnds(c, k)
           l == Len(c.parts[k].data)
           z == boundarySize
<1>1. a \in Nat /\ y \in Nat /\ h \in Nat /\ l \in Nat /\ d = h + l /\ g = d + z /\ y \in {a + 4, a + 5}
      /\ h \in {y + 4, y + 9} /\ d \in Nat /\ g \in Nat
  BY PlacesAre
<1>2. z \in Nat /\ z >= 4
  BY BoundaryIs
<1>3. c.parts[k].typed => h = y + 9
  BY HeadBytes
<1>4. \/ n \in {a, a + 1, a + 2, a + 3, y + 1, y + 2, h - 2, h - 1} \/ n \in (a + 4)..y
      \/ c.parts[k].typed /\ n \in {y + 3, y + 4, y + 5, y + 6}
  BY DEF InHead, LineStarts, InName, AfterName, InValue, LineEnds, HeadStops
<1> HIDE DEF a, y, h, d, g, l, z
<1>5. n <= h
  BY <1>1, <1>3, <1>4
<1>6. n < g
  BY <1>1, <1>2, <1>5
<1> QED
  BY <1>6 DEF g

\* Nor in the data is a parser at the end of a body that has ended.
LEMMA DataShort ==
  ASSUME NEW c, ClientInv(c), c.ended, NEW k \in 1..Len(c.parts), NEW q \in Readers, NEW f \in Nat, NEW n \in Nat,
         DataStarts(c, q, k, n) \/ InBodyOf(c, q, k, f, n)
  PROVE  n < Len(c.body)
<1> DEFINE h == HeadEnds(c, k)
           d == DataEnds(c, k)
           g == PartEnds(c, k)
           l == Len(c.parts[k].data)
           z == boundarySize
           b == Len(c.body)
           x == q.index
           m == Len(c.parts)
<1>1. /\ h \in Nat /\ l \in Nat /\ d = h + l /\ g = d + z /\ d \in Nat /\ g \in Nat /\ b \in Nat
      /\ Follows(c, k) /\ k \in Nat /\ m \in Nat
  BY PlacesAre
<1>2. z \in Nat /\ z >= 4 /\ x \in Nat
  BY BoundaryIs, NumbersAre
<1>3. g + 2 <= b
  <2>1. CASE k < m
    <3>1. c.at[k + 1] = g + 2 /\ c.at[k + 1] <= b
      BY <2>1 DEF Follows, ClientInv
    <3> QED
      BY <3>1
  <2>2. CASE ~(k < m)
    <3>1. b = g + 4
      BY <2>2 DEF Follows, ClientInv
    <3> HIDE DEF b, g
    <3> QED
      BY <1>1, <3>1, SMTT(30)
  <2> QED
    BY <2>1, <2>2
<1> HIDE DEF h, d, g, l, z, b, x
<1>4. d \in Nat /\ z \in Nat /\ h <= d
  BY <1>1, <1>2
<1>5. n <= d + z + 1
  <2>1. CASE DataStarts(c, q, k, n)
    <3>1. n = h
      BY <2>1 DEF DataStarts, h
    <3> QED
      BY <1>1, <1>4, <3>1
  <2>2. CASE Plainly(c, q, k, f, n)
    <3>1. n <= d
      BY <2>2 DEF Plainly, d
    <3> QED
      BY <1>4, <3>1
  <2>3. ASSUME NEW s \in Nat, Holding(c, q, k, n, s) PROVE n <= d + z + 1
    <3>1. s + x = n /\ s <= d /\ x <= z + 1
      BY <2>3 DEF Holding, d, z, x
    <3> QED
      BY <1>2, <1>4, <3>1
  <2> QED
    BY <2>1, <2>2, <2>3 DEF InBodyOf
<1>6. n < b
  BY <1>1, <1>2, <1>3, <1>5
<1> QED
  BY <1>6 DEF b

\* At the end of a body that has ended, the parser is through.
LEMMA AtTheEnd ==
  ASSUME NEW c, ClientInv(c), c.ended, NEW q \in Readers, NEW f \in Nat, NEW n \in Nat, n = Len(c.body),
         Phase(c, q, f, n)
  PROVE  Over(c, q)
<1>1. ~Opening(c, q, n)
  <2>1. boundarySize <= Len(c.body)
    BY DEF ClientInv, Opens
  <2>2. boundarySize \in Nat
    BY BoundaryIs
  <2> QED
    BY <2>1, <2>2 DEF Opening
<1>2. ASSUME NEW k \in 1..Len(c.parts) PROVE ~InHead(c, q, k, f, n)
  <2>1. PartEnds(c, k) <= Len(c.body) /\ PartEnds(c, k) \in Nat
    BY PlacesAre
  <2> SUFFICES ASSUME InHead(c, q, k, f, n) PROVE FALSE
    OBVIOUS
  <2>2. n < PartEnds(c, k)
    BY HeadShort
  <2> QED
    BY <2>1, <2>2
<1>3. ASSUME NEW k \in 1..Len(c.parts) PROVE ~DataStarts(c, q, k, n) /\ ~InBodyOf(c, q, k, f, n)
  <2> SUFFICES ASSUME DataStarts(c, q, k, n) \/ InBodyOf(c, q, k, f, n) PROVE FALSE
    OBVIOUS
  <2>1. n < Len(c.body)
    BY DataShort
  <2> QED
    BY <2>1
<1> QED
  BY <1>1, <1>2, <1>3 DEF Phase

\* At the end of the body the invariant says what PartsAsSent does.
LEMMA FormInvParts == FormInv => PartsAsSent
<1> SUFFICES ASSUME FormInv, client.ended, fed = Len(client.body), NameFirst(client, reader)
             PROVE  /\ reader.done
                    /\ reader.form = client.meant[Len(client.meant)].form
                    /\ reader.files = client.meant[Len(client.meant)].files
  BY DEF PartsAsSent
<1> DEFINE i == reader.i
<1>1. /\ ClientInv(client) /\ read \in Nat /\ fed \in Nat /\ fed <= read /\ read <= Len(client.body)
      /\ ReaderInv(client, reader, fed, read)
  BY DEF FormInv
<1>2. reader \in Readers /\ i > 0 /\ i \in Nat
  BY <1>1 DEF ReaderInv, Readers
<1>3. PICK n \in Nat : n + 1 = fed + i /\ n <= read /\ Phase(client, reader, fed, n)
  BY <1>1 DEF ReaderInv
<1>4. n = Len(client.body)
  <2> DEFINE b == Len(client.body)
  <2>1. fed = b /\ read <= b
    BY <1>1
  <2> HIDE DEF i, b
  <2>2. n = b
    BY <1>1, <1>2, <1>3, <2>1
  <2> QED
    BY <2>2 DEF b
<1>5. Over(client, reader)
  BY <1>1, <1>2, <1>3, <1>4, AtTheEnd
<1> QED
  BY <1>5 DEF Over

\* A new reader.
LEMMA NewReaderIs ==
  ASSUME NEW first \in {"d", "t"}, NEW q, q = NewReader(first)
  PROVE  /\ q \in Readers /\ q.i = 1 /\ q.state = "START" /\ Idle(q) /\ DOMAIN q.current = {}
         /\ ~q.bad /\ ~q.done /\ ~q.part /\ ~q.last /\ q.data = Unmarked /\ DOMAIN q.headers = {}
         /\ q.form = << >> /\ q.files = << >> /\ q.first = first /\ "first" \in DOMAIN q
<1>1. q.i = 1 /\ q.state = "START" /\ Idle(q) /\ DOMAIN q.current = {}
  BY EmptyMap DEF NewReader, Idle
<1>2. /\ ~q.bad /\ ~q.done /\ ~q.part /\ ~q.last /\ q.data = Unmarked /\ DOMAIN q.headers = {}
      /\ q.form = << >> /\ q.files = << >> /\ q.first = first /\ "first" \in DOMAIN q
  BY EmptyMap DEF NewReader
<1>3. q \in Readers
  <2>1. << >> \in FileLists /\ << >> \in Seq(Bytes)
    BY DEF FileLists
  <2>2. "START" \in States /\ "none" \in {"none", "x", "y"} /\ 0 \in Nat /\ 1 \in Nat
    BY DEF States
  <2> QED
    BY <2>1, <2>2, EmptyMap DEF NewReader, Readers, Unmarked
<1> QED
  BY <1>1, <1>2, <1>3

\* The invariant holds when nothing is sent but the first boundary.
LEMMA FormInvInit == MultipartInit => FormInv
<1> SUFFICES ASSUME MultipartInit PROVE FormInv
  OBVIOUS
<1> DEFINE c == client
           q == reader
           t == <<"-", "-">>
           b == t \o Token
           m == <<[form |-> << >>, files |-> << >>]>>
           z == boundarySize
<1>1. c = [parts |-> << >>, at |-> << >>, body |-> b, ended |-> FALSE, meant |-> m] /\ read = 0 /\ fed = 0
  BY DEF MultipartInit
<1>2. PICK first \in {"d", "t"} : q = NewReader(first)
  BY DEF MultipartInit
<1>3. Token \in Seq(Bytes) /\ t \in Seq(Bytes) /\ Len(t) = 2 /\ t[1] = "-" /\ t[2] = "-"
  <2>1. Token \in Seq(Bytes)
    BY MultipartAssumption
  <2> QED
    BY <2>1 DEF Bytes
<1> DEFINE u == <<"CR", "LF", "-", "-">>
<1>4. u \in Seq(Bytes) /\ Len(u) = 4 /\ u[3] = "-" /\ u[4] = "-" /\ boundary = u \o Token
  BY DEF Bytes, boundary
<1> HIDE DEF t, u
<1> DEFINE n == Len(Token)
<1>5. Joined(t, Token, b, 2, n)
  <2> HIDE DEF n, b
  <2>1. b = t \o Token /\ n = Len(Token)
    BY DEF b, n
  <2> QED
    BY <1>3, <2>1, JoinedIs
<1>6. Joined(u, Token, boundary, 4, n)
  <2>1. n = Len(Token)
    OBVIOUS
  <2> HIDE DEF n
  <2> QED
    BY <1>3, <1>4, <2>1, JoinedIs
<1>7. /\ b \in Seq(Bytes) /\ Len(b) = 2 + n /\ n \in Nat
      /\ \A j \in 1..2 : b[j] = t[j]
      /\ \A j \in 1..n : b[2 + j] = Token[j]
  BY <1>5 DEF Joined
<1>8. /\ z = 4 + n
      /\ \A j \in 1..4 : boundary[j] = u[j]
      /\ \A j \in 1..n : boundary[4 + j] = Token[j]
  BY <1>6 DEF Joined, boundarySize
<1> HIDE DEF b, n
<1>9. Len(b) = z - 2
  BY <1>7, <1>8
<1>10. ASSUME NEW j \in 1..(z - 2) PROVE b[j] = boundary[j + 2]
  <2>1. CASE j <= 2
    <3>1. j = 1 \/ j = 2
      BY <2>1
    <3>2. 1 \in 1..2 /\ 2 \in 1..2 /\ 3 \in 1..4 /\ 4 \in 1..4 /\ 1 + 2 = 3 /\ 2 + 2 = 4
      OBVIOUS
    <3> QED
      BY <1>3, <1>4, <1>7, <1>8, <3>1, <3>2
  <2>2. CASE j > 2
    <3> DEFINE i == j - 2
    <3>1. i \in 1..n /\ 2 + i = j /\ 4 + i = j + 2
      BY <1>7, <1>8, <2>2
    <3> HIDE DEF i
    <3>2. b[2 + i] = Token[i] /\ boundary[4 + i] = Token[i]
      BY <1>7, <1>8, <3>1
    <3> QED
      BY <3>1, <3>2
  <2> QED
    BY <2>1, <2>2
<1>11. c \in Clients /\ c.meant = m /\ c.parts = << >> /\ c.at = << >> /\ c.body = b /\ ~c.ended
  <2>1. m \in Seq(Forms)
    <3>1. [form |-> << >>, files |-> << >>] \in Forms
      BY EmptyMap DEF Forms, FileLists
    <3> HIDE DEF c
    <3> QED
      BY <3>1
  <2> HIDE DEF m
  <2> QED
    BY <1>1, <1>7, <2>1 DEF Clients
<1>12. Len(m) = 1 /\ m[1] = [form |-> << >>, files |-> << >>]
  OBVIOUS
<1> HIDE DEF m, c, q, z
<1>13. Opens(c)
  BY <1>9, <1>10, <1>11 DEF Opens, z
<1>14. ClientInv(c)
  <2>1. Len(c.at) = Len(c.parts) /\ Len(c.meant) = Len(c.parts) + 1 /\ 1..Len(c.parts) = {}
    BY <1>11, <1>12
  <2> QED
    BY <1>11, <1>12, <1>13, <2>1 DEF ClientInv
<1>15. /\ q \in Readers /\ q.i = 1 /\ q.state = "START" /\ Idle(q) /\ DOMAIN q.current = {}
       /\ ~q.bad /\ ~q.done /\ ~q.part /\ ~q.last /\ q.data = Unmarked /\ DOMAIN q.headers = {}
       /\ q.form = << >> /\ q.files = << >> /\ q.first = first /\ "first" \in DOMAIN q
  BY <1>2, NewReaderIs
<1>16. Opening(c, q, 0)
  <2>1. c.meant[1].form = << >> /\ c.meant[1].files = << >>
    BY <1>11, <1>12
  <2>2. SoFar(c, q, 1)
    BY <1>15, <2>1 DEF SoFar
  <2>3. 0 < z
    BY <1>7, <1>8 DEF z
  <2> QED
    BY <1>15, <2>2, <2>3 DEF Opening, z
<1>17. ReaderInv(c, q, 0, 0)
  <2>1. Phase(c, q, 0, 0)
    BY <1>16 DEF Phase
  <2>2. 0 \in Nat /\ 0 + 1 = 0 + q.i /\ q.i > 0 /\ 0 <= 0
    BY <1>15
  <2> QED
    BY <1>15, <2>1, <2>2 DEF ReaderInv
<1>18. 0 <= Len(c.body) /\ 0 \in Nat
  BY <1>7, <1>11
<1> QED
  BY <1>1, <1>14, <1>15, <1>17, <1>18 DEF FormInv, c, q

\* The invariant is kept when the client sends.
LEMMA Sending == FormInv /\ (SendPart \/ SendEnd) => FormInv'
<1> SUFFICES ASSUME FormInv, SendPart \/ SendEnd PROVE FormInv'
  OBVIOUS
<1> DEFINE c == client
           e == client'
           q == reader
<1>1. /\ ClientInv(c) /\ read \in Nat /\ fed \in Nat /\ fed <= read /\ read <= Len(c.body)
      /\ "first" \in DOMAIN q /\ q.first \in {"d", "t"}
      /\ NameFirst(c, q) => ReaderInv(c, q, fed, read)
  BY DEF FormInv
<1>2. ClientInv(e) /\ Extends(c, e)
  <2>1. CASE SendPart
    <3> DEFINE n == Len(c.parts) + 1
    <3>1. PICK part \in Fields[n] : e = Longer(c, part)
      BY <2>1 DEF SendPart, Longer
    <3>2. n \in DOMAIN Fields
      <4>1. Len(c.parts) < Len(Fields)
        BY <2>1 DEF SendPart
      <4>2. Len(c.parts) \in Nat
        BY <1>1 DEF ClientInv, Clients
      <4>3. Len(Fields) \in Nat /\ DOMAIN Fields = 1..Len(Fields)
        <5>1. Fields \in Seq(SUBSET FormParts)
          BY MultipartAssumption
        <5> QED
          BY <5>1, Zenon, LenProperties
      <4> HIDE DEF c
      <4> QED
        BY <4>1, <4>2, <4>3
    <3>3. Sound(part)
      <4>1. Fields[n] \subseteq FormParts
        <5> HIDE DEF n
        <5> QED
          BY <3>2, MultipartAssumption
      <4> HIDE DEF n
      <4> QED
        BY <3>1, <3>2, <4>1, MultipartAssumption DEF Sound
    <3>4. ~c.ended
      BY <2>1 DEF SendPart
    <3> HIDE DEF c, e, n
    <3> QED
      BY <1>1, <3>1, <3>3, <3>4, PartSent
  <2>2. CASE SendEnd
    <3>1. ~c.ended /\ c.parts # << >> /\ e = Ended(c)
      BY <2>2 DEF SendEnd, Ended
    <3> HIDE DEF c, e
    <3> QED
      BY <1>1, <3>1, EndSent
  <2> QED
    BY <2>1, <2>2
<1>3. read' = read /\ fed' = fed /\ reader' = q
  BY DEF SendPart, SendEnd
<1> HIDE DEF c, e
<1>4. Len(c.body) \in Nat /\ Len(e.body) \in Nat /\ Len(c.body) <= Len(e.body)
  BY <1>2 DEF Extends, ClientInv, Clients
<1>5. read <= Len(e.body)
  BY <1>1, <1>4
<1>6. NameFirst(e, q) => ReaderInv(e, q, fed, read)
  <2> SUFFICES ASSUME NameFirst(e, q) PROVE ReaderInv(e, q, fed, read)
    OBVIOUS
  <2> HIDE DEF q
  <2>1. NameFirst(c, q)
    <3>1. e \in Clients
      BY <1>2 DEF ClientInv
    <3> QED
      BY <1>2, <3>1, FirstStays
  <2>2. Fine(c, fed, read)
    BY <1>1 DEF Fine
  <2> QED
    BY <1>1, <1>2, <2>1, <2>2, MoreKeeps
<1> QED
  BY <1>1, <1>2, <1>3, <1>5, <1>6 DEF FormInv, e

\* It is kept when something is read.
LEMMA Reading == FormInv /\ ParseMultipart => FormInv'
<1> SUFFICES ASSUME FormInv, ParseMultipart PROVE FormInv'
  OBVIOUS
<1> DEFINE b == Len(client.body)
<1>1. /\ ClientInv(client) /\ read \in Nat /\ fed \in Nat /\ fed <= read /\ read <= b
      /\ "first" \in DOMAIN reader /\ reader.first \in {"d", "t"}
      /\ NameFirst(client, reader) => ReaderInv(client, reader, fed, read)
  BY DEF FormInv
<1>2. client' = client /\ fed' = fed /\ reader' = reader
  BY DEF ParseMultipart
<1>3. b \in Nat
  BY <1>1 DEF ClientInv, Clients
<1>4. read' \in Nat /\ read <= read' /\ read' <= b
  <2>1. PICK n \in ReadLengths : read' = IF read + n <= b THEN read + n ELSE b
    BY DEF ParseMultipart
  <2>2. n \in Nat
    BY MultipartAssumption
  <2> HIDE DEF b
  <2> QED
    BY <1>1, <1>3, <2>1, <2>2
<1>5. fed <= read'
  BY <1>1, <1>4
<1>6. NameFirst(client, reader) => ReaderInv(client, reader, fed, read')
  BY <1>1, <1>4, ReadKeeps
<1> QED
  BY <1>1, <1>2, <1>4, <1>5, <1>6 DEF FormInv

\* It is kept when the parser is fed.
LEMMA Feeding == FormInv /\ (Skip \/ StartData \/ Feed \/ FeedReturns) => FormInv'
<1> SUFFICES ASSUME FormInv, Skip \/ StartData \/ Feed \/ FeedReturns PROVE FormInv'
  OBVIOUS
<1> DEFINE c == client
           q == reader
           p == reader'
           b == BufferOf(c, fed, read)
<1>1. /\ ClientInv(c) /\ read \in Nat /\ fed \in Nat /\ fed <= read /\ read <= Len(c.body)
      /\ "first" \in DOMAIN q /\ q.first \in {"d", "t"}
      /\ NameFirst(c, q) => ReaderInv(c, q, fed, read)
  BY DEF FormInv
<1>2. client' = c /\ read' = read /\ fed < read /\ Buffer = b
  BY DEF Skip, StartData, Feed, FeedReturns, Buffer, BufferOf
<1>3. Fine(c, fed, read)
  BY <1>1 DEF Fine
<1> HIDE DEF c, b
<1>4. fed' \in {fed, read} /\ fed' <= read'
  <2>1. fed' \in {fed, read}
    BY DEF Skip, StartData, Feed, FeedReturns
  <2> QED
    BY <1>1, <1>2, <2>1
<1>5. CASE Skip
  <2>1. Skippable(q, b) /\ p = Passed(q) /\ fed' = fed
    BY <1>2, <1>5 DEF Skip, Passed
  <2>2. "first" \in DOMAIN p /\ p.first = q.first
    BY <1>1, <2>1 DEF Passed
  <2> HIDE DEF q, p
  <2>3. NameFirst(c, p) => NameFirst(c, q)
    BY <2>2 DEF NameFirst
  <2>4. NameFirst(c, q) => ReaderInv(c, p, fed, read)
    BY <1>1, <1>2, <1>3, <2>1, SkipKeeps DEF b
  <2> QED
    BY <1>1, <1>2, <1>4, <2>1, <2>2, <2>3, <2>4 DEF FormInv, c, q, p
<1>6. CASE StartData
  <2>1. q.state = "PART_DATA_START" /\ q.i <= Len(b) /\ fed' = fed
        /\ p = To([q EXCEPT !.data = q.i, !.index = 0], "PART_DATA")
    BY <1>2, <1>6 DEF StartData
  <2>2. "first" \in DOMAIN p /\ p.first = q.first
    BY <1>1, <2>1 DEF To
  <2> HIDE DEF q, p
  <2>3. NameFirst(c, p) => NameFirst(c, q)
    BY <2>2 DEF NameFirst
  <2>4. NameFirst(c, q) => ReaderInv(c, p, fed, read)
    BY <1>1, <1>2, <1>3, <2>1, StartKeeps DEF b
  <2> QED
    BY <1>1, <1>2, <1>4, <2>1, <2>2, <2>3, <2>4 DEF FormInv, c, q, p
<1>7. CASE Feed
  <2> DEFINE i == q.i
             ch == b[i]
  <2>1. q.state # "PART_DATA_START" /\ q.i <= Len(b) /\ fed' = fed /\ p = Fed(q, ch, b)
    BY <1>2, <1>7 DEF Feed, Fed
  <2>2. Firsts(q, p)
    <3> HIDE DEF q, p, ch
    <3> QED
      BY <2>1, ByteFirsts
  <2>3. "first" \in DOMAIN p /\ p.first = q.first
    BY <1>1, <2>2 DEF Firsts
  <2> HIDE DEF q, p
  <2>4. NameFirst(c, p) => NameFirst(c, q)
    BY <2>3 DEF NameFirst
  <2>5. NameFirst(c, q) => ReaderInv(c, p, fed, read)
    BY <1>1, <1>2, <1>3, <2>1, FeedKeeps DEF b
  <2> QED
    BY <1>1, <1>2, <1>4, <2>1, <2>3, <2>4, <2>5 DEF FormInv, c, q, p
<1>8. CASE FeedReturns
  <2>1. fed' = read /\ (q.state # "PARSE_ERROR" => q.i > Len(b) /\ p = BufferEnd(q, b))
        /\ (q.state = "PARSE_ERROR" => p = q)
    BY <1>2, <1>8 DEF FeedReturns
  <2>2. "first" \in DOMAIN p /\ p.first = q.first
    <3>1. CASE q.state = "PARSE_ERROR"
      BY <1>1, <2>1, <3>1
    <3>2. CASE q.state # "PARSE_ERROR"
      <4>1. Firsts(q, p)
        <5> HIDE DEF q, p
        <5> QED
          BY <2>1, <3>2, ReturnFirsts
      <4> QED
        BY <1>1, <4>1 DEF Firsts
    <3> QED
      BY <3>1, <3>2
  <2> HIDE DEF q, p
  <2>3. NameFirst(c, p) => NameFirst(c, q)
    BY <2>2 DEF NameFirst
  <2>4. NameFirst(c, q) => ReaderInv(c, p, read, read)
    <3> SUFFICES ASSUME NameFirst(c, q) PROVE ReaderInv(c, p, read, read)
      OBVIOUS
    <3>1. ReaderInv(c, q, fed, read)
      BY <1>1
    <3>2. q.state # "PARSE_ERROR"
      BY <3>1, InBodyIs DEF ReaderInv
    <3> QED
      BY <1>2, <1>3, <2>1, <3>1, <3>2, ReturnKeeps DEF b
  <2> QED
    BY <1>1, <1>2, <1>4, <2>1, <2>2, <2>3, <2>4 DEF FormInv, c, q, p
<1> QED
  BY <1>5, <1>6, <1>7, <1>8

\* parse_multipart, however the reads cut a body and whatever in it begins like a boundary:
\* the form has the values and the files the bytes that were sent, as long as the
\* unordered_map of a part's headers has Content-Disposition first, or no part has
\* another header.
THEOREM PartsAsSentCorrect == MultipartSpec => []PartsAsSent
<1>1. MultipartInit => FormInv
  BY FormInvInit
<1>2. FormInv /\ [MultipartNext]_multipartVars => FormInv'
  <2> SUFFICES ASSUME FormInv, [MultipartNext]_multipartVars PROVE FormInv'
    OBVIOUS
  <2>1. CASE UNCHANGED multipartVars
    BY <2>1 DEF multipartVars, FormInv
  <2>2. CASE MultipartNext
    BY <2>2, Sending, Reading, Feeding DEF MultipartNext
  <2> QED
    BY <2>1, <2>2
<1>3. FormInv => PartsAsSent
  BY FormInvParts
<1> QED
  BY <1>1, <1>2, <1>3, PTL DEF MultipartSpec

=============================================================================
