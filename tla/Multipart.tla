------------------------------- MODULE Multipart -------------------------------
(***************************************************************************)
(* Multipart bodies: http_multipart_parser.hpp, which is fed a body as the *)
(* reads of a connection cut it, http_multipart_reader.hpp, and what the   *)
(* callbacks of http_tcp_handle make of the parts in the request.          *)
(*                                                                         *)
(* A byte is one of "CR", "LF", "-", ":", "SP", "b" (in the boundary), "d" *)
(* and "t" (the names Content-Disposition and Content-Type), "f" (the word *)
(* filename in a value) and "x", "y" (all others; letters too).  A step of *)
(* the parser is one turn of a loop of feed; the client may send meanwhile.*)
(* An operator marked "Fault" is a wrong version of the one below it.      *)
(***************************************************************************)
EXTENDS Naturals, Sequences

CONSTANTS
  Token,       \* the characters of the boundary itself
  Fields,      \* a sequence: what a client may send as the first part, the second, ...
  ReadLengths  \* how many bytes a read brings, at most

VARIABLES
  client,  \* what was sent: the parts, where each begins in the body, the body, and
           \* what the form and the files are to be after none, one, two ... of them
  read,    \* how many bytes of the body were read
  fed,     \* and how many of them feed is through with
  reader   \* the parser, the reader and the request

multipartVars == <<client, read, fed, reader>>

Bytes == {"CR", "LF", "-", ":", "SP", "b", "d", "t", "f", "x", "y"}
FormParts == [key : {"x", "y"}, file : BOOLEAN, typed : BOOLEAN, data : Seq(Bytes)]

\* set_boundary: CR, LF, two hyphens and the boundary's own characters.
boundary == <<"CR", "LF", "-", "-">> \o Token
boundarySize == Len(boundary)

\* The boundary is in a text, behind its n-th byte.
BoundaryIn(text, n) ==
  n + boundarySize <= Len(text) /\ \A j \in 1..boundarySize : text[n + j] = boundary[j]

\* A client takes a boundary that is in none of the parts it separates.
ASSUME MultipartAssumption ==
  /\ Token \in Seq(Bytes \ {"CR"})
  /\ Fields \in Seq(SUBSET FormParts)
  /\ \A n \in DOMAIN Fields : \A part \in Fields[n] :
       \A i \in 0..Len(part.data) : ~BoundaryIn(part.data, i)
  /\ ReadLengths \in SUBSET (Nat \ {0})

Unmarked == 0   \* positions in a buffer start at 1

\* "first" is the header that an unordered_map of both has first.
NewReader(first) ==
  [state |-> "START", i |-> 1, index |-> 0, part |-> FALSE, last |-> FALSE, behind |-> << >>,
   field |-> Unmarked, value |-> Unmarked, data |-> Unmarked,
   name |-> << >>, text |-> << >>, current |-> << >>, first |-> first,
   headers |-> << >>, isFile |-> FALSE, form |-> << >>, files |-> << >>, lastKey |-> "none",
   bad |-> FALSE, done |-> FALSE]

\* A map with a key set to a value.
Put(map, key, value) ==
  [k \in DOMAIN map \union {key} |-> IF k = key THEN value ELSE map[k]]

----------------------------------------------------------------------------
(* The callbacks: http_tcp_handle::init_multipart_parser and request *)

Holds(text, c) == \E j \in DOMAIN text : text[j] = c

\* get_multipart_field_name: in the value of the header that is first.
FieldValue(q) ==
  IF DOMAIN q.headers = {} THEN << >>
  ELSE IF q.first \in DOMAIN q.headers THEN q.headers[q.first]
  ELSE q.headers[CHOOSE k \in DOMAIN q.headers : TRUE]

\* The name in a value: abstracted to the value's first byte.
FieldKey(q) ==
  IF FieldValue(q) = << >> \/ FieldValue(q)[1] \notin {"x", "y"} THEN "none" ELSE FieldValue(q)[1]

IsMultipartFile(q) ==
  IF "d" \in DOMAIN q.headers THEN Holds(q.headers["d"], "f") ELSE "t" \in DOMAIN q.headers

\* set_multipart_headers: a header that a part does not have keeps the value that an
\* earlier part gave it.
SetHeaders(q) ==
  [q EXCEPT !.headers = [k \in DOMAIN q.current \union DOMAIN q.headers |->
                           IF k \in DOMAIN q.current THEN q.current[k] ELSE q.headers[k]],
            !.current = << >>]

\* on_part_begin, when the headers are set.
Begun(q) ==
  LET a == [q EXCEPT !.isFile = IsMultipartFile(q)]
  IN IF IsMultipartFile(q)
     THEN IF Holds(FieldValue(q), "f")
          THEN [a EXCEPT !.files = Append(@, [data |-> << >>, name |-> "ing"])]
          ELSE [a EXCEPT !.bad = TRUE]
     ELSE IF FieldKey(q) = "none" \/ FieldKey(q) \in DOMAIN q.form THEN a
     ELSE [a EXCEPT !.form = Put(@, FieldKey(q), << >>)]

\* cbHeadersEnd.
PartBegin(q) == Begun(SetHeaders(q))

\* update_multipart_value: a key already there gets more text.
UpdateValue(q, text) ==
  LET key == IF FieldKey(q) = "none" THEN q.lastKey ELSE FieldKey(q)
      a == [q EXCEPT !.lastKey = key]
  IN IF key \in DOMAIN q.form THEN [a EXCEPT !.form[key] = @ \o text] ELSE a

\* on_part_data: write_upload_data writes to the last file.
PartData(q, text) ==
  IF text = << >> \/ q.bad THEN q
  ELSE IF q.isFile THEN [q EXCEPT !.files[Len(q.files)].data = @ \o text]
  ELSE UpdateValue(q, text)

\* on_part_end: the file loses its suffix.
PartEnd(q) == IF q.bad \/ ~q.isFile THEN q ELSE [q EXCEPT !.files[Len(q.files)].name = "kept"]

\* on_end: handle_multipart_key_value.
FormEnd(q) == [q EXCEPT !.state = "END", !.done = ~q.bad]

\* cbHeaderEnd.
HeaderEnd(q) ==
  [q EXCEPT !.current = Put(@, q.name[1], q.text), !.name = << >>, !.text = << >>]

----------------------------------------------------------------------------
(* The parser: a state for what the next byte is *)

Refused(q) == [q EXCEPT !.state = "PARSE_ERROR"]
To(q, state) == [q EXCEPT !.state = state]
NameBytes == {"b", "d", "t", "f", "x", "y"}

StartBoundary(q, c) ==
  IF q.index = boundarySize - 2
  THEN IF c = "CR" THEN [q EXCEPT !.index = @ + 1] ELSE Refused(q)
  ELSE IF q.index = boundarySize - 1
  THEN IF c = "LF" THEN To([q EXCEPT !.index = 0], "HEADER_FIELD_START") ELSE Refused(q)
  ELSE IF c = boundary[q.index + 3] THEN [q EXCEPT !.index = @ + 1] ELSE Refused(q)

\* The bytes from a mark up to the one the parser is at, which end with it.
Marked(buffer, mark, q) == SubSeq(buffer, mark, q.i - 1)

HeaderField(q, c, buffer) ==
  IF c = "CR" THEN To([q EXCEPT !.field = Unmarked], "HEADERS_ALMOST_DONE")
  ELSE LET a == [q EXCEPT !.index = @ + 1]
       IN IF c = "-" THEN a
          ELSE IF c = ":"
               THEN IF a.index = 1 THEN Refused(a)
                    ELSE To([a EXCEPT !.name = @ \o Marked(buffer, a.field, a), !.field = Unmarked],
                            "HEADER_VALUE_START")
          ELSE IF c \in NameBytes THEN a ELSE Refused(a)

HeaderValue(q, c, buffer) ==
  IF c # "CR" THEN q
  ELSE To(HeaderEnd([q EXCEPT !.text = @ \o Marked(buffer, q.value, q), !.value = Unmarked]),
          "HEADER_VALUE_ALMOST_DONE")

\* Fault: what was held back is dropped.
LeadLost(q) == [q EXCEPT !.index = 0, !.data = q.i, !.i = @ - 1]

\* A byte that does not go on as the boundary: what was held back is data, and the
\* byte is looked at again.
FalseLead(q) ==
  [PartData(q, SubSeq(q.behind, 1, q.index)) EXCEPT !.index = 0, !.data = q.i, !.i = @ - 1]

\* A byte of the boundary, or behind it, which is held back.
Held(q, c) == [q EXCEPT !.index = @ + 1, !.behind = SubSeq(@, 1, q.index) \o <<c>>]

\* processPartData, from the byte it does not skip.
Scan(q, c, buffer) ==
  IF q.index < boundarySize
  THEN IF boundary[q.index + 1] = c
       THEN IF q.index = 0 /\ q.data # Unmarked
            THEN Held([PartData(q, Marked(buffer, q.data, q)) EXCEPT !.data = Unmarked], c)
            ELSE Held(q, c)
       ELSE IF q.index > 0 THEN FalseLead(q) ELSE q
  ELSE IF q.index = boundarySize
  THEN IF c = "CR" THEN Held([q EXCEPT !.part = TRUE], c)
       ELSE IF c = "-" THEN Held([q EXCEPT !.last = TRUE], c)
       ELSE FalseLead(q)
  ELSE IF q.part /\ c = "LF"
       THEN To([PartEnd(q) EXCEPT !.index = 0, !.part = FALSE], "HEADER_FIELD_START")
  ELSE IF ~q.part /\ q.last /\ c = "-" THEN FormEnd(PartEnd(q))
  ELSE FalseLead(q)

\* A state that waits for LF.
Expect(q, c, state) == IF c = "LF" THEN To(q, state) ELSE Refused(q)

\* The switch of feed; a state that only sets a mark falls into the next one.
Byte(q, c, buffer) ==
  CASE q.state = "START" -> StartBoundary(To([q EXCEPT !.index = 0], "START_BOUNDARY"), c)
    [] q.state = "START_BOUNDARY" -> StartBoundary(q, c)
    [] q.state = "HEADER_FIELD_START" ->
         HeaderField(To([q EXCEPT !.field = q.i, !.index = 0], "HEADER_FIELD"), c, buffer)
    [] q.state = "HEADER_FIELD" -> HeaderField(q, c, buffer)
    [] q.state = "HEADER_VALUE_START" ->
         IF c = "SP" THEN q ELSE HeaderValue(To([q EXCEPT !.value = q.i], "HEADER_VALUE"), c, buffer)
    [] q.state = "HEADER_VALUE" -> HeaderValue(q, c, buffer)
    [] q.state = "HEADER_VALUE_ALMOST_DONE" -> Expect(q, c, "HEADER_FIELD_START")
    [] q.state = "HEADERS_ALMOST_DONE" ->
         IF c = "LF" THEN To(PartBegin(q), "PART_DATA_START") ELSE Refused(q)
    [] q.state = "PART_DATA" -> Scan(q, c, buffer)
    [] OTHER -> q

\* The end of a buffer: what is marked is handed on, and goes on in the next one.
BufferEnd(q, buffer) ==
  LET rest(mark) == IF mark = Unmarked THEN << >> ELSE SubSeq(buffer, mark, Len(buffer))
      next(mark) == IF mark = Unmarked THEN Unmarked ELSE 1
  IN [PartData([q EXCEPT !.name = @ \o rest(q.field), !.text = @ \o rest(q.value)], rest(q.data))
      EXCEPT !.field = next(@), !.value = next(@), !.data = next(@), !.i = 1]

----------------------------------------------------------------------------
(* A body and the reads it comes in *)

Line(text) == text \o <<"CR", "LF">>

\* The headers of a part, as clients write them, and the part with the boundary behind it.
HeadText(part) ==
  Line(<<"d", ":", "SP", part.key>> \o (IF part.file THEN <<"f">> ELSE << >>))
  \o (IF part.typed THEN Line(<<"t", ":", "x">>) ELSE << >>)
  \o Line(<< >>)
PartText(part) == HeadText(part) \o part.data \o boundary

\* What is to be there once one part more is.
WithPart(form, part) ==
  IF part.file THEN [form EXCEPT !.files = Append(@, [data |-> part.data, name |-> "kept"])]
  ELSE [form EXCEPT !.form =
          Put(@, part.key, (IF part.key \in DOMAIN @ THEN @[part.key] ELSE << >>) \o part.data)]

MultipartInit ==
  /\ client = [parts |-> << >>, at |-> << >>, body |-> <<"-", "-">> \o Token, ended |-> FALSE,
               meant |-> <<[form |-> << >>, files |-> << >>]>>]
  /\ read = 0 /\ fed = 0
  /\ reader \in {NewReader("d"), NewReader("t")}

\* The client sends the next part.
SendPart ==
  /\ ~client.ended /\ Len(client.parts) < Len(Fields)
  /\ \E part \in Fields[Len(client.parts) + 1] :
       client' = [client EXCEPT
         !.parts = Append(@, part), !.at = Append(@, Len(client.body) + 2),
         !.body = Line(@) \o PartText(part),
         !.meant = Append(@, WithPart(client.meant[Len(client.meant)], part))]
  /\ UNCHANGED <<read, fed, reader>>

\* It ends the body.
SendEnd ==
  /\ ~client.ended /\ client.parts # << >>
  /\ client' = [client EXCEPT !.body = @ \o <<"-", "-", "CR", "LF">>, !.ended = TRUE]
  /\ UNCHANGED <<read, fed, reader>>

\* parse_multipart of what a read has brought.
ParseMultipart ==
  /\ fed = read /\ read < Len(client.body)
  /\ \E n \in ReadLengths :
       read' = IF read + n <= Len(client.body) THEN read + n ELSE Len(client.body)
  /\ UNCHANGED <<client, fed, reader>>

Buffer == SubSeq(client.body, fed + 1, read)

\* A run of the boundary's length that does not end in one of its characters holds
\* no beginning of it: processPartData passes over it.
Skippable(q, buffer) ==
  /\ q.state = "PART_DATA" /\ q.index = 0
  /\ q.i + boundarySize - 1 <= Len(buffer)
  /\ ~Holds(boundary, buffer[q.i + boundarySize - 1])

Skip ==
  /\ fed < read /\ Skippable(reader, Buffer)
  /\ reader' = [reader EXCEPT !.i = @ + boundarySize]
  /\ UNCHANGED <<client, read, fed>>

\* PART_DATA_START, which falls into PART_DATA.
StartData ==
  /\ fed < read /\ reader.state = "PART_DATA_START" /\ reader.i <= Len(Buffer)
  /\ reader' = To([reader EXCEPT !.data = reader.i, !.index = 0], "PART_DATA")
  /\ UNCHANGED <<client, read, fed>>

\* One byte.
Feed ==
  /\ fed < read /\ reader.state \notin {"PARSE_ERROR", "PART_DATA_START"}
  /\ reader.i <= Len(Buffer) /\ ~Skippable(reader, Buffer)
  /\ reader' = [Byte(reader, Buffer[reader.i], Buffer) EXCEPT !.i = @ + 1]
  /\ UNCHANGED <<client, read, fed>>

\* feed returns: at once after an error.
FeedReturns ==
  /\ fed < read /\ (reader.state # "PARSE_ERROR" => reader.i > Len(Buffer))
  /\ reader' = IF reader.state = "PARSE_ERROR" THEN reader ELSE BufferEnd(reader, Buffer)
  /\ fed' = read
  /\ UNCHANGED <<client, read>>

MultipartNext ==
  SendPart \/ SendEnd \/ ParseMultipart \/ Skip \/ StartData \/ Feed \/ FeedReturns

MultipartSpec == MultipartInit /\ [][MultipartNext]_multipartVars

----------------------------------------------------------------------------

\* The unordered_map has Content-Disposition first, or no part has another header.
NameFirst(c, q) == q.first = "d" \/ \A k \in DOMAIN c.parts : ~c.parts[k].typed

\* However the reads cut a body, and whatever in it begins like a boundary, the form
\* has the values and the files the bytes that were sent: as long as the unordered_map
\* of a part's headers has Content-Disposition first, or no part has another header.
PartsAsSent ==
  (client.ended /\ fed = Len(client.body) /\ NameFirst(client, reader)) =>
    /\ reader.done
    /\ reader.form = client.meant[Len(client.meant)].form
    /\ reader.files = client.meant[Len(client.meant)].files

=============================================================================
