------------------------------ MODULE HttpResponse ------------------------------
(***************************************************************************)
(* The response object of a connection (http_response.hpp): what the       *)
(* application's calls append to the text of the response, how a response  *)
(* that is chunked is kept apart from one that is not, what do_write takes *)
(* and what reset clears before the next request.                          *)
(*                                                                         *)
(* A text is a sequence of items: the status line, header fields, the      *)
(* empty line, and bodies or chunks with their lengths.  The text of a     *)
(* field or of a body is its kind and length.  Built without gzip.         *)
(* An operator marked "Fault" is a wrong version of the one below it.      *)
(***************************************************************************)
EXTENDS Naturals, Sequences

CONSTANTS
  Lengths,      \* the lengths of contents and of values of parts
  MaxPrepared,  \* bound on the headers, the parts and the pairs set for a response
  MaxResponses  \* bound on the responses of a connection

ASSUME ResponseAssumption ==
  Lengths \subseteq Nat /\ MaxPrepared \in Nat /\ MaxResponses \in Nat

VARIABLES
  resp,     \* the members of the response
  made,     \* a call has set a content since reset
  written,  \* what was written of the last response
  stale,    \* reset has left something to be written
  responses \* responses written

responseVars == <<resp, made, written, stale, responses>>

Item(kind, n) == [kind |-> kind, n |-> n]
Status(s) == <<Item("status", s)>>
Field     == <<Item("field", 0)>>
Encoding  == <<Item("encoding", 0)>>     \* Transfer-Encoding: chunked
Length(n) == <<Item("length", n)>>       \* Content-Length
Blank     == <<Item("blank", 0)>>
Body(n)   == <<Item("body", n)>>
Chunk(n)  == <<Item("chunk", n)>>        \* of that length, and as long as it says
LastChunk == Chunk(0)

Ok == 200
BadGateway == 502

Empty ==
  [rep |-> << >>, head |-> << >>, chunks |-> << >>, headers |-> << >>,
   status |-> 0, type |-> "none", trans |-> "normal", content |-> 0, parts |-> << >>, pairs |-> 0]

Nothing == [text |-> << >>, chunked |-> FALSE, stale |-> FALSE, cut |-> FALSE]

ResponseInit ==
  resp = Empty /\ made = FALSE /\ written = Nothing /\ stale = FALSE /\ responses = 0

----------------------------------------------------------------------------
(* The text of responses *)

\* itoa_fwd of the content's length.
ContentLength(r) == Length(r.content)

\* build_response_str: the content is moved out.
BuildResponse(r) ==
  [r EXCEPT !.rep = @ \o Status(r.status) \o r.headers \o ContentLength(r)
                      \o (IF r.type = "none" THEN << >> ELSE Field) \o Field \o Blank \o Body(r.content),
            !.content = 0]

\* set_content.
SetContent(r, n) == [r EXCEPT !.content = n]

\* set_status_and_content(status): the content is the text of the status.
SetStatus(r, status) == BuildResponse(SetContent([r EXCEPT !.status = status], 1))

\* set_status_and_content(bad_gateway, ...), with the default type, on a response
\* that is not chunked.
Fails(r) == SetStatus([r EXCEPT !.type = "none", !.trans = "normal"], BadGateway)

HasType(r) == r.type # "none"

\* build_chunked_response_str: without a type, the header is left half built, and
\* a response of its own is built.
BuildChunkedResponse(r) ==
  LET h == [r EXCEPT !.head = @ \o Status(r.status) \o r.headers]
  IN IF r.headers = << >> THEN Fails(r)
     ELSE IF ~HasType(r) THEN Fails([h EXCEPT !.headers = << >>])
     ELSE [h EXCEPT !.head = @ \o Field \o Field \o Blank]

\* Transfer-Encoding, which all chunked responses get.
Chunked(r) == [r EXCEPT !.headers = @ \o Encoding, !.trans = "chunked"]

\* set_status_and_content(status, content, type, none, trans).
SetStatusAndContent(r, status, n, type, chunked) ==
  LET a == [(IF chunked THEN Chunked(r) ELSE r) EXCEPT !.status = status, !.type = type]
  IN IF a.trans = "chunked"
     THEN BuildChunkedResponse([a EXCEPT !.chunks = @ \o Chunk(n) \o LastChunk])
     ELSE BuildResponse(SetContent(a, n))

\* The content of build_response_multipart_str: each part behind a boundary, and a
\* boundary at the end.
MultipartLength(r) == Len(r.parts) + 1

\* build_response_multipart_str: without headers a response of its own is built.
BuildMultipart(r) ==
  IF r.headers = << >> THEN Fails(r)
  ELSE LET c == SetContent(r, MultipartLength(r))
       IN [c EXCEPT !.rep = @ \o Status(c.status) \o c.headers \o Field \o ContentLength(c) \o Field
                              \o Blank \o Body(c.content),
                    !.content = 0]

\* build_chunkead_header, for multipart.
BuildChunkedHeader(r) ==
  [r EXCEPT !.head = @ \o Status(r.status) \o r.headers \o Field \o Field \o Blank]

\* For each part a chunk with its label, one with its value, which may be of length
\* zero, and one with an empty line.
PartChunks(parts) ==
  [k \in 1..(3 * Len(parts)) |->
     Item("chunk", IF k % 3 = 1 THEN 1 ELSE IF k % 3 = 2 THEN parts[(k + 1) \div 3] ELSE 2)]

\* build_response_multipart_data: behind the parts, the boundary and the last chunk.
BuildMultipartData(r) ==
  [r EXCEPT !.chunks = @ \o PartChunks(r.parts) \o Chunk(1) \o LastChunk]

\* set_mstatus_and_content.
SetMultipart(r, status, chunked) ==
  LET a == [r EXCEPT !.status = status, !.type = "multipart"]
  IN IF chunked THEN BuildMultipartData(BuildChunkedHeader(Chunked(a)))
     ELSE BuildMultipart(a)

\* build_response_urlencoded_str.
BuildUrlencoded(r) ==
  LET c == SetContent(r, r.pairs)
  IN [c EXCEPT !.rep = @ \o Status(c.status) \o c.headers \o ContentLength(c) \o Field \o Blank
                         \o Body(c.content),
               !.content = 0]

\* build_response_chunked_urlencoded_str: one chunk, and the last.
BuildChunkedUrlencoded(r) ==
  [r EXCEPT !.head = @ \o Status(r.status) \o r.headers \o Field \o Blank,
            !.chunks = @ \o Chunk(r.pairs) \o LastChunk]

\* set_urlencoded_status_and_content.
SetUrlencoded(r, status, chunked) ==
  LET a == [r EXCEPT !.status = status, !.type = "urlencoded", !.headers = @ \o Field]
  IN IF chunked THEN BuildChunkedUrlencoded(Chunked(a)) ELSE BuildUrlencoded(a)

\* add_header, set_multipart_data and set_urlencoded_datas.
AddHeader(r) == [r EXCEPT !.headers = @ \o Field]
AddPart(r, n) == [r EXCEPT !.parts = Append(@, n)]
AddPair(r) == [r EXCEPT !.pairs = @ + 1]

\* render_json, render_string, redirect and redirect_post.
Render(r, type, n, chunked) == SetStatusAndContent(r, Ok, n, type, chunked)
Redirect(r) == SetStatus(AddHeader(r), 302)

\* response_str, get_chunked_header and get_chunked_data move what they return.
Taken(r) == IF r.trans = "chunked" THEN [r EXCEPT !.head = << >>, !.chunks = << >>]
                                   ELSE [r EXCEPT !.rep = << >>]

\* do_write's choice between the two.
Text(r) == IF r.trans = "chunked" THEN r.head \o r.chunks ELSE r.rep

\* One of the parts has an empty value.
EmptyValue(r) == r.type = "multipart" /\ \E i \in DOMAIN r.parts : r.parts[i] = 0

\* Fault: the header fields stay.
KeepsHeaders(r) == [Empty EXCEPT !.head = r.head, !.chunks = r.chunks, !.headers = r.headers]

\* reset: chukend_header_ and chunked_data_ are not among what it clears.
Reset(r) == [Empty EXCEPT !.head = r.head, !.chunks = r.chunks]

----------------------------------------------------------------------------

PrepareResponse ==
  /\ ~made
  /\ \/ Len(resp.headers) < MaxPrepared /\ resp' = AddHeader(resp)
     \/ Len(resp.parts) < MaxPrepared /\ \E n \in Lengths : resp' = AddPart(resp, n)
     \/ resp.pairs < MaxPrepared /\ resp' = AddPair(resp)
  /\ UNCHANGED <<made, written, stale, responses>>

\* One of the calls that make a response: a second one would append another text.
Make ==
  /\ ~made
  /\ \E chunked \in BOOLEAN :
       \/ resp' = SetMultipart(resp, Ok, chunked)
       \/ resp' = SetUrlencoded(resp, Ok, chunked)
       \/ ~chunked /\ resp' \in {Redirect(resp), SetStatus(resp, BadGateway)}
       \/ \E n \in Lengths, type \in {"none", "json", "string"} :
            resp' = (IF type = "json" THEN Render(resp, type, n, chunked)
                     ELSE SetStatusAndContent(resp, Ok, n, type, chunked))
  /\ made' = TRUE
  /\ UNCHANGED <<written, stale, responses>>

\* do_write and, when it is over, do_read.
Write ==
  /\ made /\ responses < MaxResponses
  /\ written' = [text |-> Text(resp), chunked |-> resp.trans = "chunked", stale |-> stale,
                 cut |-> EmptyValue(resp)]
  /\ resp' = Reset(Taken(resp))
  /\ stale' = (Taken(resp).head # << >> \/ Taken(resp).chunks # << >>)
  /\ made' = FALSE /\ responses' = responses + 1

ResponseNext == PrepareResponse \/ Make \/ Write

ResponseSpec == ResponseInit /\ [][ResponseNext]_responseVars

----------------------------------------------------------------------------

\* An item of that kind is in the text once, or never.
Once(text, kind) == \E i \in DOMAIN text : \A j \in DOMAIN text : (text[j].kind = kind) <=> (j = i)
Never(text, kind) == \A i \in DOMAIN text : text[i].kind # kind

\* A whole head in front of a body of the length it gives.
Plain(text) ==
  /\ Once(text, "status") /\ text[1].kind = "status"
  /\ Once(text, "blank") /\ Once(text, "length") /\ Once(text, "body")
  /\ Never(text, "encoding") /\ Never(text, "chunk")
  /\ text[Len(text) - 1].kind = "blank" /\ text[Len(text)].kind = "body"
  /\ \A i \in DOMAIN text : text[i].kind = "length" => text[i].n = text[Len(text)].n

\* A whole head that announces chunks, in front of all chunks.
ChunkedHead(text) ==
  /\ Once(text, "status") /\ text[1].kind = "status"
  /\ Once(text, "blank") /\ Once(text, "encoding") /\ Never(text, "length") /\ Never(text, "body")
  /\ \A i, j \in DOMAIN text : text[i].kind = "blank" /\ i < j => text[j].kind = "chunk"
  /\ \A i, j \in DOMAIN text : text[i].kind = "blank" /\ j < i => text[j].kind # "chunk"

\* The only chunk of length zero is the last.
InChunks(text) ==
  /\ ChunkedHead(text) /\ text[Len(text)].kind = "chunk"
  /\ \A i \in DOMAIN text : text[i].kind = "chunk" => ((text[i].n = 0) <=> (i = Len(text)))

\* A content of length zero as a chunk of its own, which ends the message for its
\* reader, in front of the last.
ChunkOfNothing(text) ==
  /\ ChunkedHead(text)
  /\ \A i \in DOMAIN text : (text[i].kind = "chunk") <=> (i >= Len(text) - 1)
  /\ \A i \in DOMAIN text : text[i].kind = "chunk" => text[i].n = 0

\* What is written of a response that one call has made is one whole message, whatever
\* was prepared and whatever the responses before it were: except behind a chunked one
\* without a type, whose half is left by reset (http_response.hpp:602), and except for
\* a chunk of nothing (430-438) and a multipart in chunks one of whose values is empty
\* (229), which have a whole head, and then end for their reader before they are over.
WholeMessages ==
  (responses > 0 /\ ~(written.stale /\ written.chunked)) =>
    IF written.chunked
    THEN \/ InChunks(written.text) \/ ChunkOfNothing(written.text)
         \/ written.cut /\ ChunkedHead(written.text)
    ELSE Plain(written.text)

=============================================================================
