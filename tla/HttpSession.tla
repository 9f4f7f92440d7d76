------------------------------ MODULE HttpSession ------------------------------
(***************************************************************************)
(* One connection of http_server: http_tcp_handle reads requests into the  *)
(* buffer of its one request object, has them handled, and writes what its *)
(* one response object holds.  A handler that the strand runs is a         *)
(* function from the connection to the connections it may leave; it starts *)
(* at most one operation on the socket, op, whose completion is the next   *)
(* step.                                                                   *)
(*                                                                         *)
(* A request is its lengths in units, its content type, whether its body   *)
(* is chunked and whether it asks to close.  Bytes are counted from the    *)
(* start of the connection, and a read returns as many of those sent as it *)
(* likes.  Bytes that start no request do not parse as one, and no body    *)
(* begins like a request.  What the application leaves in the response is  *)
(* chosen when it is called.  The text of responses is HttpResponse's, the *)
(* parts of a body are Multipart's.                                        *)
(* An operator marked "Fault" is a wrong version of the one below it.      *)
(***************************************************************************)
EXTENDS Naturals, Sequences, FiniteSets, FiniteSetsExt

CONSTANTS
  Requests,  \* the requests a client may send
  Buffer,    \* the length of buffer_ at first
  MaxSize,   \* the largest buffer, and the longest request
  Offset,    \* the length of the method name that handle_read looks for
  Width      \* the modulus of a size_t

ASSUME HttpSessionAssumption ==
  /\ MaxSize \in Nat /\ Width \in Nat /\ Offset \in Nat
  /\ Buffer \in 1..MaxSize /\ Width > 2 * MaxSize
  /\ Requests \subseteq [head : 1..(2 * MaxSize), body : 0..(Width - MaxSize),
                          type : {"string", "form", "octet", "multipart"},
                          chunked : BOOLEAN, close : BOOLEAN]

VARIABLES
  conn,    \* the connection: the fields of Fresh
  reqs,    \* the requests the client sends on it
  client,  \* "waits" for each response, "pipelines", or has "closed"
  sent,    \* how many of reqs it has sent
  pos,     \* how many bytes of the stream were read
  calls,   \* the requests http_handler_ was called with
  answers  \* the responses written

vars == <<conn, reqs, client, sent, pos, calls, answers>>

TotalLen(r) == r.head + r.body

\* Where the i-th of the two requests ends in the stream.
End(i) == (IF i >= 1 THEN TotalLen(reqs[1]) ELSE 0) + (IF i = 2 THEN TotalLen(reqs[2]) ELSE 0)

\* What was sent and not read.
Wire == End(sent) - pos

\* The request whose first byte is the buffer's, or 0.
AtBuffer == Max({0} \cup {i \in 1..sent : End(i - 1) = pos - conn.cur})

NoReply == [req |-> 0, status |-> "none", chunked |-> FALSE]

\* The members that matter, and what handlers are passed: the socket's operation
\* and its length, the buffer's marks, the request and the response.
Fresh ==
  [kept   |-> FALSE,     \* the server's connects_ holds it
   op     |-> "accept",  \* "read", "body", "chunk", "write", "none" or "released"
   want   |-> 0,         \* the length of the read in progress
   cur    |-> 0,         \* current_size(): where a read writes to
   size   |-> Buffer,    \* buffer_size()
   left   |-> 0,         \* left_body_len_
   len    |-> 0,         \* len_: how far a pipeline has got
   req    |-> 0,         \* the request whose head was parsed last
   split  |-> FALSE,     \* its head came in more than one read
   keep   |-> FALSE,     \* keep_alive_
   reply  |-> NoReply,   \* what the response holds
   called |-> 0,         \* how often the handler just called the application
   rest   |-> FALSE,     \* a pipeline waits for the rest of a head
   broken |-> FALSE]     \* memory outside the buffer was written or read

\* What a client that pipelines sends behind a request with a body is any request;
\* what it sends behind one without is the same again, without a request to close.
Pipelined(s) == s[1].body = 0 => s[1] = s[2] /\ ~s[1].close

Init ==
  /\ client \in {"waits", "pipelines"}
  /\ reqs \in {s \in [1..2 -> Requests] : client = "pipelines" => Pipelined(s)}
  /\ conn = Fresh /\ sent = 0 /\ pos = 0 /\ calls = << >> /\ answers = << >>

----------------------------------------------------------------------------
(* Operations of the connection s *)

\* The arithmetic of size_t.
Minus(a, b) == (a + Width - b) % Width

\* on_connect and on_close put the connection into connects_ and take it out.
OnConnect(s) == [s EXCEPT !.kept = TRUE]
OnClose(s) == [s EXCEPT !.kept = FALSE]

\* release_session: nothing is started, and the destructor closes the socket.
Release(s) == {[OnClose(s) EXCEPT !.op = "released", !.want = 0]}

\* Fault: the next request is put behind the one before.
ResetLengths(s) == [s EXCEPT !.len = 0, !.split = FALSE, !.reply = NoReply]

\* request::reset and response::reset; the buffer keeps its length.
Reset(s) == [s EXCEPT !.cur = 0, !.len = 0, !.split = FALSE, !.reply = NoReply]

\* do_read: the whole buffer is offered.
DoRead(s) == {[Reset(s) EXCEPT !.op = "read", !.want = s.size]}

\* do_read_head: what is left of the buffer.
DoReadHead(s) == {[s EXCEPT !.op = "read", !.want = s.size - s.cur, !.split = TRUE, !.rest = FALSE]}

\* do_write of the response r: one that is empty is replaced by one that says so.
DoWrite(s, r) ==
  {[s EXCEPT !.op = "write", !.want = 0,
             !.reply = IF r.status = "none" THEN [r EXCEPT !.status = "gateway"] ELSE r]}

\* What happens next is undefined.
Broken(s) == {[s EXCEPT !.broken = TRUE, !.op = "none"]}

\* response_back.
ResponseBack(s) == DoWrite(s, [req |-> s.req, status |-> "bad", chunked |-> FALSE])

\* An async_read of exactly the rest of the body, or as much as the buffer's
\* length: left_body_len.
ReadBody(s) == {[s EXCEPT !.op = "body", !.want = Min({s.left, s.size})]}

\* expand_size: the buffer grows to total, at most to MaxSize.
Grown(s, total) == [s EXCEPT !.size = Max({s.size, Min({total, MaxSize})})]

\* fit_size: the buffer grows to the rest of the body, which replaces what it has.
Fitted(s) == [Grown(s, s.left) EXCEPT !.cur = 0]

\* Fault: a buffer that is full stays as it is.
NotDoubled(s) == s

\* update_and_expand_size: a buffer that is full is doubled, at most to MaxSize.
Doubled(s) == IF s.cur >= s.size THEN [s EXCEPT !.size = Min({2 * s.size, MaxSize})] ELSE s

----------------------------------------------------------------------------
(* Handlers that call the application *)

\* What router and application may leave in the response.
Replies(s) ==
  {[req |-> s.req, status |-> "ok", chunked |-> c] : c \in BOOLEAN} \cup {[NoReply EXCEPT !.req = s.req]}

Called(s) == [s EXCEPT !.called = 1]

\* call_back and do_write, whatever the application has asked for.
CallThenWrite(s) == UNION {DoWrite(Called(s), r) : r \in Replies(s)}

\* call_back, then do_write unless the application has asked for a delay.
CallAndWrite(s) == CallThenWrite(s) \cup {[Called(s) EXCEPT !.op = "none", !.want = 0]}

\* handle_no_body_respone; uncompress may fail.
HandleNoBody(s) == CallAndWrite(s) \cup ResponseBack(s)

\* handle_url_urlencoded_body; parse_query may find nothing.
HandleUrlencoded(s) == CallAndWrite(s) \cup ResponseBack(s)

\* handle_body, of a body that is no longer than the buffer may be.
HandleBody(s) == CallAndWrite(s) \cup ResponseBack(s)

\* The request that s is about, its length, and whether the buffer holds it all.
Cur(s) == reqs[s.req]
HasReceivedAll(s) == TotalLen(Cur(s)) = s.cur
AtCapacity(s) == TotalLen(Cur(s)) > MaxSize

\* Fault: the head counts as body.
BodyInBuffer(s) == s.cur

\* The part of the body that came with the head.
PartSize(s) == s.cur - Cur(s).head

\* handle_string_body.  When the read has brought more than the request, what is left
\* is below zero, and the body never complete: so it is in the other handlers.
HandleString(s) ==
  IF AtCapacity(s) THEN ResponseBack(s)
  ELSE IF HasReceivedAll(s) THEN HandleBody(s)
  ELSE ReadBody(Grown([s EXCEPT !.left = Minus(s.left, PartSize(s))], TotalLen(Cur(s))))

\* handle_form_urlencoded: it is the last read, n bytes, that is taken for what
\* the buffer holds.
HandleForm(s, n) ==
  IF AtCapacity(s) THEN ResponseBack(s)
  ELSE IF HasReceivedAll(s) THEN HandleUrlencoded(s)
  ELSE ReadBody(Grown([s EXCEPT !.left = Minus(s.left, Minus(n, Cur(s).head))], TotalLen(Cur(s))))

\* handle_octet_stream: so it is here, and the part is written to a file, which may
\* not open.
HandleOctet(s, n) ==
  LET part == Minus(n, Cur(s).head)
      t    == [s EXCEPT !.left = Minus(s.left, part)]
  IN ResponseBack(s) \cup
     (IF part > n THEN Broken(s)
      ELSE IF HasReceivedAll(s) THEN CallThenWrite(t)
      ELSE ReadBody(Fitted(t)))

\* handle_multipart: the parser may find an error in the part.
HandleMultipart(s) ==
  LET t == [s EXCEPT !.left = Minus(s.left, PartSize(s))]
  IN ResponseBack(s) \cup
     (IF Cur(s).body = PartSize(s) THEN CallThenWrite(t) ELSE ReadBody(Fitted(t)))

\* handle_chunked_response; a string may be too long, the others are parsed.
HandleChunkedResponse(s) ==
  IF Cur(s).type = "octet" THEN ResponseBack(s) ELSE CallAndWrite(s) \cup ResponseBack(s)

\* handle_chunked: a read that ends with the body completes it; one that ends
\* inside a chunk is continued; one that ends elsewhere, which is right after the
\* head, before the last unit or in the next request, is refused, like one that the
\* decoder finds an error in.  left counts the rest of the body.
HandleChunked(s) ==
  LET got == PartSize(s)
  IN ResponseBack(s) \cup
     (IF got = Cur(s).body THEN HandleChunkedResponse(s)
      ELSE IF got \in 1..(Cur(s).body - 2)
      THEN {[s EXCEPT !.op = "chunk", !.cur = 0, !.left = Cur(s).body - got, !.want = Cur(s).body - 1 - got]}
      ELSE {})

\* get_content_type: a type that is none of the others is a string's.
ContentType(s) == Cur(s).type

\* handle_no_chunked.
HandleNoChunked(s, n) ==
  CASE ContentType(s) = "string"    -> HandleString(s)
    [] ContentType(s) = "form"      -> HandleForm(s, n)
    [] ContentType(s) = "octet"     -> HandleOctet(s, n)
    [] ContentType(s) = "multipart" -> HandleMultipart(s)

\* handle_request_on_respone.
HandleRequest(s, n) ==
  IF Cur(s).body = 0 THEN HandleNoBody(s)
  ELSE IF Cur(s).chunked THEN HandleChunked(s)
  ELSE HandleNoChunked(s, n)

\* handle_pipeline: the application is called for each head in the buffer, with
\* what the parser finds at the start of the buffer, and what the first call left
\* in the response is written; a head that is not whole is read on.
HandlePipeline(s, n) ==
  LET head  == Cur(s).head
      heads == (s.cur - s.len) \div head
      more  == {k \in 1..(heads - 1) : head <= Minus(n, s.len + k * head)}
      t     == [s EXCEPT !.called = 1 + Cardinality(more), !.len = s.len + heads * head,
                         !.op = "write", !.want = 0, !.rest = s.cur > s.len + heads * head]
  IN {[t EXCEPT !.reply = r] : r \in {r \in Replies(s) : ~r.chunked}}

\* check_keep_alive, of a request whose head is whole.
KeepAlive(r) == ~r.close

\* A head that is not whole is read on; check_keep_alive has asked what there is of it.
ReadOn(s) == UNION {DoReadHead([s EXCEPT !.keep = k]) : k \in BOOLEAN}

\* handle_read of n bytes.  What starts with no request is refused or read on.
HandleRead(s, n) ==
  LET t == Doubled([s EXCEPT !.cur = s.cur + n, !.req = AtBuffer])
      r == Cur(t)
      u == [t EXCEPT !.keep = KeepAlive(r)]
  IN IF t.cur > MaxSize THEN ResponseBack(t)
     ELSE IF t.req = 0 THEN ResponseBack(t) \cup ReadOn(t)
     ELSE IF t.cur < t.len + r.head THEN ReadOn(t)
     ELSE IF n > r.head + Offset /\ r.body = 0 THEN HandlePipeline(u, n)
     ELSE HandleRequest([u EXCEPT !.left = r.body], n)

\* The read of a part of the body is complete: t.
Reduced(s) == [s EXCEPT !.left = Minus(s.left, s.want)]
Kept(s) == [Reduced(s) EXCEPT !.cur = s.cur + s.want]

\* do_read_body, do_read_form_urlencoded: the parts are put behind one another.
StringBodyRead(s) == IF Reduced(s).left = 0 THEN HandleBody(Kept(s)) ELSE ReadBody(Kept(s))
FormBodyRead(s) == IF Reduced(s).left = 0 THEN HandleUrlencoded(Kept(s)) ELSE ReadBody(Kept(s))

\* do_read_octet_stream_body: the part is written to the file.
OctetBodyRead(s) == IF Reduced(s).left = 0 THEN CallThenWrite(Reduced(s)) ELSE ReadBody(Reduced(s))

\* do_read_multipart and do_read_part_data: the part is parsed.
MultipartBodyRead(s) ==
  ResponseBack(s) \cup (IF Reduced(s).left = 0 THEN CallThenWrite(Reduced(s)) ELSE ReadBody(Reduced(s)))

\* Whether n bytes from current_size() on are more than the buffer has.
PastTheEnd(s, n) == s.cur + n > s.size

HandleBodyRead(s) ==
  IF PastTheEnd(s, s.want) THEN Broken(s)
  ELSE CASE ContentType(s) = "string"    -> StringBodyRead(s)
         [] ContentType(s) = "form"      -> FormBodyRead(s)
         [] ContentType(s) = "octet"     -> OctetBodyRead(s)
         [] ContentType(s) = "multipart" -> MultipartBodyRead(s)

\* read_chunk_data and read_imcomplete_chunk_data with n bytes: as many as are
\* missing of the chunk are asked for at first, and then as many as the buffer has.
\* The decoder may find an error in them.
HandleChunkRead(s, n) ==
  LET t == [s EXCEPT !.left = Minus(s.left, n)]
  IN IF n > s.size THEN Broken(s)
     ELSE ResponseBack(s) \cup
          (IF t.left = 0 THEN HandleChunkedResponse(t) ELSE {[t EXCEPT !.want = s.size]})

\* Fault: keep_alive_ is forgotten.
KeepAlways(s) == DoRead(s)

\* handle_write.
HandleWrite(s) == IF s.keep THEN DoRead(s) ELSE Release(s)

----------------------------------------------------------------------------
(* The client, and the operations of the socket *)

\* A client that waits sends a request when the one before is answered, unless
\* that one asks to close or was refused.
ClientSends ==
  /\ client # "closed" /\ sent < Len(reqs)
  /\ (client = "waits" /\ sent > 0) =>
       Len(answers) = sent /\ ~reqs[sent].close /\ answers[sent].status # "bad"
  /\ sent' = sent + 1
  /\ UNCHANGED <<conn, reqs, client, pos, calls, answers>>

ClientCloses ==
  /\ client # "closed"
  /\ client' = "closed"
  /\ UNCHANGED <<conn, reqs, sent, pos, calls, answers>>

\* make_session's handler: on_connect, activate.
Activate ==
  /\ conn.op = "accept"
  /\ conn' \in DoRead(OnConnect(conn))
  /\ UNCHANGED <<reqs, client, sent, pos, calls, answers>>

\* The connection becomes one of next; the application's calls are recorded.
Becomes(next) ==
  \E s \in next :
    /\ conn' = [s EXCEPT !.called = 0]
    /\ calls' = calls \o [k \in 1..s.called |-> s.req]

\* A read of nothing completes at once.
ReadDone ==
  /\ conn.op = "read"
  /\ \E n \in (IF conn.want = 0 THEN {0} ELSE 1..Min({conn.want, Wire})) : pos' = pos + n /\ Becomes(HandleRead(conn, n))
  /\ UNCHANGED <<reqs, client, sent, answers>>

BodyDone ==
  /\ conn.op = "body" /\ Wire >= conn.want
  /\ pos' = pos + conn.want /\ Becomes(HandleBodyRead(conn))
  /\ UNCHANGED <<reqs, client, sent, answers>>

ChunkDone ==
  /\ conn.op = "chunk"
  /\ \E n \in 1..Min({conn.want, Wire}) : pos' = pos + n /\ Becomes(HandleChunkRead(conn, n))
  /\ UNCHANGED <<reqs, client, sent, answers>>

\* The client closes before a read is complete: a read of a head releases the
\* connection, the others write that they have failed.  What did come of a body is
\* in memory.
ReadFails ==
  /\ conn.op \in {"read", "body", "chunk"} /\ client = "closed"
  /\ conn.want > 0 /\ Wire < (IF conn.op = "body" THEN conn.want ELSE 1)
  /\ Becomes(IF conn.op = "read" THEN Release(conn)
             ELSE IF conn.op = "body" /\ PastTheEnd(conn, Wire) THEN Broken(conn)
             ELSE ResponseBack(conn))
  /\ UNCHANGED <<reqs, client, sent, pos, answers>>

\* A response that is chunked is followed by a read, whatever the request asked.
WriteDone ==
  /\ conn.op = "write"
  /\ answers' = IF conn.reply.status = "none" THEN answers ELSE Append(answers, conn.reply)
  /\ Becomes(IF conn.rest THEN DoReadHead(conn)
             ELSE IF conn.reply.chunked THEN DoRead(conn) ELSE HandleWrite(conn))
  /\ UNCHANGED <<reqs, client, sent, pos>>

\* A chunked response that fails is followed by another one.
WriteFails ==
  /\ conn.op = "write" /\ client = "closed"
  /\ Becomes(IF conn.rest THEN DoReadHead(conn)
             ELSE IF conn.reply.chunked THEN ResponseBack(conn) ELSE Release(conn))
  /\ UNCHANGED <<reqs, client, sent, pos, answers>>

Completion == Activate \/ ReadDone \/ BodyDone \/ ChunkDone \/ ReadFails \/ WriteDone \/ WriteFails

Next == ClientSends \/ ClientCloses \/ Completion

\* Operations that can complete do.
Spec == Init /\ [][Next]_vars /\ WF_vars(Completion)

----------------------------------------------------------------------------

\* Octet streams and forms count a head that came in two reads wrongly.
Miscounted == conn.split /\ conn.req # 0 /\ reqs[conn.req].type \in {"octet", "form"}

\* A head as long as the largest buffer leaves no room to read, and is never
\* complete nor too long.
Spinning == conn.op = "read" /\ conn.want = 0

\* A body is put behind what the buffer holds, which a read has filled with more than
\* the request: the client has not waited.
Overread ==
  /\ conn.req # 0 /\ reqs[conn.req].type \in {"string", "form"}
  /\ pos > End(conn.req)

\* Every read has room for at least a byte, and ends inside the buffer; but for the
\* reads of chunks, those of forms and octet streams that are miscounted, those of
\* strings and forms of which more than the request was read before, and those after
\* MaxSize bytes without a whole head.
ReadFits ==
  conn.op = "read" \/ (conn.op = "body" /\ ~Miscounted /\ ~Overread) =>
    /\ conn.cur + conn.want <= conn.size
    /\ conn.cur < MaxSize => conn.want > 0

\* A client that waits gets its responses in the order of its requests, one for
\* each, and the application is called at most once for a request: up to the
\* first response that refuses one.
ResponsesMatch ==
  \A i \in DOMAIN answers :
    (client = "waits" /\ \A k \in 1..(i - 1) : answers[k].status # "bad") =>
      /\ answers[i].req = i
      /\ Cardinality({k \in DOMAIN calls : calls[k] = i}) <= 1

\* A request of a client that waits is answered, unless the client goes away, the
\* application asks for a delay, a chunk overruns, or its length is miscounted.
Answered ==
  \A i \in 1..2 :
    (client = "waits" /\ sent = i) ~>
      (Len(answers) >= i \/ client = "closed" \/ conn.op = "none" \/ Miscounted)

\* A connection whose client has gone, or that has answered a request to close
\* with a response that is not chunked, is released and forgotten by the server,
\* unless a delayed response or an overrun has stopped it, or there is no
\* room to read.
Over ==
  \/ client = "closed"
  \/ \E i \in DOMAIN answers : answers[i].req = i /\ reqs[i].close /\ ~answers[i].chunked

ReleasedAtLast ==
  Over ~> (conn.op = "released" /\ ~conn.kept) \/ conn.op = "none" \/ Spinning

\* What the response to a request that is too long says: the limit is kept, and the
\* client told so.
TooLongRefused ==
  (client = "waits" /\ sent = 1 /\ reqs[1].head > MaxSize) ~> (answers # << >> \/ client = "closed")

=============================================================================
