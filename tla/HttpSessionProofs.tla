----------------------------- MODULE HttpSessionProofs -----------------------------
(***************************************************************************)
(* Proofs about HttpSession, for any two requests, any lengths of the      *)
(* buffer and any reads: a read ends inside the buffer, and a client that  *)
(* waits gets the response to each request in its turn, from one call of   *)
(* the application.                                                        *)
(*                                                                         *)
(* The handlers are functions from a connection to the connections it may  *)
(* become, so the invariant is a predicate of a connection, s, and of the  *)
(* place in the stream, p: each handler is shown to leave only             *)
(* connections of which it holds.                                          *)
(***************************************************************************)
EXTENDS HttpSession, Integers, FiniteSetTheorems, TLAPS

Ops == {"accept", "read", "body", "chunk", "write", "none", "released"}
Statuses == {"none", "ok", "gateway", "bad"}
Reply == [req : 0..2, status : Statuses, chunked : BOOLEAN]
Conn == [kept : BOOLEAN, op : Ops, want : Nat, cur : Nat, size : 1..MaxSize, left : 0..(Width - 1),
         len : Nat, req : 0..2, split : BOOLEAN, keep : BOOLEAN, reply : Reply, called : Nat,
         rest : BOOLEAN, broken : BOOLEAN]

TypeInv ==
  /\ conn \in Conn /\ conn.called = 0
  /\ reqs \in [1..2 -> Requests]
  /\ client \in {"waits", "pipelines", "closed"}
  /\ sent \in 0..2 /\ pos \in Nat /\ pos <= End(sent)
  /\ calls \in Seq(0..2) /\ answers \in Seq(Reply)

\* The requests are sent one at a time.
Single == client = "waits"

\* No request was refused yet.
Good == \A i \in DOMAIN answers : answers[i].status # "bad"

Done == Len(answers)

\* The request that is being read is the one that waits for its answer.
Current(s) == s.req = Done + 1 /\ sent = Done + 1

\* The request is one that handle_form_urlencoded or handle_octet_stream miscounts.
Miscounts(s) == s.split /\ Cur(s).type \in {"form", "octet"}

\* The body is put behind what the buffer holds, up to p, which is none of the next request.
Gathers(s, p) ==
  Cur(s).type \in {"string", "form"} /\ ~Miscounts(s) /\ p <= End(s.req)

\* What the operation of the connection s is about, in lengths, with the stream read up to p.
Fits(s, p) ==
  /\ s.op = "read" =>
       /\ s.cur + s.want = s.size
       /\ s.cur < MaxSize => s.want > 0
       /\ ~s.split => s.cur = 0
  /\ s.rest => s.op = "write" /\ s.cur <= s.size /\ (s.cur < MaxSize => s.cur < s.size)
  /\ s.op \in {"body", "chunk"} => s.req \in 1..2 /\ Cur(s).body > 0
  /\ s.op = "body" =>
       /\ Miscounts(s) \/ s.left > 0
       /\ s.want = (IF s.left <= s.size THEN s.left ELSE s.size)
       /\ Cur(s).type \in {"octet", "multipart"} => s.cur = 0
       /\ Gathers(s, p) => s.cur + s.left = TotalLen(Cur(s)) /\ TotalLen(Cur(s)) <= s.size

\* Requests that were answered are read whole, but for the first that was refused.
GoodPlace(s, p) ==
  /\ s.op = "accept" => p = 0 /\ Done = 0
  /\ s.op = "read" => s.cur <= p /\ p - s.cur = End(Done)
  /\ s.op \in {"body", "chunk"} => Current(s) /\ p > End(Done) /\ s.left >= End(sent) - p
  /\ s.op = "write" =>
       /\ Current(s) /\ p > End(Done) /\ ~s.rest
       /\ s.reply.req = Done + 1 /\ s.reply.status # "none"
       /\ s.reply.status # "bad" => p = End(sent)

\* What follows it is the start of no request.
BadPlace(s, p) ==
  /\ s.op \in {"read", "write", "released"}
  /\ s.op = "read" => s.cur <= p /\ p - s.cur > End(sent - 1)
  /\ s.op = "write" => p > End(sent - 1) /\ ~s.rest /\ s.reply.status = "bad"

Place(s, p) == Single => IF Good THEN GoodPlace(s, p) ELSE BadPlace(s, p)

InTurn ==
  Single =>
    /\ Good => sent \in {Done, Done + 1}
    /\ ~Good => sent \in 1..Done /\ answers[sent].status = "bad"

Answers ==
  Single => \A i \in DOMAIN answers :
    (\A j \in 1..(i - 1) : answers[j].status # "bad") => answers[i].req = i

Calls ==
  Single =>
    /\ \A i, j \in DOMAIN calls : calls[i] = calls[j] => i = j
    /\ Good => \A i \in DOMAIN calls :
                 calls[i] <= (IF conn.op \in {"accept", "read", "body", "chunk"} THEN Done ELSE Done + 1)

ConnInv == TypeInv /\ Fits(conn, pos) /\ Place(conn, pos) /\ InTurn /\ Answers /\ Calls

----------------------------------------------------------------------------
(* Arithmetic                                                               *)

LEMMA MinIs ==
  ASSUME NEW a \in Int, NEW b \in Int
  PROVE  Min({a, b}) = IF a <= b THEN a ELSE b
<1> DEFINE m == IF a <= b THEN a ELSE b
<1>1. m \in {a, b} /\ \A y \in {a, b} : m <= y
  OBVIOUS
<1>2. \A x \in {a, b} : (\A y \in {a, b} : x <= y) => x = m
  OBVIOUS
<1> QED
  BY <1>1, <1>2 DEF Min

LEMMA MaxIs ==
  ASSUME NEW a \in Int, NEW b \in Int
  PROVE  Max({a, b}) = IF a <= b THEN b ELSE a
<1> DEFINE m == IF a <= b THEN b ELSE a
<1>1. m \in {a, b} /\ \A y \in {a, b} : m >= y
  OBVIOUS
<1>2. \A x \in {a, b} : (\A y \in {a, b} : x >= y) => x = m
  OBVIOUS
<1> QED
  BY <1>1, <1>2 DEF Max

LEMMA MinusIs ==
  ASSUME NEW a \in 0..(Width - 1), NEW b \in 0..(Width - 1)
  PROVE  /\ Minus(a, b) = IF b <= a THEN a - b ELSE a + Width - b
         /\ Minus(a, b) \in 0..(Width - 1)
<1>1. Width \in Nat /\ Width > 0
  BY HttpSessionAssumption
<1>2. CASE b <= a
  <2>1. (a - b) + Width = 1 * Width + (a - b) /\ a - b \in 0..(Width - 1)
    BY <1>1, <1>2
  <2> QED
    BY <1>1, <1>2, <2>1 DEF Minus
<1>3. CASE b > a
  BY <1>1, <1>3 DEF Minus
<1> QED
  BY <1>2, <1>3

LEMMA EndIs ==
  ASSUME reqs \in [1..2 -> Requests]
  PROVE  /\ End(0) = 0 /\ End(0) \in Nat /\ End(1) \in Nat /\ End(2) \in Nat
         /\ End(1) = TotalLen(reqs[1]) /\ End(2) = End(1) + TotalLen(reqs[2])
         /\ \A i \in 1..2 : /\ TotalLen(reqs[i]) \in Nat \ {0}
                            /\ TotalLen(reqs[i]) = reqs[i].head + reqs[i].body
                            /\ reqs[i].head \in 1..(2 * MaxSize) /\ reqs[i].body \in 0..(Width - MaxSize)
                            /\ reqs[i].type \in {"string", "form", "octet", "multipart"}
                            /\ reqs[i].chunked \in BOOLEAN /\ reqs[i].close \in BOOLEAN
<1>1. \A i \in 1..2 : reqs[i] \in Requests
  OBVIOUS
<1>2. ASSUME NEW r \in Requests
      PROVE  /\ r.head \in 1..(2 * MaxSize) /\ r.body \in 0..(Width - MaxSize)
             /\ r.type \in {"string", "form", "octet", "multipart"}
             /\ r.chunked \in BOOLEAN /\ r.close \in BOOLEAN
             /\ TotalLen(r) \in Nat \ {0} /\ TotalLen(r) = r.head + r.body
  BY <1>2, HttpSessionAssumption DEF TotalLen
<1> QED
  BY <1>1, <1>2 DEF End

----------------------------------------------------------------------------
(* What handlers are passed, and what they leave                            *)

\* A request of which some was read, up to p, and that was not answered.
Reading(s, p) ==
  /\ s \in Conn /\ s.called = 0 /\ ~s.rest
  /\ Single => IF Good THEN Current(s) /\ p > End(Done) ELSE p > End(sent - 1)

\* A handler may leave s, with the stream read up to p.
After(s, p) ==
  /\ s \in Conn /\ Fits(s, p) /\ Place(s, p)
  /\ Single => s.called = 0 \/ (s.called = 1 /\ Good /\ Current(s) /\ s.op \in {"write", "none"})

LEMMA ResponseBackLeaves ==
  ASSUME TypeInv, NEW s, NEW p \in Nat, Reading(s, p), NEW s2 \in ResponseBack(s)
  PROVE  After(s2, p)
<1> DEFINE r == [req |-> s.req, status |-> "bad", chunked |-> FALSE]
<1>1. r \in Reply /\ r.status = "bad" /\ r.req = s.req
  BY DEF Reading, Conn, Reply, Statuses
<1> HIDE DEF r
<1>2. s2 = [s EXCEPT !.op = "write", !.want = 0, !.reply = r]
  BY <1>1 DEF ResponseBack, DoWrite, r
<1>3. /\ s2 \in Conn /\ s2.op = "write" /\ s2.reply = r /\ s2.req = s.req
      /\ s2.called = 0 /\ s2.rest = s.rest
  BY <1>1, <1>2, ZenonT(60) DEF Reading, Conn, Ops
<1> QED
  BY <1>1, <1>3 DEF Reading, After, Fits, Place, GoodPlace, BadPlace, Current

LEMMA RepliesAre ==
  ASSUME NEW s, s.req \in 0..2, NEW r \in Replies(s)
  PROVE  r \in Reply /\ r.req = s.req /\ r.status \in {"ok", "none"}
<1>1. CASE r \in {[req |-> s.req, status |-> "ok", chunked |-> c] : c \in BOOLEAN}
  <2>1. PICK c \in BOOLEAN : r = [req |-> s.req, status |-> "ok", chunked |-> c]
    BY <1>1
  <2> QED
    BY <2>1 DEF Reply, Statuses
<1>2. CASE r = [NoReply EXCEPT !.req = s.req]
  BY <1>2 DEF NoReply, Reply, Statuses
<1> QED
  BY <1>1, <1>2 DEF Replies

\* The application is called for requests that are read whole.
LEMMA CallLeaves ==
  ASSUME TypeInv, NEW s, NEW p \in Nat, Reading(s, p), Single => Good /\ p = End(sent),
         NEW s2 \in CallAndWrite(s)
  PROVE  After(s2, p)
<1>1. s \in Conn /\ s.called = 0 /\ s.req \in 0..2
  BY DEF Reading, Conn
<1>2. CASE s2 \in CallThenWrite(s)
  <2>1. PICK r \in Replies(s) : s2 \in DoWrite(Called(s), r)
    BY <1>2 DEF CallThenWrite
  <2>2. r \in Reply /\ r.req = s.req /\ r.status \in {"ok", "none"}
    BY <1>1, <2>1, RepliesAre
  <2> DEFINE q == IF r.status = "none" THEN [r EXCEPT !.status = "gateway"] ELSE r
  <2>3. q \in Reply /\ q.req = s.req /\ q.status \in {"ok", "gateway"}
    BY <2>2 DEF Reply, Statuses
  <2> HIDE DEF q
  <2>4. s2 = [Called(s) EXCEPT !.op = "write", !.want = 0, !.reply = q]
    BY <2>1 DEF DoWrite, q
  <2>5. /\ s2 \in Conn /\ s2.op = "write" /\ s2.reply = q /\ s2.req = s.req
        /\ s2.called = 1 /\ s2.rest = s.rest
    BY <1>1, <2>3, <2>4, ZenonT(60) DEF Called, Conn, Ops
  <2> QED
    BY <2>3, <2>5 DEF Reading, After, Fits, Place, GoodPlace, Current
<1>3. CASE s2 = [Called(s) EXCEPT !.op = "none", !.want = 0]
  <2>1. s2 \in Conn /\ s2.op = "none" /\ s2.req = s.req /\ s2.called = 1 /\ s2.rest = s.rest
    BY <1>1, <1>3, ZenonT(60) DEF Called, Conn, Ops
  <2> QED
    BY <2>1 DEF Reading, After, Fits, Place, GoodPlace, Current
<1> QED
  BY <1>2, <1>3 DEF CallAndWrite

\* A body of which left is to come is read on: into the buffer behind what it holds,
\* or from its start.
LEMMA ReadBodyLeaves ==
  ASSUME TypeInv, InTurn, NEW s, NEW p \in Nat, Reading(s, p), NEW s2 \in ReadBody(s),
         s.req \in 1..2, Cur(s).body > 0, Miscounts(s) \/ s.left > 0,
         Cur(s).type \in {"octet", "multipart"} => s.cur = 0,
         Gathers(s, p) => s.cur + s.left = TotalLen(Cur(s)) /\ TotalLen(Cur(s)) <= s.size,
         Single => Good /\ s.left >= End(sent) - p
  PROVE  After(s2, p)
<1> DEFINE w == IF s.left <= s.size THEN s.left ELSE s.size
<1>1. /\ s \in Conn /\ s.left \in Nat /\ s.size \in Nat
      /\ s.req = s.req /\ s.called = 0 /\ s.rest = FALSE
  BY HttpSessionAssumption DEF Reading, Conn
<1>2. w \in Nat /\ Min({s.left, s.size}) = w
  BY <1>1, MinIs
<1> HIDE DEF w
<1>3. s2 = [s EXCEPT !.op = "body", !.want = w]
  BY <1>2 DEF ReadBody
<1>4. /\ s2 \in Conn /\ s2.op = "body" /\ s2.want = w /\ s2.req = s.req /\ s2.left = s.left
      /\ s2.size = s.size /\ s2.cur = s.cur /\ s2.split = s.split /\ s2.called = 0 /\ s2.rest = FALSE
  BY <1>1, <1>2, <1>3, ZenonT(60) DEF Conn, Ops
<1>5. Fits(s2, p)
  BY <1>4 DEF Fits, Gathers, Miscounts, Cur, w
<1>6. Place(s2, p)
  BY <1>4 DEF Reading, Place, GoodPlace, Current
<1> QED
  BY <1>4, <1>5, <1>6 DEF After

----------------------------------------------------------------------------
(* A request whose head is whole                                            *)

\* What handle_read passes on: the buffer starts with the request, whose head it
\* holds, and n bytes of it were read last.
Ready(s, n, p) ==
  /\ Reading(s, p) /\ s.req \in 1..2
  /\ n \in 0..s.cur /\ (~s.split => n = s.cur)
  /\ Cur(s).head <= s.cur /\ s.cur <= s.size
  /\ s.cur + End(s.req - 1) = p
  /\ Single => Good

\* What the buffer holds, in numbers; of a client that waits it holds one request.
LEMMA ReadyIs ==
  ASSUME TypeInv, NEW s, NEW n, NEW p \in Nat, p <= End(sent), Ready(s, n, p)
  PROVE  /\ s.cur \in Cur(s).head..MaxSize /\ s.size \in 1..MaxSize /\ s.req \in 1..2
         /\ Cur(s).head \in 1..MaxSize /\ Cur(s).body \in 0..(Width - MaxSize)
         /\ TotalLen(Cur(s)) \in Nat /\ TotalLen(Cur(s)) = Cur(s).head + Cur(s).body
         /\ p <= End(s.req) <=> s.cur <= TotalLen(Cur(s))
         /\ Single => /\ Good /\ Current(s) /\ s.cur <= TotalLen(Cur(s))
                      /\ End(sent) - p = TotalLen(Cur(s)) - s.cur
                      /\ s.cur = TotalLen(Cur(s)) => p = End(sent)
         /\ n \in 0..s.cur /\ (~s.split => n = s.cur)
<1>1. /\ s.cur \in Nat /\ s.size \in 1..MaxSize /\ s.req \in 1..2 /\ Done \in Nat
      /\ reqs \in [1..2 -> Requests]
  BY DEF Ready, Reading, Conn, TypeInv, Done
<1>2. /\ Cur(s).head \in 1..(2 * MaxSize) /\ Cur(s).body \in 0..(Width - MaxSize)
      /\ TotalLen(Cur(s)) \in Nat /\ TotalLen(Cur(s)) = Cur(s).head + Cur(s).body
  BY <1>1, EndIs DEF Cur
<1>3. s.cur \in Cur(s).head..MaxSize /\ Cur(s).head \in 1..MaxSize /\ n \in 0..s.cur /\ (~s.split => n = s.cur)
  BY <1>1, <1>2, HttpSessionAssumption DEF Ready
<1>4. End(s.req) = End(s.req - 1) + TotalLen(Cur(s)) /\ End(s.req - 1) \in Nat
  BY <1>1, EndIs DEF Cur
<1>5. s.cur + End(s.req - 1) = p
  BY DEF Ready
<1>6. p <= End(s.req) <=> s.cur <= TotalLen(Cur(s))
  BY <1>1, <1>2, <1>4, <1>5
<1>7. ASSUME Single PROVE /\ Good /\ Current(s) /\ s.cur <= TotalLen(Cur(s))
                          /\ End(sent) - p = TotalLen(Cur(s)) - s.cur
                          /\ s.cur = TotalLen(Cur(s)) => p = End(sent)
  <2>1. Good /\ Current(s) /\ sent = s.req
    BY <1>7 DEF Ready, Reading, Current
  <2> QED
    BY <1>1, <1>2, <1>4, <1>5, <2>1
<1> QED
  BY <1>1, <1>2, <1>3, <1>6, <1>7

LEMMA ReadyReading ==
  ASSUME NEW s, NEW n, NEW p, Ready(s, n, p)
  PROVE  Reading(s, p)
BY DEF Ready

\* expand_size and fit_size make room, up to MaxSize.
LEMMA GrownIs ==
  ASSUME NEW s \in Conn, NEW total \in Nat
  PROVE  \E m \in 1..MaxSize :
           /\ Grown(s, total) = [s EXCEPT !.size = m]
           /\ m >= s.size /\ (total <= MaxSize => total <= m)
<1>1. s.size \in 1..MaxSize /\ MaxSize \in Nat
  BY HttpSessionAssumption DEF Conn
<1> DEFINE b == IF total <= MaxSize THEN total ELSE MaxSize
           m == IF s.size <= b THEN b ELSE s.size
<1>2. Min({total, MaxSize}) = b /\ b \in Nat /\ b <= MaxSize
  BY <1>1, MinIs
<1>3. Max({s.size, b}) = m
  BY <1>1, <1>2, MaxIs
<1>4. Grown(s, total) = [s EXCEPT !.size = m]
  BY <1>2, <1>3 DEF Grown
<1>5. m \in 1..MaxSize /\ m >= s.size /\ (total <= MaxSize => total <= m)
  BY <1>1, <1>2
<1> HIDE DEF m
<1> QED
  BY <1>4, <1>5


\* What is left of a body, l, is read on in a buffer that has room for the request.
LEMMA GrownReads ==
  ASSUME TypeInv, InTurn, NEW s, NEW p \in Nat, Reading(s, p), s.req \in 1..2, Cur(s).body > 0,
         NEW l \in 0..(Width - 1), Miscounts(s) \/ l > 0, Single => Good /\ l >= End(sent) - p,
         TotalLen(Cur(s)) <= MaxSize, Cur(s).type \in {"string", "form"},
         Gathers(s, p) => s.cur + l = TotalLen(Cur(s)),
         NEW s2 \in ReadBody(Grown([s EXCEPT !.left = l], TotalLen(Cur(s))))
  PROVE  After(s2, p)
<1> DEFINE t == [s EXCEPT !.left = l]
           total == TotalLen(Cur(s))
<1>1. t \in Conn /\ total \in Nat
  <2>1. t \in Conn
    BY DEF Reading, Conn
  <2>2. total \in Nat
    BY EndIs DEF TypeInv, Cur
  <2> QED
    BY <2>1, <2>2
<1>2. PICK m \in 1..MaxSize : Grown(t, total) = [t EXCEPT !.size = m] /\ total <= m
  BY <1>1, GrownIs
<1> DEFINE u == [s EXCEPT !.left = l, !.size = m]
<1>3. s2 \in ReadBody(u)
  <2>1. u = [t EXCEPT !.size = m]
    BY DEF Reading, Conn
  <2> QED
    BY <1>2, <2>1
<1>4. /\ u \in Conn /\ u.left = l /\ u.size = m /\ u.cur = s.cur /\ u.req = s.req
      /\ u.called = s.called /\ u.rest = s.rest /\ u.split = s.split
  BY <1>2 DEF Reading, Conn
<1> HIDE DEF u, t
<1>5. Reading(u, p) /\ Cur(u) = Cur(s)
  BY <1>4 DEF Reading, Current, Cur
<1>6. Miscounts(u) = Miscounts(s) /\ Gathers(u, p) = Gathers(s, p)
  BY <1>4, <1>5 DEF Miscounts, Gathers
<1>7. /\ u.req \in 1..2 /\ Cur(u).body > 0 /\ (Miscounts(u) \/ u.left > 0)
      /\ Single => Good /\ u.left >= End(sent) - p
      /\ Cur(u).type \notin {"octet", "multipart"}
  BY <1>4, <1>5, <1>6
<1>8. Gathers(u, p) => u.cur + u.left = TotalLen(Cur(u)) /\ TotalLen(Cur(u)) <= u.size
  BY <1>2, <1>4, <1>5, <1>6
<1> QED
  BY <1>3, <1>5, <1>7, <1>8, ReadBodyLeaves

\* What is left of a body, l, replaces what the buffer has.
LEMMA FittedReads ==
  ASSUME TypeInv, InTurn, NEW s, NEW p \in Nat, Reading(s, p), s.req \in 1..2, Cur(s).body > 0,
         NEW l \in 0..(Width - 1), Miscounts(s) \/ l > 0, Single => Good /\ l >= End(sent) - p,
         Cur(s).type \in {"octet", "multipart"},
         NEW s2 \in ReadBody(Fitted([s EXCEPT !.left = l]))
  PROVE  After(s2, p)
<1> DEFINE t == [s EXCEPT !.left = l]
<1>1. t \in Conn /\ t.left = l /\ l \in Nat
  BY HttpSessionAssumption DEF Reading, Conn
<1>2. PICK m \in 1..MaxSize : Grown(t, l) = [t EXCEPT !.size = m]
  BY <1>1, GrownIs
<1> DEFINE u == [s EXCEPT !.left = l, !.size = m, !.cur = 0]
<1>3. s2 \in ReadBody(u)
  <2>1. u = [[t EXCEPT !.size = m] EXCEPT !.cur = 0]
    BY DEF Reading, Conn
  <2> QED
    BY <1>1, <1>2, <2>1 DEF Fitted
<1>4. /\ u \in Conn /\ u.left = l /\ u.cur = 0 /\ u.req = s.req
      /\ u.called = s.called /\ u.rest = s.rest /\ u.split = s.split
  BY <1>2, ZenonT(60) DEF Reading, Conn
<1> HIDE DEF u, t
<1>5. Reading(u, p) /\ Cur(u) = Cur(s)
  BY <1>4 DEF Reading, Current, Cur
<1>6. /\ u.req \in 1..2 /\ Cur(u).body > 0 /\ (Miscounts(u) \/ u.left > 0)
      /\ Single => Good /\ u.left >= End(sent) - p
      /\ Cur(u).type \notin {"string", "form"} /\ ~Gathers(u, p)
  BY <1>4, <1>5 DEF Miscounts, Gathers
<1> QED
  BY <1>3, <1>4, <1>5, <1>6, ReadBodyLeaves

\* The part of the body that came with the head is taken off what is left, and makes it
\* nothing only when it is the whole body.
LEMMA RestIs ==
  ASSUME TypeInv, NEW s, NEW n, NEW p \in Nat, p <= End(sent), Ready(s, n, p), s.left = Cur(s).body
  PROVE  /\ PartSize(s) = s.cur - Cur(s).head
         /\ Minus(s.left, PartSize(s)) \in 0..(Width - 1)
         /\ s.cur <= TotalLen(Cur(s)) => Minus(s.left, PartSize(s)) = TotalLen(Cur(s)) - s.cur
         /\ s.cur # TotalLen(Cur(s)) => Minus(s.left, PartSize(s)) > 0
<1>1. /\ s.cur \in Cur(s).head..MaxSize /\ Cur(s).head \in 1..MaxSize
      /\ Cur(s).body \in 0..(Width - MaxSize) /\ s.left = Cur(s).body
      /\ TotalLen(Cur(s)) = Cur(s).head + Cur(s).body
      /\ PartSize(s) = s.cur - Cur(s).head
  BY ReadyIs DEF PartSize
<1>2. Width \in Nat /\ MaxSize \in Nat /\ Width > 2 * MaxSize
  BY HttpSessionAssumption
<1>3. PartSize(s) \in 0..(Width - 1) /\ s.left \in 0..(Width - 1)
  BY <1>1, <1>2
<1>4. /\ Minus(s.left, PartSize(s)) =
           IF PartSize(s) <= s.left THEN s.left - PartSize(s) ELSE s.left + Width - PartSize(s)
      /\ Minus(s.left, PartSize(s)) \in 0..(Width - 1)
  BY <1>3, MinusIs
<1> QED
  BY <1>1, <1>2, <1>4

\* handle_string_body: what is in the buffer and what is left make up the request, when
\* no more than the request was read.
LEMMA HandleStringLeaves ==
  ASSUME TypeInv, InTurn, NEW s, NEW n, NEW p \in Nat, p <= End(sent), Ready(s, n, p), s.left = Cur(s).body,
         Cur(s).body # 0, Cur(s).type = "string", NEW s2 \in HandleString(s)
  PROVE  After(s2, p)
<1>1. CASE AtCapacity(s)
  BY <1>1, ReadyReading, ResponseBackLeaves DEF HandleString
<1>2. CASE ~AtCapacity(s) /\ HasReceivedAll(s)
  <2>1. s2 \in HandleBody(s)
    BY <1>2 DEF HandleString
  <2>2. Single => Good /\ p = End(sent)
    BY <1>2, ReadyIs DEF HasReceivedAll
  <2> QED
    BY <2>1, <2>2, ReadyReading, ResponseBackLeaves, CallLeaves DEF HandleBody
<1>3. CASE ~AtCapacity(s) /\ ~HasReceivedAll(s)
  <2> DEFINE l == Minus(s.left, PartSize(s))
  <2>1. /\ l \in 0..(Width - 1) /\ l > 0
        /\ s.cur <= TotalLen(Cur(s)) => l = TotalLen(Cur(s)) - s.cur
    BY <1>3, RestIs DEF HasReceivedAll
  <2>2. s2 \in ReadBody(Grown([s EXCEPT !.left = l], TotalLen(Cur(s))))
    BY <1>3 DEF HandleString
  <2> HIDE DEF l
  <2>3. s.req \in 1..2 /\ Cur(s).body > 0 /\ TotalLen(Cur(s)) <= MaxSize
    BY <1>3, ReadyIs, HttpSessionAssumption DEF AtCapacity
  <2>4. Single => Good /\ l >= End(sent) - p
    BY <2>1, ReadyIs
  <2>5. Gathers(s, p) => s.cur + l = TotalLen(Cur(s))
    BY <2>1, ReadyIs DEF Gathers
  <2> QED
    BY <2>1, <2>2, <2>3, <2>4, <2>5, ReadyReading, GrownReads
<1> QED
  BY <1>1, <1>2, <1>3

LEMMA LeftReading ==
  ASSUME TypeInv, NEW s, NEW p, Reading(s, p), NEW l \in 0..(Width - 1)
  PROVE  Reading([s EXCEPT !.left = l], p)
<1> DEFINE t == [s EXCEPT !.left = l]
<1>1. t \in Conn
  BY DEF Reading, Conn
<1>2. t.called = s.called /\ t.rest = s.rest /\ t.req = s.req
  BY DEF Reading, Conn
<1> HIDE DEF t
<1>3. Reading(t, p)
  BY <1>1, <1>2 DEF Reading, Current
<1> QED
  BY <1>3 DEF t

\* What handle_form_urlencoded and handle_octet_stream take for the part of the body
\* that has come is off by what was read before the last read.
LEMMA MiscountIs ==
  ASSUME NEW head \in 1..MaxSize, NEW n \in 0..MaxSize, NEW body \in 0..(Width - MaxSize)
  PROVE  /\ Minus(n, head) = IF head <= n THEN n - head ELSE n + Width - head
         /\ Minus(body, Minus(n, head)) \in 0..(Width - 1)
         /\ head + body - n \in 0..(Width - 1) => Minus(body, Minus(n, head)) = head + body - n
         /\ head <= n /\ n # head + body => Minus(body, Minus(n, head)) > 0
<1>1. /\ Width \in Nat /\ MaxSize \in Nat \ {0} /\ Width > 2 * MaxSize
      /\ head \in 0..(Width - 1) /\ n \in 0..(Width - 1) /\ body \in 0..(Width - 1)
  BY HttpSessionAssumption
<1>2. Minus(n, head) = (IF head <= n THEN n - head ELSE n + Width - head) /\ Minus(n, head) \in 0..(Width - 1)
  BY <1>1, MinusIs
<1>3. /\ Minus(body, Minus(n, head)) =
           IF Minus(n, head) <= body THEN body - Minus(n, head) ELSE body + Width - Minus(n, head)
      /\ Minus(body, Minus(n, head)) \in 0..(Width - 1)
  BY <1>1, <1>2, MinusIs
<1> QED
  BY <1>1, <1>2, <1>3

\* So it is of a request that is ready: none but a miscounted one comes out as complete
\* when it is not.
LEMMA CountIs ==
  ASSUME TypeInv, NEW s, NEW n, NEW p \in Nat, p <= End(sent), Ready(s, n, p), s.left = Cur(s).body,
         Cur(s).type \in {"form", "octet"}, s.cur # TotalLen(Cur(s)),
         Cur(s).head <= n \/ TotalLen(Cur(s)) <= MaxSize,
         NEW l, l = Minus(s.left, Minus(n, Cur(s).head))
  PROVE  /\ l \in 0..(Width - 1) /\ (Miscounts(s) \/ l > 0)
         /\ Single => Good /\ l >= End(sent) - p
         /\ ~s.split /\ p <= End(s.req) => s.cur + l = TotalLen(Cur(s))
<1>1. /\ s.cur \in Cur(s).head..MaxSize /\ Cur(s).head \in 1..MaxSize
      /\ Cur(s).body \in 0..(Width - MaxSize) /\ s.left = Cur(s).body
      /\ TotalLen(Cur(s)) = Cur(s).head + Cur(s).body /\ TotalLen(Cur(s)) \in Nat
      /\ n \in 0..s.cur /\ (~s.split => n = s.cur)
      /\ p <= End(s.req) <=> s.cur <= TotalLen(Cur(s))
  BY ReadyIs
<1>2. MaxSize \in Nat /\ Width \in Nat /\ Width > 2 * MaxSize /\ n \in 0..MaxSize
  BY <1>1, HttpSessionAssumption
<1>3. /\ l \in 0..(Width - 1)
      /\ Cur(s).head + Cur(s).body - n \in 0..(Width - 1) => l = Cur(s).head + Cur(s).body - n
      /\ Cur(s).head <= n /\ n # Cur(s).head + Cur(s).body => l > 0
  <2> DEFINE h == Cur(s).head
             b == Cur(s).body
  <2>1. h \in 1..MaxSize /\ b \in 0..(Width - MaxSize) /\ l = Minus(b, Minus(n, h))
    BY <1>1
  <2> HIDE DEF h, b
  <2>2. /\ l \in 0..(Width - 1)
        /\ h + b - n \in 0..(Width - 1) => l = h + b - n
        /\ h <= n /\ n # h + b => l > 0
    BY ONLY <1>2, <2>1, MiscountIs
  <2> QED
    BY <2>2 DEF h, b
<1>4. s.cur <= TotalLen(Cur(s)) => l = TotalLen(Cur(s)) - n
  BY <1>1, <1>2, <1>3
<1>5. ~s.split => l > 0
  BY <1>1, <1>3
<1>6. Single => Good /\ l >= End(sent) - p
  <2>1. Single => Good /\ s.cur <= TotalLen(Cur(s)) /\ End(sent) - p = TotalLen(Cur(s)) - s.cur
    BY ReadyIs
  <2> QED
    BY <1>1, <1>2, <1>4, <2>1
<1>7. ~s.split /\ p <= End(s.req) => s.cur + l = TotalLen(Cur(s))
  BY <1>1, <1>4
<1> QED
  BY <1>3, <1>5, <1>6, <1>7 DEF Miscounts

\* handle_form_urlencoded: a form whose head came in two reads waits for more than
\* the client will send; the others are counted right.
LEMMA HandleFormLeaves ==
  ASSUME TypeInv, InTurn, NEW s, NEW n, NEW p \in Nat, p <= End(sent), Ready(s, n, p), s.left = Cur(s).body,
         Cur(s).body # 0, Cur(s).type = "form", NEW s2 \in HandleForm(s, n)
  PROVE  After(s2, p)
<1>1. CASE AtCapacity(s)
  BY <1>1, ReadyReading, ResponseBackLeaves DEF HandleForm
<1>2. CASE ~AtCapacity(s) /\ HasReceivedAll(s)
  <2>1. s2 \in HandleUrlencoded(s)
    BY <1>2 DEF HandleForm
  <2>2. Single => Good /\ p = End(sent)
    BY <1>2, ReadyIs DEF HasReceivedAll
  <2> QED
    BY <2>1, <2>2, ReadyReading, ResponseBackLeaves, CallLeaves DEF HandleUrlencoded
<1>3. CASE ~AtCapacity(s) /\ ~HasReceivedAll(s)
  <2> DEFINE l == Minus(s.left, Minus(n, Cur(s).head))
  <2>1. /\ TotalLen(Cur(s)) <= MaxSize /\ s.cur # TotalLen(Cur(s))
        /\ s.req \in 1..2 /\ Cur(s).body > 0
    BY <1>3, ReadyIs, HttpSessionAssumption DEF AtCapacity, HasReceivedAll
  <2>2. s2 \in ReadBody(Grown([s EXCEPT !.left = l], TotalLen(Cur(s))))
    BY <1>3 DEF HandleForm
  <2>3. /\ l \in 0..(Width - 1) /\ (Miscounts(s) \/ l > 0)
        /\ Single => Good /\ l >= End(sent) - p
        /\ ~s.split /\ p <= End(s.req) => s.cur + l = TotalLen(Cur(s))
    BY <2>1, CountIs
  <2> HIDE DEF l
  <2>4. Gathers(s, p) => s.cur + l = TotalLen(Cur(s))
    BY <2>3 DEF Gathers, Miscounts
  <2> QED
    BY <2>1, <2>2, <2>3, <2>4, ReadyReading, GrownReads
<1> QED
  BY <1>1, <1>2, <1>3

\* What happens next is undefined.
LEMMA BrokenLeaves ==
  ASSUME NEW s, NEW p, s \in Conn, s.called = 0, ~s.rest, Single => Good, NEW s2 \in Broken(s)
  PROVE  After(s2, p)
<1>1. s2 \in Conn /\ s2.op = "none" /\ s2.rest = s.rest /\ s2.called = s.called
  BY DEF Broken, Conn, Ops
<1> QED
  BY <1>1 DEF After, Fits, Place, GoodPlace

\* handle_octet_stream.
LEMMA HandleOctetLeaves ==
  ASSUME TypeInv, InTurn, NEW s, NEW n, NEW p \in Nat, p <= End(sent), Ready(s, n, p), s.left = Cur(s).body,
         Cur(s).body # 0, Cur(s).type = "octet", NEW s2 \in HandleOctet(s, n)
  PROVE  After(s2, p)
<1> DEFINE part == Minus(n, Cur(s).head)
           l    == Minus(s.left, part)
           t    == [s EXCEPT !.left = l]
<1>1. CASE s2 \in ResponseBack(s)
  BY <1>1, ReadyReading, ResponseBackLeaves
<1>2. CASE part > n /\ s2 \in Broken(s)
  BY <1>2, BrokenLeaves DEF Ready, Reading
<1>3. CASE ~(part > n) /\ HasReceivedAll(s) /\ s2 \in CallThenWrite(t)
  <2>1. l \in 0..(Width - 1)
    <3>1. Cur(s).head \in 1..MaxSize /\ n \in 0..MaxSize /\ s.left \in 0..(Width - MaxSize)
      BY ReadyIs, HttpSessionAssumption
    <3> QED
      BY <3>1, MiscountIs
  <2> HIDE DEF l
  <2>2. Single => Good /\ p = End(sent)
    BY <1>3, ReadyIs DEF HasReceivedAll
  <2>3. Reading(t, p)
    BY <2>1, ReadyReading, LeftReading
  <2>4. s2 \in CallAndWrite(t)
    BY <1>3 DEF CallAndWrite
  <2> HIDE DEF t
  <2> QED
    BY <2>2, <2>3, <2>4, CallLeaves
<1>4. CASE ~(part > n) /\ ~HasReceivedAll(s) /\ s2 \in ReadBody(Fitted(t))
  <2>1. Cur(s).head <= n
    <3>1. /\ Cur(s).head \in 1..MaxSize /\ n \in 0..MaxSize /\ MaxSize \in Nat
          /\ Cur(s).body \in 0..(Width - MaxSize) /\ Width \in Nat /\ Width > 2 * MaxSize
      BY ReadyIs, HttpSessionAssumption
    <3>2. part = IF Cur(s).head <= n THEN n - Cur(s).head ELSE n + Width - Cur(s).head
      BY <3>1, MiscountIs
    <3> QED
      BY <1>4, <3>1, <3>2
  <2>2. s.req \in 1..2 /\ Cur(s).body > 0 /\ s.cur # TotalLen(Cur(s))
    BY <1>4, ReadyIs, HttpSessionAssumption DEF HasReceivedAll
  <2>3. /\ l \in 0..(Width - 1) /\ (Miscounts(s) \/ l > 0)
        /\ Single => Good /\ l >= End(sent) - p
    BY <2>1, <2>2, CountIs
  <2> HIDE DEF l
  <2> QED
    BY <1>4, <2>2, <2>3, ReadyReading, FittedReads
<1> QED
  BY <1>1, <1>2, <1>3, <1>4 DEF HandleOctet

\* handle_multipart.
LEMMA HandleMultipartLeaves ==
  ASSUME TypeInv, InTurn, NEW s, NEW n, NEW p \in Nat, p <= End(sent), Ready(s, n, p), s.left = Cur(s).body,
         Cur(s).body # 0, Cur(s).type = "multipart", NEW s2 \in HandleMultipart(s)
  PROVE  After(s2, p)
<1> DEFINE l == Minus(s.left, PartSize(s))
<1>1. /\ s.cur \in Nat /\ TotalLen(Cur(s)) = Cur(s).head + Cur(s).body /\ Cur(s).head \in Nat
      /\ s.req \in 1..2 /\ Cur(s).body > 0 /\ Cur(s).body \in Nat
      /\ Single => /\ Good /\ s.cur <= TotalLen(Cur(s))
                   /\ End(sent) - p = TotalLen(Cur(s)) - s.cur
                   /\ s.cur = TotalLen(Cur(s)) => p = End(sent)
  BY ReadyIs, HttpSessionAssumption
<1>2. /\ PartSize(s) = s.cur - Cur(s).head /\ l \in 0..(Width - 1)
      /\ s.cur <= TotalLen(Cur(s)) => l = TotalLen(Cur(s)) - s.cur
      /\ s.cur # TotalLen(Cur(s)) => l > 0
  BY RestIs
<1> HIDE DEF l
<1>3. CASE s2 \in ResponseBack(s)
  BY <1>3, ReadyReading, ResponseBackLeaves
<1>4. CASE Cur(s).body = PartSize(s) /\ s2 \in CallThenWrite([s EXCEPT !.left = l])
  <2>1. Single => Good /\ p = End(sent)
    BY <1>1, <1>2, <1>4
  <2> QED
    BY <1>2, <1>4, <2>1, ReadyReading, LeftReading, CallLeaves DEF CallAndWrite
<1>5. CASE Cur(s).body # PartSize(s) /\ s2 \in ReadBody(Fitted([s EXCEPT !.left = l]))
  <2>1. l > 0 /\ (Single => Good /\ l >= End(sent) - p)
    BY <1>1, <1>2, <1>5, HttpSessionAssumption
  <2> QED
    BY <1>1, <1>2, <1>5, <2>1, ReadyReading, FittedReads
<1> QED
  BY <1>3, <1>4, <1>5 DEF HandleMultipart, l

\* A chunked body that is whole.
LEMMA ChunkedResponseLeaves ==
  ASSUME TypeInv, NEW s, NEW p \in Nat, Reading(s, p), Single => Good /\ p = End(sent),
         NEW s2 \in HandleChunkedResponse(s)
  PROVE  After(s2, p)
BY ResponseBackLeaves, CallLeaves DEF HandleChunkedResponse

\* handle_chunked.
LEMMA HandleChunkedLeaves ==
  ASSUME TypeInv, InTurn, NEW s, NEW n, NEW p \in Nat, p <= End(sent), Ready(s, n, p), s.left = Cur(s).body,
         Cur(s).body # 0, NEW s2 \in HandleChunked(s)
  PROVE  After(s2, p)
<1> DEFINE got == s.cur - Cur(s).head
<1>1. PartSize(s) = got
  BY DEF PartSize
<1>2. CASE got = Cur(s).body /\ s2 \in HandleChunkedResponse(s)
  <2>1. Single => Good /\ p = End(sent)
    BY <1>2, ReadyIs
  <2> QED
    BY <1>2, <2>1, ReadyReading, ChunkedResponseLeaves
<1>3. CASE /\ got \in 1..(Cur(s).body - 2)
           /\ s2 = [s EXCEPT !.op = "chunk", !.cur = 0, !.left = Cur(s).body - got, !.want = Cur(s).body - 1 - got]
  <2> DEFINE l == Cur(s).body - got
             w == Cur(s).body - 1 - got
  <2>1. l \in 0..(Width - 1) /\ w \in Nat /\ (Single => l >= End(sent) - p)
    BY <1>3, ReadyIs, HttpSessionAssumption
  <2>2. s2 = [s EXCEPT !.op = "chunk", !.cur = 0, !.left = l, !.want = w]
    BY <1>3
  <2> HIDE DEF l, w
  <2>3. /\ s2 \in Conn /\ s2.op = "chunk" /\ s2.left = l /\ s2.req = s.req
        /\ s2.rest = s.rest /\ s2.called = s.called
    BY <2>1, <2>2, ZenonT(60) DEF Ready, Reading, Conn, Ops
  <2>4. s2.req \in 1..2 /\ Cur(s2).body > 0
    BY <2>3, ReadyIs, HttpSessionAssumption DEF Cur
  <2>5. Fits(s2, p)
    BY <2>3, <2>4 DEF Ready, Reading, Fits
  <2>6. Place(s2, p)
    BY <2>1, <2>3, ReadyIs DEF Ready, Reading, Place, GoodPlace, Current
  <2> QED
    BY <2>3, <2>5, <2>6 DEF Ready, Reading, After
<1>4. CASE s2 \in ResponseBack(s)
  BY <1>4, ReadyReading, ResponseBackLeaves
<1> QED
  BY <1>1, <1>2, <1>3, <1>4 DEF HandleChunked

\* handle_no_body_respone.
LEMMA HandleNoBodyLeaves ==
  ASSUME TypeInv, InTurn, NEW s, NEW n, NEW p \in Nat, p <= End(sent), Ready(s, n, p),
         Cur(s).body = 0, NEW s2 \in HandleNoBody(s)
  PROVE  After(s2, p)
<1>1. Single => Good /\ p = End(sent)
  BY ReadyIs
<1> QED
  BY <1>1, ReadyReading, ResponseBackLeaves, CallLeaves DEF HandleNoBody

\* A client that waits has no two requests in the buffer.
LEMMA HandlePipelineLeaves ==
  ASSUME TypeInv, InTurn, NEW s, NEW n, NEW p \in Nat, p <= End(sent), Ready(s, n, p),
         Cur(s).body = 0, n > Cur(s).head + Offset, s.cur < MaxSize => s.cur < s.size,
         s.len + Cur(s).head <= s.cur,
         NEW s2 \in HandlePipeline(s, n)
  PROVE  After(s2, p)
<1> DEFINE head  == Cur(s).head
           heads == (s.cur - s.len) \div head
           more  == {j \in 1..(heads - 1) : head <= Minus(n, s.len + j * head)}
           c     == 1 + Cardinality(more)
           l     == s.len + heads * head
<1>1. ~Single
  <2>1. s.cur \in Nat /\ head \in Nat /\ Offset \in Nat
    BY ReadyIs, HttpSessionAssumption
  <2>3. n \in 0..s.cur
    BY DEF Ready
  <2>2. Single => s.cur <= head
    BY <2>1, ReadyIs
  <2> QED
    BY <2>1, <2>2, <2>3
<1>2. heads \in Nat
  <2>1. s.cur \in Nat /\ s.len \in Nat
    BY DEF Ready, Reading, Conn
  <2>2. head \in Nat \ {0}
    BY ReadyIs, HttpSessionAssumption
  <2>3. s.cur - s.len \in Nat
    BY <2>1, <2>2
  <2> QED
    BY <2>2, <2>3
<1>3. c \in Nat
  <2>1. IsFiniteSet(1..(heads - 1)) /\ more \subseteq 1..(heads - 1)
    BY <1>2, FS_Interval, 1 \in Int, heads - 1 \in Int
  <2>2. IsFiniteSet(more)
    BY <2>1, FS_Subset
  <2> QED
    BY <2>2, FS_CardinalityType
<1>4. l \in Nat
  <2>1. s.len \in Nat /\ head \in Nat
    BY ReadyIs DEF Ready, Reading, Conn
  <2> QED
    BY <1>2, <2>1
<1> HIDE DEF c, l
<1> DEFINE b == s.cur > l
           t == [s EXCEPT !.called = c, !.len = l, !.op = "write", !.want = 0, !.rest = b]
<1>5. b \in BOOLEAN
  OBVIOUS
<1> HIDE DEF b
<1>6. t \in Conn /\ t.op = "write" /\ t.cur = s.cur /\ t.size = s.size
  BY <1>3, <1>4, <1>5 DEF Ready, Reading, Conn, Ops
<1>7. PICK r \in Replies(s) : s2 = [t EXCEPT !.reply = r]
  BY DEF HandlePipeline, c, l, b
<1>8. r \in Reply
  BY <1>7, RepliesAre DEF Ready
<1> HIDE DEF t
<1>9. s2 \in Conn /\ s2.op = "write" /\ s2.cur = s.cur /\ s2.size = s.size
  BY <1>6, <1>7, <1>8 DEF Conn
<1> QED
  BY <1>1, <1>9 DEF Ready, After, Fits, Place

\* handle_request_on_respone and handle_no_chunked.
LEMMA HandleRequestLeaves ==
  ASSUME TypeInv, InTurn, NEW s, NEW n, NEW p \in Nat, p <= End(sent), Ready(s, n, p), s.left = Cur(s).body,
         NEW s2 \in HandleRequest(s, n)
  PROVE  After(s2, p)
<1>1. CASE Cur(s).body = 0
  BY <1>1, HandleNoBodyLeaves DEF HandleRequest
<1>2. CASE Cur(s).body # 0 /\ Cur(s).chunked
  BY <1>2, HandleChunkedLeaves DEF HandleRequest
<1>3. CASE s2 \in HandleNoChunked(s, n) /\ Cur(s).body # 0
  <2>1. Cur(s).type \in {"string", "form", "octet", "multipart"}
    BY EndIs DEF Ready, TypeInv, Cur
  <2>2. CASE Cur(s).type = "string"
    BY <1>3, <2>2, HandleStringLeaves DEF HandleNoChunked, ContentType
  <2>3. CASE Cur(s).type = "form"
    BY <1>3, <2>3, HandleFormLeaves DEF HandleNoChunked, ContentType
  <2>4. CASE Cur(s).type = "octet"
    BY <1>3, <2>4, HandleOctetLeaves DEF HandleNoChunked, ContentType
  <2>5. CASE Cur(s).type = "multipart"
    BY <1>3, <2>5, HandleMultipartLeaves DEF HandleNoChunked, ContentType
  <2> QED
    BY <2>1, <2>2, <2>3, <2>4, <2>5
<1> QED
  BY <1>1, <1>2, <1>3 DEF HandleRequest

----------------------------------------------------------------------------
(* Reads                                                                    *)

\* do_read_head, after s.cur bytes that are no whole head.
LEMMA ReadHeadLeaves ==
  ASSUME TypeInv, NEW s \in Conn, NEW p \in Nat, s.called = 0,
         s.cur <= s.size, s.cur < MaxSize => s.cur < s.size,
         Single => /\ s.cur <= p
                   /\ IF Good THEN p - s.cur = End(Done) ELSE p - s.cur > End(sent - 1),
         NEW s2 \in DoReadHead(s)
  PROVE  After(s2, p)
<1> DEFINE w == s.size - s.cur
<1>1. s.size \in Nat /\ s.cur \in Nat /\ w \in Nat /\ s.cur + w = s.size /\ (s.cur < MaxSize => w > 0)
  BY HttpSessionAssumption DEF Conn
<1>2. s2 = [s EXCEPT !.op = "read", !.want = w, !.split = TRUE, !.rest = FALSE]
  BY DEF DoReadHead
<1> HIDE DEF w
<1>3. /\ s2 \in Conn /\ s2.op = "read" /\ s2.want = w /\ s2.split = TRUE /\ s2.rest = FALSE
      /\ s2.cur = s.cur /\ s2.size = s.size /\ s2.called = 0
  BY <1>1, <1>2 DEF Conn, Ops
<1>4. Fits(s2, p)
  BY <1>1, <1>3 DEF Fits
<1>5. Place(s2, p)
  BY <1>3 DEF Place, GoodPlace, BadPlace
<1> QED
  BY <1>3, <1>4, <1>5 DEF After

\* do_read.
LEMMA DoReadIs ==
  ASSUME NEW s \in Conn, NEW s2 \in DoRead(s)
  PROVE  /\ s2 \in Conn /\ s2.op = "read" /\ s2.want = s2.size /\ s2.split = FALSE /\ s2.cur = 0
         /\ s2.size \in 1..MaxSize /\ s2.called = s.called /\ s2.rest = s.rest
<1>1. s2 = [Reset(s) EXCEPT !.op = "read", !.want = s.size]
  BY DEF DoRead, Reset
<1>2. NoReply \in Reply
  BY DEF NoReply, Reply, Statuses
<1>3. s.size \in Nat /\ s.size \in 1..MaxSize
  BY HttpSessionAssumption DEF Conn
<1> QED
  BY <1>1, <1>2, <1>3 DEF Reset, Conn, Ops

\* It starts where no request has begun.
LEMMA ReadLeaves ==
  ASSUME TypeInv, NEW s \in Conn, NEW p \in Nat, s.called = 0, ~s.rest,
         Single => IF Good THEN p = End(Done) ELSE p > End(sent - 1),
         NEW s2 \in DoRead(s)
  PROVE  After(s2, p)
<1>1. /\ s2 \in Conn /\ s2.op = "read" /\ s2.want = s2.size /\ s2.split = FALSE /\ s2.cur = 0
      /\ s2.size \in 1..MaxSize /\ s2.called = s.called /\ s2.rest = s.rest
  BY DoReadIs
<1>2. Fits(s2, p)
  BY <1>1 DEF Fits
<1>3. Place(s2, p)
  BY <1>1 DEF Place, GoodPlace, BadPlace
<1> QED
  BY <1>1, <1>2, <1>3 DEF After

\* release_session.
LEMMA ReleaseIs ==
  ASSUME NEW s \in Conn, NEW s2 \in Release(s)
  PROVE  s2 \in Conn /\ s2.op = "released" /\ s2.called = s.called /\ s2.rest = s.rest
<1>1. s2 = [[s EXCEPT !.kept = FALSE] EXCEPT !.op = "released", !.want = 0]
  BY DEF Release, OnClose
<1> QED
  BY <1>1 DEF Conn, Ops

LEMMA ReleaseLeaves ==
  ASSUME NEW s \in Conn, NEW p, s.called = 0, ~s.rest, NEW s2 \in Release(s)
  PROVE  After(s2, p)
<1>1. s2 \in Conn /\ s2.op = "released" /\ s2.called = 0 /\ ~s2.rest
  BY ReleaseIs
<1> QED
  BY <1>1 DEF After, Fits, Place, GoodPlace, BadPlace

LEMMA DoubledIs ==
  ASSUME NEW s \in Conn, s.cur <= s.size
  PROVE  \E m \in 1..MaxSize :
           /\ Doubled(s) = [s EXCEPT !.size = m]
           /\ s.cur <= m /\ (s.cur < MaxSize => s.cur < m)
<1>1. s.size \in 1..MaxSize /\ s.cur \in Nat /\ MaxSize \in Nat
  BY HttpSessionAssumption DEF Conn
<1>2. CASE s.cur >= s.size
  <2> DEFINE m == IF 2 * s.size <= MaxSize THEN 2 * s.size ELSE MaxSize
  <2>1. Min({2 * s.size, MaxSize}) = m /\ m \in 1..MaxSize
    BY <1>1, MinIs
  <2>2. Doubled(s) = [s EXCEPT !.size = m]
    BY <1>2, <2>1 DEF Doubled
  <2>3. s.cur <= m /\ (s.cur < MaxSize => s.cur < m)
    BY <1>1, <1>2
  <2> HIDE DEF m
  <2> QED
    BY <2>1, <2>2, <2>3
<1>3. CASE s.cur < s.size
  <2>1. Doubled(s) = [s EXCEPT !.size = s.size]
    BY <1>1, <1>3 DEF Doubled, Conn
  <2> QED
    BY <1>1, <1>3, <2>1
<1> QED
  BY <1>1, <1>2, <1>3

\* The buffer starts with the request that is to be answered next; after one that
\* was refused it starts with none.
LEMMA AtBufferIs ==
  ASSUME TypeInv, InTurn, conn.op = "read", Place(conn, pos)
  PROVE  /\ AtBuffer \in 0..2
         /\ AtBuffer # 0 => End(AtBuffer - 1) = pos - conn.cur
         /\ Single => IF Good THEN sent = Done + 1 => AtBuffer = Done + 1 ELSE AtBuffer = 0
<1> DEFINE S == {0} \cup {i \in 1..sent : End(i - 1) = pos - conn.cur}
<1>1. sent \in 0..2 /\ reqs \in [1..2 -> Requests] /\ Done \in Nat
  BY DEF TypeInv, Done
<1>2. End(0) = 0 /\ End(1) \in Nat \ {0} /\ End(2) \in Nat /\ End(2) > End(1)
  BY <1>1, EndIs
<1>3. S \subseteq 0..2 /\ 0 \in S
  BY <1>1
<1>4. \E m \in S : \A y \in S : m >= y
  <2>1. CASE 2 \in S
    BY <1>3, <2>1
  <2>2. CASE 2 \notin S /\ 1 \in S
    BY <1>3, <2>2
  <2>3. CASE 2 \notin S /\ 1 \notin S
    BY <1>3, <2>3
  <2> QED
    BY <2>1, <2>2, <2>3
<1>5. AtBuffer \in S /\ \A y \in S : AtBuffer >= y
  <2>1. AtBuffer = Max(S)
    BY DEF AtBuffer
  <2> HIDE DEF S
  <2> QED
    BY <1>4, <2>1 DEF Max
<1>6. ASSUME Single, Good, sent = Done + 1 PROVE AtBuffer = Done + 1
  <2>1. pos - conn.cur = End(Done)
    BY <1>6 DEF Place, GoodPlace
  <2>2. S = {0, Done + 1}
    BY <1>1, <1>2, <1>6, <2>1
  <2> QED
    BY <1>1, <1>5, <2>2
<1>7. ASSUME Single, ~Good PROVE AtBuffer = 0
  <2>1. pos - conn.cur > End(sent - 1) /\ sent \in 1..2 /\ pos \in Nat /\ conn.cur \in Nat
    BY <1>1, <1>7 DEF Place, BadPlace, InTurn, TypeInv, Conn
  <2>2. \A i \in 1..sent : End(i - 1) <= End(sent - 1)
    BY <1>2, <2>1
  <2>3. S = {0}
    BY <1>2, <2>1, <2>2
  <2> QED
    BY <1>5, <2>3
<1> QED
  BY <1>3, <1>5, <1>6, <1>7


\* handle_read: a whole head is handled, with what is known of it.
LEMMA HandleReadLeaves ==
  ASSUME TypeInv, InTurn, Fits(conn, pos), Place(conn, pos), conn.op = "read",
         NEW n \in Nat, n <= conn.want, n = 0 => conn.want = 0, pos + n <= End(sent),
         NEW s2 \in HandleRead(conn, n)
  PROVE  After(s2, pos + n)
<1> DEFINE c == conn.cur + n
           p == pos + n
           a == AtBuffer
           q == [conn EXCEPT !.cur = c, !.req = a]
<1>1. /\ conn \in Conn /\ conn.called = 0 /\ ~conn.rest /\ conn.cur \in Nat /\ conn.want \in Nat
      /\ conn.size \in 1..MaxSize /\ conn.cur + conn.want = conn.size
      /\ (conn.cur < MaxSize => conn.want > 0) /\ (~conn.split => conn.cur = 0)
      /\ sent \in 0..2 /\ pos \in Nat /\ reqs \in [1..2 -> Requests] /\ Done \in Nat
  BY DEF TypeInv, Fits, Conn, Done
<1>2. c \in Nat /\ p \in Nat /\ p <= End(sent) /\ c <= conn.size /\ c > 0
  BY <1>1, HttpSessionAssumption
<1>3. a \in 0..2 /\ (a # 0 => c + End(a - 1) = p)
  <2>1. a \in 0..2 /\ (a # 0 => End(a - 1) = pos - conn.cur)
    BY AtBufferIs
  <2> HIDE DEF a
  <2>2. a # 0 => End(a - 1) \in Nat
    BY <1>1, <2>1, EndIs
  <2> QED
    BY <1>1, <2>1, <2>2
<1>4. ASSUME Single
      PROVE  /\ c <= p
             /\ IF Good THEN a = Done + 1 /\ sent = Done + 1 /\ p - c = End(Done) /\ p > End(Done)
                        ELSE a = 0 /\ p - c > End(sent - 1) /\ p > End(sent - 1)
  <2>1. CASE Good
    <3>1. pos - conn.cur = End(Done) /\ conn.cur <= pos /\ sent \in {Done, Done + 1}
      BY <1>4, <2>1 DEF Place, GoodPlace, InTurn
    <3>2. Done \in 0..2 /\ End(Done) \in Nat
      BY <1>1, <3>1, EndIs
    <3>3. c <= p /\ p - c = End(Done) /\ p > End(Done)
      BY <1>1, <1>2, <3>1, <3>2
    <3>4. sent = Done + 1
      BY <1>2, <3>1, <3>2, <3>3
    <3>5. a = Done + 1
      BY <1>4, <2>1, <3>4, AtBufferIs
    <3> QED
      BY <2>1, <3>3, <3>4, <3>5
  <2>2. CASE ~Good
    <3>1. pos - conn.cur > End(sent - 1) /\ conn.cur <= pos /\ sent \in 1..2
      BY <1>1, <1>4, <2>2 DEF Place, BadPlace, InTurn
    <3>2. End(sent - 1) \in Nat
      BY <1>1, <3>1, EndIs
    <3>3. a = 0
      BY <1>4, <2>2, AtBufferIs
    <3> QED
      BY <1>1, <1>2, <2>2, <3>1, <3>2, <3>3
  <2> QED
    BY <2>1, <2>2
<1> HIDE DEF a, c, p
<1>5. q \in Conn /\ q.cur = c /\ q.size = conn.size /\ q.cur <= q.size
  BY <1>1, <1>2, <1>3 DEF Conn
<1>6. PICK m \in 1..MaxSize : /\ Doubled(q) = [q EXCEPT !.size = m]
                              /\ q.cur <= m /\ (q.cur < MaxSize => q.cur < m)
  BY <1>5, DoubledIs
<1> DEFINE t == Doubled(q)
<1>7. /\ t \in Conn /\ t.cur = c /\ t.req = a /\ t.size = m /\ t.called = 0 /\ ~t.rest
      /\ t.split = conn.split /\ c <= m /\ (c < MaxSize => c < m)
  BY <1>1, <1>5, <1>6, <1>3, <1>2, ZenonT(60) DEF Conn
<1> HIDE DEF t, q
<1>8. Reading(t, p)
  BY <1>4, <1>7 DEF Reading, Current
<1>9. ASSUME NEW s3 \in ReadOn(t) PROVE After(s3, p)
  <2>0. PICK k \in BOOLEAN : s3 \in DoReadHead([t EXCEPT !.keep = k])
    BY <1>9 DEF ReadOn
  <2> DEFINE v == [t EXCEPT !.keep = k]
  <2>1. v \in Conn /\ v.called = 0 /\ v.cur = c /\ v.size = m
    BY <1>7 DEF Conn
  <2> HIDE DEF v
  <2>2. s3 \in DoReadHead(v)
    BY <2>0 DEF v
  <2> QED
    BY <1>2, <1>4, <1>7, <2>1, <2>2, ReadHeadLeaves
<1> DEFINE r == Cur(t)
           u == [t EXCEPT !.keep = KeepAlive(r)]
           v == [u EXCEPT !.left = r.body]
<1>10. CASE t.cur > MaxSize \/ (t.req = 0 /\ s2 \in ResponseBack(t))
  BY <1>2, <1>8, <1>10, ResponseBackLeaves DEF HandleRead, t, q, c, a, p
<1>11. CASE s2 \in ReadOn(t)
  BY <1>9, <1>11 DEF p
<1>12. CASE t.req # 0 /\ ~(t.cur < t.len + r.head)
  <2>1. a \in 1..2 /\ r.close \in BOOLEAN /\ r.body \in 0..(Width - 1) /\ r.head \in Nat /\ t.len \in Nat
    <3>1. a \in 1..2
      BY <1>3, <1>7, <1>12
    <3>2. r = reqs[a]
      BY <1>7 DEF Cur
    <3>3. r.close \in BOOLEAN /\ r.body \in 0..(Width - MaxSize) /\ r.head \in 1..(2 * MaxSize)
      BY <1>1, <3>1, <3>2, EndIs
    <3>4. t.len \in Nat
      BY <1>7 DEF Conn
    <3> QED
      BY <3>1, <3>3, <3>4, HttpSessionAssumption
  <2>2. KeepAlive(r) \in BOOLEAN
    BY <2>1 DEF KeepAlive
  <2> HIDE DEF r
  <2>3. /\ u \in Conn /\ u.cur = c /\ u.req = a /\ u.size = m /\ u.called = 0 /\ ~u.rest
        /\ u.split = conn.split /\ u.len = t.len
    BY <1>7, <2>2 DEF Conn
  <2> HIDE DEF u
  <2>4. /\ v \in Conn /\ v.cur = c /\ v.req = a /\ v.size = m /\ v.called = 0 /\ ~v.rest
        /\ v.split = conn.split /\ v.left = r.body
    BY <2>1, <2>3 DEF Conn
  <2> HIDE DEF v
  <2>5. Cur(u) = r /\ Cur(v) = r
    BY <1>7, <2>3, <2>4 DEF Cur, r
  <2>6. n \in 0..c /\ (~conn.split => n = c)
    BY <1>1 DEF c
  <2>7. Ready(u, n, p) /\ Ready(v, n, p)
    <3>1. r.head <= c
      BY <1>2, <1>7, <1>12, <2>1
    <3>2. Reading(u, p) /\ Reading(v, p)
      BY <1>4, <2>3, <2>4 DEF Reading, Current
    <3>3. Single => Good
      BY <1>4, <2>1
    <3>4. c + End(a - 1) = p
      BY <1>3, <2>1
    <3> QED
      BY <1>7, <2>1, <2>3, <2>4, <2>5, <2>6, <3>1, <3>2, <3>3, <3>4 DEF Ready
  <2>8. CASE n > r.head + Offset /\ r.body = 0 /\ s2 \in HandlePipeline(u, n)
    <3>1. u.len + Cur(u).head <= u.cur /\ (u.cur < MaxSize => u.cur < u.size)
      BY <1>2, <1>7, <1>12, <2>1, <2>3, <2>5
    <3>2. After(s2, p)
      BY <1>2, <2>5, <2>7, <2>8, <3>1, HandlePipelineLeaves
    <3> QED
      BY <3>2 DEF p
  <2>9. CASE s2 \in HandleRequest(v, n)
    <3>1. After(s2, p)
      BY <1>2, <2>4, <2>5, <2>7, <2>9, HandleRequestLeaves
    <3> QED
      BY <3>1 DEF p
  <2>10. \/ t.cur > MaxSize
         \/ n > r.head + Offset /\ r.body = 0 /\ s2 \in HandlePipeline(u, n)
         \/ s2 \in HandleRequest(v, n)
    BY <1>12 DEF HandleRead, t, q, c, a, r, u, v
  <2> QED
    BY <1>10, <2>8, <2>9, <2>10
<1>13. \/ t.cur > MaxSize \/ (t.req = 0 /\ s2 \in ResponseBack(t))
       \/ s2 \in ReadOn(t)
       \/ t.req # 0 /\ ~(t.cur < t.len + r.head)
  BY DEF HandleRead, t, q, c, a, r
<1> QED
  BY <1>10, <1>11, <1>12, <1>13

----------------------------------------------------------------------------
(* The reads of a body                                                      *)

\* The body that is being read is, of a client that waits, that of the request to be
\* answered next, and as much of it is left as was not read, or more.
LEMMA InBody ==
  ASSUME TypeInv, InTurn, Fits(conn, pos), Place(conn, pos), conn.op \in {"body", "chunk"},
         NEW p \in Nat, pos <= p
  PROVE  /\ Reading(conn, p) /\ conn.req \in 1..2 /\ Cur(conn).body > 0
         /\ Single => Good /\ conn.left >= End(sent) - pos
         /\ conn.left \in 0..(Width - 1) /\ End(sent) \in Nat /\ pos \in Nat
         /\ conn \in Conn /\ conn.called = 0 /\ ~conn.rest
<1>1. /\ conn \in Conn /\ conn.called = 0 /\ ~conn.rest /\ conn.req \in 1..2 /\ Cur(conn).body > 0
      /\ conn.left \in 0..(Width - 1) /\ pos \in Nat /\ reqs \in [1..2 -> Requests] /\ sent \in 0..2
  BY DEF TypeInv, Fits, Conn
<1>2. End(0) \in Nat /\ End(1) \in Nat /\ End(2) \in Nat
  BY <1>1, EndIs
<1>3. End(sent) \in Nat
  BY <1>1, <1>2
<1>4. ASSUME Single
      PROVE  Good /\ Current(conn) /\ p > End(Done) /\ conn.left >= End(sent) - pos
  <2>1. Good /\ Current(conn) /\ pos > End(Done) /\ conn.left >= End(sent) - pos
    BY <1>4 DEF Place, GoodPlace, BadPlace
  <2>2. Done \in 0..1
    <3>1. Done \in Nat
      BY DEF TypeInv, Done
    <3> QED
      BY <1>1, <2>1, <3>1 DEF Current
  <2> HIDE DEF Done
  <2>3. End(Done) \in Nat
    BY <1>2, <2>2
  <2> QED
    BY <1>1, <2>1, <2>3
<1> QED
  BY <1>1, <1>3, <1>4 DEF Reading

\* A connection of which only the lengths differ is about the same request.
LEMMA SameReading ==
  ASSUME TypeInv, NEW s, NEW p, Reading(s, p), NEW t \in Conn,
         t.called = s.called, t.rest = s.rest, t.req = s.req
  PROVE  Reading(t, p) /\ Cur(t) = Cur(s)
BY DEF Reading, Current, Cur

LEMMA HandleBodyReadLeaves ==
  ASSUME TypeInv, InTurn, Fits(conn, pos), Place(conn, pos), conn.op = "body",
         pos + conn.want <= End(sent), NEW s2 \in HandleBodyRead(conn)
  PROVE  After(s2, pos + conn.want)
<1> DEFINE p == pos + conn.want
           l == conn.left - conn.want
           e == conn.cur + conn.want
           u == [conn EXCEPT !.left = l]
           v == [u EXCEPT !.cur = e]
<1>1. /\ conn \in Conn /\ conn.cur \in Nat /\ conn.size \in 1..MaxSize /\ conn.req \in 1..2
      /\ conn.want = (IF conn.left <= conn.size THEN conn.left ELSE conn.size)
      /\ conn.left \in 0..(Width - 1) /\ pos \in Nat /\ reqs \in [1..2 -> Requests]
      /\ Cur(conn).body > 0
  BY DEF TypeInv, Fits, Conn
<1>2. /\ conn.want \in 0..conn.left /\ p \in Nat /\ pos <= p /\ l \in 0..(Width - 1) /\ e \in Nat
      /\ conn.want \in 0..(Width - 1)
  BY <1>1, HttpSessionAssumption
<1>3. /\ Single => Good /\ conn.left >= End(sent) - pos
      /\ Reading(conn, p) /\ End(sent) \in Nat
  BY <1>2, InBody
<1>4. Single => Good /\ l >= End(sent) - p /\ (l = 0 => p = End(sent))
  BY <1>1, <1>2, <1>3
<1>5. Reduced(conn) = u
  BY <1>1, <1>2, MinusIs DEF Reduced
<1>6. Kept(conn) = v
  BY <1>5 DEF Kept
<1>7. /\ u \in Conn /\ u.left = l /\ u.cur = conn.cur /\ u.called = conn.called /\ u.rest = conn.rest
      /\ u.req = conn.req /\ u.split = conn.split /\ u.size = conn.size
  BY <1>1, <1>2 DEF Conn
<1> HIDE DEF u
<1>8. /\ v \in Conn /\ v.left = l /\ v.cur = e /\ v.called = conn.called /\ v.rest = conn.rest
      /\ v.req = conn.req /\ v.split = conn.split /\ v.size = conn.size
  BY <1>2, <1>7 DEF Conn
<1> HIDE DEF v
<1>9. Reading(u, p) /\ Cur(u) = Cur(conn) /\ Reading(v, p) /\ Cur(v) = Cur(conn)
  BY <1>3, <1>7, <1>8, SameReading
<1>10. /\ Cur(conn).type \in {"string", "form", "octet", "multipart"}
       /\ TotalLen(Cur(conn)) \in Nat /\ End(conn.req) \in Nat
  BY <1>1, EndIs DEF Cur
<1>a. Gathers(v, p) => Gathers(conn, pos)
  BY <1>1, <1>2, <1>8, <1>9, <1>10 DEF Gathers, Miscounts
<1> HIDE DEF p
<1> SUFFICES After(s2, p)
  BY DEF p
<1>11. CASE l = 0 /\ s2 \in CallAndWrite(v) \cup ResponseBack(v)
  BY <1>2, <1>4, <1>9, <1>11, CallLeaves, ResponseBackLeaves
<1>12. CASE l = 0 /\ s2 \in CallThenWrite(u)
  BY <1>2, <1>4, <1>9, <1>12, CallLeaves DEF CallAndWrite
<1>13. CASE s2 \in ResponseBack(conn)
  BY <1>2, <1>3, <1>13, ResponseBackLeaves
<1>14. CASE l # 0 /\ s2 \in ReadBody(u) /\ Cur(conn).type \in {"octet", "multipart"}
  <2>1. u.cur = 0
    BY <1>7, <1>14 DEF Fits
  <2>2. u.left > 0 /\ (Single => Good /\ u.left >= End(sent) - p) /\ u.req \in 1..2 /\ Cur(u).body > 0
    BY <1>1, <1>2, <1>4, <1>7, <1>9, <1>14
  <2>3. ~Gathers(u, p)
    BY <1>9, <1>14 DEF Gathers
  <2> HIDE DEF l
  <2> QED
    BY <1>2, <1>9, <1>14, <2>1, <2>2, <2>3, ReadBodyLeaves
<1>15. CASE l # 0 /\ s2 \in ReadBody(v) /\ Cur(conn).type \in {"string", "form"}
  <2>1. v.left > 0 /\ (Single => Good /\ v.left >= End(sent) - p) /\ v.req \in 1..2 /\ Cur(v).body > 0
    BY <1>1, <1>2, <1>4, <1>8, <1>9, <1>15
  <2>2. Cur(v).type \notin {"octet", "multipart"}
    BY <1>9, <1>15
  <2>3. ASSUME Gathers(v, p)
        PROVE  v.cur + v.left = TotalLen(Cur(v)) /\ TotalLen(Cur(v)) <= v.size
    <3>1. conn.cur + conn.left = TotalLen(Cur(conn)) /\ TotalLen(Cur(conn)) <= conn.size
      BY <1>a, <2>3 DEF Fits
    <3> QED
      BY <1>1, <1>2, <1>8, <1>9, <3>1
  <2> HIDE DEF l, e
  <2> QED
    BY <1>2, <1>9, <1>15, <2>1, <2>2, <2>3, ReadBodyLeaves
<1>16. CASE PastTheEnd(conn, conn.want)
  <2>1. s2 \in Broken(conn)
    BY <1>16 DEF HandleBodyRead
  <2>2. conn \in Conn /\ conn.called = 0 /\ ~conn.rest /\ (Single => Good)
    BY <1>3 DEF Reading
  <2> QED
    BY <2>1, <2>2, BrokenLeaves
<1>17. CASE ~PastTheEnd(conn, conn.want) /\ Cur(conn).type = "string"
  BY <1>5, <1>6, <1>7, <1>11, <1>15, <1>17 DEF HandleBodyRead, ContentType, StringBodyRead, HandleBody
<1>18. CASE ~PastTheEnd(conn, conn.want) /\ Cur(conn).type = "form"
  BY <1>5, <1>6, <1>7, <1>11, <1>15, <1>18 DEF HandleBodyRead, ContentType, FormBodyRead, HandleUrlencoded
<1>19. CASE ~PastTheEnd(conn, conn.want) /\ Cur(conn).type = "octet"
  BY <1>5, <1>7, <1>12, <1>14, <1>19 DEF HandleBodyRead, ContentType, OctetBodyRead
<1>20. CASE ~PastTheEnd(conn, conn.want) /\ Cur(conn).type = "multipart"
  BY <1>5, <1>7, <1>12, <1>13, <1>14, <1>20 DEF HandleBodyRead, ContentType, MultipartBodyRead
<1> QED
  BY <1>10, <1>16, <1>17, <1>18, <1>19, <1>20

LEMMA HandleChunkReadLeaves ==
  ASSUME TypeInv, InTurn, Fits(conn, pos), Place(conn, pos), conn.op = "chunk",
         NEW n \in Nat, pos + n <= End(sent), NEW s2 \in HandleChunkRead(conn, n)
  PROVE  After(s2, pos + n)
<1> DEFINE p == pos + n
           l == Minus(conn.left, n)
           t == [conn EXCEPT !.left = l]
<1>1. p \in Nat /\ pos <= p
  BY DEF TypeInv
<1>2. /\ Reading(conn, p) /\ conn.req \in 1..2 /\ Cur(conn).body > 0
      /\ Single => Good /\ conn.left >= End(sent) - pos
      /\ conn.left \in 0..(Width - 1) /\ End(sent) \in Nat /\ pos \in Nat
      /\ conn \in Conn /\ conn.called = 0 /\ ~conn.rest
  BY <1>1, InBody
<1> SUFFICES After(s2, p)
  OBVIOUS
<1>3. CASE n > conn.size /\ s2 \in Broken(conn)
  BY <1>2, <1>3, BrokenLeaves
<1>4. CASE n <= conn.size /\ s2 \in (ResponseBack(conn) \cup (IF t.left = 0 THEN HandleChunkedResponse(t) ELSE {[t EXCEPT !.want = conn.size]}))
  <2>1. n \in 0..(Width - 1) /\ conn.size \in Nat
    BY <1>2, <1>4, HttpSessionAssumption DEF Conn
  <2>2. l = (IF n <= conn.left THEN conn.left - n ELSE conn.left + Width - n) /\ l \in 0..(Width - 1)
    BY <1>2, <2>1, MinusIs
  <2>3. Single => /\ Good /\ l >= End(sent) - p
                  /\ l = 0 => p = End(sent)
    BY <1>2, <2>1, <2>2, HttpSessionAssumption
  <2> HIDE DEF l, p
  <2>4. /\ t \in Conn /\ t.left = l /\ t.called = conn.called /\ t.rest = conn.rest
        /\ t.req = conn.req /\ t.op = "chunk" /\ t.size = conn.size
    BY <1>2, <2>2 DEF Conn
  <2> HIDE DEF t
  <2>5. Reading(t, p) /\ Cur(t) = Cur(conn)
    BY <1>2, <2>4, SameReading
  <2>6. CASE s2 \in ResponseBack(conn)
    BY <1>1, <1>2, <2>6, ResponseBackLeaves
  <2>7. CASE t.left = 0 /\ s2 \in HandleChunkedResponse(t)
    BY <1>1, <2>3, <2>4, <2>5, <2>7, ChunkedResponseLeaves
  <2>8. CASE s2 = [t EXCEPT !.want = conn.size]
    <3>1. /\ s2 \in Conn /\ s2.left = l /\ s2.called = conn.called /\ s2.rest = conn.rest
          /\ s2.req = conn.req /\ s2.op = "chunk"
      BY <2>1, <2>4, <2>8 DEF Conn
    <3>2. Fits(s2, p)
      BY <1>2, <3>1 DEF Fits, Cur
    <3>3. Place(s2, p)
      BY <1>2, <2>3, <3>1 DEF Place, GoodPlace, Current, Reading
    <3> QED
      BY <1>2, <3>1, <3>2, <3>3 DEF After
  <2> QED
    BY <1>4, <2>6, <2>7, <2>8
<1>5. n > conn.size \/ n <= conn.size
  BY <1>2, HttpSessionAssumption DEF Conn
<1> QED
  BY <1>3, <1>4, <1>5 DEF HandleChunkRead

----------------------------------------------------------------------------
(* The steps                                                                *)

\* Fits is about the requests, the connection and the place in the stream.
LEMMA FitsSame ==
  ASSUME reqs' = reqs, Fits(conn', pos')
  PROVE  Fits(conn, pos)'
BY DEF Fits, Gathers, Miscounts, Cur, TotalLen, End

\* A step that leaves only connections of which After holds keeps the invariant.
LEMMA BecomesKeeps ==
  ASSUME ConnInv, NEW next, Becomes(next), UNCHANGED <<reqs, client, sent, answers>>,
         pos' \in Nat, pos' <= End(sent), \A s \in next : After(s, pos'),
         \/ conn.op \in {"accept", "read", "body", "chunk"}
         \/ Single => \A s \in next : s.called = 0 /\ s.op \in {"write", "released"}
  PROVE  ConnInv'
<1>1. PICK s \in next : conn' = [s EXCEPT !.called = 0] /\ calls' = calls \o [j \in 1..s.called |-> s.req]
  BY DEF Becomes
<1>2. /\ s \in Conn /\ Fits(s, pos') /\ Place(s, pos')
      /\ Single => s.called = 0 \/ (s.called = 1 /\ Good /\ Current(s) /\ s.op \in {"write", "none"})
  BY DEF After
<1>3. /\ conn' \in Conn /\ conn'.called = 0 /\ conn'.op = s.op /\ conn'.want = s.want /\ conn'.cur = s.cur
      /\ conn'.size = s.size /\ conn'.left = s.left /\ conn'.req = s.req /\ conn'.split = s.split
      /\ conn'.reply = s.reply /\ conn'.rest = s.rest
  BY <1>1, <1>2 DEF Conn
<1>4. /\ Single' = Single /\ Good' = Good /\ Done' = Done /\ End(sent)' = End(sent)
      /\ End(Done)' = End(Done) /\ End(sent - 1)' = End(sent - 1)
  BY DEF Single, Good, Done, End
<1>5. calls \in Seq(0..2) /\ s.called \in Nat /\ s.req \in 0..2
  BY <1>2 DEF ConnInv, TypeInv, Conn
<1> DEFINE d == [j \in 1..s.called |-> s.req]
<1>a. d \in Seq(0..2) /\ Len(d) = s.called /\ \A j \in 1..s.called : d[j] = s.req
  BY <1>5
<1>b. calls' = calls \o d
  BY <1>1
<1> HIDE DEF d
<1>6. /\ calls' \in Seq(0..2) /\ DOMAIN calls' = 1..(Len(calls) + s.called)
      /\ DOMAIN calls = 1..Len(calls) /\ Len(calls) \in Nat
      /\ \A i \in 1..Len(calls) : calls'[i] = calls[i]
      /\ \A i \in (Len(calls) + 1)..(Len(calls) + s.called) : calls'[i] = s.req
  BY <1>5, <1>a, <1>b
<1>7. TypeInv'
  BY <1>3, <1>4, <1>6 DEF ConnInv, TypeInv
<1>8. Fits(conn, pos)'
  <2>1. Fits(conn', pos')
    BY <1>2, <1>3 DEF Fits, Gathers, Miscounts, Cur
  <2> QED
    BY <2>1, FitsSame
<1>9. Place(conn, pos)'
  BY <1>2, <1>3, <1>4 DEF Place, GoodPlace, BadPlace, Current
<1>10. InTurn' /\ Answers'
  BY <1>4 DEF ConnInv, InTurn, Answers
<1>11. Calls'
  <2>1. Single => \A i, j \in DOMAIN calls : calls[i] = calls[j] => i = j
    BY DEF ConnInv, Calls
  <2>2. Single /\ Good => \A i \in DOMAIN calls :
          calls[i] <= IF conn.op \in {"accept", "read", "body", "chunk"} THEN Done ELSE Done + 1
    BY DEF ConnInv, Calls
  <2>3. Done \in Nat /\ \A i \in DOMAIN calls : calls[i] \in Nat
    BY <1>5 DEF ConnInv, TypeInv, Done
  <2>4. CASE ~Single
    BY <1>4, <2>4 DEF Calls
  <2>5. CASE Single /\ s.called = 0
    <3>1. DOMAIN calls' = DOMAIN calls /\ \A i \in DOMAIN calls : calls'[i] = calls[i]
      BY <1>6, <2>5
    <3>2. ASSUME Good, NEW i \in DOMAIN calls
          PROVE  calls[i] <= IF s.op \in {"accept", "read", "body", "chunk"} THEN Done ELSE Done + 1
      BY <2>2, <2>3, <2>5, <3>2
    <3> QED
      BY <1>3, <1>4, <2>1, <3>1, <3>2 DEF Calls
  <2>6. CASE Single /\ s.called = 1
    <3>1. Good /\ s.req = Done + 1 /\ s.op \in {"write", "none"}
      BY <1>2, <2>6 DEF Current
    <3>2. \A i \in DOMAIN calls : calls[i] <= Done
      BY <2>2, <2>6, <3>1
    <3>3. /\ DOMAIN calls' = 1..(Len(calls) + 1) /\ calls'[Len(calls) + 1] = Done + 1
          /\ \A i \in 1..Len(calls) : calls'[i] = calls[i] /\ calls[i] <= Done
      BY <1>6, <2>6, <3>1, <3>2
    <3>4. \A i \in DOMAIN calls' : calls'[i] <= Done + 1
      <4>1. ASSUME NEW i \in DOMAIN calls' PROVE calls'[i] <= Done + 1
        <5>1. CASE i = Len(calls) + 1
          BY <2>3, <3>3, <5>1
        <5>2. CASE i \in 1..Len(calls)
          <6>1. calls'[i] = calls[i] /\ calls[i] <= Done /\ calls[i] \in Nat
            BY <1>6, <2>3, <3>3, <5>2
          <6> QED
            BY <2>3, <6>1
        <5>3. Len(calls) \in Nat
          BY <1>6
        <5>4. i \in 1..(Len(calls) + 1)
          BY <3>3
        <5>5. i \in 1..Len(calls) \/ i = Len(calls) + 1
          BY <5>3, <5>4
        <5> QED
          BY <5>1, <5>2, <5>5
      <4> QED
        BY <4>1
    <3>5. \A i, j \in DOMAIN calls' : calls'[i] = calls'[j] => i = j
      BY <1>6, <2>1, <2>3, <2>6, <3>3
    <3> QED
      BY <1>3, <1>4, <3>1, <3>4, <3>5 DEF Calls
  <2> QED
    BY <1>2, <2>4, <2>5, <2>6
<1> QED
  BY <1>7, <1>8, <1>9, <1>10, <1>11 DEF ConnInv

LEMMA LengthsAre ==
  ASSUME TypeInv
  PROVE  conn.want \in Nat /\ pos \in Nat /\ End(sent) \in Nat /\ pos <= End(sent)
<1>1. conn.want \in Nat
  BY DEF TypeInv, Conn
<1>2. End(0) \in Nat /\ End(1) \in Nat /\ End(2) \in Nat
  BY EndIs DEF TypeInv
<1>3. sent \in 0..2 /\ pos \in Nat /\ pos <= End(sent)
  BY DEF TypeInv
<1> QED
  BY <1>1, <1>2, <1>3

LEMMA InitConn == Init => ConnInv
<1> SUFFICES ASSUME Init PROVE ConnInv
  OBVIOUS
<1> USE HttpSessionAssumption DEF Init
<1>1. /\ Fresh \in Conn /\ Fresh.called = 0 /\ Fresh.op = "accept" /\ Fresh.rest = FALSE
  BY DEF Fresh, NoReply, Conn, Reply, Statuses, Ops
<1>2. reqs \in [1..2 -> Requests]
  OBVIOUS
<1>3. End(sent) = 0 /\ Done = 0 /\ DOMAIN answers = {} /\ DOMAIN calls = {}
  BY <1>2, EndIs DEF Done
<1>4. TypeInv
  BY <1>1, <1>2, <1>3 DEF TypeInv
<1>5. Fits(conn, pos) /\ Place(conn, pos)
  BY <1>1, <1>3 DEF Fits, Place, GoodPlace, BadPlace, Good
<1>6. InTurn /\ Answers /\ Calls
  BY <1>2, <1>3 DEF InTurn, Answers, Calls, Good
<1> QED
  BY <1>4, <1>5, <1>6 DEF ConnInv

LEMMA ReadDoneKeeps ==
  ASSUME ConnInv, ReadDone
  PROVE  ConnInv'
<1>1. PICK n \in (IF conn.want = 0 THEN {0} ELSE 1..Min({conn.want, Wire})) :
        pos' = pos + n /\ Becomes(HandleRead(conn, n))
  BY DEF ReadDone
<1>2. conn.want \in Nat /\ pos \in Nat /\ End(sent) \in Nat /\ pos <= End(sent)
  BY LengthsAre DEF ConnInv
<1>3. n \in Nat /\ n <= conn.want /\ (n = 0 => conn.want = 0) /\ pos + n <= End(sent)
  <2>1. CASE conn.want = 0
    BY <1>1, <1>2, <2>1
  <2>2. CASE conn.want # 0
    <3>1. Min({conn.want, Wire}) = IF conn.want <= Wire THEN conn.want ELSE Wire
      BY <1>2, MinIs DEF Wire
    <3> QED
      BY <1>1, <1>2, <2>2, <3>1 DEF Wire
  <2> QED
    BY <2>1, <2>2
<1>4. conn.op = "read" /\ UNCHANGED <<reqs, client, sent, answers>>
  BY DEF ReadDone
<1>5. \A s \in HandleRead(conn, n) : After(s, pos + n)
  BY <1>3, <1>4, HandleReadLeaves DEF ConnInv
<1> QED
  BY <1>1, <1>2, <1>3, <1>4, <1>5, BecomesKeeps

LEMMA BodyDoneKeeps ==
  ASSUME ConnInv, BodyDone
  PROVE  ConnInv'
<1>1. /\ conn.op = "body" /\ pos' = pos + conn.want /\ Becomes(HandleBodyRead(conn))
      /\ UNCHANGED <<reqs, client, sent, answers>> /\ Wire >= conn.want
  BY DEF BodyDone
<1>2. conn.want \in Nat /\ pos \in Nat /\ End(sent) \in Nat
  BY LengthsAre DEF ConnInv
<1>3. pos' \in Nat /\ pos + conn.want <= End(sent)
  BY <1>1, <1>2 DEF Wire
<1>4. \A s \in HandleBodyRead(conn) : After(s, pos + conn.want)
  BY <1>1, <1>3, HandleBodyReadLeaves DEF ConnInv
<1> QED
  BY <1>1, <1>3, <1>4, BecomesKeeps

LEMMA ChunkDoneKeeps ==
  ASSUME ConnInv, ChunkDone
  PROVE  ConnInv'
<1>1. PICK n \in 1..Min({conn.want, Wire}) : pos' = pos + n /\ Becomes(HandleChunkRead(conn, n))
  BY DEF ChunkDone
<1>2. conn.want \in Nat /\ pos \in Nat /\ End(sent) \in Nat
  BY LengthsAre DEF ConnInv
<1>3. n \in Nat /\ pos + n <= End(sent)
  <2>1. Min({conn.want, Wire}) = IF conn.want <= Wire THEN conn.want ELSE Wire
    BY <1>2, MinIs DEF Wire
  <2> QED
    BY <1>1, <1>2, <2>1 DEF Wire
<1>4. conn.op = "chunk" /\ UNCHANGED <<reqs, client, sent, answers>>
  BY DEF ChunkDone
<1>5. \A s \in HandleChunkRead(conn, n) : After(s, pos + n)
  BY <1>3, <1>4, HandleChunkReadLeaves DEF ConnInv
<1> QED
  BY <1>1, <1>2, <1>3, <1>4, <1>5, BecomesKeeps

LEMMA ReadFailsKeeps ==
  ASSUME ConnInv, ReadFails
  PROVE  ConnInv'
<1>1. /\ conn.op \in {"read", "body", "chunk"} /\ pos' = pos /\ UNCHANGED <<reqs, client, sent, answers>>
      /\ Becomes(IF conn.op = "read" THEN Release(conn)
                 ELSE IF conn.op = "body" /\ PastTheEnd(conn, Wire) THEN Broken(conn)
                 ELSE ResponseBack(conn))
  BY DEF ReadFails
<1>2. pos \in Nat /\ pos <= End(sent) /\ conn \in Conn /\ conn.called = 0 /\ ~conn.rest
  BY <1>1 DEF ConnInv, TypeInv, Fits
<1>3. CASE conn.op = "read"
  <2>1. \A s \in Release(conn) : After(s, pos)
    BY <1>2, ReleaseLeaves
  <2> QED
    BY <1>1, <1>2, <1>3, <2>1, BecomesKeeps
<1>4. CASE conn.op # "read"
  <2>1. Reading(conn, pos) /\ (Single => Good)
    BY <1>1, <1>2, <1>4, InBody DEF ConnInv
  <2>2. \A s \in ResponseBack(conn) : After(s, pos)
    BY <1>2, <2>1, ResponseBackLeaves DEF ConnInv
  <2>3. \A s \in Broken(conn) : After(s, pos)
    BY <1>2, <2>1, BrokenLeaves
  <2>4. Becomes(Broken(conn)) \/ Becomes(ResponseBack(conn))
    BY <1>1, <1>4
  <2> QED
    BY <1>1, <1>2, <2>2, <2>3, <2>4, BecomesKeeps
<1> QED
  BY <1>3, <1>4

\* A connection whose application is not called becomes one of next, as it is.
LEMMA BecomesOne ==
  ASSUME calls \in Seq(0..2), NEW next, Becomes(next), \A s \in next : s \in Conn /\ s.called = 0
  PROVE  conn' \in next /\ calls' = calls
<1>1. PICK s \in next : conn' = [s EXCEPT !.called = 0] /\ calls' = calls \o [j \in 1..s.called |-> s.req]
  BY DEF Becomes
<1>2. conn' = s
  BY <1>1 DEF Conn
<1> DEFINE d == [j \in 1..s.called |-> s.req]
<1>3. d = << >>
  BY <1>1
<1> HIDE DEF d
<1>4. calls' = calls \o d
  BY <1>1 DEF d
<1> QED
  BY <1>1, <1>2, <1>3, <1>4

LEMMA ActivateKeeps ==
  ASSUME ConnInv, Activate
  PROVE  ConnInv'
<1> DEFINE s == OnConnect(conn)
<1>1. /\ conn \in Conn /\ conn.op = "accept" /\ conn.called = 0 /\ ~conn.rest
      /\ conn' \in DoRead(s) /\ UNCHANGED <<reqs, client, sent, pos, calls, answers>>
  BY DEF Activate, ConnInv, TypeInv, Fits
<1>2. s \in Conn /\ s.called = 0 /\ ~s.rest
  BY <1>1 DEF OnConnect, Conn
<1> HIDE DEF s
<1>3. Single => Good /\ pos = 0 /\ Done = 0
  BY <1>1 DEF ConnInv, Place, GoodPlace, BadPlace
<1>4. TypeInv /\ pos \in Nat /\ End(0) = 0
  BY EndIs DEF ConnInv, TypeInv
<1>5. After(conn', pos) /\ conn'.called = 0
  BY <1>1, <1>2, <1>3, <1>4, ReadLeaves, DoReadIs
<1>6. /\ Single' = Single /\ Good' = Good /\ Done' = Done /\ End(sent)' = End(sent)
      /\ End(Done)' = End(Done) /\ End(sent - 1)' = End(sent - 1)
  BY <1>1 DEF Single, Good, Done, End
<1>7. TypeInv'
  BY <1>1, <1>5, <1>6 DEF ConnInv, TypeInv, After
<1>8. Fits(conn, pos)'
  BY <1>1, <1>5, FitsSame DEF After
<1>9. Place(conn, pos)'
  BY <1>1, <1>5, <1>6 DEF After, Place, GoodPlace, BadPlace, Current
<1>10. conn'.op = "read"
  BY <1>1, <1>2, DoReadIs
<1>11. InTurn' /\ Answers' /\ Calls'
  BY <1>1, <1>6, <1>10 DEF ConnInv, InTurn, Answers, Calls
<1> QED
  BY <1>7, <1>8, <1>9, <1>11 DEF ConnInv

LEMMA ClientSendsKeeps ==
  ASSUME ConnInv, ClientSends
  PROVE  ConnInv'
<1>1. /\ client # "closed" /\ sent < 2 /\ sent' = sent + 1
      /\ (client = "waits" /\ sent > 0) => Done = sent /\ answers[sent].status # "bad"
      /\ UNCHANGED <<conn, reqs, client, pos, calls, answers>>
  <2>1. Len(reqs) = 2
    BY DEF ConnInv, TypeInv
  <2> QED
    BY <2>1 DEF ClientSends, Done
<1>2. /\ sent \in 0..2 /\ Done \in Nat /\ DOMAIN answers = 1..Done /\ pos \in Nat
      /\ pos <= End(sent) /\ End(sent) \in Nat
  BY LengthsAre DEF ConnInv, TypeInv, Done
<1>3. Single' = Single /\ Good' = Good /\ Done' = Done /\ End(Done)' = End(Done)
  BY <1>1 DEF Single, Good, Done, End
<1>4. End(sent)' >= End(sent)
  <2>1. End(0) \in Nat /\ End(1) \in Nat /\ End(2) \in Nat /\ End(0) <= End(1) /\ End(1) <= End(2)
    BY EndIs DEF ConnInv, TypeInv
  <2>2. End(sent)' = End(sent + 1)
    BY <1>1 DEF End
  <2> QED
    BY <1>1, <1>2, <2>1, <2>2
<1>5. End(sent)' \in Nat
  <2>1. End(1) \in Nat /\ End(2) \in Nat
    BY EndIs DEF ConnInv, TypeInv
  <2>2. End(sent)' = End(sent + 1)
    BY <1>1 DEF End
  <2> QED
    BY <1>1, <1>2, <2>1, <2>2
<1>6. TypeInv'
  <2>1. sent' \in 0..2 /\ pos <= End(sent)'
    BY <1>1, <1>2, <1>4, <1>5
  <2> QED
    BY <1>1, <2>1 DEF ConnInv, TypeInv
<1>7. ASSUME Single PROVE Good /\ sent = Done
  <2>1. client = "waits"
    BY <1>1, <1>7 DEF Single
  <2>2. Good => sent \in {Done, Done + 1}
    BY <1>7 DEF ConnInv, InTurn
  <2>3. ~Good => sent \in 1..Done /\ answers[sent].status = "bad"
    BY <1>7 DEF ConnInv, InTurn
  <2> QED
    BY <1>1, <1>2, <2>1, <2>2, <2>3
<1>8. Fits(conn, pos)'
  BY <1>1, FitsSame DEF ConnInv
<1>9. Place(conn, pos)'
  BY <1>1, <1>2, <1>3, <1>7 DEF ConnInv, Place, GoodPlace, Current
<1>10. InTurn' /\ Answers' /\ Calls'
  <2>1. Single' => Good' /\ sent' = Done' + 1
    BY <1>1, <1>3, <1>7
  <2>2. InTurn'
    BY <1>1, <1>3, <2>1 DEF ConnInv, InTurn
  <2>3. Answers' /\ Calls'
    BY <1>1, <1>3 DEF ConnInv, Answers, Calls
  <2> QED
    BY <2>2, <2>3
<1> QED
  BY <1>6, <1>8, <1>9, <1>10 DEF ConnInv

LEMMA ClientClosesKeeps ==
  ASSUME ConnInv, ClientCloses
  PROVE  ConnInv'
<1>1. client' = "closed" /\ UNCHANGED <<conn, reqs, sent, pos, calls, answers>> /\ client # "closed"
  BY DEF ClientCloses
<1>2. ~Single' /\ End(sent)' = End(sent)
  BY <1>1 DEF Single, End
<1>3. TypeInv'
  BY <1>1, <1>2 DEF ConnInv, TypeInv
<1>4. Fits(conn, pos)'
  BY <1>1, FitsSame DEF ConnInv
<1>5. Place(conn, pos)' /\ InTurn' /\ Answers' /\ Calls'
  BY <1>2 DEF Place, InTurn, Answers, Calls
<1> QED
  BY <1>3, <1>4, <1>5 DEF ConnInv

LEMMA WriteFailsKeeps ==
  ASSUME ConnInv, WriteFails
  PROVE  ConnInv'
<1> DEFINE next == IF conn.rest THEN DoReadHead(conn)
                   ELSE IF conn.reply.chunked THEN ResponseBack(conn) ELSE Release(conn)
<1>1. /\ conn.op = "write" /\ pos' = pos /\ UNCHANGED <<reqs, client, sent, answers>>
      /\ Becomes(next)
  BY DEF WriteFails
<1>2. TypeInv /\ pos \in Nat /\ pos <= End(sent) /\ conn \in Conn /\ conn.called = 0
  BY DEF ConnInv, TypeInv
<1>3. CASE conn.rest
  <2>1. ~Single /\ conn.cur <= conn.size /\ (conn.cur < MaxSize => conn.cur < conn.size)
    BY <1>1, <1>3 DEF ConnInv, Fits, Place, GoodPlace, BadPlace
  <2>2. \A s \in DoReadHead(conn) : After(s, pos)
    BY <1>2, <2>1, ReadHeadLeaves
  <2>3. next = DoReadHead(conn)
    BY <1>3
  <2> HIDE DEF next
  <2> QED
    BY <1>1, <1>2, <2>1, <2>2, <2>3, BecomesKeeps
<1>4. CASE ~conn.rest /\ conn.reply.chunked
  <2>1. Reading(conn, pos)
    BY <1>1, <1>2, <1>4 DEF ConnInv, Reading, Place, GoodPlace, BadPlace
  <2>2. \A s \in ResponseBack(conn) : After(s, pos)
    BY <1>2, <2>1, ResponseBackLeaves
  <2>3. \A s \in ResponseBack(conn) : s.called = 0 /\ s.op = "write"
    BY <1>2 DEF ResponseBack, DoWrite, Conn
  <2>4. next = ResponseBack(conn)
    BY <1>4
  <2> HIDE DEF next
  <2> QED
    BY <1>1, <1>2, <2>2, <2>3, <2>4, BecomesKeeps
<1>5. CASE ~conn.rest /\ ~conn.reply.chunked
  <2>1. \A s \in Release(conn) : After(s, pos) /\ s.called = 0 /\ s.op = "released"
    BY <1>2, <1>5, ReleaseLeaves, ReleaseIs
  <2>2. next = Release(conn)
    BY <1>5
  <2> HIDE DEF next
  <2> QED
    BY <1>1, <1>2, <2>1, <2>2, BecomesKeeps
<1> QED
  BY <1>3, <1>4, <1>5

\* What follows a response: the rest of a pipeline is read on, or a request is read
\* from the start of the buffer, or the connection is released.
LEMMA NextIs ==
  ASSUME ConnInv, conn.op = "write",
         NEW s \in IF conn.rest THEN DoReadHead(conn)
                   ELSE IF conn.reply.chunked THEN DoRead(conn) ELSE HandleWrite(conn)
  PROVE  /\ s \in Conn /\ s.called = 0 /\ Fits(s, pos)
         /\ Single => (s.op = "read" /\ s.cur = 0) \/ s.op = "released"
<1>1. TypeInv /\ conn \in Conn /\ conn.called = 0 /\ pos \in Nat
  BY DEF ConnInv, TypeInv
<1>2. CASE conn.rest
  <2>1. ~Single /\ conn.cur <= conn.size /\ (conn.cur < MaxSize => conn.cur < conn.size)
    BY <1>2 DEF ConnInv, Fits, Place, GoodPlace, BadPlace
  <2>2. s \in DoReadHead(conn)
    BY <1>2
  <2>3. After(s, pos)
    BY <1>1, <2>1, <2>2, ReadHeadLeaves
  <2>4. s.called = 0
    BY <1>1, <2>2 DEF DoReadHead, Conn
  <2> QED
    BY <2>1, <2>3, <2>4 DEF After
<1>3. CASE ~conn.rest /\ s \in DoRead(conn)
  <2>1. /\ s \in Conn /\ s.op = "read" /\ s.want = s.size /\ s.split = FALSE /\ s.cur = 0
        /\ s.size \in 1..MaxSize /\ s.called = 0 /\ ~s.rest
    BY <1>1, <1>3, DoReadIs, ZenonT(60)
  <2>2. Fits(s, pos)
    BY <2>1 DEF Fits
  <2> QED
    BY <2>1, <2>2
<1>4. CASE ~conn.rest /\ s \in Release(conn)
  <2>1. s \in Conn /\ s.op = "released" /\ s.called = 0 /\ ~s.rest
    BY <1>1, <1>4, ReleaseIs
  <2>2. Fits(s, pos)
    BY <2>1 DEF Fits
  <2> QED
    BY <2>1, <2>2
<1> QED
  BY <1>2, <1>3, <1>4 DEF HandleWrite

LEMMA WriteDoneKeeps ==
  ASSUME ConnInv, WriteDone
  PROVE  ConnInv'
<1> DEFINE next == IF conn.rest THEN DoReadHead(conn)
                   ELSE IF conn.reply.chunked THEN DoRead(conn) ELSE HandleWrite(conn)
<1>1. /\ conn.op = "write" /\ pos' = pos /\ UNCHANGED <<reqs, client, sent>> /\ Becomes(next)
      /\ answers' = IF conn.reply.status = "none" THEN answers ELSE Append(answers, conn.reply)
  BY DEF WriteDone
<1>2. /\ TypeInv /\ pos \in Nat /\ pos <= End(sent) /\ sent \in 0..2 /\ conn \in Conn
      /\ calls \in Seq(0..2) /\ answers \in Seq(Reply) /\ conn.reply \in Reply
  BY DEF ConnInv, TypeInv, Conn
<1>3. \A s \in next : /\ s \in Conn /\ s.called = 0 /\ Fits(s, pos)
                      /\ Single => (s.op = "read" /\ s.cur = 0) \/ s.op = "released"
  BY <1>1, NextIs
<1> HIDE DEF next
<1>4. conn' \in next /\ calls' = calls
  BY <1>1, <1>2, <1>3, BecomesOne
<1>5. /\ Single' = Single /\ End(sent)' = End(sent) /\ End(sent - 1)' = End(sent - 1)
      /\ \A i : End(i)' = End(i)
  BY <1>1 DEF Single, End
<1>6. answers' \in Seq(Reply) /\ Done \in Nat /\ DOMAIN answers = 1..Done
  BY <1>1, <1>2 DEF Done
<1>7. TypeInv'
  BY <1>1, <1>2, <1>3, <1>4, <1>5, <1>6 DEF TypeInv
<1>8. Fits(conn, pos)'
  BY <1>1, <1>3, <1>4, FitsSame
<1>9. CASE ~Single
  BY <1>1, <1>5, <1>7, <1>8, <1>9 DEF ConnInv, Place, InTurn, Answers, Calls
<1>10. CASE Single
  <2>1. /\ conn.reply.status # "none" /\ answers' = Append(answers, conn.reply)
        /\ (conn'.op = "read" /\ conn'.cur = 0) \/ conn'.op = "released"
    BY <1>1, <1>3, <1>4, <1>10 DEF ConnInv, Place, GoodPlace, BadPlace
  <2>2. /\ Done' = Done + 1 /\ DOMAIN answers' = 1..(Done + 1)
        /\ \A i \in 1..Done : answers'[i] = answers[i]
        /\ answers'[Done + 1] = conn.reply
    BY <1>2, <1>6, <2>1 DEF Done
  <2>3. Good' <=> Good /\ conn.reply.status # "bad"
    BY <1>6, <2>2 DEF Good
  <2>4. Good => /\ sent = Done + 1 /\ conn.reply.req = Done + 1 /\ pos > End(Done)
                /\ conn.reply.status # "bad" => pos = End(sent)
    BY <1>1, <1>10 DEF ConnInv, Place, GoodPlace, Current
  <2>5. ~Good => /\ sent \in 1..Done /\ answers[sent].status = "bad"
                 /\ pos > End(sent - 1) /\ conn.reply.status = "bad"
    BY <1>1, <1>10 DEF ConnInv, Place, BadPlace, InTurn
  <2>6. Place(conn, pos)'
    <3>1. CASE Good'
      <4>1. pos' - 0 = End(Done)' /\ 0 <= pos'
        BY <1>1, <1>2, <1>5, <2>2, <2>3, <2>4, <3>1
      <4> QED
        BY <2>1, <3>1, <4>1 DEF Place, GoodPlace
    <3>2. CASE ~Good'
      <4>1. pos > End(sent - 1)
        BY <1>6, <2>3, <2>4, <2>5, <3>2
      <4>2. pos' - 0 > End(sent - 1)' /\ 0 <= pos'
        BY <1>1, <1>2, <1>5, <4>1
      <4> QED
        BY <2>1, <3>2, <4>2 DEF Place, BadPlace
    <3> QED
      BY <3>1, <3>2
  <2>7. InTurn'
    <3>1. Good' => sent' = Done'
      BY <1>1, <2>2, <2>3, <2>4
    <3>2. ~Good' => sent' \in 1..Done' /\ answers'[sent'].status = "bad"
      BY <1>1, <1>6, <2>2, <2>3, <2>4, <2>5
    <3> QED
      BY <3>1, <3>2 DEF InTurn
  <2>8. Answers'
    <3> SUFFICES ASSUME NEW i \in DOMAIN answers', \A j \in 1..(i - 1) : answers'[j].status # "bad"
                 PROVE  answers'[i].req = i
      BY DEF Answers
    <3>1. CASE i \in 1..Done
      <4>1. \A j \in 1..(i - 1) : answers[j].status # "bad"
        BY <1>6, <2>2, <3>1
      <4> QED
        BY <1>6, <1>10, <2>2, <3>1, <4>1 DEF ConnInv, Answers
    <3>2. CASE i = Done + 1
      <4>1. Good
        BY <1>6, <2>2, <3>2 DEF Good
      <4> QED
        BY <2>2, <2>4, <3>2, <4>1
    <3> QED
      BY <1>6, <2>2, <3>1, <3>2
  <2>9. Calls'
    <3>1. Good => \A i \in DOMAIN calls : calls[i] <= Done + 1
      BY <1>1, <1>10 DEF ConnInv, Calls
    <3>2. Good' => \A i \in DOMAIN calls' :
            calls'[i] <= IF conn'.op \in {"accept", "read", "body", "chunk"} THEN Done' ELSE Done' + 1
      <4> SUFFICES ASSUME Good', NEW i \in DOMAIN calls' PROVE calls'[i] <= Done' /\ calls'[i] <= Done' + 1
        OBVIOUS
      <4>1. calls[i] <= Done + 1 /\ calls[i] \in Nat
        BY <1>2, <1>4, <2>3, <3>1
      <4> QED
        BY <1>4, <1>6, <2>2, <4>1
    <3>3. \A i, j \in DOMAIN calls' : calls'[i] = calls'[j] => i = j
      BY <1>4, <1>10 DEF ConnInv, Calls
    <3> QED
      BY <3>2, <3>3 DEF Calls
  <2> QED
    BY <1>7, <1>8, <2>6, <2>7, <2>8, <2>9 DEF ConnInv
<1> QED
  BY <1>9, <1>10

LEMMA ConnInvariance == Spec => []ConnInv
<1>1. ASSUME ConnInv, UNCHANGED vars PROVE ConnInv'
  <2> USE <1>1 DEF vars
  <2>1. /\ Single' = Single /\ Good' = Good /\ Done' = Done
        /\ End(sent)' = End(sent) /\ End(Done)' = End(Done) /\ End(sent - 1)' = End(sent - 1)
    BY DEF Single, Good, Done, End
  <2>2. TypeInv'
    BY <2>1 DEF ConnInv, TypeInv
  <2>3. Fits(conn, pos)'
    BY FitsSame DEF ConnInv
  <2>4. Place(conn, pos)'
    BY <2>1 DEF ConnInv, Place, GoodPlace, BadPlace, Current
  <2>5. InTurn' /\ Answers' /\ Calls'
    BY <2>1 DEF ConnInv, InTurn, Answers, Calls
  <2> QED
    BY <2>2, <2>3, <2>4, <2>5 DEF ConnInv
<1>2. ConnInv /\ [Next]_vars => ConnInv'
  BY <1>1, ActivateKeeps, ReadDoneKeeps, BodyDoneKeeps, ChunkDoneKeeps, ReadFailsKeeps, WriteDoneKeeps,
     WriteFailsKeeps, ClientSendsKeeps, ClientClosesKeeps DEF Next, Completion
<1> QED
  BY <1>2, InitConn, PTL DEF Spec

----------------------------------------------------------------------------

\* For requests and a buffer of any length, and reads that end anywhere: every read
\* has room for at least a byte and ends inside the buffer, but for those that
\* ReadFits names.
THEOREM ReadFitsCorrect == Spec => []ReadFits
<1>1. ConnInv => ReadFits
  <2> SUFFICES ASSUME ConnInv PROVE ReadFits
    OBVIOUS
  <2>1. CASE conn.op = "read"
    BY <2>1 DEF ConnInv, TypeInv, Conn, Fits, ReadFits
  <2>2. CASE conn.op = "body" /\ ~Miscounted /\ ~Overread
    <3>1. /\ conn.cur \in Nat /\ conn.size \in 1..MaxSize /\ conn.left \in Nat
          /\ conn.want = (IF conn.left <= conn.size THEN conn.left ELSE conn.size)
          /\ conn.req \in 1..2 /\ (Miscounts(conn) \/ conn.left > 0)
      BY <2>2, HttpSessionAssumption DEF ConnInv, TypeInv, Conn, Fits
    <3>2. /\ Cur(conn).type \in {"string", "form", "octet", "multipart"} /\ TotalLen(Cur(conn)) \in Nat
          /\ End(conn.req) \in Nat /\ pos \in Nat
      <4>1. reqs \in [1..2 -> Requests] /\ pos \in Nat
        BY DEF ConnInv, TypeInv
      <4>2. /\ Cur(conn).type \in {"string", "form", "octet", "multipart"}
            /\ TotalLen(Cur(conn)) \in Nat
        BY <3>1, <4>1, EndIs DEF Cur
      <4>3. End(conn.req) \in Nat
        BY <3>1, <4>1, EndIs
      <4> QED
        BY <4>1, <4>2, <4>3
    <3>3. ~Miscounts(conn)
      BY <2>2, <3>1 DEF Miscounted, Miscounts, Cur
    <3>4. CASE Cur(conn).type \in {"octet", "multipart"}
      <4>1. conn.cur = 0
        BY <2>2, <3>4 DEF ConnInv, Fits
      <4> QED
        BY <3>1, <3>3, <4>1, HttpSessionAssumption DEF ReadFits
    <3>5. CASE Cur(conn).type \in {"string", "form"}
      <4>1. Gathers(conn, pos)
        BY <2>2, <3>1, <3>2, <3>3, <3>5 DEF Overread, Gathers, Cur
      <4>2. conn.cur + conn.left = TotalLen(Cur(conn)) /\ TotalLen(Cur(conn)) <= conn.size
        BY <2>2, <4>1 DEF ConnInv, Fits
      <4> QED
        BY <3>1, <3>2, <3>3, <4>2, HttpSessionAssumption DEF ReadFits
    <3> QED
      BY <3>2, <3>4, <3>5
  <2> QED
    BY <2>1, <2>2 DEF ReadFits
<1> QED
  BY <1>1, ConnInvariance, PTL

\* For requests and a buffer of any length, and reads that end anywhere: a client that
\* waits gets its responses in the order of its requests, and the application is called
\* at most once for each, up to the first response that refuses one.
THEOREM ResponsesMatchCorrect == Spec => []ResponsesMatch
<1>1. ConnInv => ResponsesMatch
  <2> SUFFICES ASSUME ConnInv, NEW i \in DOMAIN answers, client = "waits",
                      \A j \in 1..(i - 1) : answers[j].status # "bad"
               PROVE  answers[i].req = i /\ Cardinality({j \in DOMAIN calls : calls[j] = i}) <= 1
    BY DEF ResponsesMatch
  <2>1. Single
    BY DEF Single
  <2>2. answers[i].req = i
    BY <2>1 DEF ConnInv, Answers
  <2> DEFINE S == {j \in DOMAIN calls : calls[j] = i}
  <2>3. \A a, b \in S : a = b
    BY <2>1 DEF ConnInv, Calls
  <2> HIDE DEF S
  <2>4. Cardinality(S) <= 1
    <3>1. CASE S = {}
      BY <3>1, FS_EmptySet
    <3>2. CASE S # {}
      <4>1. PICK a \in S : TRUE
        BY <3>2
      <4>2. S = {a}
        BY <2>3, <4>1
      <4>3. Cardinality({a}) = 1
        BY FS_Singleton
      <4> QED
        BY <4>2, <4>3
    <3> QED
      BY <3>1, <3>2
  <2> QED
    BY <2>2, <2>4 DEF S
<1> QED
  BY <1>1, ConnInvariance, PTL

=============================================================================
