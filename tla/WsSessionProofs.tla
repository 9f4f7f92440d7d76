--------------------------- MODULE WsSessionProofs ---------------------------
(* Theorems about WsSession, for any frames of the peer, any number of heart *)
(* beats and any interleaving of the strand with the timer's thread.         *)
EXTENDS WsSession, SequenceTheorems, TLAPS

----------------------------------------------------------------------------
(* Lemmas about sequences: how many elements of s are in T                  *)

HasNone(s, T) == \A i \in 1..Len(s) : s[i] \notin T
HasAtMostOne(s, T) == \A i, j \in 1..Len(s) : s[i] \in T /\ s[j] \in T => i = j

LEMMA Appended ==
  ASSUME NEW S, NEW s \in Seq(S), NEW e \in S
  PROVE  /\ Append(s, e) \in Seq(S) /\ Len(Append(s, e)) = Len(s) + 1
         /\ \A i \in 1..(Len(s) + 1) : Append(s, e)[i] = IF i = Len(s) + 1 THEN e ELSE s[i]
OBVIOUS

LEMMA Shortened ==
  ASSUME NEW S, NEW s \in Seq(S), s # << >>
  PROVE  /\ Head(s) \in S /\ Head(s) = s[1] /\ 1 \in 1..Len(s)
         /\ Tail(s) \in Seq(S) /\ Len(Tail(s)) = Len(s) - 1 /\ Len(s) \in Nat
         /\ \A i \in 1..(Len(s) - 1) : Tail(s)[i] = s[i + 1]
BY HeadTailProperties

LEMMA ConcatIsAppend ==
  ASSUME NEW S, NEW s \in Seq(S), NEW e \in S
  PROVE  s \o <<e>> = Append(s, e)
<1>1. <<e>> \in Seq(S) /\ Len(<<e>>) = 1 /\ <<e>>[1] = e
  OBVIOUS
<1>2. /\ s \o <<e>> \in Seq(S) /\ Len(s \o <<e>>) = Len(s) + 1
      /\ \A i \in 1..(Len(s) + 1) : (s \o <<e>>)[i] = IF i <= Len(s) THEN s[i] ELSE <<e>>[i - Len(s)]
  BY <1>1, ConcatProperties
<1>3. \A i \in 1..(Len(s) + 1) : (s \o <<e>>)[i] = IF i = Len(s) + 1 THEN e ELSE s[i]
  BY <1>1, <1>2
<1> QED
  BY <1>2, <1>3, Appended, SeqEqual

LEMMA CountAppend ==
  ASSUME NEW S, NEW T, NEW s \in Seq(S), NEW e \in S
  PROVE  /\ e \notin T => (HasNone(Append(s, e), T) <=> HasNone(s, T))
         /\ e \notin T /\ HasAtMostOne(s, T) => HasAtMostOne(Append(s, e), T)
         /\ HasNone(s, T) => HasAtMostOne(Append(s, e), T)
<1> DEFINE a == Append(s, e)
<1>1. /\ Len(s) \in Nat /\ Len(a) = Len(s) + 1 /\ a[Len(s) + 1] = e
      /\ \A i \in 1..Len(s) : a[i] = s[i]
  BY Appended
<1> HIDE DEF a
<1>2. e \notin T => (HasNone(a, T) <=> HasNone(s, T))
  BY <1>1 DEF HasNone
<1>3. e \notin T /\ HasAtMostOne(s, T) => HasAtMostOne(a, T)
  BY <1>1 DEF HasAtMostOne
<1>4. HasNone(s, T) => HasAtMostOne(a, T)
  BY <1>1 DEF HasAtMostOne, HasNone
<1> QED
  BY <1>2, <1>3, <1>4 DEF a

LEMMA CountTail ==
  ASSUME NEW S, NEW T, NEW s \in Seq(S), s # << >>
  PROVE  /\ HasNone(s, T) => HasNone(Tail(s), T) /\ Head(s) \notin T
         /\ HasAtMostOne(s, T) => HasAtMostOne(Tail(s), T)
         /\ HasAtMostOne(s, T) /\ Head(s) \in T => HasNone(Tail(s), T)
<1> DEFINE t == Tail(s)
<1>1. /\ Len(s) \in Nat /\ Len(t) = Len(s) - 1 /\ Head(s) = s[1] /\ 1 \in 1..Len(s)
      /\ \A i \in 1..Len(t) : t[i] = s[i + 1] /\ i + 1 \in 1..Len(s) /\ i + 1 # 1
  BY Shortened
<1> HIDE DEF t
<1>2. HasNone(s, T) => HasNone(t, T) /\ Head(s) \notin T
  BY <1>1 DEF HasNone
<1>3. HasAtMostOne(s, T) => HasAtMostOne(t, T)
  <2> SUFFICES ASSUME HasAtMostOne(s, T), NEW i \in 1..Len(t), NEW j \in 1..Len(t), t[i] \in T, t[j] \in T
               PROVE  i = j
    BY DEF HasAtMostOne
  <2>1. i + 1 = j + 1
    BY <1>1 DEF HasAtMostOne
  <2> QED
    BY <1>1, <2>1
<1>4. HasAtMostOne(s, T) /\ Head(s) \in T => HasNone(t, T)
  BY <1>1 DEF HasAtMostOne, HasNone
<1> QED
  BY <1>2, <1>3, <1>4 DEF t

----------------------------------------------------------------------------
(* The invariant, of connections whose reads hold one frame                 *)

Frames == [kind : {"text", "binary", "ping", "close", "pong", "hello", "junk"}, id : Nat, part : {"whole"}]
Messages == {"ping", "reply"}
Pongs == {f \in Frames : IsPong(f)}
Texts == {f \in Frames : IsText(f)}

TypeInv ==
  /\ inbox \in Seq(Frames) /\ out \in Seq(Messages)
  /\ got \in Seq(Nat) /\ sent \in Seq(Nat)
  /\ left \in Nat /\ pinged \in Nat /\ calls \in Nat
  /\ session \in {"accepting", "handshake", "frames", "joining", "destroyed"}
  /\ starting \in BOOLEAN

\* Before the handshake nothing but a first request was sent, either way.
HelloInv ==
  session \in {"accepting", "handshake"} =>
    /\ HasNone(inbox, Pongs) /\ HasNone(inbox, Texts) /\ HasNone(out, {"ping"})
    /\ pinged = 0 /\ calls = 0 /\ ~starting

\* A pong was taken whose ping has not been sent yet.
Owed == starting /\ calls > 0

\* One heart beat at most: it is in out, at the peer, in the inbox or on the strand.
BeatInv ==
  /\ HasAtMostOne(out, {"ping"}) /\ HasAtMostOne(inbox, Pongs) /\ pinged <= 1
  /\ ~HasNone(out, {"ping"}) => pinged = 0 /\ HasNone(inbox, Pongs) /\ ~Owed
  /\ ~HasNone(inbox, Pongs) => pinged = 0 /\ ~Owed
  /\ Owed => pinged = 0

\* The numbers of the texts.
SentIds == {sent[i] : i \in DOMAIN sent}
GotIds == {got[i] : i \in Delivered}
ComingIds == {inbox[i].id : i \in Coming}

\* InOrder, and the numbers to come are below those of the texts sent.
OrderInv ==
  /\ GotIds \cup ComingIds = SentIds
  /\ \A i, j \in Delivered : i < j => got[i] > got[j]
  /\ \A i, j \in Coming : i < j => inbox[i].id > inbox[j].id
  /\ \A i \in Delivered, j \in Coming : got[i] > inbox[j].id
  /\ \A k \in SentIds : k > left

\* A send is in flight only while the list holds its message.
WritingInv == writing => out # << >>

WholeInv == net = "whole" => TypeInv /\ HelloInv /\ BeatInv /\ OrderInv /\ WritingInv

----------------------------------------------------------------------------
(* The order of the texts                                                   *)

LEMMA Places ==
  ASSUME TypeInv
  PROVE  /\ Len(inbox) \in Nat /\ DOMAIN inbox = 1..Len(inbox) /\ \A i \in 1..Len(inbox) : inbox[i] \in Frames
         /\ Len(got) \in Nat /\ DOMAIN got = 1..Len(got) /\ \A i \in 1..Len(got) : got[i] \in Nat
         /\ Len(sent) \in Nat /\ DOMAIN sent = 1..Len(sent) /\ \A i \in 1..Len(sent) : sent[i] \in Nat
         /\ \A f \in Frames : f.id \in Nat
<1>1. inbox \in Seq(Frames) /\ got \in Seq(Nat) /\ sent \in Seq(Nat)
  BY DEF TypeInv
<1>2. \A f \in Frames : f.id \in Nat
  BY DEF Frames
<1> QED
  BY <1>1, <1>2, LenProperties, ElementOfSeq

\* A frame that is no text is put behind the others.
LEMMA OrderOther ==
  ASSUME TypeInv, OrderInv, NEW f \in Frames, ~IsText(f), inbox' = Append(inbox, f),
         UNCHANGED <<got, sent>>, left' = left \/ left' = left - 1
  PROVE  OrderInv'
<1> DEFINE n == Len(inbox)
<1>1. /\ n \in Nat /\ DOMAIN inbox = 1..n
      /\ DOMAIN inbox' = 1..(n + 1) /\ inbox'[n + 1] = f /\ \A i \in 1..n : inbox'[i] = inbox[i]
  BY Places, Appended DEF TypeInv
<1>2. Coming' = Coming
  BY <1>1 DEF Coming
<1>3. \A i \in Coming : inbox'[i] = inbox[i]
  BY <1>1 DEF Coming
<1>4. Delivered' = Delivered /\ SentIds' = SentIds /\ GotIds' = GotIds
  BY DEF Delivered, SentIds, GotIds
<1>5. ComingIds' = ComingIds
  BY <1>2, <1>3 DEF ComingIds
<1>6. \A k \in SentIds : k > left'
  <2>1. \A k \in SentIds : k \in Nat /\ k > left
    BY Places DEF OrderInv, SentIds
  <2>2. left \in Nat
    BY DEF TypeInv
  <2> QED
    BY <2>1, <2>2
<1> QED
  BY <1>2, <1>3, <1>4, <1>5, <1>6 DEF OrderInv

\* The peer sends the next text.
LEMMA OrderSends ==
  ASSUME TypeInv, OrderInv, left > 0, left' = left - 1, got' = got,
         inbox' = Append(inbox, Frame("text", left)), sent' = Append(sent, left)
  PROVE  OrderInv'
<1> DEFINE n == Len(inbox)
           m == Len(sent)
           f == Frame("text", left)
<1>1. left \in Nat /\ f \in Frames /\ IsText(f) /\ f.id = left
  BY DEF TypeInv, Frame, Frames, IsText
<1> HIDE DEF f
<1>2. /\ n \in Nat /\ DOMAIN inbox = 1..n
      /\ DOMAIN inbox' = 1..(n + 1) /\ inbox'[n + 1] = f /\ \A i \in 1..n : inbox'[i] = inbox[i]
  BY <1>1, Places, Appended DEF TypeInv, f
<1>3. /\ m \in Nat /\ DOMAIN sent = 1..m
      /\ DOMAIN sent' = 1..(m + 1) /\ sent'[m + 1] = left /\ \A i \in 1..m : sent'[i] = sent[i]
  BY <1>1, Places, Appended DEF TypeInv
<1>4. Coming \subseteq 1..n /\ Coming' = Coming \cup {n + 1}
  BY <1>1, <1>2 DEF Coming
<1>5. \A i \in Coming : inbox'[i] = inbox[i]
  BY <1>2, <1>4
<1>6. ComingIds' = ComingIds \cup {left}
  BY <1>1, <1>2, <1>4, <1>5 DEF ComingIds
<1>7. SentIds' = SentIds \cup {left}
  BY <1>3 DEF SentIds
<1>8. Delivered' = Delivered /\ GotIds' = GotIds
  BY DEF Delivered, GotIds
<1>9. \A k \in GotIds \cup ComingIds : k > left
  BY DEF OrderInv
<1>10. (\A i \in Coming : inbox[i].id > left) /\ (\A i \in Delivered : got[i] > left)
  BY <1>9 DEF ComingIds, GotIds
<1>11. \A i, j \in Coming' : i < j => inbox'[i].id > inbox'[j].id
  <2> SUFFICES ASSUME NEW i \in Coming', NEW j \in Coming', i < j PROVE inbox'[i].id > inbox'[j].id
    OBVIOUS
  <2>1. i \in Coming
    BY <1>2, <1>4
  <2>2. CASE j \in Coming
    BY <1>5, <2>1, <2>2 DEF OrderInv
  <2>3. CASE j = n + 1
    BY <1>1, <1>2, <1>5, <1>10, <2>1, <2>3
  <2> QED
    BY <1>4, <2>2, <2>3
<1>12. \A i \in Delivered', j \in Coming' : got'[i] > inbox'[j].id
  <2> SUFFICES ASSUME NEW i \in Delivered, NEW j \in Coming' PROVE got[i] > inbox'[j].id
    BY <1>8
  <2>1. CASE j \in Coming
    BY <1>5, <2>1 DEF OrderInv
  <2>2. CASE j = n + 1
    BY <1>1, <1>2, <1>10, <2>2
  <2> QED
    BY <1>4, <2>1, <2>2
<1>13. \A k \in SentIds' : k > left'
  <2>1. \A k \in SentIds : k \in Nat /\ k > left
    BY Places DEF OrderInv, SentIds
  <2> QED
    BY <1>1, <1>7, <2>1
<1> QED
  BY <1>6, <1>7, <1>8, <1>11, <1>12, <1>13 DEF OrderInv

\* The first frame is read, and recv_observer_ called with no text of the peer's.
LEMMA OrderReads ==
  ASSUME TypeInv, OrderInv, inbox # << >>, inbox' = Tail(inbox), ~IsText(Head(inbox)),
         got' = got \/ got' = Append(got, 0), UNCHANGED <<sent, left>>
  PROVE  OrderInv'
<1> DEFINE n == Len(inbox)
<1>1. /\ n \in Nat /\ DOMAIN inbox = 1..n /\ ~IsText(inbox[1]) /\ DOMAIN inbox' = 1..(n - 1)
      /\ \A i \in 1..(n - 1) : inbox'[i] = inbox[i + 1]
  BY Places, Shortened, LenProperties DEF TypeInv
<1>2. \A i \in Coming' : i \in Nat /\ i + 1 \in Coming /\ inbox'[i] = inbox[i + 1]
  BY <1>1 DEF Coming
<1>3. \A i \in Coming : i - 1 \in Coming' /\ inbox'[i - 1] = inbox[i]
  <2> SUFFICES ASSUME NEW i \in Coming PROVE i - 1 \in Coming' /\ inbox'[i - 1] = inbox[i]
    OBVIOUS
  <2>1. i \in 1..n /\ i # 1 /\ IsText(inbox[i])
    BY <1>1 DEF Coming
  <2>2. i - 1 \in 1..(n - 1) /\ i - 1 + 1 = i
    BY <1>1, <2>1
  <2> QED
    BY <1>1, <2>1, <2>2 DEF Coming
<1>4. ComingIds' = ComingIds
  <2>1. ASSUME NEW i \in Coming' PROVE inbox'[i].id \in ComingIds
    BY <1>2 DEF ComingIds
  <2>2. ASSUME NEW i \in Coming PROVE inbox[i].id \in ComingIds'
    BY <1>3 DEF ComingIds
  <2> QED
    BY <2>1, <2>2 DEF ComingIds
<1>5. Delivered' = Delivered /\ \A i \in Delivered : got'[i] = got[i]
  <2>1. CASE got' = got
    BY <2>1 DEF Delivered
  <2>2. CASE got' = Append(got, 0)
    <3>1. /\ Len(got) \in Nat /\ DOMAIN got = 1..Len(got) /\ DOMAIN got' = 1..(Len(got) + 1)
          /\ got'[Len(got) + 1] = 0 /\ \A i \in 1..Len(got) : got'[i] = got[i]
      BY <2>2, Places, Appended DEF TypeInv
    <3> QED
      BY <3>1 DEF Delivered
  <2> QED
    BY <2>1, <2>2
<1>6. GotIds' = GotIds /\ SentIds' = SentIds
  BY <1>5 DEF GotIds, SentIds
<1>7. \A i, j \in Coming' : i < j => inbox'[i].id > inbox'[j].id
  <2> SUFFICES ASSUME NEW i \in Coming', NEW j \in Coming', i < j PROVE inbox'[i].id > inbox'[j].id
    OBVIOUS
  <2>1. i \in Nat /\ j \in Nat /\ i + 1 \in Coming /\ inbox'[i] = inbox[i + 1]
        /\ j + 1 \in Coming /\ inbox'[j] = inbox[j + 1]
    BY <1>2
  <2>2. i + 1 < j + 1
    BY <2>1
  <2> QED
    BY <2>1, <2>2 DEF OrderInv
<1>8. \A i \in Delivered', j \in Coming' : got'[i] > inbox'[j].id
  BY <1>2, <1>5 DEF OrderInv
<1>9. \A i, j \in Delivered' : i < j => got'[i] > got'[j]
  BY <1>5 DEF OrderInv
<1> QED
  BY <1>4, <1>6, <1>7, <1>8, <1>9 DEF OrderInv

\* The first frame is a text, and delivered.
LEMMA OrderDelivers ==
  ASSUME TypeInv, OrderInv, inbox # << >>, inbox' = Tail(inbox), IsText(Head(inbox)),
         got' = Append(got, Head(inbox).id), UNCHANGED <<sent, left>>
  PROVE  OrderInv'
<1> DEFINE n == Len(inbox)
           m == Len(got)
           k == inbox[1].id
<1>1. /\ n \in Nat /\ DOMAIN inbox = 1..n /\ 1 \in 1..n /\ IsText(inbox[1]) /\ Head(inbox) = inbox[1]
      /\ DOMAIN inbox' = 1..(n - 1) /\ \A i \in 1..(n - 1) : inbox'[i] = inbox[i + 1]
  BY Places, Shortened, LenProperties DEF TypeInv
<1>2. k \in Nat
  BY <1>1, Places
<1>3. /\ m \in Nat /\ DOMAIN got = 1..m /\ DOMAIN got' = 1..(m + 1)
      /\ got'[m + 1] = k /\ \A i \in 1..m : got'[i] = got[i]
  BY <1>1, <1>2, Places, Appended DEF TypeInv
<1>4. 1 \in Coming /\ k \in ComingIds
  BY <1>1 DEF Coming, ComingIds
<1>5. k > left /\ left \in Nat
  BY <1>4 DEF OrderInv, TypeInv
<1> HIDE DEF k
<1>6. Delivered \subseteq 1..m /\ Delivered' = Delivered \cup {m + 1}
  BY <1>2, <1>3, <1>5 DEF Delivered
<1>7. \A i \in Coming' : i \in Nat /\ i + 1 \in Coming /\ 1 < i + 1 /\ inbox'[i] = inbox[i + 1]
  BY <1>1 DEF Coming
<1>8. \A i \in Coming : i = 1 \/ (i - 1 \in Coming' /\ inbox'[i - 1] = inbox[i])
  <2> SUFFICES ASSUME NEW i \in Coming, i # 1 PROVE i - 1 \in Coming' /\ inbox'[i - 1] = inbox[i]
    OBVIOUS
  <2>1. i \in 1..n /\ i # 1 /\ IsText(inbox[i])
    BY <1>1 DEF Coming
  <2>2. i - 1 \in 1..(n - 1) /\ i - 1 + 1 = i
    BY <1>1, <2>1
  <2> QED
    BY <1>1, <2>1, <2>2 DEF Coming
<1>9. ComingIds = ComingIds' \cup {k}
  <2>1. ASSUME NEW i \in Coming' PROVE inbox'[i].id \in ComingIds
    BY <1>7 DEF ComingIds
  <2>2. ASSUME NEW i \in Coming, i # 1 PROVE inbox[i].id \in ComingIds'
    BY <1>8, <2>2 DEF ComingIds
  <2>3. \A i \in Coming : inbox[i].id \in ComingIds' \cup {k}
    BY <2>2 DEF k
  <2> QED
    BY <1>4, <2>1, <2>3 DEF ComingIds
<1>10. GotIds' = GotIds \cup {k} /\ SentIds' = SentIds
  BY <1>3, <1>6 DEF GotIds, SentIds
<1>11. \A i \in Delivered : got[i] > k
  BY <1>4 DEF OrderInv, k
<1>12. \A j \in Coming' : k > inbox'[j].id
  BY <1>4, <1>7 DEF OrderInv, k
<1>13. \A i, j \in Coming' : i < j => inbox'[i].id > inbox'[j].id
  <2> SUFFICES ASSUME NEW i \in Coming', NEW j \in Coming', i < j PROVE inbox'[i].id > inbox'[j].id
    OBVIOUS
  <2>1. i \in Nat /\ j \in Nat /\ i + 1 \in Coming /\ inbox'[i] = inbox[i + 1]
        /\ j + 1 \in Coming /\ inbox'[j] = inbox[j + 1]
    BY <1>7
  <2>2. i + 1 < j + 1
    BY <2>1
  <2> QED
    BY <2>1, <2>2 DEF OrderInv
<1>14. \A i \in Delivered', j \in Coming' : got'[i] > inbox'[j].id
  <2> SUFFICES ASSUME NEW i \in Delivered', NEW j \in Coming' PROVE got'[i] > inbox'[j].id
    OBVIOUS
  <2>1. CASE i \in Delivered
    BY <1>3, <1>6, <1>7, <2>1 DEF OrderInv
  <2>2. CASE i = m + 1
    BY <1>3, <1>12, <2>2
  <2> QED
    BY <1>6, <2>1, <2>2
<1>15. \A i, j \in Delivered' : i < j => got'[i] > got'[j]
  <2> SUFFICES ASSUME NEW i \in Delivered', NEW j \in Delivered', i < j PROVE got'[i] > got'[j]
    OBVIOUS
  <2>1. i \in Delivered /\ got'[i] = got[i]
    BY <1>3, <1>6
  <2>2. CASE j \in Delivered
    BY <1>3, <1>6, <2>1, <2>2 DEF OrderInv
  <2>3. CASE j = m + 1
    BY <1>3, <1>11, <2>1, <2>3
  <2> QED
    BY <1>6, <2>2, <2>3
<1> QED
  BY <1>9, <1>10, <1>13, <1>14, <1>15 DEF OrderInv

----------------------------------------------------------------------------
(* The steps.  Session is what WholeInv says of a session with net = "whole". *)

Session == TypeInv /\ HelloInv /\ BeatInv /\ OrderInv

LEMMA FrameTyped ==
  /\ \A kind \in {"text", "binary", "ping", "close", "pong", "hello", "junk"}, id \in Nat :
       Frame(kind, id) \in Frames /\ Frame(kind, id).kind = kind
  /\ Pong \in Pongs /\ Pong \in Frames /\ Pong \notin Texts
  /\ \A f \in Frames : f \in Pongs <=> f.kind = "pong"
  /\ \A f \in Frames : f \in Texts <=> f.kind = "text"
BY DEF Frame, Frames, Pong, Pongs, Texts, IsPong, IsText

LEMMA InitSession == Init => WholeInv
<1> SUFFICES ASSUME Init, net = "whole" PROVE Session /\ WritingInv
  BY DEF WholeInv, Session
<1>1. TypeInv
  <2>1. inbox \in Seq(Frames) /\ out \in Seq(Messages) /\ got \in Seq(Nat) /\ sent \in Seq(Nat)
    BY EmptySeq DEF Init
  <2>2. left \in Nat /\ pinged \in Nat /\ calls \in Nat
    BY WsSessionAssumption DEF Init
  <2>3. session \in {"accepting", "handshake", "frames", "joining", "destroyed"}
    BY DEF Init
  <2>4. starting \in BOOLEAN
    BY DEF Init
  <2> QED
    BY <2>1, <2>2, <2>3, <2>4 DEF TypeInv
<1>2. inbox = << >> /\ out = << >> /\ got = << >> /\ sent = << >> /\ pinged = 0 /\ calls = 0 /\ starting = FALSE
  BY DEF Init
<1>3. Len(inbox) = 0 /\ Len(out) = 0 /\ DOMAIN inbox = {} /\ DOMAIN got = {} /\ DOMAIN sent = {} /\ 1..0 = {}
  BY <1>2
<1>4. /\ HasNone(inbox, Pongs) /\ HasNone(inbox, Texts) /\ HasNone(out, {"ping"})
      /\ HasAtMostOne(inbox, Pongs) /\ HasAtMostOne(out, {"ping"})
  BY <1>3 DEF HasNone, HasAtMostOne
<1>5. HelloInv /\ BeatInv
  BY <1>2, <1>4 DEF HelloInv, BeatInv, Owed
<1>6. OrderInv
  BY <1>3 DEF OrderInv, GotIds, ComingIds, SentIds, Delivered, Coming
<1>7. WritingInv
  BY DEF Init, WritingInv
<1> QED
  BY <1>1, <1>5, <1>6, <1>7 DEF Session

\* Steps that leave the frames, the texts and the messages alone: the life of the
\* connection, the timer's thread, and a peer that stops.
LEMMA QuietKeeps ==
  ASSUME Session, UNCHANGED <<inbox, pinged, left, sent, got, out, starting, calls>>,
         session' \in {session, "frames", "joining", "destroyed"}
           \/ (session = "accepting" /\ session' = "handshake")
  PROVE  Session'
<1>1. TypeInv'
  BY DEF Session, TypeInv
<1>2. HelloInv'
  BY DEF Session, HelloInv, HasNone
<1>3. BeatInv'
  BY DEF Session, BeatInv, Owed, HasNone, HasAtMostOne
<1>4. OrderInv'
  BY ZenonT(60) DEF Session, OrderInv, GotIds, ComingIds, SentIds, Delivered, Coming
<1> QED
  BY <1>1, <1>2, <1>3, <1>4 DEF Session

LEMMA LifeKeeps ==
  ASSUME Session,
         PeerStops \/ Activate \/ OnReadError \/ Destroyed \/ BeatStep \/ UNCHANGED vars
  PROVE  Session'
<1>1. CASE PeerStops \/ UNCHANGED vars
  BY <1>1, QuietKeeps DEF PeerStops, vars, timer, line
<1>2. CASE Activate
  BY <1>2, QuietKeeps DEF Activate, OnConnect, timer, line
<1>3. CASE OnReadError
  BY <1>3, QuietKeeps DEF OnReadError, ReadFailed, OnClose, Destructor, line
<1>4. CASE Destroyed
  BY <1>4, QuietKeeps DEF Destroyed, Heart!Destroyed, line
<1>5. CASE BeatThread \/ BeatExpires
  BY <1>5, QuietKeeps DEF BeatThread, BeatExpires, Heart!EnterRun, Heart!RunReturns, Heart!RunHandler,
     Heart!Expire, line
<1>6. CASE BeatTests \/ BeatCloses
  BY <1>6, QuietKeeps DEF BeatTests, BeatCloses, Heart!TriggerReturns, timer, line
<1> QED
  BY <1>1, <1>2, <1>3, <1>4, <1>5, <1>6 DEF BeatStep

\* What the peer sends is put behind what it has sent.
LEMMA PeerKeeps ==
  ASSUME Session, PeerHello \/ PeerSends \/ PeerPongs
  PROVE  Session'
<1> USE FrameTyped
<1>1. /\ inbox \in Seq(Frames) /\ left \in Nat /\ pinged \in Nat
      /\ HasAtMostOne(inbox, Pongs)
  BY DEF Session, TypeInv, BeatInv
<1>2. CASE PeerHello
  <2>1. PICK kind \in {"hello", "junk"} : inbox' = <<Frame(kind, 0)>>
    BY <1>2 DEF PeerHello
  <2> DEFINE f == Frame(kind, 0)
  <2>2. f \in Frames /\ f \notin Pongs /\ f \notin Texts
    BY DEF Frame, Frames, Pongs, Texts, IsPong, IsText
  <2>3. /\ inbox = << >> /\ UNCHANGED <<pinged, left, sent, got, out, starting, calls, session>>
    BY <1>2 DEF PeerHello, timer
  <2> HIDE DEF f
  <2>4. inbox' = Append(inbox, f)
    BY <2>1, <2>3 DEF f
  <2>5. inbox' \in Seq(Frames)
    BY <1>1, <2>2, <2>4, Appended
  <2>6. /\ HasNone(inbox', Pongs) <=> HasNone(inbox, Pongs)
        /\ HasNone(inbox', Texts) <=> HasNone(inbox, Texts)
        /\ HasAtMostOne(inbox', Pongs)
    BY <1>1, <2>2, <2>4, CountAppend
  <2>7. TypeInv' /\ HelloInv' /\ BeatInv'
    BY <2>3, <2>5, <2>6 DEF Session, TypeInv, HelloInv, BeatInv, Owed
  <2>8. ~IsText(f)
    BY <2>2 DEF Texts
  <2>9. OrderInv'
    BY <2>2, <2>3, <2>4, <2>8, OrderOther DEF Session
  <2> QED
    BY <2>7, <2>9 DEF Session
<1>3. CASE PeerSends
  <2>1. /\ session = "frames" /\ left > 0 /\ left' = left - 1
        /\ UNCHANGED <<pinged, got, out, starting, calls, session>>
    BY <1>3 DEF PeerSends, timer
  <2>2. PICK kind \in Kinds :
          IF kind = "text" THEN sent' = Append(sent, left) /\ inbox' = Append(inbox, Frame(kind, left))
                           ELSE inbox' = Append(inbox, Frame(kind, 0)) /\ UNCHANGED sent
    BY <1>3 DEF PeerSends
  <2>3. kind \in {"text", "binary", "ping", "close"}
    BY WsSessionAssumption
  <2>4. PICK f \in Frames : inbox' = Append(inbox, f) /\ f.kind = kind
    BY <1>1, <2>2, <2>3
  <2>5. f \notin Pongs
    BY <2>3, <2>4
  <2>6. inbox' \in Seq(Frames)
    BY <1>1, <2>4, Appended
  <2>7. (HasNone(inbox', Pongs) <=> HasNone(inbox, Pongs)) /\ HasAtMostOne(inbox', Pongs)
    BY <1>1, <2>4, <2>5, CountAppend
  <2>8. sent' \in Seq(Nat) /\ left' \in Nat
    <3>1. sent \in Seq(Nat) /\ Append(sent, left) \in Seq(Nat)
      BY <1>1, Appended DEF Session, TypeInv
    <3>2. sent' = sent \/ sent' = Append(sent, left)
      BY <2>2
    <3>3. left' \in Nat
      BY <1>1, <2>1
    <3>4. sent' \in Seq(Nat)
      BY <3>1, <3>2, ZenonT(60)
    <3> QED
      BY <3>3, <3>4
  <2>9. TypeInv' /\ HelloInv' /\ BeatInv'
    BY <2>1, <2>6, <2>7, <2>8 DEF Session, TypeInv, HelloInv, BeatInv, Owed
  <2>10. OrderInv'
    <3>1. CASE kind = "text"
      BY <2>1, <2>2, <3>1, OrderSends DEF Session
    <3>2. CASE kind # "text"
      <4>1. ~IsText(f) /\ sent' = sent
        BY <2>2, <2>4, <3>2 DEF IsText
      <4>2. inbox' = Append(inbox, f) /\ UNCHANGED <<got, sent>>
        BY <2>1, <2>4, <4>1
      <4> QED
        BY <2>1, <4>1, <4>2, OrderOther DEF Session
    <3> QED
      BY <3>1, <3>2
  <2> QED
    BY <2>9, <2>10 DEF Session
<1>4. CASE PeerPongs
  <2>1. /\ pinged > 0 /\ pinged' = pinged - 1 /\ inbox' = Append(inbox, Pong)
        /\ UNCHANGED <<left, sent, got, out, starting, calls, session>>
    BY <1>4 DEF PeerPongs, timer
  <2>2. HasNone(out, {"ping"}) /\ HasNone(inbox, Pongs) /\ ~Owed /\ pinged = 1
    BY <1>1, <2>1 DEF Session, BeatInv
  <2>3. HasAtMostOne(inbox', Pongs) /\ inbox' \in Seq(Frames)
    BY <1>1, <2>1, <2>2, CountAppend, Appended
  <2>4. session \notin {"accepting", "handshake"}
    BY <2>2 DEF Session, HelloInv
  <2>5. TypeInv' /\ HelloInv' /\ BeatInv'
    BY <1>1, <2>1, <2>2, <2>3, <2>4 DEF Session, TypeInv, HelloInv, BeatInv, Owed
  <2>6. ~IsText(Pong)
    BY DEF Pong, IsText
  <2>7. OrderInv'
    BY <2>1, <2>6, OrderOther DEF Session
  <2> QED
    BY <2>5, <2>7 DEF Session
<1> QED
  BY <1>2, <1>3, <1>4

\* on_write takes a message from the list; a ping that was sent is at the peer.
LEMMA OnWriteKeeps ==
  ASSUME Session, WritingInv, OnWrite
  PROVE  Session'
<1>1. UNCHANGED <<session, starting, calls, inbox, left, sent, got>> /\ out # << >>
  BY DEF OnWrite, timer, WritingInv
<1>2. out \in Seq(Messages) /\ pinged \in Nat /\ HasAtMostOne(out, {"ping"})
  BY DEF Session, TypeInv, BeatInv
<1>3. \/ out' = out /\ pinged' = pinged
      \/ out' = Tail(out) /\ pinged' = IF Head(out) = "ping" THEN pinged + 1 ELSE pinged
  BY DEF OnWrite
<1>4. /\ Tail(out) \in Seq(Messages) /\ HasAtMostOne(Tail(out), {"ping"})
      /\ HasNone(out, {"ping"}) => HasNone(Tail(out), {"ping"}) /\ Head(out) # "ping"
      /\ Head(out) = "ping" => HasNone(Tail(out), {"ping"})
  BY <1>1, <1>2, Shortened, CountTail
<1>5. TypeInv'
  <2>1. out' \in Seq(Messages)
    BY <1>2, <1>3, <1>4, Zenon
  <2>2. pinged' \in Nat
    BY <1>2, <1>3
  <2> QED
    BY <1>1, <2>1, <2>2 DEF Session, TypeInv
<1>6. HelloInv'
  BY <1>1, <1>3, <1>4 DEF Session, HelloInv
<1>7. BeatInv'
  <2>1. Owed' = Owed /\ inbox' = inbox
    BY <1>1 DEF Owed
  <2>2. CASE out' = out /\ pinged' = pinged
    BY <2>1, <2>2 DEF Session, BeatInv
  <2>3. CASE out' = Tail(out) /\ Head(out) # "ping" /\ pinged' = pinged
    BY <1>4, <2>1, <2>3 DEF Session, BeatInv
  <2>4. CASE out' = Tail(out) /\ Head(out) = "ping" /\ pinged' = pinged + 1
    <3>1. HasNone(out', {"ping"}) /\ ~HasNone(out, {"ping"})
      BY <1>4, <2>4
    <3>2. pinged = 0 /\ HasNone(inbox, Pongs) /\ ~Owed
      BY <3>1 DEF Session, BeatInv
    <3> QED
      BY <1>4, <2>1, <2>4, <3>1, <3>2 DEF Session, BeatInv
  <2> QED
    BY <1>3, <2>2, <2>3, <2>4
<1>8. OrderInv'
  BY <1>1, ZenonT(60) DEF Session, OrderInv, GotIds, ComingIds, SentIds, Delivered, Coming
<1> QED
  BY <1>5, <1>6, <1>7, <1>8 DEF Session

\* The request is read, and the answer and the first ping are put into the list.
LEMMA ReadHelloKeeps ==
  ASSUME Session, net = "whole", ReadHello
  PROVE  Session'
<1>1. /\ session = "handshake" /\ socket = "open" /\ inbox # << >> /\ inbox' = Tail(inbox)
      /\ UNCHANGED <<calls, pinged, left, sent, got>>
  BY DEF ReadHello, AfterHello
<1>2. /\ inbox \in Seq(Frames) /\ HasNone(inbox, Pongs) /\ HasNone(inbox, Texts) /\ out \in Seq(Messages)
      /\ HasNone(out, {"ping"}) /\ pinged = 0 /\ calls = 0 /\ ~starting
  BY <1>1 DEF Session, TypeInv, HelloInv
<1>3. /\ Tail(inbox) \in Seq(Frames) /\ HasNone(Tail(inbox), Pongs) /\ HasNone(Tail(inbox), Texts)
      /\ HasAtMostOne(Tail(inbox), Pongs) /\ Head(inbox) \in Frames /\ Head(inbox) \notin Texts
  BY <1>1, <1>2, Shortened, CountTail DEF HasNone, HasAtMostOne
<1>4. ~IsText(Head(inbox))
  BY <1>3 DEF Texts
<1>5. OrderInv'
  BY <1>1, <1>4, OrderReads DEF Session
<1>6. CASE out' = out \o <<"reply", "ping">> /\ session' = "frames" /\ starting' = TRUE
  <2> DEFINE a == Append(out, "reply")
             b == Append(a, "ping")
  <2>1. "reply" \in Messages /\ "ping" \in Messages /\ "reply" \notin {"ping"}
    BY DEF Messages
  <2>2. a \in Seq(Messages) /\ HasNone(a, {"ping"})
    BY <1>2, <2>1, Appended, CountAppend
  <2>3. b \in Seq(Messages) /\ HasAtMostOne(b, {"ping"})
    BY <2>1, <2>2, Appended, CountAppend
  <2>4. out' = b
    <3>1. <<"reply", "ping">> = Append(<<"reply">>, "ping") /\ <<"reply">> \in Seq(Messages) /\ <<"ping">> \in Seq(Messages)
      BY <2>1
    <3>2. <<"reply", "ping">> = <<"reply">> \o <<"ping">>
      BY <2>1, <3>1, ConcatIsAppend
    <3>3. out' = (out \o <<"reply">>) \o <<"ping">>
      BY <1>2, <1>6, <3>1, <3>2, ConcatAssociative
    <3>4. out \o <<"reply">> = a
      BY <1>2, <2>1, ConcatIsAppend
    <3> QED
      BY <2>1, <2>2, <3>3, <3>4, ConcatIsAppend
  <2>5. starting' \in BOOLEAN /\ ~Owed'
    BY <1>1, <1>2, <1>6 DEF Owed
  <2>6. TypeInv'
    BY <1>1, <1>3, <1>6, <2>3, <2>4, <2>5 DEF Session, TypeInv
  <2>7. HelloInv'
    BY <1>6 DEF HelloInv
  <2>8. BeatInv'
    BY <1>1, <1>2, <1>3, <2>3, <2>4, <2>5 DEF BeatInv
  <2> QED
    BY <1>5, <2>6, <2>7, <2>8 DEF Session
<1>7. CASE out' = out /\ session' \in {"destroyed", "joining"} /\ starting' = starting
  <2>1. TypeInv'
    BY <1>1, <1>3, <1>7 DEF Session, TypeInv
  <2>2. HelloInv' /\ BeatInv'
    BY <1>1, <1>2, <1>3, <1>7 DEF Session, HelloInv, BeatInv, Owed
  <2> QED
    BY <1>5, <2>1, <2>2 DEF Session
<1> QED
  BY <1>1, <1>6, <1>7 DEF ReadHello, ToSend, OnClose, Destructor

\* A read of a whole frame takes it from the inbox, whole.
LEMMA WholeRead ==
  ASSUME Session, net = "whole", ReadFrame
  PROVE  /\ inbox # << >> /\ inbox' = Tail(inbox) /\ Head(inbox) \in Frames /\ HandleFrame(Head(inbox))
         /\ session = "frames" /\ ~starting /\ socket = "open"
         /\ UNCHANGED <<session, calls, pinged, left, sent>>
<1>1. /\ session = "frames" /\ ~starting /\ socket = "open" /\ inbox # << >>
      /\ UNCHANGED <<session, calls, pinged, left, sent>>
  BY DEF ReadFrame
<1>2. inbox \in Seq(Frames)
  BY DEF Session, TypeInv
<1>3. Head(inbox) = inbox[1] /\ Head(inbox) \in Frames /\ Len(inbox) \in Nat
  BY <1>1, <1>2, Shortened
<1>4. inbox' = Rest(1, FALSE) /\ \E f \in Taken(inbox[1], FALSE) : HandleFrame(f)
  BY DEF ReadFrame, ReadOf
<1>5. Tail(inbox) = SubSeq(inbox, 2, Len(inbox)) /\ Tail(inbox) \in Seq(Frames)
  BY <1>1, <1>2, TailIsSubSeq, Shortened
<1>6. Rest(1, FALSE) = << >> \o Tail(inbox)
  BY <1>5 DEF Rest
<1>7. Rest(1, FALSE) = Tail(inbox)
  BY <1>5, <1>6, ConcatEmptySeq
<1>8. inbox[1].part = "whole"
  BY <1>3 DEF Frames
<1>9. Taken(inbox[1], FALSE) = {inbox[1]}
  BY <1>8 DEF Taken
<1> QED
  BY <1>1, <1>3, <1>4, <1>7, <1>9

LEMMA ReadFrameKeeps ==
  ASSUME Session, net = "whole", ReadFrame
  PROVE  Session'
<1> DEFINE f == Head(inbox)
<1>1. /\ inbox # << >> /\ inbox' = Tail(inbox) /\ f \in Frames /\ HandleFrame(f)
      /\ session = "frames" /\ ~starting /\ socket = "open"
      /\ UNCHANGED <<session, calls, pinged, left, sent>>
  BY WholeRead
<1>2. /\ inbox \in Seq(Frames) /\ out \in Seq(Messages) /\ got \in Seq(Nat)
      /\ HasAtMostOne(inbox, Pongs) /\ HasAtMostOne(out, {"ping"})
  BY DEF Session, TypeInv, BeatInv
<1>3. /\ Tail(inbox) \in Seq(Frames) /\ HasAtMostOne(Tail(inbox), Pongs)
      /\ HasNone(inbox, Pongs) => HasNone(Tail(inbox), Pongs) /\ f \notin Pongs
      /\ f \in Pongs => HasNone(Tail(inbox), Pongs)
  BY <1>1, <1>2, Shortened, CountTail
<1>4. f \in Pongs <=> f.kind = "pong"
  BY <1>1, FrameTyped
<1>5. f.kind \in {"text", "binary", "ping", "close", "pong", "hello", "junk"} /\ f.id \in Nat /\ f.part = "whole"
  BY <1>1 DEF Frames
<1> HIDE DEF f
<1>6. /\ out' = out \/ out' = out \o <<"reply">>
      /\ f.kind = "pong" => out' = out /\ starting' = TRUE
      /\ f.kind # "pong" => starting' = starting
      /\ f.kind = "text" => got' = Append(got, f.id)
      /\ f.kind # "text" => got' = got \/ got' = Append(got, 0)
  BY <1>1, <1>5 DEF HandleFrame, Deliver, IsWhole, ToSend
<1>7. out' = out \/ out' = Append(out, "reply")
  BY <1>2, <1>6, ConcatIsAppend DEF Messages
<1>8. /\ out' \in Seq(Messages) /\ HasAtMostOne(out', {"ping"})
      /\ HasNone(out', {"ping"}) <=> HasNone(out, {"ping"})
  <2>1. "reply" \in Messages /\ "reply" \notin {"ping"}
    BY DEF Messages
  <2>2. /\ Append(out, "reply") \in Seq(Messages) /\ HasAtMostOne(Append(out, "reply"), {"ping"})
        /\ HasNone(Append(out, "reply"), {"ping"}) <=> HasNone(out, {"ping"})
    BY <1>2, <2>1, Appended, CountAppend
  <2> QED
    BY <1>2, <1>7, <2>2
<1>9. got' \in Seq(Nat)
  <2>1. Append(got, 0) \in Seq(Nat) /\ Append(got, f.id) \in Seq(Nat)
    BY <1>2, <1>5, Appended
  <2> QED
    BY <1>2, <1>6, <2>1
<1>10. starting' \in BOOLEAN
  <2>1. starting' = starting \/ starting' = TRUE
    BY <1>6
  <2> QED
    BY <2>1 DEF Session, TypeInv
<1>11. TypeInv'
  BY <1>1, <1>3, <1>8, <1>9, <1>10 DEF Session, TypeInv
<1>12. HelloInv'
  BY <1>1 DEF HelloInv
<1>13. BeatInv'
  <2>1. CASE f.kind = "pong"
    <3>1. ~HasNone(inbox, Pongs) /\ HasNone(inbox', Pongs)
      BY <1>1, <1>3, <1>4, <2>1
    <3>2. HasNone(out', {"ping"}) /\ pinged' = 0
      BY <1>1, <1>8, <3>1 DEF Session, BeatInv
    <3> QED
      BY <1>1, <1>3, <1>8, <3>1, <3>2 DEF BeatInv
  <2>2. CASE f.kind # "pong"
    <3>1. Owed' = Owed
      BY <1>1, <1>6, <2>2 DEF Owed
    <3> QED
      BY <1>1, <1>3, <1>8, <3>1 DEF Session, BeatInv
  <2> QED
    BY <2>1, <2>2
<1>14. OrderInv'
  <2>1. CASE f.kind = "text"
    BY <1>1, <1>6, <2>1, OrderDelivers DEF Session, IsText, f
  <2>2. CASE f.kind # "text"
    BY <1>1, <1>6, <2>2, OrderReads DEF Session, IsText, f
  <2> QED
    BY <2>1, <2>2
<1> QED
  BY <1>11, <1>12, <1>13, <1>14 DEF Session

\* start_timer, with the ping that a pong is answered with.
LEMMA StartBeatKeeps ==
  ASSUME Session, StartBeat
  PROVE  Session'
<1>1. /\ starting /\ starting' = FALSE /\ calls' = calls + 1 /\ calls \in Nat /\ pinged \in Nat
      /\ UNCHANGED <<session, inbox, pinged, left, sent, got>>
  BY DEF StartBeat, StartHeart, Heart!StartTimer, Heart!NewWait, line, Session, TypeInv
<1>2. out' = out \/ (calls # 0 /\ out' = out \o <<"ping">>)
  BY DEF StartBeat, ToSend, AfterPong
<1>3. out \in Seq(Messages) /\ "ping" \in Messages /\ HasAtMostOne(out, {"ping"})
  BY DEF Session, TypeInv, BeatInv, Messages
<1>4. out' = out \/ (calls # 0 /\ out' = Append(out, "ping"))
  BY <1>2, <1>3, ConcatIsAppend
<1>5. /\ Append(out, "ping") \in Seq(Messages)
      /\ HasNone(out, {"ping"}) => HasAtMostOne(Append(out, "ping"), {"ping"})
  BY <1>3, Appended, CountAppend
<1>6. session \notin {"accepting", "handshake"}
  BY <1>1 DEF Session, HelloInv
<1>7. starting' \in BOOLEAN
  BY <1>1
<1>8. TypeInv'
  <2>1. out' \in Seq(Messages)
    BY <1>3, <1>4, <1>5, Zenon
  <2>2. calls' \in Nat
    BY <1>1
  <2> QED
    BY <1>1, <1>7, <2>1, <2>2 DEF Session, TypeInv
<1>9. HelloInv'
  BY <1>1, <1>6 DEF HelloInv
<1>10. BeatInv'
  <2>1. CASE out' = out
    BY <1>1, <2>1 DEF Session, BeatInv, Owed
  <2>2. CASE calls # 0 /\ out' = Append(out, "ping")
    <3>1. Owed
      BY <1>1, <2>2 DEF Owed
    <3>2. HasNone(out, {"ping"}) /\ HasNone(inbox, Pongs) /\ pinged = 0
      BY <3>1 DEF Session, BeatInv
    <3> QED
      BY <1>1, <1>5, <2>2, <3>2 DEF Session, BeatInv, Owed
  <2> QED
    BY <1>4, <2>1, <2>2
<1>11. OrderInv'
  BY <1>1, ZenonT(60) DEF Session, OrderInv, GotIds, ComingIds, SentIds, Delivered, Coming
<1> QED
  BY <1>8, <1>9, <1>10, <1>11 DEF Session

\* on_write is never called for a list that is empty.
LEMMA WritingKeeps ==
  ASSUME Session, WritingInv, net = "whole", [Next]_vars
  PROVE  WritingInv'
<1>1. out \in Seq(Messages)
  BY DEF Session, TypeInv
<1>2. ASSUME NEW m, m # << >>, m \in Seq(Messages), ToSend(m) PROVE WritingInv'
  <2>1. out \o m # << >>
    BY <1>1, <1>2, ConcatEqualIffEmpty
  <2> QED
    BY <1>2, <2>1 DEF ToSend, WritingInv
<1>3. ASSUME UNCHANGED <<out, writing>> PROVE WritingInv'
  BY <1>3 DEF WritingInv
<1>4. CASE OnWrite
  BY <1>4 DEF OnWrite, WritingInv
<1>5. <<"reply", "ping">> \in Seq(Messages) /\ <<"reply">> \in Seq(Messages) /\ <<"ping">> \in Seq(Messages)
  BY DEF Messages
<1>6. <<"reply", "ping">> # << >> /\ <<"reply">> # << >> /\ <<"ping">> # << >>
  OBVIOUS
<1>7. CASE ReadHello
  BY <1>2, <1>3, <1>5, <1>6, <1>7 DEF ReadHello
<1>8. CASE ReadFrame
  <2>1. HandleFrame(Head(inbox)) /\ Head(inbox) \in Frames
    BY <1>8, WholeRead
  <2>2. Head(inbox).kind \in {"text", "binary", "ping", "close", "pong", "hello", "junk"}
    BY <2>1 DEF Frames
  <2>3. ToSend(<<"reply">>) \/ UNCHANGED <<out, writing>>
    BY <2>1, <2>2 DEF HandleFrame
  <2> QED
    BY <1>2, <1>3, <1>5, <1>6, <2>3
<1>9. CASE StartBeat
  BY <1>2, <1>3, <1>5, <1>6, <1>9 DEF StartBeat, AfterPong
<1>10. CASE PeerHello \/ PeerSends \/ PeerPongs \/ PeerStops \/ Activate \/ OnReadError \/ Destroyed
            \/ BeatStep \/ UNCHANGED vars
  BY <1>3, <1>10 DEF PeerHello, PeerSends, PeerPongs, PeerStops, Activate, OnReadError, Destroyed, BeatStep,
     BeatThread, BeatExpires, BeatTests, BeatCloses, vars
<1> QED
  BY <1>4, <1>7, <1>8, <1>9, <1>10 DEF Next, Handlers

LEMMA NetKeeps ==
  ASSUME [Next]_vars
  PROVE  net' = net
BY DEF Next, Handlers, BeatStep, PeerHello, PeerSends, PeerPongs, PeerStops, Activate, ReadHello, ReadFrame,
   StartBeat, OnReadError, Destroyed, OnWrite, BeatThread, BeatExpires, BeatTests, BeatCloses, vars

LEMMA SessionInvariance == Spec => []WholeInv
<1>1. WholeInv /\ [Next]_vars => WholeInv'
  <2> SUFFICES ASSUME net = "whole", Session, WritingInv, [Next]_vars PROVE Session' /\ WritingInv'
    BY NetKeeps DEF WholeInv, Session
  <2>1. WritingInv'
    BY WritingKeeps
  <2>2. Session'
    BY LifeKeeps, PeerKeeps, OnWriteKeeps, ReadHelloKeeps, ReadFrameKeeps, StartBeatKeeps DEF Next, Handlers
  <2> QED
    BY <2>1, <2>2
<1> QED
  BY <1>1, InitSession, PTL DEF Spec

----------------------------------------------------------------------------

\* The observer of a connection whose reads hold one frame gets every text of the peer
\* once and in order, among any pings, pongs, closes and heart beats.
THEOREM InOrderCorrect == Spec => []InOrder
<1>1. WholeInv => InOrder
  BY DEF WholeInv, OrderInv, InOrder, GotIds, ComingIds, SentIds
<1> QED
  BY <1>1, SessionInvariance, PTL

\* Such a connection has one heart beat at most: reset_ws_heart, ws_ping and the pongs of
\* the peer never start a second one.
THEOREM OneHeartBeatCorrect == Spec => []OneHeartBeat
<1>1. ASSUME WholeInv, net = "whole", NEW a \in HeartBeats, NEW b \in HeartBeats PROVE a = b
  <2>1. TypeInv /\ BeatInv
    BY <1>1 DEF WholeInv
  <2>2. /\ DOMAIN out = 1..Len(out) /\ DOMAIN inbox = 1..Len(inbox) /\ pinged \in Nat
        /\ \A k \in DOMAIN inbox : IsPong(inbox[k]) => inbox[k] \in Pongs
    BY <2>1, LenProperties, ElementOfSeq DEF TypeInv, Pongs
  <2>3. \A x \in HeartBeats :
          \/ \E i \in 1..Len(out) : x = <<"out", i>> /\ out[i] \in {"ping"}
          \/ x = <<"peer", 1>> /\ pinged = 1
          \/ \E i \in 1..Len(inbox) : x = <<"inbox", i>> /\ inbox[i] \in Pongs
          \/ x = <<"strand", 0>> /\ Owed
    <3>1. \A k \in 1..pinged : k = 1 /\ pinged = 1
      BY <2>1, <2>2 DEF BeatInv
    <3> QED
      BY <2>2, <3>1 DEF HeartBeats, Owed
  <2>4. CASE ~HasNone(out, {"ping"})
    <3>1. pinged = 0 /\ HasNone(inbox, Pongs) /\ ~Owed
      BY <2>1, <2>4 DEF BeatInv
    <3>2. \A x \in HeartBeats : \E i \in 1..Len(out) : x = <<"out", i>> /\ out[i] \in {"ping"}
      BY <2>3, <3>1 DEF HasNone
    <3>3. HasAtMostOne(out, {"ping"})
      BY <2>1 DEF BeatInv
    <3>4. PICK i \in 1..Len(out) : a = <<"out", i>> /\ out[i] \in {"ping"}
      BY <1>1, <3>2
    <3>5. PICK j \in 1..Len(out) : b = <<"out", j>> /\ out[j] \in {"ping"}
      BY <1>1, <3>2
    <3>6. i = j
      BY <3>3, <3>4, <3>5 DEF HasAtMostOne
    <3> QED
      BY <3>4, <3>5, <3>6
  <2>5. CASE ~HasNone(inbox, Pongs)
    <3>1. pinged = 0 /\ HasNone(out, {"ping"}) /\ ~Owed
      BY <2>1, <2>5 DEF BeatInv
    <3>2. \A x \in HeartBeats : \E i \in 1..Len(inbox) : x = <<"inbox", i>> /\ inbox[i] \in Pongs
      BY <2>3, <3>1 DEF HasNone
    <3>3. HasAtMostOne(inbox, Pongs)
      BY <2>1 DEF BeatInv
    <3>4. PICK i \in 1..Len(inbox) : a = <<"inbox", i>> /\ inbox[i] \in Pongs
      BY <1>1, <3>2
    <3>5. PICK j \in 1..Len(inbox) : b = <<"inbox", j>> /\ inbox[j] \in Pongs
      BY <1>1, <3>2
    <3>6. i = j
      BY <3>3, <3>4, <3>5 DEF HasAtMostOne
    <3> QED
      BY <3>4, <3>5, <3>6
  <2>6. CASE HasNone(out, {"ping"}) /\ HasNone(inbox, Pongs)
    <3>1. \A x \in HeartBeats : (x = <<"peer", 1>> /\ pinged = 1) \/ (x = <<"strand", 0>> /\ Owed)
      BY <2>3, <2>6 DEF HasNone
    <3>2. Owed => pinged = 0
      BY <2>1 DEF BeatInv
    <3> QED
      BY <1>1, <3>1, <3>2
  <2> QED
    BY <2>4, <2>5, <2>6
<1>2. WholeInv => OneHeartBeat
  BY <1>1 DEF OneHeartBeat
<1> QED
  BY <1>2, SessionInvariance, PTL

=============================================================================
