------------------------------ MODULE WsSession ------------------------------
(***************************************************************************)
(* One connection of websocket_server: the handshake, the frames that      *)
(* ws_tcp_handle reads, the heart beat that closes a silent connection,    *)
(* and the destructor, against the peer and the network.  The heart beat   *)
(* is a unit::timer: its variables and steps are those of UnitTimer, and   *)
(* close_socket is the trigger that its thread calls.                      *)
(*                                                                         *)
(* What the strand runs is one action per handler, except that the timer's *)
(* thread, which is not on the strand, may step between a cancel and the   *)
(* start_timer that follows.  A frame is a kind, a number for texts, and   *)
(* whether a read holds all of it.  The bytes of frames are WsFrame's.     *)
(* An operator marked "Fault" is a wrong version of the one below it.      *)
(***************************************************************************)
EXTENDS Naturals, Sequences

CONSTANTS
  MaxBeats,   \* bound on the calls of start_timer
  MaxFrames,  \* bound on the frames the peer sends besides its pongs
  Kinds       \* what the peer sends of "text", "binary", "ping" and "close"

ASSUME WsSessionAssumption ==
  MaxBeats \in Nat /\ MaxFrames \in Nat /\ Kinds \subseteq {"text", "binary", "ping", "close"}

VARIABLES
  thread, owner, pending, queue, looped, current, calls,  \* of UnitTimer
  session,   \* "accepting", "handshake", "frames", "joining" or "destroyed"
  socket,    \* "open", "closed" or "null": socket_
  starting,  \* a handler of the strand is about to call start_timer
  heart,     \* the timer's thread is inside close_socket, past its test
  writing,   \* an async_send is in flight: write_count_
  out,       \* send_buffers_, as the messages it holds: "ping" or "reply"
  inbox,     \* what the peer sent and no read has returned
  peer,      \* "up", "silent" or "closed"
  pinged,    \* pings the peer got and has not answered
  left,      \* frames the peer may still send, pongs apart
  sent,      \* the texts it has sent, by their numbers
  got,       \* the texts recv_observer_ was called with, 0 for what is none
  undefined, \* a freed object or a null pointer was used
  net        \* "whole": one frame per read; "any": as TCP likes it

timer == <<thread, owner, pending, queue, looped, current, calls>>
line  == <<inbox, peer, pinged, left, sent>>
vars  == <<timer, session, socket, starting, heart, writing, out, line, got, undefined, net>>

Heart == INSTANCE UnitTimer WITH MaxCalls <- MaxBeats

Pong == [kind |-> "pong", id |-> 0, part |-> "whole"]
Frame(kind, id) == [kind |-> kind, id |-> id, part |-> "whole"]
Junk == [kind |-> "junk", id |-> 0, part |-> "whole"]
IsText(f) == f.kind = "text"
IsWhole(f) == f.part = "whole"

Init ==
  /\ thread = "none" /\ owner = "none"
  /\ pending = 0 /\ queue = << >> /\ looped = {} /\ current = 0 /\ calls = 0
  /\ session = "accepting" /\ socket = "open" /\ starting = FALSE /\ heart = "idle"
  /\ writing = FALSE /\ out = << >> /\ inbox = << >> /\ peer = "up" /\ pinged = 0
  /\ left = MaxFrames /\ sent = << >> /\ got = << >> /\ undefined = FALSE
  /\ net \in {"whole", "any"}

----------------------------------------------------------------------------
(* The peer *)

\* The request to upgrade is the first thing a peer sends; or it is no request.
PeerHello ==
  /\ session \in {"accepting", "handshake"} /\ peer = "up" /\ inbox = << >>
  /\ \E kind \in {"hello", "junk"} : inbox' = <<Frame(kind, 0)>>
  /\ UNCHANGED <<timer, session, socket, starting, heart, writing, out, peer, pinged, left, sent, got,
                 undefined, net>>

PeerSends ==
  /\ session = "frames" /\ peer = "up" /\ left > 0
  /\ left' = left - 1
  /\ \E kind \in Kinds :
       IF kind = "text"
       THEN /\ sent' = Append(sent, left)
            /\ inbox' = Append(inbox, Frame(kind, left))
       ELSE /\ inbox' = Append(inbox, Frame(kind, 0)) /\ UNCHANGED sent
  /\ UNCHANGED <<timer, session, socket, starting, heart, writing, out, peer, pinged, got, undefined, net>>

\* The calls of start_timer made, and those that are about to follow.
IsPong(f) == f.kind = "pong"
Beats == calls + Len(SelectSeq(inbox, IsPong)) + (IF starting THEN 1 ELSE 0)

\* A peer answers a ping with a pong, as long as MaxBeats allows the next one.
PeerPongs ==
  /\ peer = "up" /\ pinged > 0 /\ Beats < MaxBeats
  /\ pinged' = pinged - 1
  /\ inbox' = Append(inbox, Pong)
  /\ UNCHANGED <<timer, session, socket, starting, heart, writing, out, peer, left, sent, got, undefined,
                 net>>

PeerStops ==
  /\ peer # "closed"
  /\ peer' \in {"silent", "closed"} \ {peer}
  /\ UNCHANGED <<timer, session, socket, starting, heart, writing, out, inbox, pinged, left, sent, got,
                 undefined, net>>

----------------------------------------------------------------------------
(* Sending *)

\* to_send of the messages ms, one call each.
ToSend(ms) ==
  IF socket # "open" THEN UNCHANGED <<out, writing>>
  ELSE out' = out \o ms /\ writing' = TRUE

\* on_write is bound to the object alone, not to a shared_ptr of it; the strand
\* has no time for it while the destructor waits.  A send fails on a socket that is
\* closed, and may fail on one whose peer has gone: the messages then stay.
OnWrite ==
  /\ writing /\ session # "joining"
  /\ \/ /\ socket # "open" \/ peer = "closed"
        /\ writing' = FALSE
        /\ undefined' = (undefined \/ session = "destroyed")
        /\ UNCHANGED <<out, pinged>>
     \/ /\ socket = "open"
        /\ out' = Tail(out) /\ writing' = (Tail(out) # << >>)
        /\ pinged' = IF Head(out) = "ping" THEN pinged + 1 ELSE pinged
        /\ UNCHANGED undefined
  /\ UNCHANGED <<timer, session, socket, starting, heart, inbox, peer, left, sent, got, net>>

----------------------------------------------------------------------------
(* The life of the connection *)

\* on_connect puts the handle into connects_, the only place that keeps it.
OnConnect == session = "accepting" /\ session' = "handshake"

\* The acceptor has a connection: activate, on_connect, init and to_read.
Activate ==
  /\ OnConnect
  /\ UNCHANGED <<timer, socket, starting, heart, writing, out, line, got, undefined, net>>

\* ~ws_tcp_handle makes socket_ null, and destroys the timer, whose destructor
\* waits for its thread.
Destructor ==
  /\ socket' = "null"
  /\ IF thread = "none"
     THEN session' = "destroyed" /\ UNCHANGED owner
     ELSE session' = "joining" /\ owner' = "joining"

\* on_close erases the handle from connects_, which destroys it.
OnClose == Destructor

\* Fault: close_observer_ is not called.
OnlyCloses == socket' = "closed" /\ session' = "frames" /\ UNCHANGED owner

\* close_socket, close_observer_ and no other read.
ReadFailed == OnClose

\* A read completes with an error.
OnReadError ==
  /\ session \in {"handshake", "frames"} /\ ~starting
  /\ socket = "closed" \/ (peer = "closed" /\ inbox = << >>)
  /\ ReadFailed
  /\ UNCHANGED <<thread, pending, queue, looped, current, calls, starting, heart, writing, out, line, got,
                 undefined, net>>

\* ~timer has joined the thread.
Destroyed ==
  /\ session = "joining" /\ Heart!Destroyed
  /\ session' = "destroyed"
  /\ UNCHANGED <<socket, starting, heart, writing, out, line, got, undefined, net>>

\* fetch_http_info finds a whole request, and get_trans_type its Upgrade header.
IsUpgrade(f) == f.kind = "hello"

\* What the read of the request leaves of the inbox: it reads all that is there.
AfterHello == IF net = "whole" THEN Tail(inbox) ELSE << >>

\* The first read: fetch_http_info, get_trans_type, then the response, the timer
\* and its thread, a ping, and start_timer in a step of its own.
ReadHello ==
  /\ session = "handshake" /\ socket = "open" /\ inbox # << >>
  /\ inbox' = AfterHello
  /\ IF IsUpgrade(Head(inbox))
     THEN /\ ToSend(<<"reply", "ping">>)
          /\ thread' = "created" /\ owner' = "open"
          /\ session' = "frames" /\ starting' = TRUE
          /\ UNCHANGED socket
     ELSE OnClose /\ UNCHANGED <<thread, starting, out, writing>>
  /\ UNCHANGED <<pending, queue, looped, current, calls, heart, peer, pinged, left, sent, got, undefined,
                 net>>

----------------------------------------------------------------------------
(* Frames *)

\* recv_observer_ is called with the text; one that a read holds half of is
\* filled up with what the buffer has, if its length is at most the read's.
Deliver(f) == got' = Append(got, IF IsWhole(f) THEN f.id ELSE 0)

\* handle_ws_frame of the frame f.  A binary frame is dropped if there is no
\* parser, and make_session gives one to the servers of json, not to those of
\* bin.  The parser reads the frame from its header, not the payload: what it
\* takes for a packet is no message of the peer.
HandleFrame(f) ==
  CASE f.kind = "text"   -> Deliver(f) /\ UNCHANGED <<out, writing, pending, queue, starting>>
    [] f.kind = "binary" -> /\ got' \in {got, Append(got, 0)}
                            /\ UNCHANGED <<out, writing, pending, queue, starting>>
    [] f.kind = "ping"   -> ToSend(<<"reply">>) /\ UNCHANGED <<got, pending, queue, starting>>
    [] f.kind = "close"  -> ToSend(<<"reply">>) /\ UNCHANGED <<got, pending, queue, starting>>
    [] f.kind = "pong"   -> /\ queue' = Heart!Aborted /\ pending' = 0   \* cancel
                            /\ starting' = TRUE
                            /\ UNCHANGED <<got, out, writing>>
    [] OTHER             -> UNCHANGED <<got, out, writing, pending, queue, starting>>

\* How many frames one read may return, and whether the last may be cut.
ReadOf(n, cut) == IF net = "whole" THEN n = 1 /\ ~cut ELSE cut => IsWhole(inbox[n])

\* What the read takes its first frame for: the rest of a cut frame looks like
\* anything, and a frame that was cut may look longer than the read.
Taken(f, cut) ==
  CASE f.part = "tail" -> {[f EXCEPT !.kind = kind] : kind \in
                             Kinds \cup {"junk"} \cup (IF Beats < MaxBeats THEN {"pong"} ELSE {})}
    [] cut             -> {[f EXCEPT !.part = "cut"], Junk}
    [] OTHER           -> {f}

\* Fault: the rest of the inbox goes with the frame that is read.
RestLost(n, cut) == << >>

\* What the next read begins with.
Rest(n, cut) == (IF cut THEN <<[Junk EXCEPT !.part = "tail"]>> ELSE << >>)
                \o SubSeq(inbox, n + 1, Len(inbox))

\* A read of n frames, the last of which may be cut: only the first is handled.
ReadFrame ==
  /\ session = "frames" /\ ~starting /\ socket = "open" /\ inbox # << >>
  /\ \E n \in 1..Len(inbox), cut \in BOOLEAN :
       /\ ReadOf(n, cut)
       /\ inbox' = Rest(n, cut)
       /\ \E f \in Taken(inbox[1], cut /\ n = 1) : HandleFrame(f)
  /\ UNCHANGED <<thread, owner, looped, current, calls, session, socket, heart, peer, pinged, left, sent,
                 undefined, net>>

\* Fault: a pong is answered with two pings.
TwoPings == <<"ping", "ping">>

\* After a pong: reset_ws_heart, then ws_ping.
AfterPong == <<"ping">>

\* Fault: the wait is not made again after a cancel.
StartOnce == IF calls = 0 THEN Heart!StartTimer ELSE UNCHANGED timer

StartHeart == Heart!StartTimer

\* start_timer; the first one follows the handshake, whose ping is sent already.
StartBeat ==
  /\ starting
  /\ StartHeart
  /\ starting' = FALSE
  /\ IF calls = 0 THEN UNCHANGED <<out, writing>> ELSE ToSend(AfterPong)
  /\ UNCHANGED <<session, socket, heart, line, got, undefined, net>>

----------------------------------------------------------------------------
(* The thread of the heart beat *)

BeatThread ==
  /\ Heart!EnterRun \/ Heart!RunReturns \/ Heart!RunHandler
  /\ UNCHANGED <<session, socket, starting, heart, writing, out, line, got, undefined, net>>

BeatExpires ==
  /\ Heart!Expire
  /\ UNCHANGED <<session, socket, starting, heart, writing, out, line, got, undefined, net>>

\* Past its test: socket_ is used, though the destructor may have made it null.
CloseSocket ==
  /\ socket' = IF socket = "open" THEN "closed" ELSE socket
  /\ undefined' = (undefined \/ socket = "null")

\* close_socket tests socket_, and uses it after: the destructor may have made it
\* null in between.
BeatTests ==
  /\ thread = "trigger" /\ heart = "idle"
  /\ IF socket = "open" THEN heart' = "tested" /\ UNCHANGED timer
     ELSE Heart!TriggerReturns /\ UNCHANGED heart
  /\ UNCHANGED <<session, socket, starting, writing, out, line, got, undefined, net>>

BeatCloses ==
  /\ heart = "tested"
  /\ heart' = "idle"
  /\ Heart!TriggerReturns
  /\ CloseSocket
  /\ UNCHANGED <<session, starting, writing, out, line, got, net>>

BeatStep == BeatThread \/ BeatExpires \/ BeatTests \/ BeatCloses

----------------------------------------------------------------------------

Handlers == ReadHello \/ ReadFrame \/ StartBeat \/ OnReadError \/ Destroyed

\* Nothing is said of what follows the use of a freed object.
Next ==
  /\ ~undefined
  /\ \/ PeerHello \/ PeerSends \/ PeerPongs \/ PeerStops
     \/ Activate \/ Handlers \/ OnWrite \/ BeatStep

\* The handlers of the strand run, time passes and the timer's thread runs.
Spec == Init /\ [][Next]_vars /\ WF_vars(Handlers) /\ WF_vars(BeatStep)

\* The texts that were delivered, and those on their way, by their places.
Delivered == {i \in DOMAIN got : got[i] # 0}
Coming == {i \in DOMAIN inbox : IsText(inbox[i])}

\* With one frame per read, the observer gets every text, once and in order: what it
\* got, and the texts on their way, are the texts the peer sent, whose numbers go down.
InOrder ==
  net = "whole" =>
    /\ {got[i] : i \in Delivered} \cup {inbox[i].id : i \in Coming} = {sent[i] : i \in DOMAIN sent}
    /\ \A i, j \in Delivered : i < j => got[i] > got[j]
    /\ \A i, j \in Coming : i < j => inbox[i].id > inbox[j].id
    /\ \A i \in Delivered, j \in Coming : got[i] > inbox[j].id

\* The heart beats: the pings to send, the pings at the peer, the pongs on their way,
\* and the pong whose ping is about to follow.
HeartBeats ==
  {<<"out", i>> : i \in {k \in DOMAIN out : out[k] = "ping"}}
    \cup {<<"peer", k>> : k \in 1..pinged}
    \cup {<<"inbox", i>> : i \in {k \in DOMAIN inbox : IsPong(inbox[k])}}
    \cup (IF starting /\ calls > 0 THEN {<<"strand", 0>>} ELSE {})

\* With one frame per read there is one heart beat at most.
OneHeartBeat == net = "whole" => \A a, b \in HeartBeats : a = b

\* A peer that has gone silent loses its connection, if the timer's thread was in
\* time for the wait: close_socket is called, whatever else has happened.
SilentPeerClosed ==
  (/\ session = "frames" /\ peer = "silent" /\ inbox = << >>
   /\ ~starting /\ thread = "running")
    ~> socket # "open" \/ undefined \/ peer = "closed"

\* A connection whose peer has closed it is destroyed, its timer joined.
ConnectionEnds ==
  peer = "closed" /\ session \in {"handshake", "frames"} ~> session = "destroyed" \/ undefined

=============================================================================
