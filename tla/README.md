# A verification of wheel

`wheel` is a header-only C++ library for small network servers on top of
boost::asio: TCP servers and clients with their own packet format, websocket and
HTTP servers, timers, a blocking queue, a MySQL wrapper, JSON, serialisation and
some algorithms.  This directory holds TLA+ models of its concurrent core, of its
sessions and of its algorithms, TLC configurations that check them on small
instances, and TLAPS proofs of what matters most for all instances.

Source lines are those of `src/wheel/`; the file `tcp_hanlde.hpp` is spelt so.
`PROJECT.json` gives, for each definition of a model, the lines it translates.

## 1. The system

| component (source) | state | operations | talks to |
|---|---|---|---|
| **tcp_handle**, send side (`tcp_hanlde.hpp`, `send_buffer.hpp`) | `send_buffers_`, `data_lock_`, `write_count_`, the socket | `to_send`, `on_write` | application threads, the kernel |
| **tcp_handle**, read side, and **client** (`client.hpp`) | `connect_status_`, `recv_buffer_`, the socket, `timer_` | `connect`, `to_read` and its handler, `close_socket`, `on_close`, `reconnect` | observers of the application, the io_service |
| **server** (`server.hpp`) | `connects_`, `lock_`, pending accepts | `make_session`, `on_connect`, `on_close` | a tcp_handle per connection |
| **io_service_poll** (`io_service_poll.hpp`) | one io_service and its threads | `run`, `stop` | everything: it runs all handlers |
| **bin_parser** and the stream formats (`bin_parser.hpp`, `paser.hpp`, `*_tream_format.hpp`) | `buffer_`, `write_pos_`, `status_`, `data_area_size_`, `err_count_` | `read_stream`; `write`, `end` of the writer | called by the read handler; calls `recv_observer_` |
| **sync_queue** (`sync_queue.hpp`) | the list, `need_stop_`, two condition variables | `put`, two `take`s, `stop` | threads of the application |
| **timer2::timer_queue** (`timer2.hpp`) | the sorted list `events_`, one asio timer, `lock_` | `new_timer`, `cancel_timer`, `on_alarm` | triggers of the application, which may call it again |
| **unit::timer** (`timer.hpp`) | an io_service, a thread, an asio timer | `start_timer`, `loop_timer`, `cancel`, the destructor | used by the websocket connection as heart beat |
| **websocket** (`ws_tcp_handle.hpp`, `websocket_handle.hpp`, `websocket_server.hpp`) | phase of a connection, frame being read, heart beat, connection map | handshake, frames, pings, close, the destructor | unit::timer, whose thread calls `close_socket`; a copy of tcp_handle's send side |
| **http connection** (`http_tcp_handle.hpp`, `http_server.hpp`, `http_request.hpp`) | `buffer_`, `cur_size_`, `left_body_len_`, `len_`, `last_transfer_`, the map of sessions | `do_read`, the bodies by content type, `do_write`, `response_back`, `release_session` | the router, the application's handlers, the file system |
| **http response** (`http_response.hpp`) | `rep_str_`, `content_`, `headers_`, `chunked`, `delay_` | `set_*`, `build_response_str`, `reset` | filled by handlers, written by the connection |
| **http router** (`http_router.hpp`) | exact and wildcard routes | `set_http_handler`, `remove_handler`, `route` | aspects and handlers of the application |
| **multipart** (`http_multipart_parser.hpp`, `http_multipart_reader.hpp`, `upload_file.hpp`) | state, index, look-behind, marks | `feed`, its callbacks | called as the reads of a connection bring a body; writes fields and files |
| **mysql_wrap** (`mysql_wrap.hpp`, `query_result.hpp`, `utility.hpp`) | a connection, one prepared statement, the buffers of a row | queries, batch insert in a transaction | libmysql, which may connect again on its own |
| **json**, **serialize** (`json.hpp`, `serialize.hpp`, `reflection.hpp`) | a reader on a text | write and read of structs, sequences, maps | - |
| **unit**, digests, uuids, base64, url coding | none that lasts | pure functions | - |

How they interact: `client` and `server` create tcp_handles and give them
observers (`connect_observer_`, `recv_observer_`, `close_observer_`).  All
asynchronous operations of a handle end in handlers that the threads of the
singleton io_service_poll run.  The read handlers of a handle are wrapped in a
strand; the accept handler, the timer handler of the client and the `on_write`
of the *first* send of a burst are not, and `to_send` may be called from any
thread.  Most of what can go wrong follows from this one fact.

What is hard here, and which property looks at it:

* **interleaving** of `to_send` and `on_write` over a counter tested outside the
  lock; of the reconnect handler with the read handler; of accept handlers with
  `on_close`;
* **partial sends**, and appends to the very buffer that is being sent;
* **lost and repeated retries**: a timer armed twice, or by nobody;
* **lifetimes**: handlers hold a raw `this` and the object lives only as long as
  it is in the server's map;
* **reads that end anywhere**, parsed by an object with a state that persists
  while its buffer does not;
* **lost wake-ups**: two condition variables, and takes that free many places;
* **re-entrance**: triggers that change the list `on_alarm` iterates over;
* **end of life**: a destructor that joins a thread, a thread that leaves early, a
  heart beat that closes a connection its destructor is taking apart;
* **lengths that do not add up**: differences of `size_t` over reads that the
  network cuts anywhere, a buffer at its limit;
* **objects used again**: one request and one response for all that a connection
  is asked, one row of buffers for all rows of a query;
* **half a transaction**: a connection lost, and made again, inside a batch;
* **inverse pairs**: what one function escapes, packs or frames another takes apart.

`PROJECT.json` lists each hazard at its line with the properties that watch it.

What makes each part correct, in a word: the send side is a reliable byte stream;
a client has exactly one read while it is connected and a retry pending while it
is not; the server's map holds exactly the connections with a handler to come;
the parser delivers packets that were sent; the queue is a bounded FIFO in which
nobody sleeps for ever; a timer triggers once, in time, unless cancelled; a websocket
delivers the texts of its peer in order, and ends with it; an http request is read
inside its buffer and answered once, and its connection is released; a request is given
to a handler registered for it; a response is one message; a batch is stored whole or
not; what is encoded is decoded to itself.  Section 5 says where the code does not do so.

## 2. The modules

| module | models | composed with |
|---|---|---|
| `ByteStream` | abstract: what a send side promises | implemented by `TcpSend` |
| `TcpSend` | send side of tcp_handle | `MCTcpSend` (TLC), `TcpSendProofs` |
| `TcpClient` | client, read side, reconnection | `MCTcpClient`, `TcpClientProofs` |
| `TcpServer` | server, map, accepts, lives of the handles | `MCTcpServer`, `TcpServerProofs` |
| `BoundedFifo` | abstract: what a bounded queue promises | implemented by `SyncQueue` |
| `SyncQueue` | sync_queue | `MCSyncQueue`, `LibraryProofs` |
| `TimerQueue` | timer2::timer_queue | `MCTimers`, `TimerQueueProofs` |
| `UnitTimer` | unit::timer | `MCTimers`; `WsSession`, which has one as its heart beat |
| `WsSession` | a websocket connection, its heart beat and its server's side | `UnitTimer`, `MCWsSession`, `WsSessionProofs` |
| `HttpSession` | an http connection, its request's buffer and its server's side | `MCHttpSession`, `HttpSessionProofs` |
| `BinParser` | bin_parser, and the writer's framing | `MCLibrary`, `LibraryProofs` |
| `HttpResponse` | the text of responses | `MCLibrary`, `LibraryProofs` |
| `MysqlSession` | statements, batches, lost connections | `MCLibrary`, `LibraryProofs` |
| `Multipart` | the parser of multipart bodies, its reads, and what is kept of their parts | `MCLibrary`, `MultipartProofs` |
| `HttpRouter` | routes and aspects | `MCLibrary` |
| `HttpQuery` | queries, forms, url coding, cookies | `MCLibrary` |
| `Digests`, `Uuid` | both SHA-1, base64, the handshake's answer; uuids | `MCLibrary` |
| `WsFrame` | headers and payloads of frames | `MCLibrary` |
| `UnitAlgorithms` | addresses, sorts, search | `MCLibrary` |
| `MysqlRows` | rows of queries, statements, clauses of tables | `MCLibrary` |
| `Json` | the writers and readers of json and serialize | `MCLibrary` |

Conventions.  Variables keep the names of the members they stand for.  `pc` tells
where each thread is in a handler; a step is one access to a variable that another
thread can see, so `++write_count_` is a load and a store.  A handler that runs on
the strand takes `strand` before it starts and gives it back when it returns.
Undefined behaviour sets `ub` and ends the run.  Operators marked "Fault" are
wrong versions of the operator below them: put in its place, they must break the
property `PROJECT.json` pairs them with.

### TcpSend

A byte is known by its position in the stream of all bytes `to_send` accepted, so
a send_buffer is `[start, read_pos_, write_pos_]`, and "sent twice" or "skipped"
is visible in `wire`.  `to_send` (lines 130-185) is `ToSend`, `SpinLock`, `Store`,
`CheckCount`, `Load`, `StoreCount`, `FirstSend`; `on_write` (420-453) is
`Dispatch`, `Load`, `StoreCount`, `CheckError`, `SpinLock`, `Advance`, `Load`,
`StoreCount`, `Unlock`.  The kernel may take any prefix of what it was given
(`KernelSend`), fail (`KernelFail`), or see the socket closed (`Close`); a client
connects the same handle again with nothing reset (`Reconnect`).

### TcpClient

The read handler (`to_read`, 366-402), `close_socket`, `client::on_close`
(`client.hpp`) and the timer handler with its `connect` are steps of whatever
thread runs them.  `ready` are completed reads, `waits` and `fired` pending and
expired waits of `timer_`.  `connect` on a socket that is already connected fails
and stores "disconnect" in `connect_status_`.

### TcpServer

Handles are objects with a life: `Alive(h)` says who still points to one, and a
handler that starts on a dead handle is undefined (`ub` keeps in which handler).
`connects_.find` outside the lock is two steps, so a change of the map by another
thread meanwhile is seen.  A send is one operation here; its detail is TcpSend's.

### SyncQueue

A call holds the mutex from getting it to waiting or returning, so that is one
step.  `NotifyOne` chooses any waiter; a wait may end for no reason
(`SpuriousWake`); `stop` is three steps.  `Fifo == INSTANCE BoundedFifo WITH ...`
is the refinement mapping.

### TimerQueue

`on_alarm` is a loop over `events_` with its iterator `it`; each `Trigger` gives
the application the chance to call `new_timer` and `cancel_timer` before
`TriggerReturns`.  `expected` holds the contexts whose timer was neither triggered
nor cancelled.  A tick is half a millisecond, because durations are rounded down
to whole milliseconds and an alarm may therefore be early.

### UnitTimer

`run()` returns for good once there is no work (`RunReturns`, `EnterRun`); only a
thread inside it lets a wait expire (`Expire`).  An aborted wait is dropped, one of
`loop_timer` arms itself again (`LoopAgain`) after its trigger.

### BinParser

The stream is cut into cells: a byte, or the two bytes of an int16 of the header.
`ReadStream(n)` is a read of any length n, with the `buffer_` of that length that
`read_stream` allocates; `HeaderCell`, `WrongFlag`, `AcceptSize`, `FormatInvalid`,
`BodyPart`, `BodyComplete`, `EndOfData` are the branches of its loop.  int16 is
modelled with three bits: sizes up to 3 are positive, 4 to 7 negative.

### WsSession

`ReadHello` takes the upgrade or hands a junk request back to `to_read`;
`ReadFrame` is a read of frames with all of `handle_ws_frame`.  A network that is
"whole" gives one frame to each read; one that is "any" gives several, or a part.
The heart beat is UnitTimer, instanced on the connection's own variables: `StartBeat`
is the `start_timer` that follows a `cancel` (`starting` is between the two), and
the trigger of its thread is `close_socket` in two steps, its test of `socket_`
and its use (`BeatTests`, `BeatCloses`), between which the destructor may empty
it.  `undefined` ends the run.  The list of a send is not modelled again: `out`
holds messages.

### HttpSession

A handler is a function from the record of the connection to the records it may
leave, so that each C++ function is one operator and a completion (`ReadDone`,
`BodyDone`, `ChunkDone`, `WriteDone`, and those that fail) is one step that runs
all it calls.  Lengths are in units; the client sends requests from `Requests`, one
after the other or in a pipeline, and a read brings any number of units up to its
length, the rest of one request and the beginning of the next included.  A client that
pipelines sends any request behind one with a body (`Pipelined`); behind one without a
body it sends the same again, for `handle_pipeline` finds the next head by the length of
the first one, and parses what is at the start of the buffer.  Bytes that start no
request do not parse as one, and no body begins like a request.  What the code does
outside the buffer sets `broken` and ends the run.  The application's part of a response (ready, chunked, delayed, refused) is
chosen when it is called.  Subtractions wrap at `Width`.  What follows a whole head is
the choice of `HandleRequest` and `HandleNoChunked`, in the order of the code's tests:
no body, chunks, and then the four content types.

### HttpResponse, MysqlSession, Multipart

Each has variables of its own and the steps of its calls.  HttpResponse keeps a text
as items (status line, fields, empty line, bodies, chunks), so that "one message" is
a grammar; a content, and the value of each part, has a length, which may be zero.
MysqlSession counts rows, knows which are in the open transaction of the server, and
lets it close the connection between any two calls; the library then connects again
without telling.  A `begin`, `commit` or insert may also be done and its answer lost with
the connection (`AnswerLost`), so that the call fails, and a commit may be refused.

Multipart has a client that sends part after part (`SendPart`, `SendEnd`), reads that
bring any number of the bytes that are there (`ParseMultipart`), and `feed` as a loop: a
turn of it is a run that `processPartData` passes over (`Skip`), the mark that
`PART_DATA_START` sets (`StartData`) or one byte (`Feed`), and its end hands on what is
marked (`FeedReturns`, `BufferEnd`).  `reader` is the parser, the reader and the request
with their members; `client` keeps what was sent and what is to be of it; the constants
are the boundary's own characters (`Token`), what each part may be (`Fields`) and the
lengths of reads (`ReadLengths`).  Characters are classes: those the parser tells apart,
one in the boundary, the first letters of the two headers, and others.

### The algorithms

The modules `HttpRouter`, `HttpQuery`, `Digests`, `Uuid`, `WsFrame`,
`UnitAlgorithms`, `MysqlRows` and `Json` are operators.  A text is a sequence of
classes of characters, a word of 32 bits two halves of 16.  Each ends in what it
promises, stated with a reference of its own (the RFC's frame, the other SHA-1, the
rows themselves, the value that was written, the list of what was registered).

`MCLibrary` extends BinParser, HttpResponse, MysqlSession and Multipart and runs them
beside the algorithms: a behaviour has a `mode` and either takes the steps of one
component or makes one call with one input.

## 3. What the runs check

| run | instance | shows |
|---|---|---|
| `send_one_thread` | 1 thread, buffers of 3 bytes, messages of 1 to 3, 3 calls, 2 connections | `OneSendInFlight`, `MemorySafe`, `Drained`, and that TcpSend implements ByteStream (`StreamSpec`) |
| `send_race` | 2 threads, all calls from strand handlers | **violated**: `OneSendInFlight` |
| `client_one_thread` | 1 thread, 3 drops, 3 refused connects; deadlock checked | `StatusAccurate`, `NoSelfInflictedClose`, `Reconnects` |
| `client_race` | 2 threads, 2 drops, 1 refusal | **violated**: `KnowsItsConnection` |
| `server_pool` | 2 threads, 3 handles, 1 pending accept, 1 accept that fails | `ReadersRegistered`, `NoLeakedConnection`, `SlotsAccounted`, `ClosedLeave` |
| `server_free` | 1 thread, 4 handles, 2 pending accepts | **violated**: `NoUndefined` |
| `queue` | 4 producers, a one-item and a batch consumer, capacity 2; deadlock checked | `FifoSpec`, `NoConsumerForgotten`, `NoProducerStuck`, `StopReleases` |
| `timers` | timer_queue: 2 contexts, delays of 1 and 2 ms, 4 timers; unit::timer: 4 calls | `Sorted`, `TriggersExpected`, `EventuallyTriggered`; `PendingEnds`, `DestructorReturns` |
| `ws_session` | 2 starts of the heart beat, 2 frames of any kind, both networks | `InOrder`, `OneHeartBeat`, `SilentPeerClosed`, `ConnectionEnds` |
| `http_session` | 8 shapes of request, two on a connection, waiting or in a pipeline, buffer of 3 units that grows to 4 | `ReadFits`, `ResponsesMatch`, `Answered`, `ReleasedAtLast` |
| `http_too_long` | a head longer than the limit | **violated**: `TooLongRefused` |
| `library` | one instance for each `mode` | `NothingHeldBack`, `Intact` (BinParser), `WholeMessages`, `AllOrNothing`, `PartsAsSent`, `Routed`, `PairsComeOut`, `DigestsAgree`, `FramesComeOut`, `AlgorithmsRight`, `RowsAsStored`, `JsonComesBack` |

Bounds, and why they suffice.  *Send*: three messages into buffers of three bytes
give a message that joins the buffer being sent, one that needs a buffer of its
own, and a partial send of either; two connections give one reconnection with
bytes left over; two threads are what a race takes.  *Client*: three drops and
refusals are a lost connection, a refused retry and a loss after the retry.
*Server*: one connection being accepted while another ends, and handles enough for
the object of a dead connection to be used again.  *Queue*: capacity 2 and four
producers let two sleep when a batch take frees two places and notifies one; a
stop may come at any point.  *Timers*: two contexts and four timers let a trigger
cancel and make timers, with deadlines that coincide or differ by half the
rounding; `MaxTime` stands for all later times.  *Websocket*: the second start of
the heart beat is the one that a pong causes, while the thread of the first may be
anywhere; two frames are the least that one read can bring together.  *Http*: heads
below, at and beyond the first buffer, bodies that come with the head, fit the
buffer, make it grow and do not fit its limit, for every content type; the second
request finds what the first left, or is in the read that brings the first one's head
or body.  A request of two units in a buffer of three is the least that can have the
next one behind it.  Each exemption of `ReadFits` is needed: TLC finds it violated there
without `Miscounted`, and without `Overread`.  *Parser*: bodies without a cell, of one, and
with a size that reads as negative; an `ErrLimit` of 1 is reached.  *Response*: two
responses, each with up to two fields, parts or pairs, contents and values that are
empty or not, chunked or not.
*MySQL*: batches of two rows with one more before and after, one lost connection,
each call failing or not, with an answer or without.  *Multipart*: two parts; data that is like a boundary in
its first bytes, its last, or all but one, and data long enough to be passed over; reads
of 1, 2, 5, 8 and all bytes, so that a body is cut anywhere.  *Algorithms*:
the inputs are in `MCLibrary`, on both sides of each limit in the code (padding at
55, 56 and 64 bytes, frames of 125, 126, 255 and 256, all lists of up to five
numbers, runs of zeros anywhere in an address, a NULL in any cell, every escape; two
registrations of exact names and wildcards that both, one or none fit a url, with up to
three aspects any of which refuses).

### Fairness

* TcpSend: threads finish the handlers they started, run what is ready, and the
  kernel answers what it was asked.  Nothing assumes that the application calls.
* TcpClient: the same; strong fairness for starting a handler, since the queue of
  an io_service is first in first out and a ready handler is not overtaken for
  ever; the timer fires; the read of a broken connection ends.  `MaxRefusals` says
  that the server accepts in the end.
* TcpServer: threads finish handlers, ready read handlers run (strongly fair, for
  the same reason), the read of a broken connection ends.
* SyncQueue: a thread that can have the mutex again and again gets it; consumers
  come back; a stop that began goes on.  Spurious wake-ups and calls of `put` are
  not assumed.
* TimerQueue, UnitTimer: time passes, expired waits complete, the thread runs.
* WsSession: handlers that are ready run, time passes and the timer's thread runs;
  the peer and `start_timer`'s place between other steps are free.
* HttpSession: an operation of the socket that can complete does.  A client need
  not send, read or go away.
* The steps of `library` need none: its properties are of safety.

## 4. What is proved

TLAPS checks the following for every value of the constants.  The assumptions are
the named `ASSUME`s of the modules (`SendAssumption`, `ClientAssumption`,
`ServerAssumption`, `QueueAssumption`, `TimerAssumption`, `WsSessionAssumption`,
`HttpSessionAssumption`, `ParserAssumption`, `MultipartAssumption`; MysqlSession needs
none), which TLC evaluates too.  They give
the constants their types, and four say more: the server has a handle for each place
of the pool and each session; the deadlines of timers are numbers, which the mark for
"no wait" is not; the `size_t` of the http connection is wider than two buffers
(`Width > 2 * MaxSize`), and a body is short enough for a sum of lengths not to wrap;
a client takes a boundary that none of its parts holds, as RFC 2046 asks of it, and
without a CR in it.

Each proof has the same plan.  The property is not inductive, so it is strengthened
to the invariant named below; TLC checks that invariant on the instances of section 3
first; one lemma says that it holds at the start, one that each action keeps it, and
a last step, for each action and each conjunct the action may disturb, is a few named
facts.

**TcpSend** (`TcpSendProofs`).
* `TypeCorrect`, `LockCorrect`, `QueueCorrect`: for any number of threads the
  types hold, the critical sections exclude each other, and the list is an
  unbroken piece of the accepted stream.  `LockExclusive` is inductive with the
  types, `QueueContiguous` too: only `Store` and `Advance` change the list.
* `OneThreadCorrect`: for one thread and messages that fit a buffer,
  `OneSendInFlight`, `CounterMatches`, `InOrder`, `NoSilentStall` and
  `MemorySafe`.  None is inductive.  The invariant, `OneThreadInv(t)`, ties the
  counter to the flights at each point of the code (`CountInv`), the one flight to
  the front buffer and its cursor (`FlightInv`), the length of `wire` to that
  cursor and the bytes no `on_write` has consumed yet (`PositionInv`): without the
  last, a partial send could be resumed at the wrong byte.  `ResultInv` and
  `StallInv` say which completions carry bytes and where the list may be empty.
* `OneThreadMemorySafe`: `MemorySafe` alone, under the same conditions.
* `OneThreadImplements`: under the same conditions every step is a step of
  ByteStream or a stutter.

**TcpClient** (`TcpClientProofs`).
* `TypeCorrect`, for any number of threads.
* `OneThreadCorrect`: for one thread, `OneRead`, `StatusAccurate`, `NeverGivesUp`
  and `KnowsItsConnection`, from `OneThreadInv(t)`.  It says, place by place in
  the code, what socket, status and reads look like.  Its heart: an error is
  queued only for a connection that is over, and the status is "disconnect" only
  while no read exists, so the error of an old connection is never taken for one
  of the new.
* `OneThreadKeepsConnection`: a working connection is closed by nobody but
  `recv_observer_`.

**SyncQueue** (the fourth part of `LibraryProofs`), for any threads and any capacity.
* `QueueTypesCorrect`, and `FifoCorrect`: it implements BoundedFifo.
* `ConsumersCorrect`, `ProducersNotStuck`: no consumer's wake-up is lost; the
  producers never all sleep in front of an empty queue.
* `ProducersCorrect`: if every take is of one item, as many producers are awake as
  there are places while one sleeps.  With batch takes this is false, which is why
  the run checks the weaker `NoProducerStuck`.

**TcpServer** (`TcpServerProofs`), for any threads, handles and pool.
* `TypeCorrect`: the types, and that a thread is about a handle exactly while it is in a
  handler.
* `OnePlaceCorrect`: a handle is at one stage of its life (`OneStage`: being accepted,
  accepted, refused, entered by a thread, read, handled), one thread at most is entering
  it (`OneAcceptor`), and one at most is in a read handler (`OneReader`).
* `ReadersCorrect` and `NoLeakCorrect`: `ReadersRegistered` and
  `NoLeakedConnection`.  Neither is inductive: nothing in them forbids a second handler
  of the same handle, which would erase what the first still needs.  `LifeInv` adds to
  `OneStage` and `OneAcceptor` that a handle is in `connects_` exactly while it has a read or a
  handler that will make one or erase it (`Registered`).
* `ReadsAlive`: no read handler, and no new read, is of a destroyed handle; what is
  left of undefined behaviour is `on_write`'s (the run `server_free` shows it) and the
  unlocked search of the map.  `OneThreadOnlyWrites`: with one thread, only `on_write`'s.
* `SlotsCorrect`: `SlotsAccounted`.  A place of the pool only changes hands (`Handed`):
  from a pending accept to its completion, to a thread, to the next accept or to a
  failure.

**TimerQueue** (`TimerQueueProofs`), for any contexts, delays and calls.
* `SortedCorrect`, `TriggersCorrect`: `Sorted` and the action property
  `TriggersExpected`, from `QueueInv`.  Its heart is what `std::find` makes of the list:
  one live timer at most (`OneLive`), whose context is expected (`LiveExpected`).
* `IteratorCorrect`: `on_alarm`'s iterator is on an event or at the end whenever it is
  used, though its triggers insert before it.  `NoTimerStranded`: while there are
  events, the alarm is armed, has fired, or is at work.  This is the safe half of
  `EventuallyTriggered`.  Both are from `AlarmInv`.

**WsSession** (`WsSessionProofs`), for any frames and any number of heart beats.
* `InOrderCorrect`: `InOrder`.  The texts delivered and the texts on their way, joined,
  are the texts that were sent; their numbers go down, and those still to be sent are
  lower yet (`OrderInv`).
* `OneHeartBeatCorrect`: `OneHeartBeat`, from `BeatInv`: a ping in the list, a ping at
  the peer, a pong in the inbox and a pong that is being answered exclude each other.
  `HelloInv` is what makes the first one the first: nothing of them is there before
  the handshake ends.

**HttpSession** (`HttpSessionProofs`), for any two requests (any head, body, type,
chunked or not), any buffer and limit, and reads that end anywhere.
* `ReadFitsCorrect`, `ResponsesMatchCorrect`: `ReadFits`, with the reads that it
  excludes by name (section 5), and `ResponsesMatch`, from `ConnInv`.  `Fits` says, operation by operation, how `cur_size_`, `left_body_len_`
  and the length of the read add up to the buffer.  `Place` does the book-keeping of
  the stream: while no request was refused, what was read and is not in the buffer is
  exactly the requests that were answered (`GoodPlace`); after a refusal the place is
  past the start of the last request (`BadPlace`), so that what is left of it is never
  taken for the start of one.  Its one inequality, `left >= End(sent) - pos`,
  is where the miscounted bodies of section 5 show: they wait for more than there is,
  never for less, and so break `Answered` but not `ResponsesMatch`.  A handler is a
  function from connections to connections, so each is shown once to leave only
  connections of which the invariant holds (`After`), and the steps cite it.

**BinParser** (the first part of `LibraryProofs`), for any packets, sizes, stray cells,
limit of errors and widths of the header and of its int16, and reads of any number of
units.
* `NothingHeldBackCorrect`, `IntactCorrect`: `NothingHeldBack` and `Intact`, where
  `FlagsApart`.  Both are of reads of whole packets with bodies, `Intact` of bodies below
  64 KB (1 to `FullRange - 1` cells), whatever their sizes read as.  Neither says where the packets are, so neither is inductive.  `BinInv`
  cuts the cells of `data`, and those on the wire, at known places into stray cells and
  whole packets (`Cut`); the parser is at such a place (`Between`), follows the header of
  the packet it is in (`Synced`), or has missed it (`Missed`), and then delivers nothing
  until that packet ends.  `AheadInv` has the numbers of what is delivered below those of
  what is still to be read, which gives the order.  `CountInv` counts each stray cell
  once, in `err_count_`, in `data` or on the wire, so that the limit is not reached while
  the stray cells are few.  Packets and reads join and cut the wire, which `SendWire`,
  `DataCut` and `WireCut` carry over to the places; `TakesSome` and `CountsPackets` show
  that `arrived` counts exactly the packets of which a read has the last cell.
* `FlagsApart` is a premise about what is sent and not about the parser: the cells of
  the flags are not what commands and bodies are filled with, nor is the second one a
  stray cell.  The wire format does not escape them, so without it the parser can lose
  its place.  TLC finds `Intact` violated with `W = 3`, `L = 7`, `Noise = {3, 7}` and
  headers of 3 cells, where a stray W and a stray L make a header of what follows; and
  with `W = 6`, `L = 1`, `Noise = {6}`, `Bodies = {2, 6}`, `ErrLimit = 5` and headers of 3
  cells, where a size and the number after it do, in a packet whose own flags a stray W
  has hidden.  `MCLibrary` has `FlagsApart` as an `ASSUME`, which TLC evaluates.

**HttpResponse** (the third part of `LibraryProofs`), for contents of any length, any types, numbers of
chunks and of responses, and any order of the calls that prepare and write them.
* `WholeMessagesCorrect`: `WholeMessages`, from `ResponseInv`.  A text being put together
  is a status line, fields and what its kind of body needs, so the invariant says of each
  state of the object what its text has (`Has`), begins with (`Front`) and ends in
  (`Trail`), and of each text written that it is one message.  The object is used again
  after `reset`, which leaves some of it; the invariant therefore also says what an object
  is when no call is being made, and that what is left spoils the next chunked response
  and nothing else.  `WholeMessages` names three exemptions (section 5), and each is
  needed: TLC finds it violated without it.  The two that end too early are still held
  to a whole head.

**MysqlSession** (the second part of `LibraryProofs`), for any rows, calls, batches and
losses.
* `AllOrNothingCorrect`: `AllOrNothing`, from `SessionInv`.  A batch that has told is
  `Decided`: its rows are stored, or are neither stored nor in the open transaction,
  which a later `begin` of the caller could commit.  What it told is true for good while
  the connection was kept; when it was lost, with an answer or without, the rows are
  still there as a whole or not at all.
* `ItsOwnTransactionCorrect`: while the rows of a batch are executed on a connection
  that is up, the open transaction holds those executed so far and nothing of the
  caller's.

**Multipart** (`MultipartProofs`), for any boundary, any number of parts with data of any
length, and reads of any lengths, while the client still sends.
* `PartsAsSentCorrect`: `PartsAsSent`, from `FormInv`.  `ClientInv` says where in the
  body each part is, with its headers, its data and the boundary behind it, and what is
  to be of the first k of them.  `Phase` says what the parser and the reader keep when
  the next byte is the n-th of the body: it is in the opening, in the headers of a part
  (`InHead`), in its data with nothing held back (`Plainly`) or with a beginning of the
  boundary held back (`Holding`), or the form is over (`Over`).  A mark is a place in the
  body, which may be in an earlier buffer.  Each of `Skip`, `StartData`, `Feed` and
  `FeedReturns` keeps `Phase` at the same byte or a later one, `SendPart` and `SendEnd`
  because a body only gets longer; at the end of a body only `Over` is left.
* What is hard in it is the boundary in the data.  A boundary begins with its only CR,
  so what is held back begins at the last CR, and a byte that does not go on as the
  boundary gives it all back (`FalseLead`).  A run of the boundary's length whose last
  byte is in no boundary holds no beginning of one that goes on behind it, so `Skip`
  never passes a boundary.  No boundary begins in the data and ends behind it, because
  the boundary that follows has its CR first.  All three are lemmas.
* `NameFirst` is a premise about the library's map: the name of a part is looked for in
  the header that an `unordered_map` happens to have first (section 5).

What the proofs changed in the models: Multipart fed a body in one call of the model and
stated `PartsAsSent` with folds, of which nothing can be proved; it takes a turn of the
loop of `feed` at a time now, as the code does, with a client that sends meanwhile.  In
HttpSession two arms of the `CASE` that stood for `HandleRequest` were not disjoint,
which leaves the choice to the reader of a `CASE` and not to the order of the code's
tests; it is a chain of tests now.  `InOrder` and `OneHeartBeat` speak of sets of places
instead of filtered sequences, which says the same.

**Only model-checked.**
* All liveness (`Drained`, `Reconnects`, `ClosedLeave`, `StopReleases`,
  `EventuallyTriggered`, `PendingEnds`, `DestructorReturns`, `SilentPeerClosed`,
  `ConnectionEnds`, `Answered`, `ReleasedAtLast`): the prover has no rules for fairness
  and ENABLED.
* `Routed`, `PairsComeOut`, `DigestsAgree`, `FramesComeOut`, `AlgorithmsRight`,
  `RowsAsStored`, `JsonComesBack`: each says what a fold or a recursive function computes
  for every input, which takes an induction over data.

Every invariant that a run expects to hold is proved, and so are the action properties
and the refinements of the concurrent components, under the conditions named above.

## 5. What the models show to be wrong

Four runs end in a counterexample; `PROJECT.json` quotes what the code says of
itself.

* **Two sends of the same bytes** (`send_race`, `tcp_hanlde.hpp:177`).  With more
  than one pool thread, `to_send` sees `write_count_` 0 between the decrement in
  `on_write` and its lock, and starts a second send of the front buffer.
* **A live connection taken for a lost one** (`client_race`, `tcp_hanlde.hpp:201`).
  Two timer handlers connect at once; the second finds the socket connected, stores
  "disconnect", and the connection's end is then ignored for good.
* **on_write of a destroyed handle** (`server_free`, `tcp_hanlde.hpp:447`).  One
  thread is enough: the read error erases the handle while its send is being
  aborted.
* **A head that is too long is never refused** (`http_too_long`,
  `http_tcp_handle.hpp:265`).  It fills the buffer, and reads of length zero then
  complete at once, for ever, also when the client has gone.

The models also do the following, as the code does; the properties exclude it by
name, and no run has it as its own question.

*Connections.*
* `to_send` with more than one send_buffer holds (16 KB) is undefined: `Store`
  with `n > Cap`.  All properties of the send side assume messages that fit.
* Each failed accept costs the server a pending accept for good: `SlotsAccounted`
  counts them.
* A packet in two reads loses its beginning: `read_stream` makes `buffer_` anew for
  each (`bin_parser.hpp:37`), while `write_pos_` goes on.  A packet without a body
  that ends a read waits for the next one, and is then delivered from the new
  `buffer_`; a body of 64 KB and more is taken for a shorter one
  (`write_tream_format.hpp:26` cuts its size to an int16).  The premises of
  `NothingHeldBack` and `Intact` exclude exactly these.
* The flags of a header are not escaped in bodies: once the parser has missed a header,
  a body that holds both can pass for a packet (`FlagsApart`, section 4).
* `err_count_` is never reset, so that the limit of 1024 wrong flags
  (`bin_parser.hpp:91`) is one of a whole connection.

*Timers.*
* `cancel_timer` of one context cancels the first live timer whatever its context
  (`timer2.hpp:40`), and `new_timer` refuses a second live one.  A trigger that
  cancels and makes an earlier timer puts it before `on_alarm`'s iterator, unlike
  line 135 says; nothing breaks, it gets an alarm of its own.
* A unit::timer whose thread reaches `run()` before `start_timer` is called never
  triggers; after `loop_timer` its destructor does not return.  `PendingEnds` and
  `DestructorReturns` therefore speak of a thread that has not left, and of timers
  that never looped.

*Websocket* (`ws_tcp_handle.hpp`).
* A read is taken for one frame (401-426): a second frame in it is lost, and one
  that comes in two reads is either misread or, when its length is less than what
  was read, completed with what the buffer had before (`websocket_handle.hpp:104`).
  `InOrder` and `OneHeartBeat` are of a network that brings one frame per read.
* The heart beat's thread that has left `run()` closes no silent connection
  (`SilentPeerClosed` asks for one that runs), and the destructor may empty
  `socket_` between the test and the use of it in `close_socket` (90, 137-145).
* Lengths above 65535 are read from, and written to, the wrong half of the eight
  bytes (`websocket_handle.hpp:83`).  `FramesComeOut` is of shorter ones.

*Http* (`http_tcp_handle.hpp`).
* What is answered in a pipeline is the first request's response only (304), and a
  body that begins with "GET " or "POST" is taken for one (285).
* A head of a form or an octet stream that came in two reads is counted wrongly
  (415, 520), so that the body waits for more than there is, or its read passes the end
  of the buffer: `Miscounted`.
* When a read brings a whole request with a body and the beginning of the next one,
  `left_body_len_` is reduced by more than it is and wraps around (676, 515-521).  The
  next read is cut to the length of the buffer but starts at `current_size()` (788, and
  630 for forms), and so passes its end: `Overread`.  The comments at 629 and 787 say
  that this cannot be, for `transfer_exactly` is given.  The reads of octet streams and
  multipart bodies start at the front of the buffer and stay inside it, but their
  request is never complete either.
* `ReadFits` holds for the reads that are none of these two, nor of chunks, nor after
  `MaxSize` bytes of a head: it does not say that the code stays inside its buffer.
* A chunk longer than the buffer is read past its end (559), chunked data whose
  read ends between two chunks is refused (546-554), and a chunked response is
  followed by a read whatever `Connection` asked for (870).
* An application that asks for a delay leaves the connection without an operation
  (476): it ends only when something else ends it.
* `async_write` is given the bytes of a local string (923); that a long write then
  reads freed memory is below what HttpSession tells apart.

*Response, forms, queries.*
* A chunked response of no content type leaves its first half for the next response
  (`http_response.hpp:602`); `WholeMessages` excludes what follows it.  An empty
  content in chunks (430-438), and an empty value in a chunked multipart (229), write a
  chunk of nothing, which ends the response: what comes after it is outside of any
  message.
* The name of a part is looked for in the first header that an `unordered_map` has
  (`http_request.hpp:482`): a part with two headers may lose its name.
* `get_cookies` finds no cookie at all (`NoCookieFound`): `unit::split` drops the
  first token of what it splits (`unit.hpp:108`), and is used twice.
* The router tells methods apart by their first letter, so that POST and PUT are
  one, and looks at none for a wildcard (`http_router.hpp:72`).

*MySQL* (`mysql_wrap.hpp`).
* A connection lost before `commit` is made again, and the commit of nothing
  succeeds (83, 518-523); one lost before the commit's answer makes `insert` return
  INT_MIN with the rows stored (523-526).  `AllOrNothing` allows both to a lost
  connection, and forbids a part of a batch to any.  `begin` commits what its caller had begun.
* A cell exactly as long as the buffer of its column leaves no NUL for the `strlen` that
  follows, which then reads behind it; no input of `RowsAsStored` has one.
* A tuple with a NULL keeps the cell of the row before (290); arrays in a tuple do
  not move on to the next cell.  A "?" in a value is taken for a place.

*Algorithms.*
* `binary_search` returns the place before the one of the key (`unit.hpp:555`), -1
  for the first.
* `serialize.hpp` refuses the empty sequence, begins a sequence with the error that
  another reading left, and does not read back its own texts with a backslash or with
  a control character before another one.  `json.hpp` reads the struct in a field into
  the struct it is in, and its texts are words without quotes.  `Sayable` names what
  is left for `JsonComesBack`.

## 6. What is not modelled, and the plan

Left out for good: the vendored libraries and the examples; `websocket_client.hpp`,
which does not compile; `do_chunked_write_body` of the http connection and the
skipping functions of the json reader, which nothing calls; `async_connect` and
`reconect_server` of the client; files, gzip, logging, dates and tables of
characters; random numbers and calls of the system.  Within the modelled parts:
socket options and `port_in_use`, the typed fields inside a packet's body, the
destructor of timer_queue, the strings of SQL that are joined without a choice, the
map of the websocket server under two threads (the map of `TcpServer` shows what a
lock that does not exclude allows), and data races on integers that nothing else
depends on (`sync_queue::count`).

Done, in the order of importance: the send side, the client, the server, the queue,
the timers and the packet parser; then the websocket connection on top of
unit::timer, the http connection and its response, the batches of MySQL, the
multipart parser, the router and the algorithms.

What is open: the hazards that have no property are listed in `PROJECT.json`, each with
the reason; the properties without a proof are those of section 4's last list.
