# Hnw: a TLA+ model of the network library

Hnw is a C++ library on top of Boost.Asio: channels (TCP, SSL, UDP, timers) behind
integer handles, and on top of them an HTTP client and server. This directory models
its state machines, checks them with TLC on small instances, and proves their main
properties with TLAPS. Line numbers refer to `src/Hnw/Src`.

## 1. Inventory

| Component | State | Operations | Talks to |
|---|---|---|---|
| Channel map and dispatch, `base/define/service.hpp` | `channel_map_` under a lock, handle counter | create, connect, listen, send, send_cb, close, set_event_cb; `event_cb` closes a channel on ERROR | channels; the user's callback |
| TCP client channel, `base/asio/channel/tcp_client_channel.hpp`, `base/asio/service/asio_client_channel.hpp` | `bconn_`, socket, `event_cb_`, time-outs | connect, async_recv chain, async_send (buffer, callback), close, destructor; timers | map (through ERROR), Asio workers |
| TCP / SSL server channel | acceptor, `accept_num` loops | listen, async_accept, close | creates accepted client channels in the map |
| UDP, timer channels, `base/asio/channel/udp_channel.hpp`, `timer_channel.hpp` | socket / deadline timer, `event_cb_` | bind, connect, send, close / start, re-arm, the handler with the user's function, close; both have a destructor that closes | dispatch, posted CLOSED events |
| Asio service, `base/asio/service/asio_service.hpp` | `io_service`, `work_`, worker threads | add_timer, add_channel, run_worker; the destructor: clear the map, stop, reset, release the work, join | runs every handler |
| HTTP session, `http/session/http_session.hpp` | request and response queue, `send_flag_`, `connect_flag_`, `close_after_send_flag_`, `send_status_` | send, start_send, on_read (the pump), on_connect_establish, on_disconnect | `HnwBase_Send_Cb`, `HnwHttp_Close` |
| HTTP service, `http/service/http_service.hpp` | `session_map_`, download tasks | event_cb, request, resource_status, download, recv_file | sessions, channels |
| Parsers, `base/define/parser.hpp`, `http/parser` | state, cached line, message under construction | input_data, on_start_line, on_head, on_body, push, reset | bodies, user events |
| Bodies, `http/struct/http_body_*.hpp` | content, capacity or file range, read and write position | read_body, write_body, is_complete | file mapping |
| Head, lines, messages, `http/struct/http_head_impl.hpp` | an `unordered_multimap` and text fields | add, delete, merge; set and get ranges, numbers, cookies, connection mode, WWW-Authenticate, Authorization; check_auth | parsers, session, download |
| C API, `hnw_base.cpp`, `hnw_http.cpp` | one service each | forwards to the services | |
| HTTP utilities, SSH | none of their own | string codecs; blocking libssh2 calls | |

What is hard about this code:

* **Concurrency.** Completion handlers run on a pool of workers with no strand, and
  `bconn_`, `event_cb_`, `send_flag_` and `send_status_` have no lock. Application
  threads and handlers interleave at every statement.
* **Life time.** An object lives by the `shared_ptr`s that maps, handlers and posted
  tasks hold; some handlers hold a bare `this`.
* **Failure.** Every ERROR event runs through `hnw::Service::event_cb`, which clears the
  callback and closes. Time-outs race the operations they guard.
* **Bytes.** The socket takes and delivers arbitrary pieces: partial writes on one side,
  arbitrary chunks into the parser on the other.
* **Arithmetic.** Ranges are inclusive and unsigned; ends wrap around.

Correctness of each part: one pump per session, messages whole and in order on the wire,
nothing left in the queue, "Connection: Close" only after the last byte (session); no
connection outside the map, CLOSED reported at most once, every removed channel destroyed
(channel); a valid server handle accepts, a closed one stops, a connection has a session
before the application knows of it (server); a one-shot call is answered and its connection
closed (requests); each byte once and in order (send); the segments of a download partition what
was asked for (download); the messages found do not depend on how the bytes were cut
(parser); what is read is what was written, within the range (body); what a getter reads is what a
setter set, on either side of the wire, and credentials are accepted exactly if they are right (head);
a timer that was started fires, nothing outlives its channel, and the destructor ends with nothing left
(service).

The list `hazards` of PROJECT.json names the lines where each of these can go wrong.

## 2. Modules

| Module | Models | Proofs |
|---|---|---|
| `HttpSession` | send side of `http::Session` with its channel and the session's removal | `HttpSessionProofs` |
| `TcpChannel` | one client channel from `connect` to its destructor, with the map, ERROR dispatch, timers and posted events | `TcpChannelProofs` |
| `ByteStream` | abstract specification of a stream that accepts messages | |
| `AsyncSend` | `async_send(buff, len, beg, complete)` on one channel, many senders; compared with `ByteStream` | `AsyncSendProofs` |
| `HttpServer` | the accept loops of the TCP and SSL server channels, the channel map and the session map | `HttpServiceProofs` |
| `HttpRequest` | `request` and `get_resource_status`: one-shot calls with their connection, events and callbacks | `HttpServiceProofs` |
| `Download` | `Service::download` up to the start of its sub-tasks | `DownloadProofs` |
| `HttpBody` | raw and file bodies as values: capacity, write position, completeness | `HttpParserProofs` (lemmas) |
| `HttpParser` | `input_data` with the request or the response parser, input cut into arbitrary chunks, bodies from `HttpBody` | `HttpParserProofs` |
| `HttpRange` | `struct HttpRange`: sections in unsigned arithmetic; used by `Download` and `HttpText` | `DownloadProofs`, `HttpHeadProofs` (lemmas) |
| `HttpText` | the texts of Range, Content-Range, Cookie and Set-Cookie, split and trim, base64, md5 | `HttpHeadProofs` (lemmas) |
| `HttpAuth` | `split_ky`, WWW-Authenticate and Authorization, Basic and Digest, `check_auth` | `HttpHeadProofs` (lemmas) |
| `HttpHead` | `HeadImpl`: the multimap with all of its setters and getters, built on the three above | `HttpHeadProofs` |
| `AsioService` | `hnw::Service` and `AsioService` with timer and UDP channels: map and lock, workers, queue, references, destructors | `AsioServiceProofs` |

The `MC*` modules only give constants their values. PROJECT.json's `map` gives the source
lines of every definition. Definitions commented "Mutant" are wrong versions of the
operation below them, each of which must violate the property it is listed with.

### HttpSession

A thread stands for a sequential context that calls `send`: an application thread, or the
callbacks of one connection. `pc` steps through `send` and `start_send` one shared access
at a time (push under the lock, test of `send_flag_`, test of `connect_flag_`, set,
`HnwBase_Send_Cb`). A pump is one chain of `HnwBase_Send_Cb`: `begin` (test of `bconn_`),
`enter` (the callback is called), `read` (inside `on_read`), `write`, `close` (inside
`HnwHttp_Close` with `send_lock_` held). The first `on_read` runs on the thread that
started the pump (`host`), the others on a worker. A failed write or read raises ERROR and
goes through `hnw::Service::event_cb` in three steps: the user is told (`raised`), the
channel's callback is cleared (`unset`, `heard`), the channel is closed, so the session hears
nothing. Other closes fall anywhere between these steps; they post CLOSED, which removes the
session, if the callback is still set. `reader` is the read chain.

### TcpChannel

`pc` says where each context (application thread, operation, timer) is; `Holders` are
those that hold a reference. Reading, closing and error dispatch are cut at every access
to shared state. `cancel()` of a timer does not stop a handler that is queued. `shutdown()`
throws on a socket that was closed or reset. `events` is what the user was told.

### AsyncSend and ByteStream

Each message has the parameters `beg` and `buff_len` of its current `async_send`; the
socket takes any non-empty part of a buffer. The refinement
mapping takes `beg` (or the whole size, when done) as the position promised to the sender.
`ImplementsByteStream` is the whole promise, which the code breaks: the rest of a cut write is
taken from the beginning of the buffer. `StreamButForRests` is what it keeps: every step is one of the
stream, or writes the rest of a cut message with the right length, from the wrong place (`Repeats`).

### HttpServer

A context is an accept loop or an application thread that closes the server; `pc` cuts
`async_one_accept`, its handler, the ERROR dispatch and `Service::close` at every access to
the maps, the callback and the acceptor. `heard` are the channels whose callback leads to
`http::Service::event_cb`: a new client copies the server's callback when its accept is
started (`muted` if it was cleared then), and `add_session` sets its own. A client's close
path is one step, as `TcpChannel` has its parts. The server is a TCP or an SSL one (`ssl`):
the handshake of an SSL client may fail, its `shutdown()` may throw, which leaves `bconn_`
set, and it posts no CLOSED. Not modelled: that `async_accept` succeeds with a socket that
is not open, and that a client cannot be allocated.

### HttpRequest

The caller, the attempt to connect, the read chain, the write and the time-out of a read are
contexts that raise events independently. `answers` are the calls of the user's callback. A
response is found by the parser inside a read; `left` counts those still in the data at
hand, and they reach the callback also after it has closed the handle, because the parser
calls `event_cb` itself (`ParserEvent`). So does the ERROR of a response whose body has no place
(`OnUnplaced`, `OnStatusUnplaced`): the parser's callback is the one of `http::Session`
(http_session.hpp:70) and not `hnw::Service::event_cb`, so this ERROR by itself closes nothing; the
callbacks of the calls do. `shutdown()` of a reset connection may throw inside a close, which raises
ERROR to a user who still hears. `EstablishFails` is `HnwHttp_RawRequest` returning an error. The
connection is a TCP one without a connect time-out, as by default; the application does not
close the handle, which it never gets. `HttpServiceProofs` extends both `HttpServer` and
`HttpRequest`; what both have is called `Call...` in `HttpRequest` (`CallInit`, `CallNext`,
`CallTypeOK`, `callPc`).

### Download

The answer to the HEAD request is a nondeterministic choice (error, redirect, empty, 200,
206 with a size). A request may come with a total: then a redirect leads past the probe
(`StatusMovedKnown`). The loop that cuts the range is one action per turn, in arithmetic
modulo `Word` (2^64 in the code; small in the runs, arbitrary in the proofs).

### HttpBody and HttpParser

The peer writes messages one after the other (`PeerSends`), each encoded as symbols (texts of
lines, CR, LF, body bytes) at the end of `stream`; the first `read` of these have arrived, in
chunks cut at every place, and the peer may write while they are parsed. `on_start_line` keeps
the first three pieces of a line (`FirstThree`): of a reason of several words only the first
reaches the application. A head field is one symbol, so what `on_head` does to a value that
contains `": "` once more (it is cut there) is not told apart. Each turn of the loop of `input_data` is one action. The HEAD
event is a choice: the application leaves the body as it is, or receives it into one of
`ToFiles` (`recv_file_request`, `recv_file_response`), which may fail; then
`auto_create_body` follows. The length of a file comes from Content-Length, or else from a
Content-Range, whose total is `Total`, or a Range, which has none (`RecvFile`). `creates` says whether
`create_null_file` can make a file: on Windows it does, on Linux it always fails
(http_util.hpp:385). An error drops the rest of the chunk and leaves the parser as
it is, as `input_data` does; the caller ignores it. The ERROR event that the response parser raises
there goes to the application and closes no channel (see `HttpRequest`), so it changes no state of
the parser. `misfit` records that a body of another length
than the message's was taken: the growing body a request starts with (http_request_impl.hpp:26), a file
that is there already, or a section. `MessagesAsSent` compares what the
application was given with what was sent, up to the first error or misfit (`broken`), and says which
messages may cause one (`Refusable`, `Misfittable`).

### HttpRange, HttpText, HttpAuth and HttpHead

A text is a sequence of tokens (words, separators, numbers, base64 or md5 of a text; the separators
blank, comma, semicolon and double quote are called by their names); setters put
such texts together and getters take them apart with `split`, `trim`, `stoull` and `split_ky` as the
code does, so that a separator in the wrong place has its effect. md5 is an injective function, and
md5 of nothing is nothing, as in `http_util`. The lines of one name are a sequence; where
`get_heads` runs on into the lines of other names (http_head_impl.hpp:53), `Walks` has every order in
which a hash table may hold them. `put` remembers what the setters were given and nobody
deleted or replaced; the properties compare it with what the getters read. `spoiled` are the names of
cookies that a line of another head, or of a peer, has read like at some time: the walk finds these too,
and `set_cookie` writes them into the Cookie line. `hung` is set by
`del_setcookie` where its loop does not end (:413), and may be where an attribute without `=` is read
behind the end of its vector (:756, `Overruns`), which is undefined. Received heads are the initial
states: a peer may have sent several ranges, malformed ones, such a Set-Cookie, or the same head twice.

### AsioService

Each thread has a frame: where it is in `find`, `close` or `event_cb`, for which handle, and
whether it holds a `shared_ptr`, and where it returns to (`then`). The calls of the API are made by
the application's thread until it destroys the service, and by timer functions on the workers (`fn`)
at any time, also during the destructor; `late` are the channels added then. References are the map, such frames and posted CLOSED events;
`After` destroys a channel whose last one went away, as part of the step that dropped it. A timer's
handler has none: it ends where the channel is gone (the code is undefined there). The lock of
the map is only held over several steps by `clear_and_close_channels`. `main` steps through
`~AsioService`: `clear`, `stop`, `reset`, `work`, `join`. `throws` says whether `shutdown()` fails
on a UDP socket that is not connected, as on POSIX systems, or not, as on Windows.

## 3. Runs

| Run | Shows |
|---|---|
| `server_session` (`HttpSession_server.cfg`) | A server session whose application answers from one thread while io workers run the pump, the peer and the application close, and reads and writes fail: responses go out whole, in order and in the end, and Connection: Close waits for all of them. |
| `second_request` *violation* (`HttpSession_second_request.cfg`) | After a client's request went out send_flag_ stays set with no pump left, so the next request is queued for ever. |
| `channel_close` (`TcpChannel_default.cfg`) | With the default configuration (no time-outs) and two threads that close a connected channel while its read and write chains fail: no connection survives outside the map, and what leaves the map is destroyed, disconnected. |
| `channel_races` (`TcpChannel_races.cfg`) | All time-outs on and a close at any time: the user is told CLOSED at most once. |
| `send_ends` (`AsyncSend_ends.cfg`) | Concurrent sends with writes cut in every way: every send ends, and all that goes out is the byte stream but for the rests of cut writes, which have the right length and the wrong bytes. |
| `partial_write` *violation* (`AsyncSend_partial.cfg`) | After a partial write the message is written again from its beginning. |
| `download_split` (`Download_split.cfg`) | A resource of at least conn * conn bytes, fetched to its end: the segments are adjacent, non-empty and cover the request. |
| `parser_chunks` (`HttpParser_chunks.cfg`) | Up to two messages, well formed or not and written while earlier input is still being parsed, in input cut at every place, with bodies kept in memory, left as they are, or received into files of every kind, on systems that can create files and on those that cannot: the application gets what was sent up to the first message that may be refused or meets a body of another length, and until then every input is used up. |
| `server_accept` (`HttpServer_accept.cfg`) | Two accept loops and two connections while the application closes the server or a connection, accepts fail and peers hang up: a valid server handle has all its loops and its session, a closed one stops, a connection the application knows of has its session, and one it does not is dropped in the end. |
| `request_once` (`HttpRequest_once.cfg`) | One-shot calls (request and get_resource_status) whose attempt, write, reads and time-out end in any order, with up to two responses in one read and bodies there is no place for: the callback is always called, never after the handle went away without a word, and the connection is closed in the end. |
| `head` (`HttpHead.cfg`) | Every sequence of setters, deletions and merges on a head that may come from a peer: what the getters then read is what was set; of cookies the walk through the hash table, which runs on into other heads, finds every one that was set, and exactly that one unless a line of another head or of the peer reads like a cookie of its name. |
| `service` (`AsioService.cfg`) | Timer and UDP channels added, used, re-armed and closed by the application's thread and by timer functions on two workers, while the service may be destroyed at any time: timers fire, nothing outlives its channel, no destructor terminates the process, and the service's destructor ends and leaves nothing, both but for what timer functions add while it runs. |

Runs marked *violation* state what a comment or a header of the repository says and find
a behaviour of the code that does otherwise; PROJECT.json's `findings` quote the lines.

### Bounds

* Session: two threads (the one that delivers the connection and one sender), two pump
  slots (two is what a violation of `SinglePump` needs; a third could only be reached
  through one), three messages (one being sent, one queued, one arriving) with an empty
  and a non-empty body, parts of 1 and 2 units against a buffer of 2, so that parts are
  split, filled exactly and under-filled. The client session is
  only the subject of `second_request`.
* Channel: two closing threads without timers, or one with both timers and early closes;
  with the three operations of the channel that is up to six contexts in the close path.
* Server: two accept loops, two connections and one closing thread, each TCP and SSL: two
  loops can fail together and race the application's close, and two connections can be at
  different places of the handler and of their ends.
* One-shot call: two reads that deliver data, up to two responses in each, both calls: a
  response in the first or the second read, before or after an error or a time-out, or two
  at once.
* Send: four messages of 0 to 3 bytes, cut in every way.
* Download: requests with and without a total; sizes and connection numbers small, `Word` large enough that only the
  subtractions the code performs on small values wrap.
* Parser: every sequence of up to two (`MaxMessages`) out of seven messages (no length, empty,
  short, larger than memory, two malformed ones, a section without a length), about 25 symbols, cut in
  every way; two messages are
  what it takes for one to spoil the next. Bodies contain CR and LF. Five files: new, replaced, missing,
  written over with another length, and one that cannot be written.
* Head: two lines, so that a name can have two, or a walk can run into another name; four cookies
  of two names and a Cookie line of at most 12 tokens, which are three cookies or a cookie with the
  leftovers of a walk; a line of another head that reads like a cookie in use, and a merged head with a
  Cookie line (names and values of cookies have no `=` and no semicolon); `Word = 65536` and a buffer of 12 characters for `set_range` in place of 2^64 and
  32, so that the largest range is refused here too; passwords, methods and challenges are each at least two.
* Service: two handles, two workers, two calls of the application, made by its
  own thread or by timer functions (to set a callback is not counted); a worker can close, re-arm
  or be inside a handler while the other has the posted event of the same channel, and the destructor
  can begin at any of these places. Two calls are what it takes to add a timer and have its function
  add another one.

All runs switch deadlock checking off: connections end, and an application may stop.

### Fairness

A thread inside a library call goes on, a worker runs the handlers
that are ready (the `io_service` never drops one), a write of an open socket ends (the
peer reads), a connection attempt ends, and operations of a closed or reset socket are
completed with an error (Asio guarantees it): weak fairness. Nothing makes an application send or
close, or a connection fail. `HttpServer` and `HttpRequest` assume in addition that no peer is
silent for ever: it ends its handshake, and answers or hangs up. Without that the code
keeps an unknown connection, or a call without a time-out, for ever.

`AsioService` has strong fairness for a handler and an event in the queue: the workers share
them with others, and the queue is first in, first out, so one that waits is taken when a worker
is free again and again. The user's functions return. Nobody has to call the API or to destroy
the service; once the destructor has begun it goes on wherever it does not wait.

## 4. Proofs

| Theorem | Assumption | Argument |
|---|---|---|
| `HttpSessionProofs!TypeCorrect` | none | |
| `HttpSessionProofs!ServerPumpSafe`: `SinglePump`; `ServerFlagHonest`: `FlagHonest`, which is `NoLostWakeup` and `FlagMeansSending` | `OneSender`: a server session with one sending context | `PumpInv`, see below |
| `HttpSessionProofs!ServerWireInOrder`: `WireInOrder`; `ServerCloseWhenDrained`: `CloseWhenDrained` | `OneSender` | `WireInv`, see below |
| `TcpChannelProofs!TypeCorrect` | none | |
| `TcpChannelProofs!ChannelCleanup`: `DestroyedDisconnected`; `NoConnectionOutsideMap`: `NoOrphanConnection` | `Patient`: no connect time-out, no close before the connection is known | see below |
| `TcpChannelProofs!ToldClosedOnce`: `ClosedAtMostOnce` | `SingleCloser`: at most one application thread closes; any time-outs, any early close | see below |
| `AsyncSendProofs!SendTypeCorrect` | none | partial writes included |
| `AsyncSendProofs!SendIsStreamButForRests`: `StreamButForRests` | none | each step is a step of `ByteStream`, a stutter, or the rest of a cut write; `SendInv`: a write has something to write |
| `HttpServiceProofs!ServerTypeCorrect`, `ServerSafe`: `ServerAccepts`; `SessionsAlwaysFound`: `SessionsFound` | none | `ServerInv`, see below |
| `HttpServiceProofs!RequestTypeCorrect`, `NeverGoneSilently`: `GoneMeansAnswered` | none | `RequestInv` adds `ToldFirst`: a context that is about to close the handle has told the user, or somebody else has |
| `AsioServiceProofs!ServiceTypeCorrect`; `ServiceSafe`: `NothingOutlivesChannel`; `NoAbortByDestructor`: `AbortOnlyUnbound`; `DestructorEmpties`: `ShutdownEmpties` | none | `IInv`, see below |
| `HttpParserProofs!ParserTypeCorrect` | none | also after an error, and for any input and files |
| `HttpParserProofs!ParserMessagesAsSent`: `MessagesAsSent` | none | `ParserInv`, see below |
| `DownloadProofs!TypeCorrect` | none | arithmetic modulo any `Word` |
| `DownloadProofs!SegmentsPartition`: `SegmentsExact` | `WholeAndLarge`: the whole resource is requested and has at least conn^2 bytes | `SplitInv`: after `i` turns the next start is `i * (s_size + 1)`, which is inside the resource |
| `HttpHeadProofs!HeadTypeCorrect`; `HeadOneLine`: `OneLine` | `HeadAssumption`, `ArgsAssumption`, `OthersAssumption` | `HeadInv`, see below |
| `HttpHeadProofs!HeadRangesReadBack`: `RangesReadBack`; `HeadNumbersReadBack`: `NumbersReadBack` | the same | `HeadInv` and what `split` and `stoull` read from the text |
| `HttpHeadProofs!HeadChallengeReadBack`: `ChallengeReadBack`; `HeadCheckAuthExact`: `CheckAuthExact` | the same | `HeadInv` and what `split_ky` reads from the text |

`ServerPumpSafe` is not inductive by itself. `PumpInv` adds `TurnInv` (only one thread is
inside `start_send` at a time: until the application is told of the connection only the
delivering thread is, then only the sender), `TokenInv` (the thread between set and
`HnwBase_Send_Cb`, or one pump, holds the "turn" to send, and nobody else does) and
`HostInv` (which thread a pump runs on, so that the thread is not also inside
`start_send`). Both parts of `OneSender` are needed: the run
`second_request` breaks `FlagMeansSending` on a client session, and section 5 describes what
two senders do to a server session.

`ServerWireInOrder` and `ServerCloseWhenDrained` need to know what `send_status_` says about the
wire. `WireInv` is `PumpInv` with `Data` (the numbers in the queue and the current message are the
last of those submitted, the wire has their units in order) and `Ties`: while somebody may go on
writing, the wire ends exactly where `send_status_` stands; a pump in `write` has the difference in
its buffer, so the wire followed by the buffer ends there; a pump in `close` has found queue and
current message empty. That a buffer can be appended to the wire without anything in between is
`SinglePump`, which is why `PumpInv` is part of it. From a failed write to the end of its ERROR
dispatch the pump still counts as active, so that nobody starts another one on a channel that is up;
nothing is tied then, and nobody writes.

`ChannelCleanup` needs `EarlyInv`: while the connection is being made nothing has taken the
handle out of the map. From then on, whoever erases the handle is in the close path and
finds `bconn_` as it is. Section 5 says what happens without `Patient`.

`ToldClosedOnce` needs `CloseInv`. Its parts are `Muted` (a context that closes because of an ERROR
has cleared the user's callback before, so its CLOSED reaches nobody; one that was too late to clear
it finds no handle to close), `AppClose` (until the application's only close has posted its CLOSED,
and while that one is pending, the user has not been told) and `Once` (CLOSED is at no two places
of the user's events).

`ServerSafe` needs `OwnClient` and `NewClient` (the client a loop is handling is its own, and
unknown to everybody until the loop has put it into the map) so that no other step closes or
reports it early, and `GoneBefore`: a handle has left the channel map before its acceptor is
closed or its CLOSED event is posted, so that a session is only deleted after its channel.

`ServiceSafe` is about references: a channel is destroyed by the step that drops the last one, so
every action is shown to preserve the invariant through the two lemmas `AfterCore` and `AfterSafe`
about `After`, for arbitrary new references. `IInv` consists of `Core` (who holds a reference holds a
channel that exists, only a thread between lookup and close does), `Flags`, `Safe` and `Down` (from the
end of `clear_and_close_channels` on the map has only what functions on the workers added since the
destructor began, and no call of the main thread is under way).
`Safe` adds `OpenIsClosed` to the properties: where `shutdown()` does not fail, an open socket
is in the map or in the hands of a thread that is about to close it. That is why a destructor
finds nothing to post.

`ParserMessagesAsSent` is about any number of messages of any length and any cut. `ParserInv` says
that as long as there was no error the stream is made of the messages sent, the k-th of which ends
at `ends[k]` (`Laid`), and that `input_data` is through with `At` symbols, which is between two
messages or inside the one after those given out (`Place`). Inside a message its position decides
everything the parser holds: in the start line `cache` is the words so far (`InStart`); after `f`
lines of the head `tmp` has exactly these (`InHead`); in the body `tmp.body` has the part that
arrived and room for exactly the rest (`InBody`, `Sink`), so that a body neither takes a symbol of
the next message nor leaves one of its own. The proof takes one action at a time: each one moves the
position by what it used up, gives out the message, or breaks off in one that may be refused or may
meet a body of another length (`Outcome`). From then on only what had been given out before is claimed,
and that the message was such a one. Nothing is assumed of the application, the files it receives into,
or the system.

`SendIsStreamButForRests` is about all cuts of all writes; that its exception is not a stutter of the
stream is what the run `partial_write` shows.

The theorems about `HttpHead` have two parts. `HeadInv` says for each name how its lines and the
arguments of its setters belong together (`Good`): a name with a setter of its own has exactly the line
of the last argument, or nothing is claimed because somebody else wrote it; a name that collects lines
has an injective `Pairing` of its arguments with lines that the setter wrote for them, which survives
lines added on either side, the line `del_setcookie` takes away and the line that `merge` chooses.
The other part is what a getter makes of a line, for every text: `SplitCut` (`split` cuts at the
first separator, and then goes on with the rest), `FinalQuoted`, `FinalPlain` and `FinalComma` (how
`split_ky` stands after one more field, whatever commas are between its quotes), and that md5 and base64
are injective, so that `check_auth` compares what went in. `Pieces` and `Scan` are recursive functions
along a text. That they exist (`PiecesExist`, `ScanExist`) and what they compute is shown by induction
on the length, where the claim is a set of lengths and the step looks at the least one outside it
(`LeastNat`, `Induction`), so no induction principle with an operator parameter is needed.

Their assumptions are on constants and TLC evaluates them in the run `head`. `ArgsAssumption`: nothing is
escaped in a challenge or in credentials, so fields have no quotes and no blanks at their ends, the
unquoted `qop` and `nc` no comma, and a Basic user and password no colon (section 5 says what happens to
one); numbers are those an int64 or uint64 holds. `OthersAssumption`: a line of a merged head that is
known to come from a setter is the one the setter writes, its cookies are those that were set in it, and
nobody but the setters uses the name `X-Number`. `HeadAssumption`: heads are sequences of lines per name, within the bound. Received heads are
otherwise arbitrary.

Only model-checked: liveness (`EventuallyDelivered`, `SendEnds`, `RemovedIsDestroyed`,
`ClosedServerStops`, `UnknownIsDropped`, `EventuallyAnswered`, `AnsweredThenClosed`,
`InputUsedUp`, `TimerFires`, `ShutdownEnds`), which is out of TLAPS's reach; and `CookiesFound` of
`HttpHead`. The code reads cookies from all lines behind the first one, those of other names too
(http_head_impl.hpp:53). For a name that no such line reads like `CookiesFound` says that exactly the
cookie that was set first is found, for a `spoiled` one only that some cookie is. A proof would need
what `split` makes of a line that was put together from the leftovers of arbitrary walks.

## 5. Not modelled, and the plan

In this order:

1. The running sub-tasks of `download` (`download_cb`, `on_download_status_change`) with
   `HttpParser` and ranges inside a file (`HttpBody` with `range_.start` and `range_.end`,
   the read side, `save_body_as_file`). As the code stands a sub-task writes nothing (see below), a 200
   answer ends with NOT_SUPPORT_RANGE, and an error calls the user back twice (http_service.hpp:754,
   761), though the comment in :681 says that there is no further call.
2. SSL clients: handshake and close without CLOSED in `TcpChannel` and `HttpRequest`. The handshake of
   an accepted client blocks its worker (ssl_client_channel.hpp:175).
3. The URL codecs of `http_util`; the send timer of a channel (`SET_SEND_TIME_OUT_MS`).
4. Proofs about `TcpChannel` with time-outs and early closes beyond `ToldClosedOnce`, and about the
   queue of `AsioService` (that a posted CLOSED event is about a channel that has left the map).

What the assumptions of the theorems and the bounds of the passing runs leave out, and what
the code does there (TLC finds each with the constants given):

* `Senders = Threads` in HttpSession: two threads pass the test of `send_flag_` together
  (http_session.hpp:402) and start two pumps.
* A close between the test of `bconn_` and the call of `on_read` (http_session.hpp:415):
  CLOSED deletes the session that the pump's bare `this` points to.
* `EarlyClose` or `ConnectTimer` in TcpChannel: `close()` finds `bconn_` false
  (tcp_client_channel.hpp:90), the handle leaves the map, and the attempt then succeeds.
* Two application threads in TcpChannel that close together: both post CLOSED.
* A resource with fewer than conn^2 bytes, or a range that ends before the resource does, in
  Download: segments behind the end (http_service.hpp:421), an end that is ignored (:443).
* Messages that went out whole raise no SEND_COMPLETE (asio_client_channel.hpp:134).
* A file opened with `HTTP_FILE_FLAG_OPEN`, as `download` opens the output of its sub-tasks
  (http_service.hpp:415): it takes no byte, and the loop of
  `input_data` does not end (the exception `misfit` of `InputUsedUp`).
* One-shot calls: two errors at the same time, or two responses in one read, call the user
  back twice; a first read that begins before the time-out is set (http_service.hpp:546) has
  none; the session stays in `session_map_`, because the callback is cleared before the
  close.
* A file that exists and is not replaced (no `CREATE_NEW`) keeps its old
  size, so the body is complete too early or never (http_body_file.hpp:142); a section that does not end
  its file is overrun by what follows it (:195). `MessagesAsSent` names these messages (`Misfittable`).
* A request with a body that the application leaves to the
  parser is given out without its body (http_request_impl.hpp:26), which is then parsed as the next
  start line; `is_complete`, "whether it is a complete message" (http_body_impl.hpp:29), is always true
  for the growing body.
* On Linux `create_null_file` fails, so responses larger than 10 MB and new files for
  received bodies are refused (`creates`, `Refusable`).
* A timer's function that adds a channel while the service is destroyed: it stays in the map, though the
  destructor means to release all of them (asio_service.hpp:51): the exception `late` of
  `ShutdownEmpties`. A timer added then that starts itself again and again keeps the destructor waiting
  for its worker: the same exception in `ShutdownEnds`.
* `del_setcookie` does not return unless the first line has the name (http_head_impl.hpp:413); the
  attributes of a Set-Cookie that Hnw wrote are not read back, because of a blank before their names
  (:754); a Basic password is cut at its first colon (:624); `set_range` refuses ranges with long
  numbers (:239), and no caller looks at its result.
* A UDP channel that could not be bound: its destructor posts CLOSED with `shared_from_this()` (Windows),
  which ends the process (`BindFails`). On POSIX systems a UDP channel with a callback stops the
  service's destructor for ever (service.hpp:391): the condition of `ShutdownEnds`.

Left out for good: dates, URLs and the contents of the MIME table as text, logging, the
configuration, query and user-data calls, each of which sets or reads one field, memory allocation failures
(except where a request cannot be built),
SSH (blocking calls into libssh2), the examples and the test of `http_util`.
