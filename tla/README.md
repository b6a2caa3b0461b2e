# Verification of http2Cpp

TLA+ models of the http2Cpp server library (`src/http2Cpp/src/http2Cpp/`), the
TLC runs that check them on small instances, and TLAPS proofs of their safety
for every instance. `PROJECT.json` ties each definition to the lines it models,
each property to a run and to a mutation of the code it catches, and each hazard
of the code to the properties that cover it.

## The system

http2Cpp is an HTTP/2-only server on standalone asio, OpenSSL and nghttp2. It
answers requests with static files or a 404 page.

| component | state | operations | talks to |
|---|---|---|---|
| `io_context_pool` | `io_contexts_`, a work guard for each, `next_io_context_` | construct, `get_io_context` (round robin), `run` (a thread per context, join all), `stop` | asio |
| `server` | acceptor (on context 0), signal set (on context 1), TLS context, `m_services` | construct, `add_service`, `run`, `do_accept`, `await_stop` | pool; makes a `session` for each connection |
| `session` | socket (`m_socket`, then `m_secSocket`), `m_data`, `http2_session`, three queues | `start`/`run` (peek), `do_handshake`, `read`, `write`, `add_to_queue`, `invoke_url_cb` | asio; calls `http2_session`; is called back by it |
| `http2_session` | the nghttp2 session, `m_streams` | `set_config`, `read_request_bytes`, `send_session`, the table's operations | nghttp2, which calls `http2_static_callbacks` back |
| `http2_static_callbacks` | none of its own; `stream_data` through nghttp2's user data | one callback per library event, `on_request_recv`, `my_read_callback`, path helpers | `http2_session`, `service`, the file system |
| `service`, `url` | `m_urls`, `m_doc_root`; callbacks by method | `invoke_cb`, `m_get_static`, `insert_url`, `insert_callback` | the file system |
| `mime_types`, `logger` | constant table; a mutex | lookup; print | |

A connection's path: the accept handler makes a session and calls `start` on the
acceptor's thread; every later handler runs on the thread of the connection's
own context. A peek decides between TLS, a plain-text redirect and nothing. After
the handshake `set_config` queues SETTINGS and the read loop begins: each read
handler gives its bytes to `nghttp2_session_mem_recv2`, whose callbacks fill
`m_streams` and submit responses, then calls `nghttp2_session_send`, whose
callbacks read response bodies and hand frames to `add_to_queue`, which starts
`async_write` if none is in flight. No object closes a session: it is destroyed
when the last handler holding its `shared_ptr` has run.

What is hard here:

* **Interleaving of a write in flight with staging.** There is no flag for a
  write in flight (the member `writing` is never used); the emptiness of
  `m_queue_write` stands for it. The write reads through views of vectors that
  are swapped and cleared.
* **Lifetime by outstanding operations.** Every return path of every handler
  decides whether the session lives.
* **Library callbacks between requests, resets and sends.** `m_streams` must
  follow nghttp2's own stream table through every way a stream can end, and a
  body is produced over many calls, in pieces flow control chooses, from a file
  opened anew each time.
* **Threads.** The accept handler touches a session whose handlers run on another
  thread; `stop` runs in a handler of one of the contexts it stops, perhaps before
  all threads exist.
* **Failure.** Write errors are only logged; a file that cannot be opened fails
  the library call and with it the connection; four places let an exception
  through to `io_context::run`, which ends the process.

## Modules

```
OrderedChannel <== WriteQueue          Exchange <== Connection
                       ^                                |
                       |  instantiates                  |  composes
                    Session  <--------------------------+
                    Http2Session <----------------------+
Server          Service          Router
```

(`<==` is an abstract specification and what implements it.) `Connection`
composes `Session`, which instantiates `WriteQueue`, with `Http2Session`.
`Server` sees a session as `SessionHandler`/`SessionHandlerEnds`, the handlers on
its thread. `Service` and `Router` are the part of `on_request_recv` that
`Http2Session` abstracts to the outcomes it tells apart: `Router` makes a service
name and a url of a path, `Service` makes an answer of these.

### WriteQueue: `add_to_queue`, `write` and its handler

The variables are the session's members plus `writes`, the asio operations
outstanding (a set, so that two at once can be expressed), and the histories
`queued`, `wire` and `write_error`. A frame is a number, the order in which it was
staged, and stands for the address of its bytes as well: `Transmit` sends what
the operation's view points at *now*, and `Dangling` if no queue holds the frame
any more. `Write` is the body of `write`, entered with the values its caller left
in the members, so that `AddToQueue` and `WriteDone` are each one step, as the
handlers are.

| property | what it says |
|---|---|
| `WireInOrder` | the peer receives frames 1, 2, 3, ... |
| `OneWriteInFlight` | never two `async_write`s on the stream |
| `BuffersOwned` | what a write has yet to send is in `m_queue_write` |
| `NoStrandedFrame` | a staged frame has a write ahead of it, or a write failed |
| `EventuallySent` | a frame is sent unless a write fails |
| `ImplementsChannel` | the queue is an `OrderedChannel` with `broken <- write_error`: nothing is sent after a failed write either |

### Session: the connection

Adds to the queue where the socket is, the operations outstanding (`pending`),
the handler in the middle of a library call, whether the `http2_session` exists
and whether a call failed. One handler runs at a time (`Idle`); a library call
stages any number of frames (`SendFrame`; `send_callback` would turn away one of
more than 100857 bytes, which nghttp2, whose frames have 16393 at most, never
makes) and then succeeds (`CallReturns`,
`read` again), fails (`CallFails`, no further read) or throws (`CallThrows`).
`Held` is the reference count: some operation outstanding or handler running.
An error of the peek is `PeekOther`, as in the code, which logs it and goes on
with a zero buffer. `terminated` is an exception that left `io_context::run`.

| property | what it says |
|---|---|
| `SingleChain` | one operation or handler drives the connection, so `m_data` is not read into while parsed; writes come beside it |
| `FramesAfterHandshake` | frames only exist behind a finished handshake |
| `DrainedWhenDestroyed` | a destroyed session has sent everything it was given, or a write failed |
| `NoCallAfterFailure` | a library call that failed is the last one |
| `Released` | a session whose peer is gone, whose write failed or whose library call failed is destroyed |

### Http2Session: streams and callbacks

One callback is one step. `call` is the library call in progress, `lib` nghttp2's
state of each stream, `user_data` the streams whose user data points into
`m_streams`, `answer` how far a response got, `window` the credit of the
connection's flow-control window. The library's part is modelled as the order in
which it may call back: a header block is contiguous, a response body is asked for
only while there is credit, a stream is closed by a reset from either side or by
the END_STREAM of its response. Paths are the cases the code tells apart: a file,
`/`, one that matches nothing, one `check_path` rejects, none (CONNECT). Another
program edits files at any moment. `over` says why the read loop ended; `no_file`
and `exception` are the two ways one request ends more than its own stream.

`goaway` is how nghttp2 itself ends a session. On a connection error (a forbidden
frame, a header block that cannot be decompressed, a stream beyond an acknowledged
limit) it queues GOAWAY, drops what was queued for the streams and ignores all
further input, but keeps the streams, and both `nghttp2_session_mem_recv2` and
`nghttp2_session_send` succeed (`ConnectionError`, `SendGoaway`). The code never asks
`want_read` or `want_write`, so `SendReturns` registers the next read all the same.
A stream beyond a limit the peer has not acknowledged is refused alone (`Refuse`).

| property | what it says |
|---|---|
| `TableMatchesLibrary` | `m_streams`, user data and nghttp2's active streams are the same set |
| `NoRequestForgotten` | every complete request has a response submitted when the handler ends |
| `ReadCallbackFindsStream` | the body of a response is never asked for a stream that has no entry |
| `BodyContiguous`, `BodyComplete` | the pieces of a body follow one another and a finished body has the length first measured |
| `StatusMatchesBody` | 200 goes with a file, 404 with the error page (proved, no run of its own) |
| `EventuallyAnswered` | a complete request is answered, reset, or the connection ends or is terminated |

### Connection: both parts together

A step of `Connection` is a step of `Session`, a step of `Http2Session`, or, where
one calls the other, a step of both: `ReadBytes` is the read handler entering
`read_request_bytes`, `SendHeaders`/`SendData`/`LibraryReset`/`SendGoaway` a callback whose
frame goes to `add_to_queue`, `SendReturns` and `CallFails` the result on which the read
is registered again or not. It adds only two histories: `frames`, what each frame
given to `add_to_queue` carries, and `asked`, the streams whose request was
complete. `Configure` is `set_config`, `ControlFrame` the library's answer to a
SETTINGS or PING, which takes a place in the queue between the frames of streams.

`Exchange` is what a peer is promised, per stream: an answer only to a complete
request, the status before the body, exactly one length of body, then the end and
nothing more. It is implemented by the frames *on the wire*: the refinement mapping
adds up what the transmitted prefix of `frames` carries. `ImplementsExchange` excuses
a step that lets nothing arrive and no request or measurement happen (`Unseen`)
from being looked at, as it cannot change what is mapped; the proof shows the
refinement without that excuse as well.

| property | what it says |
|---|---|
| `ImplementsExchange` | what the peer sees of its streams is an `Exchange`, whatever queue, flow control, resets and errors do |
| `ReadUntilFailure` | the connection is read exactly until a read or a library call fails or an exception ends the process; nothing else stops the read loop, a GOAWAY included, and nothing resumes it |
| `AnsweredBeforeDestroyed` | an answer read to its end is on the wire when the session is destroyed, or a write failed |
| `AnswerReachesPeer` | a complete request's END_STREAM, or a reset, reaches the wire, unless the connection ends or is terminated |
| `GoawayReachesPeer` | the GOAWAY of a terminated session reaches the wire behind whatever was staged before it, unless a write fails |

### Service: registration and lookup

The phases of `example/server/main.cpp`: the application constructs services, of
class `service` or of one derived from it (`Construct`), inserts urls (`InsertUrl`),
registers them under any names (`AddService`) and runs (`Run`); then requests come
(`Request`: `session::invoke_url_cb`, `service::invoke_cb`, `url::invoke_callback`,
`m_get_static`), while files appear and vanish (`EditFile`). A file is a folder and
a document, since `doc_root` is a prefix of a file name. `asked_root`, `inserted` and
`latest` are history, what the application asked for, against which the code's
own state is compared. A method without a callback ends the process (`Throws`). MIME
types are looked up with what `m_get_static` copies: seven bytes.

| property | what it says |
|---|---|
| `AnsweredByLatest` | every answer is that of the service registered last under the name, from the files of that moment, or an error |
| `DocRootAsGiven`, `OwnCodeAnswers`, `TypeOfExtension` | what the header's comments and the MIME table promise; each violated, see Findings |

### Router: paths

Strings are sequences of bytes. `OnHeader` is `on_header_callback` for `:path`
(cut at `?`, decoded by `percent_decode`, which is given the memory behind the path
too, as it reads it), then `on_request_recv` rejects (`check_path`) or splits
(`get_service_and_url_path`). The library hands over any path but an empty one: that of
OPTIONS or of another scheme need not start with a slash. `SplitAt` has the results
as far as their sizes reach. Behind a second slash the code copies as many bytes to
the url as the whole path has, into a string resized to less; `CopiesFit` says when
that ends inside the string's memory (`Room`, as libstdc++ allocates it, with
`InlineSize` for its 15 bytes), and a path for which it does not goes to `Overrun`, after
which nothing is claimed. `PlainRequest` is the redirect's target, cut out of what
was peeked. `Reference` is the decoding of RFC 3986, written without regard to the
code.

| property | what it says |
|---|---|
| `DecodesPath` | `percent_decode` is the reference decoding, but for a path that is one escape and an escape at the very end of a path with a query |
| `StaysBelowRoot` | neither service nor url of an accepted path has a segment that starts with a dot, however it was spelled |
| `SplitRecomposes` | the service, which is one segment, and the url make the path up again; whether the slash between them is the url's is left open, see Findings |
| `RedirectKeepsTarget` | the redirect goes to the target asked for, if that has no `H` and was peeked in full; longer ones end the process |

### Server: threads, accept loop, signals

`thread` and `task` say for each context whether its thread exists and which
handler it is in; `main` and `main_i` are where `io_context_pool::run` is,
`stop_i` where `stop` is, so that a signal during the spawning of threads, and a
context stopped while another still runs handlers, are behaviours of the model.
The accept handler is two steps, `StartSession` and `Rearm`, since the peek it
registers may complete on another thread in between. `Init` is the state after
the constructor, which takes three contexts. `dealt` counts how often a context
was handed out more than the one handed out least.

| property | what it says |
|---|---|
| `Balanced` | no context is ever dealt two more connections than another |
| `AlwaysAccepting` | an accept is pending or about to be made, whatever failed |
| `NoEarlyExit` | `run()` of a context does not return before it is stopped (`io_context_pool.cpp:21-22`) |
| `QuietAfterRun` | when `run` returns every thread has returned and none is in a handler |
| `OneHandlerPerConnection` | no two threads are in handlers of one connection |
| `ShutsDown` | a signal ends `run`, whenever it comes |
| `Served` | a connection's handlers are run until the stop |

## Runs and bounds

| run | instance | why it is enough |
|---|---|---|
| `write_queue` | 6 frames | a first write of one frame, a second of several, and frames staged behind that; a seventh repeats a position already seen |
| `session` | 4 frames | SETTINGS, then a write with frames staged behind it, then a library failure or an error at each point |
| `http2_safety` | 3 streams, limit 2, one file of length 0 to 3 or missing, one edit, chunks of 2, window 3, streams symmetric | two streams compete for credit, a third is refused or takes over a closed one's place; a body of 3 takes two calls, or three when the window splits it; a body of 0 and an exact chunk are the boundaries |
| `http2_live` | 2 streams, both open at once, one edit, a file of length up to 2, chunks and window of 2 | two responses share one window, which must be refilled between their chunks; symmetry is not used with liveness |
| `server` | 3 threads, 2 connections | acceptor, signal set and first connection on different contexts; the second connection shares the acceptor's |
| `connection_safety` | 2 streams, a file of length up to 2, chunks of 1, window 2, up to 12 frames, streams symmetric | two answers interleave in the queue and share one credit, which one body uses up; a body takes two calls. The bound on frames is never reached: two answers, resets, SETTINGS and GOAWAY are fewer |
| `connection_live` | 1 stream, one edit, a file of length up to 1, one frame of the library's own besides SETTINGS and GOAWAY | the file may vanish or change under the answer, and other frames and a GOAWAY come between. Flow control does not block here; bodies that wait for credit, and two streams sharing a window, are in `http2_live` |
| `service` and the three `service_*` | 3 names (`""`, `/`, one other), 2 roots, 2 documents, 5 places for files, GET and HEAD, one insertable url | a default and a named service, registered any number of times or never; a document found and not found in every folder the code can form; a method with and without callback |
| `router` | paths of up to 7 bytes over `%`, `.`, `/`, `2`, `?`, `E`, `F`, followed by a backslash; targets over `/`, `2`, `H`; a peek of 9 bytes; strings that hold 4 bytes themselves | `%2E` and `%2F` spell the dot and the slash; paths with and without a leading slash, a path of one escape, the three-byte cases at the end of a path, two escapes in a row, `/../`, an escape just before `?`; copies that fit and copies that overrun, beside and beyond the inline buffer; targets shorter and longer than the peek |

Deadlock is not checked: a connection that was destroyed, a process that ended
and a queue with nothing to write rest. That nothing rests too early is what the
liveness properties say.

A pool of one thread, the library's default, is covered by the proofs as far as
safety goes. Liveness is checked with three threads only, where the second
connection competes with the accept loop for its thread.

Every property of every passing run has a mutant in `PROJECT.json`: a definition, just
before the one it mutates, that makes a plausible mistake the property catches.

## Fairness

* *Handlers run to their end* (weak fairness of the steps of a handler, `SendGoaway`
  among them): no handler blocks; files are read synchronously.
* *A completed operation's handler is taken up* (weak within one connection, strong
  in `Server`, where handlers compete for a thread): an `io_context` runs its
  handlers first in, first out.
* *A write is finished or failed* (`WriteQueue`, `Session`): the transport's part.
  `Transmit` and the write's handler need strong fairness in `Session` since the
  read loop may keep the thread busy at any one moment.
* *A peer that is gone is noticed*: the operating system completes outstanding
  operations with an error. Nothing is assumed of a peer that is there and
  silent, and the code has no timeout: such a session is kept.
* *PeerFairness* in `Http2Session`: the peer keeps the connection moving, ends the
  header blocks it begins and returns the credit it takes. The server cannot
  enforce any of these; `EventuallyAnswered` is about a peer that keeps to them.
* *Connection* takes over both: what is weak in a part stays weak where nothing of
  the other part can take the thread in between, and is strong where it can.
  `ReadBytes` is part of it, as in `PeerFairness`; a peer that goes silent is not a
  behaviour `AnswerReachesPeer` speaks of.

## Proofs

All proofs hold for every value of the constants; assumptions are only those the
modules name (`MaxFramesAssumption`, `ServerAssumption`, ...), the strongest of which
is that a peek has room for the method, a space and a slash (`RouterAssumption`;
the code peeks 100 bytes).

**WriteQueueProofs.** `WireInOrder` is not inductive: it says nothing of what is
still to be sent. `IInv` adds that the two queues hold consecutive frames, that
everything before them was sent (`Retired`), that an outstanding write's views
are exactly `m_queue_write` with a prefix of them on the wire (`WritesInStep`), and
that with no write in flight either everything is sent or a write failed
(`AtRest`). From `WritesInStep` two outstanding writes are equal, which is
`OneWriteInFlight`. `Refinement` shows each step to be a step of `OrderedChannel` or
a stutter (`ImplementsChannelSafely`; its liveness is left to TLC).

**SessionProofs.** The lemma `QueueImplemented` shows each step of a session to be
one of the queue's or to leave it alone, so every theorem of `WriteQueueProofs` holds of
every connection; `DestroyedDrained` and `InOrderDelivery` are drawn from the
queue's `AtRest` and `WireInOrder` that way. `LifeInv` is the inductive invariant of
the handlers: which socket and how many frames go with each operation, and that
nothing is pending once a call has failed.

**ServerProofs.** `Balanced` needs the exact position of the round robin
(`DealtInTurn`: the contexts before `next_io_context_` lead by one), carried through
the wrap-around by the lemma `DealInTurn`. `Affinity` (a connection's handlers run
on its own context's thread) gives `OneHandlerPerConnection`; `ThreadsJoined` relates
the join loop to the threads.

**Http2SessionProofs.** `IInv` has nine parts. Besides six of the properties it
says that a stream nghttp2 has not seen has left no trace (`Fresh`), that a complete
request has its response unless the callback threw (`Answered`, from which
`NoRequestForgotten` follows), and that what is left of a body and what was sent add
up to what was measured (`BodyAccounted`). Seen stream by stream (`StreamInv`,
`EntryInv`), a step has to be looked at only for the stream it changes: that is the
lemma `OneStream`, from which each callback's proof takes its shape.
`ReadCallbackAddsUp` is the arithmetic of `my_read_callback`, for any chunk and window.

**ConnectionProofs.** The lemmas `RefinesSession` and `RefinesHttp2Session` carry all
theorems of `SessionProofs` and `Http2SessionProofs` over to a connection
(`Inheritance`): its steps are steps of either part or leave it alone. On top,
`LoopInv` relates the handler of the one to the call of the other (`ReadLoop`), and
`LogInv` says that an answer read to its end has its last frame in the log;
`AnsweredThenDestroyed` combines it with the queue's `WireInOrder` and the session's
`DrainedWhenDestroyed`. `TypeCorrect` shows the log to have exactly the queue's frames.

**ExchangeProofs.** `ExchangeImplemented` is the refinement of `Exchange`, and with it
`ImplementsExchange`, for any number of streams and any lengths. Its invariant `ExchangeInv` (`LogOfExchanges`) describes, stream by
stream, the log of everything staged, not the wire: the status comes first and once
(`HeadFirst`), nothing follows the last frame (`NothingAfterLast`), the body's frames add
up to what `my_read_callback` read (`BodyLogged`), and how far the log is agrees with
how far nghttp2 is with the stream (`Progress`). None of these is inductive without
`Http2SessionProofs`' invariant, which is inherited: that a body's pieces add up to
the measured length is what makes the last piece complete. Since the wire is a
prefix of the log (`WireInOrder`, carried over from the queue), what the peer has is
the sum over that prefix. A step of the code that stages frames is then a stutter of
`Exchange` or its `Ask` or `Measure`, and the step that transmits one is the
`Respond`, `Data` or `End` that the frame's kind names (`ArrivalStep`). `SumTo` is a
recursive function; the lemmas `SumExists` to `SumSame` give its equations for every
length and what adding a value at the end does.

**ServiceProofs.** `SameService`: the copy under a name looks in the same folder and has
the same callbacks as the object last passed to `add_service`, although copying
slices it; `AnsweredByLatest` follows for any names, roots and files.

**RouterProofs.** All five properties of `Router`. `FindIsFirst` (the least place of a
byte, by well-foundedness of `Nat`) and `AcceptedPath` (what the split makes of any
accepted path) give `StaysBelowRoot` and `SplitRecomposes`, whatever the decoding
yields, for paths of any length and strings with any memory, as far as the copies
fit it: of a path that overruns neither theorem says anything. For `DecodesPath` both the loop of `percent_decode` and `Reference` are recursive
functions from the end of a string; `SuffixRecursion` shows that such functions exist
and obey their equations. `EscapeStandsForOne` is the arithmetic of two hexadecimal
digits: an escape the code recognises stands for the byte it computes and no other.
`DecodesAlike` then goes from the end of the path to its beginning (`FromTheEnd`): from
any place on, the loop's result is the reference's or goes on after it with a
terminator (`Continues`). The exception in `DecodesPath` shows where it must: the two
bytes copied at the end are the path's own unless an escape ends there, and then
they begin with the terminator only if no query follows. `ShortReference` is the path of
at most three bytes, which the loop is not entered for. `SameCString` draws the
conclusion about what the file system sees. `TargetOfPeeked` does the same for the
redirect's target, for a peek of any size.

Only model-checked: all liveness, and with it `ImplementsChannel`, which includes
fairness (its safety is proved); the properties the findings are about, which do not
hold. The proofs of the two recursive functions use the library's `WFMin` on `Nat`
where an induction theorem would be expected: those take an operator as a parameter,
which the installed provers cannot instantiate.

## Findings

Runs that end in a violation, each of a line of the repository:

* `service_root`: the constructor stores a document root only when none is given
  (`service.cpp:39`), against `service.hpp:35-38`.
* `service_own`: `insert_url` is empty (`service.cpp:82`), and `add_service` takes and
  keeps the base class by value (`server.cpp:61`, `server.hpp:23`), against
  `service.hpp:22-25`, by which a service may have urls and a class of its own.
* `service_mime`: seven bytes are copied as the extension of a file
  (`service.cpp:70`), so no entry of `mime_types.cpp` ever matches and every static
  file is `text/plain`.

One more disagreement has no run, since it can be read off one line: for
`/user/settings` "the service is user and the url requested is settings"
(`service.hpp:43-44`), but the code copies from the slash on and the url is
`/settings` (`nghttp2_callbacks.hpp:219`), while that of the default service has no
slash (line 209). `SplitAt` has what the code does; no property demands either.

What no run states is in `PROJECT.json` as hazards with the line where they bite;
the models contain what the code does. A session that nghttp2 terminated with GOAWAY
is read on until the peer leaves. A path behind a second slash may be copied beyond
the memory of its url (`nghttp2_callbacks.hpp:219`). The redirect hands `async_write` a string that
dies with the handler (`session.cpp:72`), cuts its target before an `H` and ends the
process for a long one. `shutdown`, `set_option` and `std::map::at` can throw out of a
handler too. A path whose last bytes are an escape is decoded with two bytes of its
query, and a path that is one escape is not decoded. A file that can no longer be opened ends its whole connection. A failed
write leaves a queue that only grows until the read fails too.

## Not modelled

* The destruction of the server, its acceptor and the contexts: the standard library
  chooses the order, and what a socket does whose context is gone is undefined, so
  a model could promise nothing.
* Directories and devices as static files: what `tellg` and `read` then give is the
  system's choice.
* What `get_service_and_url_path` overwrites when a copy leaves the memory of its
  string: undefined, and `Router` stops there (`Overrun`). The same copy reads as far
  beyond the end of `url_`; the bytes it gets there are behind the results' sizes and
  are never looked at.
* `send_callback`'s answer to a frame of more than 100857 bytes, which nghttp2 never
  makes.
* The bytes of the plain redirect's reply, those of a string that no longer exists.
* TLS and ALPN, which appear as the choice between `HandshakeDone` and `HandshakeRefused`. HPACK and the internals of nghttp2
  are external; the order in which the library calls back is modelled.
* `set_file_path_to_stream`, which is never called; the logger (no state); the
  wording of responses; `example/server/main_example.cpp`, an implementation the
  library replaced and which is not built (a third of the source lines); CMake and
  Python scripts.
