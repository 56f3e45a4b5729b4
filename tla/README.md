# Verification of Lomond

Lomond is a WebSocket client: an application iterates over a `WebSocket` object
and is handed events, while one generator, `WebsocketSession.run()`, does the
input, the output and the time-keeping.  This directory models its core in
TLA+, checks it with TLC on small instances, and proves part of it with TLAPS
for every value of the constants.

Paths below are those of the repository (`src/lomond/...` is written
`session.py`, `websocket.py` and so on).

## 1. Inventory

### Components

| Component | State it keeps | Operations | What makes it correct |
|---|---|---|---|
| `WebSocket` (`websocket.py`) | `state.closing`, `state.closed`, `state.sent_close_time`, `state.session`, `state.stream` | `connect`, `feed`, `close`, `send_*`, `on_disconnect` | one Close at most, nothing after it; every close handshake, whoever begins it, ends in `Closed` or `Closing` and then `Disconnected` |
| `WebsocketSession` (`session.py`) | `_sock`, `_lock`, `_ready`, `_poll_start`, `_next_ping`, `_last_pong` | `run`, `write`, `send`, `_regular`, `_recv`, `_close_socket` | frames do not mix; the socket is released before the last event; the events come in an order that makes sense; rates and timeouts keep their bounds |
| `WebsocketStream` (`stream.py`) | `_frames`, `_parsed_response` | `feed`, `build_message` | the messages delivered are those the server sent, wherever the chunks end |
| `Parser`, `FrameParser` (`parser.py`, `frame_parser.py`) | `_awaiting`, `_buffer`, `_until`, `_is_text`, `_utf8_validator` | `feed`, `parse`, `on_frame` | legal input is accepted, illegal input refused, however it is cut |
| `Frame`, `Message` (`frame.py`, `message.py`) | none | `validate`, `build`, `to_bytes`, `Message.build` | the rules of RFC 6455 |
| `persist` (`persist.py`) | `retries`, `retry_after` | one generator | waits follow from the outcomes; the exit event ends it |
| `Deflate` (`compression.py`, `extension.py`) | the two zlib contexts | `from_options`, `compress`, `decompress`, resets | both ends keep the same context |
| Upgrade (`on_response`, `build_request`, `response.py`) | `key`, `accept` | one request, one response | only a matching answer upgrades |
| Connecting (`_connect*`, `proxy.py`) | none between calls | addresses in turn, proxy dialogue, TLS | a socket or `ConnectFail`, none left open |
| Selectors (`selectors.py`) | the socket registered | `wait` | returns when there is something to read, or after the timeout |
| Encoding (`frame.py`, `mask.py`, `utf8validator.py`) | the validator's state | `build`, `mask_payload`, `validate` | what one side writes the other side reads, at every boundary of a length or of a character |

### How they interact

`WebSocket.connect()` makes a session and returns the generator `run()`.  `run()`
selects, receives, and passes the data to the generator `WebSocket.feed()`,
which passes it to `WebsocketStream.feed()`, which passes it to the parsers.
Each level yields to the one above; the topmost `yield` hands an event to the
application, and suspends all of them.  While they are suspended the handler may
call `close()` or `send_*()` on the same thread, or drop the generator; other
threads may make these calls at any time.  The calls end in
`WebsocketSession.write()`, which takes a lock; the flags `closing` and
`closed` and the attribute `_sock` are also read and written without it.
`persist()` iterates over one `connect()` after another.

### What is hard about it

* *Interleaving.*  `close()` tests two flags, sends the Close frame, then sets
  the flag that keeps others from sending.  `_close_socket()` shuts the socket
  under the lock and clears `_sock` after it.  `_on_close()` clears `closing`
  before it sets `closed`.
* *Suspended generators.*  `_regular()` runs between two events of the same
  chunk, with `feed()` suspended inside a close handshake or between an error
  and the Close it sends.  An exception there runs `feed()`'s `GeneratorExit`
  handler; dropping the generator does so at some of the yields, not at others.
* *Loss.*  The connection may end or break at every point, a peer may stop
  reading while `sendall()` holds the lock.
* *Chunks.*  The response, headers, payloads and characters are cut anywhere;
  three pieces of parser state live across chunks and across messages.
* *Time.*  Polls, pings, the pong timeout and the close timeout are checked by
  one loop which messages and handlers delay.

`PROJECT.json` lists these hazards with their lines and the properties that
would catch them.

## 2. Plan

The order is that of importance: who may write on the connection and how it
ends, then what is delivered, then time and retries, then how the connection
is opened, and what is left of it when the next one is up.

| Module | Models | State |
|---|---|---|
| `WebSocket` | the calls of every thread | done |
| `Session` (composes `WebSocket`) | the event loop, the application, the server | done |
| `EventStream` | the abstract specification of an iteration | done, `Session` implements it |
| `SessionProofs` | theorems about `Session`; `Session` implements `EventStream`; the dropped generator; the order of the frames | ten theorems |
| `Compression` | negotiation, both contexts, `compress()` outside the lock | done |
| `CompressionProofs` | theorems about `Compression` | three theorems |
| `Stream` | bytes to messages | done, without compression |
| `StreamProofs` | theorems about `Stream` | four theorems |
| `KeepAlive` | the clock of `_regular()` | done |
| `KeepAliveProofs` | theorems about `KeepAlive` | seven theorems |
| `Persist` (uses `EventStream`) | `persist()` | done |
| `PersistProofs` | theorems about `Persist` | three theorems |
| `Connecting` | addresses in turn, proxy, TLS, sockets left open | done |
| `Upgrade` | `build_request()`, the response's headers, `on_response()` | done |
| `Utf8`, `Wire` | the validator's table; frames as bytes, both ways | done |
| `Connection` (composes `Connecting`, `Upgrade`, `Wire`) | a connection from the first address to its frames | done |
| `WireProofs` | encodings, the validator, the parser of frames | the invariant `WireInv` |
| `ConnectionProofs` | theorems about `Connection` and what it is made of | seven theorems |
| `Reuse` | `connect()` again while other threads are in their calls | done |
| `ReuseProofs` | theorems about `Reuse` | two theorems |

Theorems, in the order in which they are worth proving:

1. `SessionTypeOK`, `OneWriter`, `SocketReleased`, `GracefulWasAsked`,
   `QuietAfterEnd` for any number of threads - done.
2. `EndedIsQuiet` and `ReuseTypeOK` of `Reuse` for any number of threads and
   connections - done.
3. `HandsOverServer` and `AddressesTried` of `Connecting` - done.
4. All of `KeepAlive` for every rate and timeout: `PingsPaced`, `PingsPrompt`,
   `PollsKeepComing`, `SilenceIsNoticed`, `CloseIsBounded`, `KeepAliveTypeOK`,
   and `NoFalseTimeout` for a timeout that leaves room - done.
5. All of `Persist`: `ExitStopsRetries`, `PersistTypeOK`, `WaitFollowsOutcomes` -
   done.
6. `EventOrder`: every step of `Session` is a step of `EventStream` or a stutter;
   `DroppedIsShut` - done.
7. `FramesInOrder`, `ClosedWasSent`, `ErrorSendsClose` for `Users = {}` - done.
8. All of `Compression`, `ServerReads` when one thread compresses - done.
9. All of `Stream`: `StreamTypeOK`, `Faithful`, `AcceptsOnlyLegal`,
   `NoFalseAlarm` - done.
10. `UpgradeAgreed`: that `OnResponse` is `IsUpgrade`, for lines of any number, by
    induction over them as in `StreamProofs` - done.
11. The properties of `Wire`: `ServerFrameUnderstood`, `ClientFrameUnderstood`,
    `Utf8Agrees`, and `ConnectionTypeOK` of the module that extends it - done.

## 3. The modules

### `WebSocket.tla`: calls

One action per read or write of state that two threads share; `pc[t]` is where
thread `t` is and `frame[t]` what it is sending.

| Action | Code |
|---|---|
| `StartClose`, `CloseTestsClosed`, `CloseTestsClosing` | `close()`: `if self.is_closed`, `if self.is_closing` |
| `CloseSetsClosing`, `CloseSetsTime` | `closing = True`, `sent_close_time = ...` |
| `StartSend` | a `send_*()` method, `_send_request`, `_send_pong`, an automatic ping |
| `WriteUnavailable`, `WriteAcquires` | `with self._lock`, `if self._sock is None` |
| `WriteTestsClosed`, `WriteTestsClosing` | the next two tests of `write()` |
| `Sendall`, `SendallFails` | `self._sock.sendall(data)`, which reads `_sock` a second time |
| `WriteRaises`, `WriteReturns` | `_send_close()` swallows `WebSocketUnavailable` and `TransportFail`, which is all that `write()` raises; other callers pass it on |

A step that enters `write()` acquires the lock and makes the first test: until
the lock is released no other thread sees a difference.  `sendall()` needs a
peer that reads: with `peer = "stalled"` it has no step, which is the code
blocking with the lock held.  A frame is a model value; its bytes, its mask and
its payload are not needed by any property here.  On `peer = "fin"` it may do
either: the first send after the end of file still succeeds.  A send that raises
`TypeError` or `ValueError` before it reaches `session.send()` changes nothing
and has no step.

### `Session.tla`: the loop

`rpc` is the program counter of `run()` and of the `feed()` inside it.  At
`"yield"` both are suspended.  `after` is where a yield returns to; `feeding`
is where `feed()` is suspended and decides what dropping it does.

| Actions | Code |
|---|---|
| `Start`, `Connect`, `ConnectFails`, `SendRequest`, `RequestSent`, `RequestFailed` | `run()` down to `Connected` |
| `Select`, `LoopEnds`, `RecvData`, `RecvEnd`, `RecvFails` | `while not websocket.is_closed`, `selector.wait`, `_recv`, the `else` clause |
| `Poll`, `AutoPing`, `Timeouts`, `ForceDisconnect` | `_regular()`, which runs after `select` and after each event, once ready |
| `FeedAccept` ... `FeedCritical` | `feed()` with `_on_event()`: one per kind of message or error |
| `ResumeMessage` ... `ProtocolErrorEnds` | what `feed()` does after the handler: `_on_close()`, `close()` after an error, `force_disconnect()` |
| `CloseSocket`, `CloseSocketAgain`, `ClearSock` | `_close_socket()`, the `finally` after the lock's release |
| `ClearClosing`, `SetClosed` | `on_disconnect()` |
| `Resume`, `Abandon`, `LeaveWith`, `AppCalls` | the application: goes on to the next event, drops the generator, leaves a `with` statement (`WebSocket.__exit__`), calls methods |
| `ServerAnswers`, `ServerSends`, `PeerChanges`, the two timers | the environment |

The server answers the upgrade in one of three ways (accepted, refused, not
readable) and then sends any frames.  `"bad"` stands for what raises a
`ProtocolError`, `"critical"` for what raises a `CriticalProtocolError`,
`"bigping"` for a Ping that `send_pong()` refuses.  What `_recv()` returns is
any prefix of what has arrived.

### `EventStream.tla`: what an iteration promises

The abstract specification: `Connecting` first; `Ready` at most once and only
after `Connected`; messages only when ready and before the end; `Closing`
only if the client has not begun a handshake and `Closed` only if one was begun;
after an error, a `Closed`, an `Unresponsive` or a rejection nothing but
housekeeping; one of `ConnectFail` and `Disconnected` last; a graceful end only
after a handshake was begun.  `Session.tla` maps its state to `stage`,
`upgraded` and `handshake` (`Stage`, `ready`, `Handshake`).

### `Stream.tla`: bytes to messages

A unit is a byte of the response, a frame's header, or a byte of a payload.
`Feed` delivers any number of units that have been sent; `ReadResponse` and
`ReadPayload` take what the chunk has, as `Parser.feed()` does, so a payload
is validated in pieces.  The automaton `Utf8Step` stands for the table of
`utf8validator.py` over four classes of bytes.  The properties compare the
result with definitions that know nothing of chunks, fragments lists or
automata: `MessagesOf`, `FramesAreLegal`, `Utf8Prefix`.  `MessagesOf` finds the
last frame of each message and takes what belongs to it; `InOrder` numbers the
places it has found.

### `KeepAlive.tla`: time

`_regular()` from `Ready` on, with a clock that moves while `select` waits and
while a handler runs.  Handlers may call `close()` at any moment of the time
they take.  The server either answers every ping or leaves some out, and sends
other messages whenever it likes.  One `recv()` takes any number of them (`buf`),
and each is handled and followed by `_regular()` before the next, so what matters
for a pong is how many messages come before it (`ahead`, with `Places` for where
the pongs that have arrived can stand).  At most `Backlog` messages that are not
pongs wait when the socket is read.  The code has no such bound, a socket's
buffer and the server's will decide; here it is a constant, any number for the
theorems.

### `Compression.tla`: contexts

`permessage-deflate` from the response on.  A context is the sequence of
messages that went through it, cut off by its window; compressed data names the
context it refers to, and decompresses only where that context is held.
`Send`, `CompressCall`, `Flush`, `ResetCompressor` and `Write` are one call of
`send_text()` or `send_binary()`: `Deflate.compress()` makes two calls on one
zlib object, and none of it holds the lock.  The server at the other end keeps
a decompressor as its answer says: `ServerReceives` is what it makes of a frame,
and `understood` what it got.  `ReceiveCompressed` is
`Message.build()` with a server that keeps to its answer, or refers to a message
it may not refer to (`honest`).

### `Persist.tla`: retries

`persist()` over connections that take the steps of `EventStream` and no others,
so that what is shown for any event stream holds for `Session`, which
implements it.  Times are whole seconds.  `float()` in `_parse_retry_after()`
takes more than numbers of seconds: `NaN` is `"nan"`, which is not less than 0 and
passes for a wait, and `"inf"` is one of the numbers beyond `LongestWait`
(`threading.TIMEOUT_MAX`), for which `exit_event.wait()` raises `OverflowError`.
`BadDate` is a date that `mktime_tz()` cannot convert.  `at = "raised"` is a
`persist()` that such an exception has ended; with the exit event set `wait()`
does not look at its argument, and nothing raises.  In Python 3 a wait of `NaN`
returns at once (`Waits`).

### `Connecting.tla`: addresses, proxy, TLS

`_connect()` and what it calls, one action per call that can fail: `at` is the
program counter.  A socket records whom it reaches (`peer`), for whom it was
wrapped (`tls`) and whether it still has the 30 seconds' timeout; `open` counts
the sockets that were created and not closed.  The proxy answers with any of
`Replies`, in pieces of any size up to `RecvSize`, ends the connection, or does
neither; `Fed` is `ProxyParser.feed()` with its limit of 16384 bytes.  An
`Wrap` is the wrapping alone, the choice and set-up of a TLS context come before it
and hold no state.  An exception in `_wrap_socket()` or `_connect_proxy()` ends the attempt and closes
nothing (`WrapFails`, `RecvTimesOut`, ...): the socket is then the garbage
collector's, and `AddressesTried` counts it as the one in hand.

### `Upgrade.tla`: the handshake

Operators only.  `ParseLine` is the loop of `Response.__init__()` over the
lines of a header, a field, a fold or a blank; a value is a sequence of tokens,
so that joining and stripping it are what the code does: `Space` and `Comma` are
tokens, and what a fold and a repeated field are joined with.  `Text` has all
tokens, with those that the code tests for among them, and `Lower` is
`str.lower()`.  `OnResponse` is true where `on_response()` raises nothing.
`IsUpgrade` says the same of the lines without the loop: a field occurs once, and
what it says together with its folds is the one token asked for, in any case of
its letters.  It is what the code looks for and not all that RFC 6455 asks a
client to look for in section 4.1; the rest is listed in section 4 below.

### `Utf8.tla` and `Wire.tla`: bytes

`Class` and `Dfa` are the two halves of `UTF8VALIDATOR_DFA`.
`BeginsCharacter` is the encoding itself: the bits of a code point, the ranges
of code points by the number of bytes, and no surrogates.

`Wire` has the client's `Build` and `MaskPayload`, and the server's frames as
`FrameParser.parse()` reads them: `part` is which `read_bytes()` it is
suspended in, `buffer` and `length` are what `Parser.feed()` has and awaits.
Client and server take turns, as neither direction depends on the other.  A
payload other than text is known by its size, and its first bytes are
`Pattern`; it is cut in one or in two pieces.  `size = -1` is a length beyond
2^63 - 1, and no other frame has such a length (`Sizeable`).  `Xor` is the
exclusive or of two bytes, a sum over their bits.  What the stream makes of correct frames, and its errors, are in
module `Stream`.

### `Connection.tla`: the opening

`stage` says how far `run()` is: the attempt to connect, the request, the wait
for the response, the frames.  When `_connect()` has returned, and when the
connection is open, the variables that nothing reads again are reset, so that
states which differ only in their history are one (`ConnectReturns`, `Opens`).
The server answers the request with the key in it (`Acceptance`), with any
lines, or ends, and may do so after a part of a response (`ServerStarts`), which
`feed()` keeps without a word.

### `Reuse.tla`: connect() again

State and session number `i` are made by call `i` of `connect()`.  A thread in
`close()` or `send_*()` reads `self.state` at every test, and `self.session`
once: what it holds may belong to a connection that is over, while the flags it
looks at are the new state's.  The loop is reduced to what opens a socket,
sends the request, closes and ends.

## 4. What is checked

Passing runs (all but `connection` and `reuse` check for deadlocks;
`Terminated` is the only way to stop, and its guard says when stopping is
right.  `connection` stops when the opening has failed or a frame was refused,
or waits for a server that says nothing or half of its response; `reuse` when the bound on the
connections is reached):

| Run | Instance | What it shows |
|---|---|---|
| `loop` | one thread, three frames from the server (the answer included) of every kind, two calls | `FramesInOrder`, `ClosedWasSent`, `ErrorSendsClose`, `DroppedIsShut`, and that the loop implements `EventStream` |
| `threads` | a second thread with one call, an automatic ping, a peer that stalls, ends or breaks | `OneWriter`, `SocketReleased`, `GracefulWasAsked`, `QuietAfterEnd`, `EventOrder` |
| `live` | a second thread, a server that may send Close, a peer that stalls and may read again, fairness | `CloseCompletes`, `LossIsNoticed` |
| `stream` | up to 5 frames of 18, a response within and over its limit | `Faithful`, `NoFalseAlarm`, `AcceptsOnlyLegal` |
| `keep_alive` | poll 2, ping 11, ping timeout 25, close timeout 5, handlers and answers of up to 1, up to 2 other messages that wait, 27 units of time, a server that answers every ping or leaves some out | `PingsPaced`, `PingsPrompt`, `PollsKeepComing`, `NoFalseTimeout`, `SilenceIsNoticed`, `CloseIsBounded` |
| `persist` | 4 attempts, waits from 2 to 9, Retry-After past, long, longer than a wait may be (50), `nan`, a date out of range, and absent | `WaitFollowsOutcomes`, `ExitStopsRetries` |
| `compression` | all combinations of the options, with windows too small, too large and no numbers; two threads, one of which compresses; 4 messages each way | `ServerReads`, `ClientReads` |
| `connection` | 4 choices of proxies, 2 addresses, 6 answers of a proxy, responses of up to 3 lines out of 9, with values that differ in case, whole or in part, frames at every boundary of a length, 23 bytes of text | `HandsOverServer`, `AddressesTried`, `UpgradeAgreed`, `ServerFrameUnderstood`, `ClientFrameUnderstood`, `Utf8Agrees`, `OpeningEnds` |
| `reuse` | two connections, two threads with a call on each | `EndedIsQuiet` |

Each property has at least one mutant: a plausible bug, written next to the
definition it replaces, which makes TLC find the property violated.

### Bounds, and why they are enough

* Threads: the races are between the loop's thread and one other, or between
  two others (`data_after_close` has two).  The theorems hold for any number,
  but for those that are about one thread only.
* `MaxServerFrames = 3` in `loop`: the answer, and two frames, the shortest
  sequences in which one frame's handling meets the state left by another
  (a Close after an error, a Ping inside the close handshake).
* `MaxCalls`: each handler may close and then send, or send and then close.
* `MaxPings`, 1 in `threads` and 0 in `loop`: an automatic ping differs from
  other frames only in when it is sent, and is interesting where calls of
  another thread interleave with it.
* `MaxFrames = 5` in `stream`: a character cut by a fragment, with a control
  frame inside the text, the rest of it, and a text after that: a stale
  validator shows itself in four frames, and the fifth shows what they leave
  behind.  `MaxAhead = 2`: a chunk spans at most
  the end of one frame and the one after it, and more would only concatenate.
* `MaxHeader = 3` and `HeaderSizes = {2, 4}`: one response within the limit
  and one beyond it.  The exact limit, 16384 bytes, does not matter.
* `Horizon = 27` is more than two ping periods, and more than ping timeout and
  close timeout after `Ready`.  `Backlog = 2`: a pong comes first, last, or
  between two other messages, and messages of one `recv()` are still in hand when
  the next ones arrive.  A ping timeout of 25 is the smallest that the theorem
  `HeardInTime` covers at these rates (11 + 2 + 1 + 11, the last for 4 * 2 + 3
  handlers); it is not the smallest that will do.  But there is one: with a ping
  rate of 9 and a timeout of 18, twice the rate, TLC finds `NoFalseTimeout`
  violated by two messages before the pong.
* `MaxMessages = 4` in `compression`: a window of 8 bits holds one message, so
  that two compressed ones, a plain one and a third compressed one go beyond it.
* `MaxReply = 4` and `RecvSize = 2` in `connection`: answers of 3 to 6 bytes lie
  on both sides of the limit and take more than one `recv()`; an answer of 6
  goes beyond it before it is whole, one of 5 only then.
* `MaxLines = 3`: two fields that the test of the response needs, and a third
  line that repeats, folds or spoils one of them.
* The sizes 0, 1, 125, 126, 65535, 65536 are where the encoding of a length
  changes, and the server may also write a length in more bytes than it needs.
  TLC's integers have 32 bits, so larger lengths occur only as "too large".
* `Utf8Boundaries`: the first and the last byte of every class of the table,
  which are the boundaries of all ranges of the encoding too.  A text has up
  to three bytes; `Utf8Agrees` is about characters of up to four, which
  fragments of several frames make up.
* `MaxConnections = 2` and one call per thread and connection in `reuse`: a
  call holds one session, and the flags it reads are of that one's state or of
  the next; the theorem has no bound.
* `MaxAttempts = 4`: the bound doubles until `max_wait` cuts it off (2, 4, then
  7 out of 8).  `LongestWait = 50` lies between the two positive values of
  Retry-After, beyond every wait of the program's own.

### Fairness

Safety runs assume none.  `live` assumes weak fairness of the loop's steps, of
each thread's steps inside a call, and of the close timer: threads are
scheduled, handlers return or drop the generator, the clock advances.  Nothing
is assumed of the server, of the network, or of the application's calls.  The
peer may stop reading and begin again.  While it does not read, `sendall()`
keeps the lock and `_close_socket()` waits for it, so `CloseCompletes` is about
runs in which the peer stalls for the last time at some point: without that
condition TLC finds a peer that stalls again and again, a thread in `sendall()`,
the loop behind it, and no end.
`CloseCompletes` is about an upgraded connection (`ready`): before `Ready` the
loop checks no timeout at all.

`connection` assumes weak fairness of the thread that iterates (`LoopStep`) and
nothing of the proxy or the server.  `OpeningEnds` therefore says that the proxy
cannot hold the opening up, whose socket has a timeout, and that a server can
only by taking the request and saying nothing, or stopping in the middle of its
response.

### Where the code and the documentation differ

Three runs check a sentence of the documentation, or a test the code makes, and
TLC shows a behaviour that contradicts it:

| Run | Sentence | Behaviour |
|---|---|---|
| `data_after_close` | "No further messages may be sent when a websocket is closing" (`websocket.py:138`) | a thread in `write()` between another's Close and its `closing = True` |
| `oversize_control` | "control frames must be <= 125 bytes" (`frame.py:128`) | `validate()` runs before the payload is read |
| `compress_race` | "WebSocket objects are *thread safe*" (`docs/guide.rst:325`) | two threads that compress: the frames are written in the other order, or one carries the data of both |

Other differences have no run of their own.  A `Disconnected` is graceful when a
close was asked for (`session.py:481`, which `GracefulWasAsked` states), while
`docs/guide.rst:239` says it "will be False if the closing handshake was not
completed": `close()` and then an end of file is reported as graceful.
`docs/guide.rst:138` and `CHANGELOG.md:157` say that an exception in the loop
"will disconnect the socket": that holds where `feed()` yields inside its `try`
block (`websocket.py:391`), which is what `DroppedIsShut` states, and not at
`Connected`, `Poll` or `ProtocolError`.  A `with` statement shuts the socket when
it is left (`websocket.py:187`), which `LeaveWith` models and no property states.
`docs/guide.rst:214` says Lomond
"will force close the socket after 30 seconds" if the server does not answer a
Close; before `Ready` the loop checks no timeout (`session.py:461`), so a Close
sent at `Connected` to a server that never answers the upgrade is not followed
by one.  `websocket.py:223` calls `ping_timeout` the "maximum time in seconds to
wait for a pong response"; `session.py:348` measures from the last pong and not
from a ping, so a timeout shorter than the ping rate ends a connection on which
every ping was answered.  `docs/guide.rst:356` says the
wait is "between zero seconds and an upper limit"; `persist.py:79-83` starts at
`min_wait`.  `persist.py:44-47` calls `min_wait` and `max_wait` the minimum and
maximum time to wait; a Retry-After overrides both, as `tests/test_persist.py`
expects of a number of seconds.  `docs/guide.rst:352` says "Lomond will keep
retrying the connection until it is successful"; a Retry-After of `"inf"`, of
more seconds than a wait may have, or with a date out of range raises in
`persist.py:83` or `29` and ends `persist()`, which `WaitFollowsOutcomes` states
as what the code does.  `docs/guide.rst:361` says the backoff "prevents a client
from hammering a server"; after a Retry-After of `"nan"` there is no wait at all.
`websocket.py:225` says "double `ping_rate` would be a good starting point" for
the ping timeout; it suffices only if few messages come before a pong, since each
one received with it is handled and followed by the check of the timeout before
the pong is seen (`session.py:471-479`).  And a text's invalid UTF-8 is no longer refused as it arrives once a
control frame came between its fragments, because `on_frame()` clears `_is_text`
for every final frame; the text is still refused when it is complete, which is
why `NoFalseAlarm` and `AcceptsOnlyLegal` hold.

`on_response()` checks less than RFC 6455 asks of a client in section 4.1: it does
not look at the `Connection` header, it compares `Sec-WebSocket-Accept` without
regard to case (`websocket.py:462`), which base64 distinguishes, and it takes an
extension or a subprotocol that was not asked for.  No document of the repository
says otherwise of these, so no run states it; `UpgradeAgreed` is about what is
checked.

What the modules of the opening show that no sentence contradicts, and that a
reader of the code may want to know: a secure websocket cannot be reached
through an `https` proxy, as a wrapped socket cannot be wrapped again (`Wrap`
needs an unwrapped one); bytes that follow the proxy's answer in the same
`recv()` are dropped; between `reset()` and the assignment of `session` in
`connect()` a call in another thread raises an `AttributeError`; and a `close()`
that straddles a `connect()` sets `closing` on the new state, so that the new
request is refused and the connection ends in `ConnectFail`.

## 5. What is proved

`SessionProofs.tla` proves, for any number of threads, any bounds and any
choice of the Boolean constants, from `ThreadsAssumption` and
`SessionAssumption` only:

* `TypeCorrect`: `Spec => []SessionTypeOK`.
* `Exclusion`: `Spec => []OneWriter`.  The type invariant and `OneWriter`
  together are inductive: only `WriteAcquires` puts a thread among the lock's
  program counters, and it needs the lock free; each step that leaves them
  releases it.
* `Released`, `Graceful`: `SocketReleased`, `GracefulWasAsked`.
* `Quiet`: `Spec => QuietAfterEnd`, an action property.

`Released`, `Graceful` and `Quiet` rest on `EndInv`, as none of the three
properties is inductive.
`SocketReleased` says nothing of the states just before the last event, where
the socket is shut but `_sock` is not cleared yet; so `EndInv` adds that a
cleared `_sock`, or a program counter between the two steps, means a socket that
is shut or broken, that `_sock` is unset up to `Connect`, and that the last
event leaves only `"done"` to go to.  `GracefulWasAsked` needs that a loop on
its way out with `after = "graceful"` has seen one of the flags, which stay
set: what clears `closing` is the loop itself, elsewhere.  `QuietAfterEnd`
then follows step by step: with `_sock` cleared, or the socket shut or broken,
`Sendall` is not enabled.

It also proves `Ordered`, `Spec => EventOrder`: `Session` implements
`EventStream` under the mapping of `Session.tla` (`Stage` and `Handshake`, from
the program counter, the flags, the last event and the part of `feed()`).  Type
correctness and `EndInv` are used, and two more invariants.  `PlaceInv` says
which last event, which flags and which part of `feed()` there can be at each
place of `run()`: an event is only ever yielded by a few places, so this decides
what came before it.  `ArrivedInv` says that the server's answer comes first and
once, in the network or in the buffer, so that no message is handed out before
Ready and no second answer after it; it is the one part of the order that
depends on the server.  One lemma for each group of steps (`RefinesRun`,
`RefinesFeed`, `RefinesClose`, `RefinesCall`) shows a step of the stream or a
stutter.  Then `Dropped`, `Spec => []DroppedIsShut`:
`DroppedInv` says that `feed()`, suspended at what it handed out, is where it
catches the `GeneratorExit`, and that the socket is shut by the time
`on_disconnect()` has got past `_close_socket()`.

Its last theorems are `CloseIsLast`, `ClosedAfterSent` and
`ErrorAnswered`: `FramesInOrder`, `ClosedWasSent` and `ErrorSendsClose` when no
other thread makes calls (`Users = {}`).  That is a hypothesis the code needs:
`data_after_close` shows another thread's data behind a Close, and another
thread may write before the request is sent.  With one thread, nothing else runs
between a test of `write()` and what it protects.  `SoloInv` says so: where a
call can be under way and what the tests it has passed are still good for
(`SoloCallInv`), where there is a socket (`SoloSocketInv`), that the request
comes first (`RequestInv`), and that after a Close there is always something to
keep `write()` from sending more: a flag, the missing socket, or the program
counter that is about to set the flag (`SoloCloseInv`).

`KeepAliveProofs.tla` proves the time bounds of `KeepAlive` for every rate,
timeout and `Backlog`, from `KeepAliveAssumption` only, which says that they are
natural numbers and that no handler takes as long as a poll.  All but
`HeardInTime` say the same whatever `Backlog` is, so they hold for any traffic:

* `Polling`, `Closes`, `GivesUp`, `Prompt`: `PollsKeepComing`,
  `CloseIsBounded`, `SilenceIsNoticed`, `PingsPrompt`.  Each says how much time
  may have passed, and is not inductive, as the time allowed depends on where
  the loop is: none beyond the timeout just after the check (`Checked`), a poll
  more after `select`, a handler more after the poll event.  `PollInv`,
  `CloseInv`, `SilenceInv` and `PromptInv` say so place by place.
* `Paced`: `PingsPaced`.  `PacedInv` adds that the period of every ping sent is
  over when the next is due; the lemmas `PeriodEnds` and `PeriodBegins` are the
  arithmetic of `math.ceil(t / rate) * rate`.
* `KeepAliveTyped`: `KeepAliveTypeOK`.
* `HeardInTime`: `NoFalseTimeout`, with one hypothesis more: pings are sent, and
  `PingRate + PollRate + AnswerMax + (4 * Backlog + 3) * HandlerMax <= PingTimeout`.
  This is no promise of the program, which bounds neither how much a server sends
  before a pong nor how long a handler takes: the more messages wait, the longer
  the timeout has to be, and twice the ping rate (`websocket.py:225`) is enough
  only if the rate exceeds a poll, an answer and these handlers.  `GapInv` bounds
  the time between two pings by `PromptInv`.  `AccountInv` accounts for the pongs:
  each ping is heard, has arrived, is under way, or unanswered, in this order.
  `LagInv` says that the pong the loop waits for will be delivered in time:
  `Ahead` is how many messages come before it, at most `2 * Backlog` as one
  `recv()` may bring `Backlog` of them without it and the next as many again;
  each of them costs its handler and that of a poll event (`Delay`, with `Due` for
  what is being handled now), and the two clocks of `OnTime` count that from when
  the pong arrived at the latest, or from the pong before it.

`CompressionProofs.tla` proves, for any answer of the server, any number of
messages and any mixture of compressed and plain ones:

* `CompressionTyped`: `CompressionTypeOK`.  `NegotiatedInv` says that the options
  in force are those of the last permessage-deflate, and valid, so that zlib is
  never given a window it does not take.
* `Understands`: `ClientReads`.  `ReceiveInv`: the decompressor holds as much of
  what the server compressed as its window has room for, or nothing if each
  message starts afresh, and that is at least what a server that keeps to its
  answer refers to (`ReachedIsHeld`).
* `ReadByServer`: `ServerReads`, if no two threads compress (`OneDeflater`); the
  run `compress_race` shows why.  `FedInv`: what was given to the compressor is
  flushed by the same call.  `ContextInv`: the server holds what has passed through
  the compressor, without the one message that is compressed and not written.
  A message that `write()` refuses breaks this, but nothing is sent after it.

`PersistProofs.tla` proves `ExitIsFinal`, `Spec => []ExitStopsRetries`:
`LateInv` adds that an attempt made after the exit event was set is not
followed by another, because the next wait returns true at once.  `WaitsTyped`
is `Spec => []PersistTypeOK`: no Retry-After, and no random part, makes a wait
shorter than nothing; it is a natural number or `NaN`, whatever number, date or
text the server sent (`PersistAssumption` leaves out none but fractions of a
second).  `WaitsAsAsked` is `Spec => []WaitFollowsOutcomes`: the
property counts the attempts missed in the whole history of outcomes, `WaitInv`
says that `retries` has this count, and that the Retry-After in hand is the one
of this attempt, since a rejection is the last thing that happens to one.  It also
says when `persist()` raises: for a date out of range where the header is read,
and for a wait beyond `LongestWait` in `wait()`.

`ReuseProofs.tla` proves `StaysQuiet`, `Spec => EndedIsQuiet`, for any number
of threads, calls and connections, from `ReuseAssumption`.  A call that holds an
old session may pass every test in `write()`, because it tests the flags of the
new state; what stops it is the socket.  `QuietInv` says that a connection that
was reported as over has no open socket, that the loop works on the last one,
which is not over, and that it clears a socket only after shutting it.
`ReuseTyped`, `Spec => []ReuseTypeOK`, needs `LockInv`: a session's lock is held
by a thread that is in `write()` on that very session, whatever has become of
`self.session` since.

`WireProofs.tla` and `ConnectionProofs.tla` prove the safety properties that
`connection` checks.  `WireProofs` has what frames and bytes need,
`ConnectionProofs` the rest and the theorems, which are about the
specification of `Connection`:

* `Tried`, `HandedOver`: `AddressesTried` and `HandsOverServer`, for any number of
  addresses, answers of any size, and any limit.  Both are about the end of the
  attempt, so `AttemptInv` says more: `Counted` at which places there is a socket
  in hand; `Reaching` whom it reaches by then, for whom it was wrapped, and that
  a tunnel means a whole answer within the limit.  Once the attempt has returned,
  the rest of the connection leaves it alone (`Opening`).
* `Upgraded`: `UpgradeAgreed`, for any number of lines with any tokens.
  `LineParsed` says what one line does to the value of a header.  `ParsedTells` is
  an induction over the lines: the loop has a value for a name exactly if it read
  a field of it, and `Silent`, `Says` and `Contains` of this value are what the
  lines read so far tell of it (`Tells`).  The next line is about another field,
  continues this one, or is a field of this name (`LineElsewhere`,
  `LineContinues`, `LineStarts`); `Longer` is what joining with a space or a
  comma does to the three, and a comma leaves neither silence nor a single
  token.  `Stripped`: what is one token after `strip()` is one token with
  spaces around it.  `GetEquals` does this for every token that differs from the
  one asked for in case only.  `Accepted` follows: `OnResponse` is `IsUpgrade`.
  That the two agree is about the loop over the lines, repeated and folded fields
  and stripping, and not about what RFC 6455 asks beyond.  `Upgrading` adds
  that the key is the one of the request for as long as the answer is to be judged by it.
* `ClientIsUnderstood`: `ClientFrameUnderstood`, for frames of any size below 2^63
  and any key.  `BuildUnderstood` goes through the three forms of a length: the
  digits of a number in base 256 give the number (`TwoBytes`, `EightBytes`), and
  a mask applied twice is no mask (`XorTwice`, from the bits of a byte).
* `ServerIsUnderstood`: `ServerFrameUnderstood`, however the network cuts a frame
  and however its length was written.  The property speaks of the ends of frames
  only; `ServerInv` says what there is inside one.  `Reading`: what was gathered
  and what is to come are the slices of the header on both sides of the place
  that `parse()` has reached, and the fields it has read are those of the frame
  that was meant.  `InBody`: what is missing is what is on the wire.  `AtRest`
  and `Broken` are what the property says of the end and of an error.
* `ValidatorAgrees`: `Utf8Agrees`, for texts of any bytes and of any length.
  `Shape` says for each state but that of rejection which bytes have led to it; `ByteRead`,
  that a row of the table leads from one shape to the next, from the ranges of
  code points in `BeginsCharacter`.
* `ConnectionTyped`: `ConnectionTypeOK`.

The invariant is `ConnectionInv`, that is `Opening`, `Upgrading` and `WireInv`:
only the frames move what `WireInv` is about, and they begin when what `Opening`
and `Upgrading` are about is over.  What is assumed are `ConnectingAssumption`,
`UpgradeAssumption`, `WireAssumption` and `ConnectionAssumption`.  Apart from the
types of the constants, `WireAssumption` says that sizes are below 2^63, that the
client asks for no status of a Close that two bytes cannot hold, and that keys
have four bytes.  `UpgradeAssumption` says that `lower()` leaves the two separators and "websocket"
as they are, that an answer in lower case is not one of the separators, and that
the application does not add a `Sec-WebSocket-Key` of its own.  Of these the last is
the application's to keep: `build_request()` sends the headers of `add_header()`
first, and a server that takes the first key it finds would answer that one.

`StreamProofs.tla` proves all that `stream` checks, for any set of frames, any
number and length of them, any response and any way to cut the stream, from
`StreamAssumption`:

* `StreamTyped`: `StreamTypeOK`.  The hard part is that a bite is never taken of
  a frame that was not sent: `CountInv` says where in the stream each frame ends,
  and that the units not yet read are those of the frames not yet parsed.
* `StreamFaithful`: `Faithful`, and `OnlyLegalAccepted`: `AcceptsOnlyLegal`.
  `OpenInv` says that the fragments held are the data frames since the last
  message was complete; the lemmas `MessageKept` and `MessagesGrow` that one frame
  more leaves the messages before it as they are and adds at most one, made of
  those fragments.
* `NoneRefused`: `NoFalseAlarm`.  `TextInv` says where the validator is: at the end
  of what the open text has so far, as long as `_is_text` is set; a control frame
  between two fragments clears that, and then the rest of the text is not
  validated in pieces, with the validator left behind until the text ends.

What the recursive functions of this module compute is proved too.  An induction
theorem of the library takes an operator, so `Least` takes a least
counterexample out of the order of the numbers instead (`NatLessThanWellFounded`
and `WFMin`), and `Induction` is the principle for a set of numbers.  On it rest
`AfterMeans` (the automaton accepts what `Utf8Text` describes, and has not
rejected what `Utf8Prefix` does), `AfterConcat` (a text in bites is the text),
`FlattenIs` and `FlattenAppend` (concatenation), `OrderGrows` and `OrderWithin`
(`InOrder`).

Every invariant and action property of a passing run is stated by a theorem.
Only model-checked:

* The liveness properties `CloseCompletes`, `LossIsNoticed` and `OpeningEnds`:
  there are no proof rules here for fairness and `ENABLED`.
* `ServerReads` where two threads compress, and `FramesInOrder`, `ClosedWasSent`
  and `ErrorSendsClose` with other threads: the code does not have them, as
  `compress_race` and `data_after_close` show, so they are hypotheses of the
  theorems and no gaps in the proofs.  In particular these properties do not watch
  for what a second thread does between `_close_socket()`'s or `on_disconnect()`'s
  assignments, or before the request; `PROJECT.json` says so at those hazards.

## 6. What is not modelled

* zlib: what a compressor refers to is modelled by how far back its window goes.
* How long a `connect()` takes, name resolution, the TLS handshake and its
  certificates: each may succeed or fail.
* How a TLS context is chosen and set up (`session.py:214-268`), and an error of
  `setsockopt()` (`session.py:144`), which would leave a socket open.
* The text of the request and of a header: values are tokens, with `Lower` for
  their case, and names are in lower case.  Base64 and SHA-1 are the constant
  `Challenge`.
* Fractions of a second in a wait, and a wait of `NaN` in Python 2, which lasts
  until the exit event is set.
* How many messages a server sends before a pong, and how long `sendall()` blocks
  by the clock of `KeepAlive`: `Backlog` is a constant, and no time passes there.
* The C extension `wsaccel`, which replaces the validator where it is installed.
* Frames that are not final from the client: `to_bytes()` drops `fin`, and the
  program only sends final ones.
* The attributes of events other than `graceful`.
* `Parser.feed(b"")` in the stream: `run()` leaves the loop before it would pass
  it on.  The proxy's parser is fed it (`RecvEof`).
* The operating system's selectors: `wait` returns readable, or after the timeout.
* The constants, statuses and error classes hold no state; the tests, the
  documentation and the compliance suite are read for what they say.
