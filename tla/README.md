# A verification project for websocketclient-cpp

TLA+ models of the library, TLC runs that check them on small instances, and
theorems that TLAPS proves for every instance. Paths below are relative to the
repository's `include/ws_client/`, those that begin with `coroio/` to its root.

## 1. Inventory

The library is a header-only WebSocket client. A user owns a socket, wraps it in
a client object, calls `handshake`, and then alternates `wait_message`,
`read_message`, `send_message`, `send_pong_frame` until `close`. The blocking
client is not thread safe: everything happens inside one call at a time, and the
concurrency is that between the client, the server, the transport and the clock.
The awaitable client has the same code with `co_await` at every socket call.

| Component | State | Operations | Talks to | What makes it correct |
|---|---|---|---|---|
| Byte ring `utils/CircularBuffer.hpp` | memory, `head_`, `tail_`, `full_` | push, pop, spans with `move_head`/`move_tail`, clear | buffered socket | a bounded FIFO queue whatever the mixture and wherever it wraps; its spans never overlap stored items |
| Buffered socket `BufferedSocket.hpp` | the ring | `read_exact`, `read_until`, `wait_readable`, `write` | client above, transport below | the caller gets the peer's bytes once and in order; the delimiter is found even if it arrives in pieces; never waits for data it already has; every call returns |
| Client `WebSocketClient.hpp`, `Message.hpp`, `Frame.hpp` | `closed_`, `read_state_`, deflate context, 128 byte header buffers, and the user's `Buffer` | the six calls above | user, buffered socket, deflate context | returned messages are the ones sent; nothing is skipped; buffers stay bounded; what goes out is a sequence of whole frames; no I/O after shutdown; every call returns |
| Awaitable client `WebSocketClientAsync.hpp`, `BufferedSocketAsync.hpp` | the same, shared by the coroutines that call it | the same, as coroutines | the same | the same, for every interleaving of a pending call with another one |
| Deflate context `PermessageDeflate.hpp` | inflate and deflate streams, two buffers | `init`, `compress`, `decompress` | client, zlib | both ends' streams stay in step; limits hold |
| Deflate negotiation `PermessageDeflate.hpp` | negotiated parameters | `negotiate` and its parameter rules | handshake | both ends use the same parameters |
| Opening handshake `Handshake.hpp`, `HttpParser.hpp`, `HttpHeader.hpp` | key, headers | request text, `process_response` | client | a response that RFC 6455 refuses is refused |
| Message buffer `Buffer.hpp` | pointer, capacity, used, limit | append, clear, reserve, resize, reset | user, client | limit, contents preserved |
| Masking `MaskKey.hpp` | key | `mask` | client | byte i is XORed with key byte i mod 4 |
| Builtin sockets `transport/builtin/*` | descriptor, SSL object, flags | init, connect, wait, read, write, shutdown, close | kernel, OpenSSL | timeouts end every call, the descriptor is closed once |
| Asio socket `transport/AsioSocket.hpp` | socket or TLS stream, timer per call | the same, and `can_read` | Asio | a cancelled read loses nothing, a timeout is one's own, no call hangs |
| Coroio socket `transport/CoroioSocket.hpp` | socket or TLS socket | the same, without timeouts | coroio | as its parts below |
| Event loop and pollers `coroio/poller.hpp`, `loop.hpp`, `select.cpp`, `poll.cpp`, `epoll.cpp`, `socket.hpp` | interest per descriptor, pending changes, ready list | await readable or writable, `Poll`, `WakeupReadyHandles`, close | kernel, coroutines | who waits is resumed by its event and by no other |
| Resolver `coroio/resolver.cpp` | queues, waiters, results, transaction ids in flight | `Resolve`, and the sender, receiver and timeout tasks | DNS server, event loop | an answer goes to those who asked; every `Resolve` returns |
| TLS socket `coroio/ssl.hpp` | two memory buffers, the SSL object | `Connect`, `ReadSome`, `WriteSome`, `DoIO` | OpenSSL, event loop | bytes go out in order and before a wait |
| UTF-8 `utils/utf8.hpp` | none | `is_valid_utf8` | client | the verdict of the definition |
| SHA-1 `utils/SHA1.hpp` | digest, partial block, count | `update`, `final_bytes` | handshake | padding and length at every block boundary |
| URL `URL.hpp` | protocol, host, port, path | `parse`, `to_string` | user | a URL with a proper authority is divided as RFC 3986 divides it |
| Timeout `utils/Timeout.hpp` | start, limit | `remaining`, `is_expired` | everything that blocks | monotone |

What is hard here, and what a unit test would hardly reach, is listed with its
line in `PROJECT.json` under `hazards`: control frames and failures between the
fragments of a message, the clock running out at each point, partial writes,
refills that cut the HTTP delimiter, a ring that is full, empty or wrapped at the
wrong moment, calls after a failure, buffer limits, coroutines that meet in one
object at an `await`, timers racing the completion they guard, readiness applied
to a descriptor that is closed or replaced, and state kept in an object that is
used for a second connection.

## 2. Plan

Done, in this order:

1. `CircularBuffer` with `Fifo` as its abstract specification, checked and proved.
2. `BufferedSocket` on top of it (it extends the ring's module, so the steps of
   the socket are made of the ring's operations), checked.
3. `WebSocketClient`: the client's control flow against an arbitrary server, an
   unreliable transport and a clock, checked, and its safety properties proved.
4. `AsyncClient`: two coroutines, each an instance of `WebSocketClient`, on one
   client object.
5. `TcpSocket`, `OpenSslSocket`, `AsioSocket`, brought together in `Transports`.
6. `CoroioLoop` with three pollers, `CoroioResolver`, `CoroioSsl`, brought together
   in `Coroio`.
7. The parts that work in memory: `PermessageDeflate` and `DeflateContext`,
   `Handshake`, `MaskKey`, `Utf8`, `Url`, `MessageBuffer`, `Sha1`, brought together in
   `Codecs`.

8. The proofs for the other modules: `BufferedSocketProofs` from the ring's lemmas,
   `AsyncClientProofs` from those of `WebSocketClientProofs`, `TransportsProofs`,
   `CodecsProofs` and `StreamProofs`, `CoroioLoopProofs` for the event loop over any
   sockets with which its poller is usable, and `CoroioProofs`, which takes the
   loops from there and adds the TLS socket and the resolver.

What is left is listed at the end of section 5.

## 3. The modules

### `CircularBuffer`, `Fifo` - `utils/CircularBuffer.hpp`

The variables `buffer`, `head`, `tail`, `full` are the members of the same names;
`given` and `dest` are what the last push was given and the last pop copied out.
Every member function that changes the ring is one action (`push_one`, `push`,
`move_head` together with the write through `available_as_contiguous_span`,
`pop_one`, `pop`, `move_tail`, `clear`); the asserts are guards. Masking with
`capacity_ - 1` is `% Capacity`; that the capacity is a power of two is an
assumption TLC evaluates and the proofs do not need. `Fifo` is the abstract
specification: a bounded queue with put, take and drop. The refinement mapping
reads the queue through `operator[]` (`Contents`) and identifies `given` and
`dest` with the queue's input and output.

### `BufferedSocket` - `BufferedSocket.hpp`

Extends the ring. A byte of the peer's stream is its offset, so order, loss and
repetition are visible. The steps of `read_exact` and `read_until` end where the
transport is called: `fill_read_buffer` may find enough in the ring, receive any
non-empty part of what is left of the stream that fits into the contiguous span,
or fail. `read_until_search` keeps the code's `search_offset` arithmetic;
`read_until_found` pushes back what follows and has the extra outcome "aborted"
where the push's assert fails (with `NDEBUG` unread bytes are overwritten). The
calls come in the order in which the client makes them: the response, the
delimiter, then frames.

### `WebSocketClient` - `WebSocketClient.hpp`, `Message.hpp`, `Frame.hpp`

`closed`, `rs`, `pmd` are `closed_`, `read_state_` and whether
`permessage_deflate_ctx_` is set; `buf` and `dec` the user's buffer and the
decompression buffer; `pc` the place of the call in progress. A step ends where
the code calls the buffered socket or the deflate context, so that each such call
can fail on its own. `Expire` sets the call's clock at any moment.

The environment is made as free as the code allows:

* *Server.* Any frame can arrive next, malformed ones included. Payload bytes are
  numbered by their place in the message; `rfc` follows what the frames mean by
  RFC 6455, independently of the client's own `read_state_`.
* *Transport.* Every read and write can fail; a failed write may have sent a part.
* *User.* Makes any call at any time between calls, within the contract in the
  class comment: after an error or a close frame the next call is `close()`,
  after an error with the `close_with_code` of that error. `must` holds the
  obligation. `UserClears` is a user that clears its buffer after each read.

Abstractions: a data frame's text is valid or not by choice; inflate keeps the
number of bytes, marks them (a negative number), and may also fail having written
any number of bytes up to the limit; masking and the byte layout of headers are
left out; the HTTP part of `handshake` succeeds or fails as a whole; `Codes` are
the three classes of close codes that `close()` tells apart.

### `AsyncClient` - `WebSocketClientAsync.hpp`, `BufferedSocketAsync.hpp`

The awaitable client has the statements of the blocking one with a `co_await` at
each socket call, which is where the steps of `WebSocketClient` end. So the module
has two instances of it that share the members (`closed_`, `read_state_`, the
buffers, the wire) and have a call, frame and timeout of their own: a reader, which
also performs the handshake, and a writer. Either may close while the other is
suspended. The user is assumed to synchronise as the README of the library asks:
no two frames are written at once, and after an error the connection is failed.

### `TcpSocket` - `transport/builtin/TcpSocket.hpp`

`fd` and `connected` are the members of each object, `obj` its life; `table` is the
process's descriptor table and `link`, `avail`, `fin`, `room` the kernel's socket.
A step ends at a system call. The kernel's side is modelled from how the code uses
it and from what Linux documents of these calls: a new descriptor takes the lowest
free number, `close` releases it even when it reports an error, a connect that was
given up goes on, `SO_ERROR` is cleared by reading it. `Others` opens descriptors
in the same process. EINTR makes the loops repeat the same call and is a
stuttering step. The user makes one call at a time, uses a moved-from object only
to destroy it, connects after a successful `init` and reads after a successful
`connect`; it may retry `connect` and, after `close`, `init` (`Reuse` lets it do so
also after the object was connected). The size of what is written is left out.

### `OpenSslSocket` - `transport/builtin/OpenSslSocket.hpp`, `OpenSslContext.hpp`

The loops around `SSL_connect`, `SSL_read`, `SSL_write` and `SSL_shutdown`, the
checks of the certificate, the moves of the object and the callback data that
points to it. OpenSSL is what its calls report: success, the wish to read or write,
an interrupted, failed or ended connection, a protocol error. The thread's error
queue may hold errors of others at any time, and `SSL_get_error` takes them for its
own, so that `ERR_clear_error` before each call matters.

### `AsioSocket` - `transport/AsioSocket.hpp`

Two coroutines, plain or TLS. `co_await (op || timer)` is a parallel group: the
first handler to run decides the index and cancels the other operation, and the
coroutine resumes when both handlers have run; an operation that has completed
keeps its result although it was cancelled. Bytes are counted in the kernel, in the
TLS engine, as taken and as returned.

### `Transports`

The transport is a template parameter of the client: `Init` chooses one of the
three modules above (`which`), and the variables of the others stay `Absent`. The
parts share no state; a variable that two modules name alike is one variable here.
The properties of the run are stated across the transports: what a client may rely
on whichever it was built with.

### `CoroioLoop`, `CoroioResolver`, `CoroioSsl`, `Coroio` - `coroio/`, `transport/CoroioSocket.hpp`

`CoroioLoop` is the event loop with one of its pollers (`Backend`): a coroutine that
would block puts a change into the poller's list and suspends, `Poll()` applies the
changes to what the kernel is asked for, each poller in its own way, and the
coroutines of ready descriptors are resumed one after the other and may suspend,
close or be closed before the next one is. A closed number may be taken by another
part of the program. A signal makes `select` and `poll` throw out of `Poll()`, which
is the end of the loop; `epoll` waits again. `CoroioResolver` has the three tasks of
the resolver, its tables and any number of clients over a network that loses,
duplicates and reorders; its sender is dead from the start if its `Connect` failed.
Handles are resumed inline, so that a client that asks again does so in the middle
of `ResumeWaiters`. `CoroioSsl` numbers the bytes OpenSSL puts into its buffer and
follows them through `DoIO`, one step per wait; a call can fail at any wait, because
of OpenSSL or because the connection has ended. `Coroio` brings them together as
`Transports` does. It uses each poller as far as it keeps what its callers need, and
section 6 has the instances where it does not: both directions on one descriptor
with `epoll`, two sockets with `poll`.

### `PermessageDeflate`, `DeflateContext` - `PermessageDeflate.hpp`

The negotiation is a set of operators on a header's segments, one per function of
the code. `DeflateContext` runs it for every offer and answer and then lets both
ends send messages: zlib is what the ends have to agree on, a window and a history
that was or was not reset. The loops of `decompress` and `compress` with the growth
of their output are steps; the tail `00 00 ff ff` is counted.

### `Handshake` - `Handshake.hpp`, `HttpHeader.hpp`, `HttpParser.hpp`

One object used for several connections. A field's values are a sequence, as
`HttpHeaderFields` keeps them; keys are numbered in the order of their generation.
A response is proper, with any of the extension headers, or has one thing wrong:
its status, its syntax, a field, or an accept value that is not that of the last
key. Of the fields that the user may set itself there is one of each kind, `Host`,
which the code adds if it is missing, and the key, which it overwrites.

### `MaskKey`, `Utf8`, `Url`, `MessageBuffer`, `Sha1`

Loops and parsers against a reference definition: masking by bytes and chunks (a
byte is the set of key bytes XORed into it), the validation loop against the
definition of UTF-8 with the width of `int` as a constant, the URL parser against
its own `to_string` and the grammar of RFC 3986, section 3.2 (`Divisions`: the ways
to divide an authority into userinfo, host and port; `Split`: the parts), SHA-1's
collection of blocks and padding (a digest is the sequence of its blocks) for every
way of cutting the input. `MessageBuffer` has the objects and a heap whose
allocations fail or move; `shadow` is what a caller may expect in each object.

### `Codecs`

Brings the parts that work in memory together, as `Transports` does.

## 4. The runs

| Run | Bounds | Shows |
|---|---|---|
| `ring` | capacity 4, two values | `RingTypeOK`, `SpansAreSafe`, and `ImplementsFifo`: refinement of `Fifo` |
| `buffered_socket` | ring of 4, 12 bytes of stream, delimiter of 3 at six places, read sizes 1, 2, 5, limit 9 | `StreamInOrder`, `DelimiterNotMissed`, `NoUselessWait`, `ShortResponseFits`, and `CallsReturn` |
| `client` | limits 3 and 2, payload sizes 0, 1, 2, 5, control limit 4, all failures | `TypeOK`, `MessageIntegrity`, `NothingSkipped`, `ReadStateInStep`, `BuffersBounded`, `WireWellFormed`, `NoUseAfterShutdown`, `SilentFailure`, and `CallsReturn` |
| `async` | two coroutines, limits 2, sizes 0 and 2, all failures | `ReaderIntegrity`, `WireWellFormed`, `NoCallAfterShutdown` |
| `transports` | two objects, two descriptors; 2, 1 and 2 bytes ahead | `OneOwner`, `ConnectedIsReal`, `NothingLostSilently`, `ReportsAreTrue`, and `CallsReturn` |
| `coroio` | `select` with both directions on one socket and with two sockets, `epoll` and `poll`; two clients and two names; TLS records of 1 to 3 bytes with a buffer of 2 | `NoStrayResume`, `NoWaiterForgotten`, `AnswerIsForRequest`, `NothingHeldBack`, `WireInOrder`, and `CallsReturn` |
| `codecs` | below | `StreamsFit`, `InflatedWhole`, `AcceptedIsOurs`, `ProperIsAcceptedAtFirst`, `MaskingIsRight`, `VerdictIsRight`, `UrlIsSplit`, `BufferIsSound`, `DigestIsStandard` |
| `push_back`, `buffer_clear_guard`, `tcp_close_again`, `tls_connect_timeout`, `mask_unaligned` | the same, the failures reduced to the one in question | a sentence of a comment, or an assert, that the code does not keep (section 6) |

*Why the bounds are enough.* A ring of 4 has a wrap at every index and runs that
are shorter than, equal to and longer than the part before the wrap; two values
suffice because the ring never looks at its items, so that a wrong item can be
told by one bit. The stream is three rings long, the delimiter lies in the first
refill, across the first two, and in a later one, and a read of 5 is longer than
the ring. In the client run a message can fill its limit exactly in one, two or
three fragments and exceed it with one more; 2 and 3 make the decompression limit
bite before the message limit; a control frame can be legal, of the illegal close
length 1, and too long (5 > 4, where the code has 125). Any number of frames,
messages and calls is possible: no counter is capped, the state space is finite by
itself. The awaitable client has two coroutines because every pair of calls that
can overlap is one of a read, a send and a close; its messages have up to two
bytes.

In the transports two objects make a move, two descriptors let the number of ours be
taken by somebody else and let `init` fail for lack of one, and two bytes make a
read partial. In the pollers two sockets make one's event meet the other's wait;
`MaxChanges` bounds what one coroutine repeats before the loop goes on. Two clients
and two names give the resolver clients that share a request, clients that do not,
and one that asks again while the other is still to be resumed. `XidMod` is odd, as
65535 is, and the ids do not come round while a datagram of the last round is alive.
TLS records of 3 bytes with a buffer of 2 take two rounds of `DoIO`.

In `codecs` the window sizes 8, 9 and 15 are the one zlib cannot do, the smallest it
can and the default. A round of `decompress` has room for five times the payload
that is left, at least for 64 bytes: a message of 310 bytes takes five rounds with a
payload of 14, and with one of 60 goes on in a second round, which either fits or
exceeds the limit; one of 70 fills a round exactly with a payload of 14 and needs a
second one with a payload of 1; one of 20 always fits the first. A message that is
compressed to 70 bytes takes a second round of `compress`. Payloads of up to 37
bytes are longer than a chunk of 16 with both ends misaligned at all 16 addresses.
The UTF-8 bytes are both ends of every range the definition tells apart, in strings
of up to 4. URLs have up to 5 characters of every kind the parser or the RFC tells
apart, and the ports at the limits of 16 bits. Two buffers and three blocks make a
move with an allocation under way; the symmetry is that of objects, blocks and byte
values, which nothing compares. SHA-1 has blocks of 4 with a length of 2 (the code:
64 and 8), so that messages of up to 9 bytes end at each place of a block and on
both sides of the place where the padding needs one more.

*Fairness.* `FairSpec` of `BufferedSocket` and `WebSocketClient` assume that a
call in progress goes on (`WF` of the steps): each transport call is made with
the time that remains and returns by then. `Transports` shows this of its three
transports, assuming only that a system call, an OpenSSL call or a handler that can
proceed does so, that signals do not interrupt it for ever, and that the clock of
each call runs; a `select` can return when the descriptor is ready or the time is
over, and its failing is not counted on. The client adds that the clock runs
(`WF_vars(Expire)`). Nothing is assumed of the server or of the user: no call has
to be made, no frame has to arrive. Fairness of the steps alone would not do: a
server that sends empty fragments for ever keeps `read_message` busy until the
clock ends it. In `BufferedSocket` the limit of the buffer and the length of the
stream take the place of the clock.

In `Coroio` the loop goes on, resumes what is ready, and time passes. The resolver
needs its two-second sleeps to end: the poller's timers are a heap whose top is the
latest deadline, so that a sleep behind a later one ends late, but nothing
here sets another. Coroio calls have no timeout, so `CallsReturn` says less there: a
reader is resumed once its data has come, unless a signal has ended the loop;
`Connect` returns when the server answers the hello, a write when the server takes
the bytes, and either when it fails. `AsyncClient` and `Codecs` run without fairness.
`CallsReturn` of `AsyncClient` holds under its `FairSpec` with both limits and the
control limit 0, sizes `{0}` and no failures (196,771 states); with payloads it takes
too long to be a run of its own.

*Deadlock* is checked for the ring and the two clients. `BufferedSocket.cfg` turns it
off, because after a failure its user makes no further call, `Transports.cfg`,
because nothing is left to do once the objects are destroyed, `Coroio.cfg`, because
sockets may all be closed and the TLS bytes are bounded, and `Codecs.cfg`, because an
algorithm ends.

Each property of a passing run has a mutant in `PROJECT.json`, one that speaks of
several parts has several: plausible bugs in the code it is about, with which TLC
finds the property violated.

## 5. The theorems

`PROJECT.json` lists them with the property each one states. A theorem of the form
`Spec => []P` is proved from an inductive invariant, one step lemma per action; an
action property from the same invariant. The assumptions are those the modules
state of their constants (`CapacityAssumption`, `StreamAssumption`,
`ClientAssumption` and so on), which TLC evaluates on each run. Among them are two on
names only: no buffer block is called "null" and no request "none", the models'
values for nothing. One is on the length of the ports in URLs: five digits, as the
parser's limit has, so that numbers on both sides of it are among them.

### `BufferedSocketProofs`: the ring

For every capacity, element type and callers that store and remove at least one
item (`MinLen = 1`, as `BufferedSocket` does, and which is necessary: with
`MinLen = 0` TLC refutes `PushAddsItsLength`).

* `RingTypeCorrect`: indices in range and `full_` set only where they meet. The
  type invariant is inductive as it stands.
* `RingImplementsFifo`: each action maps to a step of `Fifo`. The argument rests
  on two lemmas, shared by all actions: an operation that moves `head` by n and
  writes the n slots from the old `head` on appends those n items to `Contents`
  (modulo arithmetic on where `Wrap(tail + k)` falls), and one that moves `tail`
  by n drops the first n; `CopyIn` and `CopyOut` are shown to do the two-piece
  copies these lemmas speak of.
* `RingSpansAreSafe`: a slot of the span for writing is no `Wrap(tail + k)` of a
  stored item. Follows from the type invariant.

### `BufferedSocketProofs`: the socket

For every capacity, stream, delimiter length and place, and set of read sizes. The
lemmas on `Contents` are used again. `Follows(s, i)` says that s is the stream from
offset i on, and the invariant has three parts.

* `InOrder` - what was returned, what the call in progress has, and what the ring
  holds follow one another in the stream and are all that was received. Gives
  `StreamInOrder`.
* `Response`, `Delimiter`, `Frames` - one for each stage of a connection. In the
  first, the search begins before the end of the delimiter and everything received
  is in the caller's buffer whenever it is searched: `DelimiterNotMissed`. A
  response that fits the ring never brings `head_` back to its start, which is why
  it can be pushed back: `ShortResponseFits`. In the last, each `read_exact` has
  made room: `NoUselessWait`.

### `WebSocketClientProofs`

For every limit, set of payload sizes and choice of failures: the type invariant
and the safety properties of the `client` run. None is inductive by itself; the
invariant has five parts.

* `Place` - at which places of a call the client can be open, closed, or owe the
  user an error. Gives `NoUseAfterShutdown`, and with it `SilentFailure`. What it
  says of the call's own variables is `Local`.
* `Wire` - what the server has got at each place: whole frames, unless a payload
  is being written, an error is pending or the client is closed.
* `Counted` - a received message that was not returned yet, and one that is in our
  deflate stream but not with the server, exist only inside the call that deals
  with them. Gives `NothingSkipped`.
* `Limits` - the buffers' limits, and that the payload of the frame at hand fits.
* `Reading` - at every place of `read_message`, `read_state_` and the buffers hold
  the server's message as far as it was received. It gives `MessageIntegrity` and
  `ReadStateInStep` and needs `~UserClears`, which is a hypothesis of these two
  theorems; `buffer_clear_guard` shows that they fail without it.

### `AsyncClientProofs`

The two coroutines are instances of `WebSocketClient`, and so are the lemmas: `RP`
and `WP` are instances of `WebSocketClientProofs` for the reader and the writer,
whose definitions are shown to be those of `AsyncClient`. What a step of one call
does to its own variables (`Local`) and to the message that is read (`Reading`) is
taken from there. New is what one coroutine may find changed after a `co_await`.

* `Guarded` - the socket is shut down only behind `closed_`. Gives
  `NoCallAfterShutdown`.
* `Wire` - a coroutine starts a frame where all frames before it are complete, and
  at most one is inside a frame. Gives `WireWellFormed`.
* `ReaderIntegrity` needs `~UserClears` as before, and that the writer leaves
  `read_state_` and both buffers alone.

### `TransportsProofs`

For every set of objects, descriptors and read sizes, and any counts of bytes. Each
transport has an invariant of its own.

* `TcpInv` - at most one object is alive; the live one holds what is ours of the
  descriptor table, and what an object holds is ours unless `::close` has reported
  an error for it (`stale`). `TlsOwner` says the same of the SSL structure and where
  its callback data points. Together `OneOwner`.
* `ConnectedIsReal`: part of `TcpInv` and `TlsResult`.
* `AsioInv` - the turns of a read, a write and a close on the two timers, the
  states of an operation and its timer while both handlers have still to run, and
  that what was taken is what was returned or is in the pending read. Gives
  `NothingLostSilently`.
* `ReportsAreTrue` is an action property of all three; for the timer of Asio it
  needs that nobody re-arms a timer that another call waits for.

### `CodecsProofs`

For every build, address, length, size, object and block.

* `CodecsMaskingIsRight`: below the index of the loop the bytes have been masked
  once more than above it, and a chunk begins where the key's phase is 0 when the
  payload is at a multiple of four.
* `CodecsAcceptedIsOurs`, `CodecsProperIsAcceptedAtFirst`: the key in the request is
  the last one generated, and before the first response nothing has changed what
  the object offers.
* `CodecsBufferIsSound`: each object holds an allocated block that is as large as
  it believes, with what the caller has written, and no two hold the same. The
  proof treats each operation as an exchange of one block for another.
* `CodecsVerdictIsRight`, for strings of any bytes and any length that is an int. The
  definition asks for boundaries that divide the string into encoded code points.
  The invariant says that the loop's index is the last of such boundaries for what
  has been read (`Read`), and that every way to divide the whole string has the
  index among its boundaries (`Passed`): at each place one length at most is the
  length of a code point. The first gives that a string found valid is well
  formed, the second that an invalid one is not. That the tests of single bits are
  the ranges of the definition is shown for each of the four lengths.
* `CodecsUrlIsSplit`, for texts of any characters and length. That the result is
  that of `Split` is shown of those with a `ProperAuthority`, which has no `@` and in
  front of the port no brackets but those around the host; that it is read back, of
  those with a `ProperHost`, which asks this of the brackets' inside alone. Without
  the conditions TLC refutes both (section 6). `find_first_of` is described by what
  it finds (`FoundAt`, `NotFound`), and the authority by where it ends (`Cut`). The
  proof goes by way of a division that allows whatever characters the code does
  (`LooseSplit`): `parse_host` and `parse_ipv6` make its parts (`ParseIsSplit`), and
  with a proper authority the grammar has the same divisions (`DivisionsAre`,
  `SplitIsLoose`). What it returns has a `Shape`, and a result of this shape is read
  back: where the ends, the colon and the bracket lie in what `to_string` has put
  together (`Assembled`), and `Value(Decimal[n]) = n` (`DecimalIsRead`). Both are
  recursions, but over five digits at most; they are unfolded that far, and no
  induction is needed.

### `StreamProofs`

* `StreamsAlwaysFit`, `StreamsInflateWhole`: after an accepted response our
  parameters are those in its header (`Settled`, from a case analysis of the four
  negotiate functions), hence the windows and histories of both directions
  (`Inbound`, `Outbound`), and what a message in progress needs of them.
* `StreamsHashStandard`: the hashed blocks, the buffer and what is unread are the
  message in this order (`Collected`), for every block and length size; the lemmas
  about the padding say that the next multiple of the block is the only one in
  reach.

### `CoroioLoopProofs`

`LoopKeepsWaiters`, for any sockets, coroutines and bounds with which the poller is
`Usable`: any for `select`; for `epoll` sockets that are used in one direction; for
`poll` one socket, which its peer does not end. TLC refutes it without these
conditions: `epoll` forgets one of two coroutines of a descriptor and throws over
a descriptor that was closed under the other one, `poll` loses its place in `Fds_`
when two sockets are removed in one round, and after a hangup it resumes whoever
has a handle, waiting or not.

What is asked of the kernel lags behind what the coroutines want by the changes
that `Poll()` has still to apply. `Asked` looks through them: the last change that
concerns an event decides, or else the handle that is set now. The invariant:

* `Waits` - a coroutine is suspended on an open socket exactly if its event is
  asked for in this sense.
* `Woken` - a coroutine that is about to be resumed still waits, and nothing that
  is pending asks for it again. With it, `AfterResume`, which looks at the last
  change only, is enough: if that one is the coroutine's own it decides, and if it
  is not, the interest is taken back.
* `Apart` - for `epoll`, whose changes set all events of a descriptor at once: each
  removal removes all there is, and nobody waits for a descriptor that is closed.
* `Fits` - between two changes the kernel's tables say what `InEvents_` says: the
  `fd_sets` literally, epoll's set for the open descriptors, and for `poll` the
  entry of `Fds_` at the place in the index table, which swapping and trimming
  leave intact.

A change that is applied leaves every `Asked` as it was (`OneApplied`,
`AskedApplied`); a coroutine that suspends, closes or goes on changes only its own
(`Ran`, `Closed`).

### `CoroioProofs`

* `CoroioNoStrayResume` and the pollers' part of `CoroioNoWaiterForgotten`: each of
  the four loops is an instance of `CoroioLoopProofs`, whose definitions are shown
  to be those of `Coroio`.
* The resolver's part of `CoroioNoWaiterForgotten`: who has asked is in the list of
  its request or is to be resumed (`Placed`), and a list that is not empty has an
  entry in the queue of deadlines (`Deadlines`); that it is there only once comes
  from `Lists`, below.
* `CoroioWireInOrder`, and the half of `CoroioNothingHeldBack` for `TSslSocket`:
  what the server has, what is being sent and what OpenSSL holds are the bytes made
  so far, in order (`Sent`); during `recv` the last two are empty.
* The other half, and `CoroioAnswerIsForRequest`, for any number of clients, names
  and transaction ids: a client is in one place of the list of what it asks for or
  is to be resumed once (`Lists`), and a query's number is still that of its request
  (`Queries`). This holds because `XidMod` is odd: `Xid` goes through all odd
  numbers, then all even ones, and comes to no number in use while one is free
  (`Numbered`, `NextNumber`).

### Only model-checked

* `CallsReturn` everywhere: liveness under fairness is out of the prover's reach.
* Every other property of a passing run is a theorem. `MessageIntegrity`,
  `ReadStateInStep` and `ReaderIntegrity` have the hypothesis named above, and in
  `CoroioLoopProofs` the pollers have to be `Usable`; the runs' instances are.

## 6. Where the code and its comments disagree

Five are runs that end in a counterexample; `PROJECT.json` quotes the lines.

* `push_back`: `read_until` can push back more than the ring holds. It fills the
  ring before each search, so that a delimiter which starts in one refill and
  ends in the next is pushed back together with up to a whole ring of data. The
  rule `ShortResponseFits` says when this cannot happen: the response with its
  delimiter fits into the ring's capacity.
* `buffer_clear_guard`: a `BufferClearGuard` around each `read_message` truncates a
  fragmented message that a control frame interrupts.
* `tcp_close_again`: when `::close` reports an error, `fd_` is kept and the number
  is closed again later, by a retry or the destructor. `OneOwner` says that this
  is the only way in which an object comes to hold a descriptor it does not own.
* `tls_connect_timeout`: the loop around `SSL_connect` ends when the time is up, and
  without verification `connect` reports success. `ConnectedIsReal` says that with
  verification it does not.
* `mask_unaligned`: a payload at an address that is no multiple of four and long
  enough for a chunk is masked with the wrong key bytes. Masking twice undoes any
  masking, so the unit test for it cannot see this. `MaskingIsRight` says that
  payloads at multiples of four are right; memory from the allocator begins at one.

Further disagreements, which TLC shows when the component's module is run with
these constants and the property in question:

| Module and property | Constants | What the code does |
|---|---|---|
| `CircularBuffer.PushAddsItsLength` | `MinLen = 0` | storing zero items in an empty ring makes it full |
| `WebSocketClient.CloseReleasesSocket` | `Faults = {"handshake"}` | `close()` after a failed handshake reports success and leaves the socket open, because `closed_` is still true |
| the same | `Faults = {"close"}` | after a `close()` that failed, a second one reports success and does nothing |
| `AsyncClient.CloseMeansClosed` | limits 1, `Sizes = {0, 1}`, `MaxControl = 1`, no faults | a second coroutine's `close()` returns success while the first is still closing |
| `TcpSocket.ConnectedIsReal` | `Reuse = TRUE` | `close()` leaves `connected_` set, and `connect()` refuses the socket of a second `init()` as already connected |
| `OpenSslSocket.ConnectedSocketIsTaken` | `PreConnected = TRUE` | a connected `TcpSocket`, as the class comment assumes, is refused by `connect()` |
| `AsioSocket.ShutdownIsSafe` | `MaxBytes = 1`, `Polls = FALSE` | `shutdown()` after `close()` throws out of a `noexcept` coroutine |
| `AsioSocket.NothingPendingAtClose` | the same | an operation begun during the TLS shutdown is pending at `close()` |
| `AsioSocket.TimeoutIsIgnored` | the same | the timeout of the TLS shutdown is reported as an error, which the comment says is ignored |
| `AsioSocket.DataIsSeen` | `Polls = TRUE` | `can_read()` on TLS never sees data that is still in the kernel |
| `CoroioLoop.ReadsEnd` | `select`, one socket, no closes | the timeout of a read ends nothing |
| `CoroioLoop.OthersUntouched` | `select`, one socket, closes | a second `close()` closes whatever has got the number |
| `CoroioLoop.DataWakesReader`, `AllEventsInEpoll` | `epoll`, both directions on one socket | a writer's wait takes the reader's event away |
| `CoroioLoop.PollSurvivesClose` | the same, closes | a change of a closed descriptor makes `Poll()` throw |
| `CoroioLoop.DataWakesReader` | `poll`, `Readers = {1, 2}` | two removals in one round leave a wrong index, and a later wait is not polled |
| `CoroioResolver.TimeoutIsOwn` | two clients | the deadline of an answered request ends a later one for the same name |
| `CoroioSsl.DataWakesReader` | `Main = w`, `Readers = {r}`, `Writers = {w}` | a writer waits for data and replaces the reader's handle |
| `DeflateContext.OurMessagesInflate` | `EmptyMessages = TRUE` | the second empty message in a row is no deflate data |
| `DeflateContext.InflatedWhole` | `FinalBlocks = TRUE` | after a message with a final block, messages inflate to nothing |
| `DeflateContext.SpaceForMessageIsEnough` | as in `Codecs.cfg` | a message that fits the buffer is refused, because a round asks for more than the message takes |
| `DeflateContext.UnrequestedTakeoverIsAllowed` | the same | a response with an unrequested `client_no_context_takeover` makes the client give up its takeover, where the comment's table says "Client may use context takeover"; the code is right, and the table's reading is a mutant of `StreamsFit` |
| `DeflateContext.RequestedTakeoverIsKept`, `UnrequestedWindowIsError` | the same | two further rows of the comments' tables are not what the code does |
| `DeflateContext.NegotiatedIsUsable` | `Bits = {8, 15}` | 8 window bits are negotiated, and zlib refuses them |
| `Handshake.ProperIsAccepted` | `Bits = {9, 15}`, `MaxUses = 2` | a second connection refuses an answer within its own offer |
| `MessageBuffer.MaximumIsKept` | as in `Codecs.cfg` | a maximum below the capacity is not kept |
| `Url.InvalidIsError` | `Chars = {"h", ":", "/", "[", "]"}`, `MaxUrl = 3`, `Ports = {80}` | `parse` does not look at the characters of a host: it accepts `ws://]`, where its comment promises an error for an invalid URL |
| `Url.HostIsHostPart` | `Chars = {"u", "@", "h"}`, `MaxUrl = 3`, `Ports = {80}` | the userinfo is taken for a part of the host: `ws://u@h` has the host `u@h` |
| `Utf8.VerdictAtAnyLength` | `IntBits = 3`, `MaxSize = 5` | a text too long for an `int` counts as valid |

## 7. What is not modelled

* Strings, base64, random numbers, byte order and logging, which have no state the
  protocol depends on; name resolution by `getaddrinfo`, a wrapper of one call.
* Of coroio: `kqueue`, timers and the deadline of `Connect` (nothing in the
  repository passes one), accepting sockets with their lazy handshake, the line
  reader. `FD_SETSIZE` is larger than the models' descriptors.
* The insides of zlib, OpenSSL, Asio and simdutf, and SHA-1's compression function:
  external, modelled by what their callers see.
* `TcpSocket`'s move assignment, which calls `close()` without its argument and
  cannot be instantiated.
* That a payload is masked in place, so that sending the same `Message` again sends
  it masked twice: the payload of outgoing frames is left out of `WebSocketClient`.
* URLs whose bracketed host contains `/`, `?`, `#` or another bracket, which no
  IPv6 address does: `parse` and `to_string` treat them differently, and
  `ProperHost` leaves them out of `UrlIsSplit`. URLs with userinfo, which those of
  RFC 6455 do not have, and with stray brackets: `ProperAuthority` leaves them out
  of the comparison with the RFC, and `HostIsHostPart` and `InvalidIsError` are about
  what the code makes of them (section 6).
* Header fields that a user sets, but for `Host` and `Sec-WebSocket-Key`.
* Memory allocation is taken to succeed below the limit, but in `MessageBuffer`.
