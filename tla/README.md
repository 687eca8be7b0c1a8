# Formal models of eiows

eiows replaces `ws` under Engine.IO. After an HTTP upgrade it takes the connection away from
Node: the descriptor is duplicated, Node's socket object is destroyed, and native code drives
the socket with a `uv_poll_t` of its own, frames and parses WebSocket messages, and calls the
JavaScript class that the application sees. This directory models the parts of that program
whose correctness depends on the order of things: how reads cut the peer's bytes, how callbacks
re-enter native code, who closes first, what a crash leaves behind.

Line numbers below are those of the files under `src/`.

## 1. Inventory

### Components

| Component | Source | State | Operations | Model |
|---|---|---|---|---|
| Frame parser | `uWebSockets/src/WebSocketProtocol.h` | spilled header bytes, expected part, remaining bytes, mask, opcode stack | `consume`, `consumeMessage`, `consumeContinuation` | `StreamWebSocket` |
| Session | `uWebSockets/src/StreamWebSocket.{h,cpp}` | fragment buffer, control tip, compression status, closing, closeSent, events | `consume`, `handleFragment`, `createFrame`, `createCloseFrame` | `StreamWebSocket` |
| Compression contexts | `StreamWebSocket.cpp` 36-323 | two zlib streams shared by the sessions of a server, or a session's own | `inflateMessage`, `deflateMessage`, made anew, resets | `CompressionContext` |
| Extension negotiation | `Extensions.cpp` | none | parse the header, choose an offer, respond | `ExtensionsNegotiator` |
| Native transport | `nodejs/src/native_transport.cpp` | poll handle, write queue, pending bytes, TLS output, TLS shutdown, the three reasons to end (closing, graceful, destroy) | `activate`, `feed`, `submit`, `flushWrites`, `onPoll`, `closeNow`, `fail`, `requestDestroy`, `onPollClosed` | `NativeTransport` |
| Write request | `native_transport.cpp` 199-850 | parts, cursor, bytes sent and staged, callback | gather, arrange, write, retain, release | `WriteRequest` |
| TLS context callbacks | `native_transport.cpp` 852-960 | one registry of `SSL_CTX` callbacks per process | retain, release, multiplexed callbacks | `TLSCallbacks` |
| Environment cleanup | `native_transport.cpp` 993-1160, 2000 ff. | the environments, and the list of transports of each | the asynchronous cleanup hook | `NativeEnvironment` |
| Native binding | `nodejs/src/addon.cpp` | handle of a session and of its transport | creation, `dispose`, finalizers, argument conversion | `NativeEnvironment`, without the conversion |
| WebSocket, native path | `dist/eiows.js` | readyState, pending upgrade, close timer, close code | upgrade, `send`, `close`, `terminate`, callbacks from the native side | `NativeWebSocket` |
| WebSocket, fallback path | `dist/eiows.js` | the same over a Node stream | the same | `WebSocketServer` |
| Server | `dist/eiows.js` | clients, closing, closed | `handleUpgrade`, `close` | `WebSocketServer` |
| Request validation | `dist/eiows.js` | none | header checks | no (string syntax) |
| Source cache | `scripts/build.js` | lock directory, tombstones, archive, source tree | acquire, recover, release, download, unpack, replace | `CacheLock`, `SourceCache` |

`PROJECT.json` lists what is left aside as well: the addon build, the legacy uWebSockets core
that `binding.gyp` does not compile, tests and benchmarks.

### How they interact

- Bytes read by the transport go to the session, which hands back *events*: messages, frames to
  be sent as answers, and the close. The transport dispatches them one after the other and stops
  as soon as it is closing.
- The transport calls JavaScript (`_onNativeMessage`, `_onNativeClose`, `_onNativeClosed`,
  `_onNativeBackpressure`, `_onNativeTransportError`, and the callback of each `send()`), and
  application code that runs there calls back: `send()`, `close()`, `terminate()`. Nothing is
  concurrent, everything is re-entrant.
- Node's socket and the transport share the connection for a while: the transport is prepared in
  the upgrade, is activated when Node's socket has closed (with TLS one turn later), and an abort
  may come at any point between.
- Where the native side cannot take a socket over, the same class works on Node's stream: it
  registers listeners for 'data', 'end', 'error' and 'close', and asks the session to parse and to
  frame. The `Server` hears from each WebSocket once, when it is finalized.
- A session's handle in JavaScript and its transport point at each other. The application, the
  garbage collector, libuv and the end of the thread may each take one of them away.
- The sessions of a server share two zlib streams for the directions in which no context is
  taken over; the client at the other end relies on what the response said.
- TLS connections share their `SSL_CTX` with Node's own: the addon's callbacks stand between.
- Installers are processes that share nothing but the file system.

### What is hard here

- *Cuts.* A read may end at any byte of a header or payload; a control frame that arrives in
  parts shares a buffer with the message around it.
- *Re-entrancy.* A write callback may send or close while `flushWrites()` or `cancelWrites()` is
  in the middle of the queue. An object may be deleted by a callback of one of its own methods.
- *Ordering.* The peer's Close, our Close, errors, end of file, the close deadline and the limit
  on queued bytes race one another; each must end the connection once and tell the truth about
  each `send()`.
- *Partial progress.* Writes are partial; OpenSSL may have taken plaintext whose ciphertext could
  not be sent, or may want input before it writes.
- *Lifetime.* Of handle, transport, poll handle and environment any may go first; JavaScript's
  buffers are good only while the call lasts; short strings move with the object they are in.
- *Sharing.* A session that fails in the middle of a message leaves a zlib stream to the next; an
  `SSL_CTX` may be freed and another come to be at its address.
- *Crashes.* An installer killed anywhere must leave neither a lock that keeps others out nor a
  tree that others take for whole.

The list with its lines is in `PROJECT.json` under `hazards`, each with the properties that would
notice.

### What makes each part correct

- Session: grouping of bytes into reads cannot be observed; the first offending frame ends the
  session with the right code; one Close frame, one close event, nothing after; at most
  `maxPayload` bytes of a message are kept.
- Transport and WebSocket: every `send()` is answered once, with the truth; the queue never waits
  for an event that was not asked for; the byte count is exact and bounded; a healthy closing
  handshake drops nothing; the close event comes; the native object is deleted once, and not
  under its own feet.
- Write request: every byte goes out once and in order, from memory that is still good, whatever
  the socket takes at a time.
- Compression and negotiation: the response is what the offer calls for, and both ends can
  inflate the other's next message.
- Handles, transports, environment: no pointer to what is gone; the environment goes last, and does.
- TLS callbacks: Node hears what it would have heard, and the registry leaves nothing behind.
- Server: it closes once, after its last client, and does; a session is disposed of whatever ends
  the upgrade or the WebSocket. The fallback path answers each `send()` once, with the truth.
- Source cache: one installer at a time; a tree that counts as cached is whole, wherever an
  installer was killed; a dead owner's lock goes.

## 2. Modules

| Module | What it is |
|---|---|
| `WebSocketFrames` | frames, header sizes, events: the vocabulary of the next two |
| `MessageStream` | *abstract*: frames are judged one by one, whole and in order |
| `StreamWebSocket` | parser and session, offset by offset |
| `StreamWebSocketRefinement` | the session implements `MessageStream` |
| `StreamWebSocketProofs` | theorems about these two |
| `NativeTransport` | the native socket, as steps on an explicit call stack |
| `NativeWebSocket` | extends it by the JavaScript WebSocket and the application |
| `NativeWebSocketProofs` | theorems about its types, its queue and the bytes in it |
| `NativeCallsProofs` | theorems about what the calls in progress leave to be done |
| `WriteRequest` | the bytes of one request of its queue |
| `WriteRequestProofs` | theorems about them, and about the folds they are made of |
| `TLSCallbacks` | the registry between Node's TLS connections and the addon's |
| `NativeEnvironment` | extends it by handles, transports and environments that come and go |
| `NativeEnvironmentProofs` | theorems about both |
| `ExtensionsNegotiator` | operators: parser, choice and response, and the same from the grammar |
| `CompressionContext` | extends it by sessions, clients and the zlib streams between them |
| `CompressionProofs` | theorems: the response is what the grammar calls for, and either end can inflate |
| `WebSocketServer` | the server and its WebSockets over Node streams |
| `WebSocketServerProofs` | theorems about the server, its sessions and types, the frames of its sockets and the answers to their sends |
| `CacheLock` | the lock of the source cache, one system call per step |
| `SourceCache` | extends it by what installers do under the lock |
| `SourceCacheProofs` | theorems about these |
| `MC...` | values for TLC, one module for each of the modules that are run |

### Session

`wire` is the peer's stream, a sequence of frames laid out without gaps; a byte is its offset.
`src`, `length` and `spillLength` are the parser's own pointers and counts and nothing else keeps
them aligned with the frames: a header read where no frame starts is `Garbage`, a byte unmasked
with the wrong mask byte is `Garbled`. Actions are the ways through one iteration of the parser:

| Action | Code (`WebSocketProtocol.h`, `StreamWebSocket.cpp`) |
|---|---|
| `Consume(n)` | entry of `StreamWebSocket::consume` with n bytes, and of the first parser call |
| `SecondCall` | the second parser call after a spilled header was completed |
| `RefuseFrame`, `RefuseLength` | the checks of the header and of its length |
| `WholeFrame`, `FirstPart` | `consumeMessage`: the frame is, or is not, in the read |
| `LastPart`, `NextPart` | `consumeContinuation` |
| `SpillHeader` | the read ends in a header |
| `CreateFrame`, `CreateCloseFrame` | frames of the local side, between reads |

`HandleFragment` is `handleFragment()` with all its branches. What a payload contains (UTF-8,
deflated data, a close code) is an attribute of the frame; lengths, offsets, mask rotation, the
eight-bit `controlTipLength` and the opcode stack are computed as in the code.

### Native transport and WebSocket

`stack` is the thread's call stack. The head is the step that runs next; a step replaces itself
by its continuation (`Continue`) or puts a call on top (`Call`). With an empty stack the event
loop picks an event. Re-entrancy needs nothing else: `writeCallback` puts `user` on the stack, and
while `user` is on top the application may `Send`, `Close` or `UserTerminate`, each of which
pushes its own native calls above the half-finished flush.

| Steps | Code |
|---|---|
| `SubmitBehindOthers`, `SubmitIdle`, `Submitted` | `submit()` before and after its own flush |
| `FlushWrites`, `Writing`, `Wrote`, `writeTCP`, `writeTLS` | `flushWrites()` and one write |
| `Feed`, `Receive`, `ProcessMemoryBIO`, `ReadTLS`, `Dispatch` | input and its events |
| `PerformTLSShutdown` | the end of a closing handshake |
| `BeginClose`, `CancelWrite`, `Closed`, `Fail` | `closeNow()`, `cancelWrites()`, `fail()` |
| `RequestDestroy`, `Destroy`, `Release` | `requestDestroy()` and the deletions |
| `OnPoll`, `OnPollError`, `OnPollClosed` | callbacks of libuv |
| `NodeSocketClosed`, `RunScheduled`, `Activate`, `Activated`, `Opened`, `AbortUpgrade` | the upgrade |
| `FromNative`, `FinishNativeWrite`, `FailWebSocket`, `Terminate`, `FinalizeClose` | `eiows.js` called by, or because of, the native side |
| `CloseTimeout` | the close deadline |
| `Send`, `Close`, `UserTerminate`, `UserReturns` | the application |

The parser appears only through what it may hand over (`Inputs`, `CloseEvents`); that it hands
over nothing else is what the session's module shows. The kernel and OpenSSL are
nondeterministic: a write takes any part or fails, ciphertext is sent or stays, a read brings
something, nothing, the end or an error.

### Write request

A byte is its position in the message, so what the socket was given (`wire`) can be compared with
what was sent. A part is where bytes come from: a JavaScript buffer, good while the call lasts
unless it is retained; a string of its own, which leaves its characters behind when it is short
and moved; the request's inline bytes. `stale` says that a part points to where its string was.

| Steps | Code (`native_transport.cpp`) |
|---|---|
| `Make` | `writeMessage()`, `writeFrame()`, `writeFrameList()` and `writeOwned()` up to `submit()` |
| `Submit`, `Arranged`, `Flat`, `Coalesced` | `prepare()`, `flatten()`, `coalescePrefix()` and when they are called |
| `Enqueue`, `Defer` | behind other requests, or what is retained when the call returns |
| `WriteTCP`, `Covered` | `sendmsg()` with the vectors of `remainingIovecs()` |
| `StageTLS`, `CommitTLS` | `SSL_write_ex()` in batches, and the ciphertext that went out |
| `MoveCursor` | `advanceCursor()`, `skipEmptyParts()` and what they release |
| `Block`, `Resume`, `Cancel` | the rest of the queue's life, which is `NativeTransport`'s subject |

### Handles, transports and the environment

For each session `handle` is the JavaScript side, `holds` its pointer, `object` and `transport` the
native side with its pointers back. `environment` is one thread's, with its list of transports.

| Steps | Code (`addon.cpp`, `native_transport.cpp`) |
|---|---|
| `Initialize` | `initializeNativeEnvironment()`, also for a thread that gets the `napi_env` of an earlier one |
| `CreateSession`, `Attach`, `Activate`, `Close`, `Dispose` | the functions JavaScript calls, with their failures |
| `Finalize` | the finalizer, by the collector or after the environment's end |
| `OnPollClosed` | the close callback, of a thread that goes on or ends |
| `CleanupHook`, `Sweep` | `cleanupNativeEnvironment()` and one turn of its loop |
| `Retain`, `Delete` | with `retained`, `released`: the registry at activation and deletion |
| `NodeInstalls`, `NodeDrops`, `NodeCreates` | Node (external): its callbacks, and contexts that are freed and come back |

A context's callbacks are one here instead of three, as the code treats them alike.

### Compression

A zlib stream is the window of blocks it may refer back to, and whether it is between messages. A
client (external) takes every liberty that the response leaves it: it keeps its window unless told
not to, ends its stream within a message, and inflates with just the window it was told of.
`Connect` reads one of `Headers`; `Inflate`, `InflateFails`, `DeflateMessage` and `DeflateFails`
are `inflateMessage()` and `deflateMessage()` with each of their ends; `Disconnect` is the session's
destructor. `ExtensionsNegotiator` has the header as a sequence of lexemes, its parser as a recursive
function with the states of the code's parser, and below it the grammar as a definition of what a header
*means* (`IsHeader`, `Acceptable`, `Ask`), which shares nothing with the parser.

### Server and fallback path

`stack` is again what the thread has to do. `HandleUpgrade` puts the application's 'headers'
listeners on it and below them `headers`, the rest of `handleUpgrade()`: what the listeners do
comes in between. `Consume` parses a whole read first and puts its events on the stack, since
that is what `_consume()` does; a 'message' puts application code above the events still to be
handled. Node's sockets are external: a queue of frames, sent in order (`Flush`), and the events
of the stream in turns of their own.

| Steps | Code (`eiows.js`) |
|---|---|
| `HandleUpgrade`, `HeadersEmitted`, `Upgraded` | `handleUpgrade()` before 'headers', after it, and after the upgrade callback |
| `Data`, `Consume`, `HandleEvent` | 'data', and `_consume()` |
| `SocketEnds`, `SocketFails`, `SocketCloses` | the listeners for 'end', 'error' and 'close' |
| `Flush`, `AutoDestroy` | Node's stream (external) |
| `Send`, `Close`, `Terminate`, `CloseServer` | the application |
| `FinalizeClose`, `FinishScheduled`, `FailWebSocket`, `CloseTimeout` | `_finalizeClose()` with `_remove()`, `_finishClose()`, `_fail()`, the deadline |

A frame is one unit of `maxBackpressure`, and a single `send()` may exceed the limit by itself.
A socket may be gone before its upgrade is handled.

### Source cache

One step is one system call, or the question whether a process lives. `lock` is whose token lies
at the lock's path, `recovered` the tombstones. `source` holds which parts of the tree exist: the
files that `validateSource()` looks at, the others, and the marker with the checksum. An
installer may be killed before any step. `robbed` is a history variable: whether a reclaiming
rename ever took a lock other than the one it had judged.

## 3. Runs

| Run | Question | Bounds |
|---|---|---|
| `stream_reads` | Do the session's invariants hold, does it implement `MessageStream` for every cut, and is every frame judged? | every pair of 28 frames with one of the 8 core ones in it, every triple of core ones, four streams of three or four frames; one local data frame and one local Close |
| `data_after_close` | Is data after our Close ignored, as a comment says? (It is not always.) | three frames |
| `native_tcp` | Are sends answered once and truthfully, is the limit kept and told, is deletion safe? | 3 sends of 1 or 2 bytes, limit 2, 2 reads of up to two messages and a Close |
| `native_tls` | The bytes OpenSSL took; does what waits ask to be served, does every closing connection end, is every closed one freed? | 1 send, 1 read, with fairness |
| `native_environment` | Whatever goes first: are pointers good, does the environment go last, and go; is Node heard? | two sessions, two contexts, two starts of a thread |
| `write_request` | Does every byte go out once, in order, from good memory? | lists of up to 4 parts of up to 3 bytes, messages around each limit |
| `compression` | Is the response what the header asks for, and can both ends inflate? | two sessions, windows of 1 or 2 blocks, every header of up to 4 lexemes, of one offer with two parameters or of two with one |
| `server_close` | Does the server close once, after its last client, and in the end? Is every session disposed of? | two sockets, one read each, no sends, limit 1 |
| `fallback_sends` | Is each send over a Node stream answered once and truthfully, and is the limit kept? | one socket, four sends, two reads of up to three events, limit 3 |
| `fallback_limit` | Do pending sends hear of the limit, as the README says? (They do not.) | the same |
| `source_cache` | Does the lock exclude, is every used tree whole, is a dead owner's lock recovered? | 3 installers of one host |
| `late_reclaim` | Can a reclaimer take a lock it did not mean? (It can.) | 3 installers, two of them on one host |

Why the bounds are enough. *Session:* its memory between frames is whether a message is open,
whether it is compressed, what is in the buffer and which side closed; three frames reach every
combination, and the longer streams continue after it. Headers are scaled to 2, 3 and 4 bytes and
payload classes to 2, 3 and more, so that each header size is cut at each of its bytes
(`data_after_close` has the real 6, 8 and 14, and the proofs any). `UIntMax` is 6 and `MaxPayload` 4,
so both limits are crossed by one frame and by a sum. *Transport:* queues of length two with
requests of two bytes have a first request that is partly written, one behind it, and a nested
submit from a callback; the limit of 2 is crossed behind others and after a flush. A third send
(`native_tcp`) comes from the callback of a request that was cancelled or completed. A longer
queue repeats these; TLS adds what OpenSSL holds, which belongs to the first request only. *Write
request:* the scaled limits keep their order (a short string fits below the inline bytes, which
fit below what is coalesced whole), parts are empty, shorter and longer than a prefix or batch,
and the longer lists begin with more empty parts than one call takes vectors. *Environment:* two
sessions are a last transport and another; two contexts the one a connection began with and the
one its server name moved it to; the second start is the `napi_env` that comes back. The
invariants are proved for any number. *Compression:* what two sessions share is one context, so a
third adds nothing; a window of one block is overrun by the next one and a window of two is not.
*Server:* sockets meet in the server's flags and set of clients only, so two of them give every
case of a last client and one before it, and sends, which touch one socket, need no second one. A
limit of 1 is the 101 response alone: the first Close or Pong exceeds it. *Cache:* a wrong reclaim
needs an owner, a reclaimer and a third one, and two reclaimers of one owner are held apart by its
tombstone; the proofs cover every number, on any hosts.

`MaxSends`, `MaxReads`, `MaxStarts`, `MaxBlocks`, `Bodies`, `Sizes`, `Lists`, `Payloads`, `Headers`
and `Wires` are the only bounds on behaviour; those that count are guards in the actions. In
`compression`, sessions are symmetric: they differ in name only, no property is about order in
time, and the server is none of them. Deadlock is checked there, and not in the other runs: a
finished session, request, WebSocket, thread or set of installers takes no step.

### Properties

- `ImplementsMessageStream`: every byte-level behaviour is one of `MessageStream`, whose actions
  know frames but no reads.
- `TipIsControlFrame`, `MemoryBounded`: the shared buffer is split where it should be, and the
  payload limit holds for whole messages.
- `NothingAfterClose`: over the whole log of frames and events. `AllFramesJudged`: no frame that
  arrives is forgotten.
- `AnsweredOnce`: of the three places that may call a `send()` callback exactly one does, with
  what became of the bytes.
- `PendingBytes`: the clamped counter is the size of the queue, and what OpenSSL took belongs to
  its first request.
- `BackpressureBounded`, `BackpressureIsTold`: the limit, and who is told what when it is hit.
- `WritesProgress`: what waits has asked the poll handle for the event that will serve it.
- `HandshakeLosesNothing`: frames go out in the order they were made in, whatever sends callbacks
  make and wherever a close cuts the queue, so that a peer that has our Close has every message
  before it; and the closing handshake ends the connection only when the answer to the peer's
  Close, or our own, was sent and nothing else is left. `NoDataAfterClose`: nothing is sent after.
- `FreedOnce`: deleted once, with no poll handle, no queued request and no method of its own
  on the stack.
- `LooksForItsOwn`: the request that `submit()` looks for by its address after a flush is its own, or
  nothing is there, although memory comes back.
- `WholeMessage`, `HeldUntilSent`, `WritesSomething`: the bytes of a request; what outlives the call
  is retained; a socket is never offered nothing, which would look like a full one.
- `PointersLive`, `EnvironmentLast`, `ThreadEnds`: whatever goes first.
- `RegistryExact`, `NodeHears`: what the registry counts, and what Node's connections reach.
- `AnswersTheOffer`, `ClientCanInflate`, `ServerCanInflate`: response, session and client agree, in
  every window, whatever other sessions left behind.
- `ClosingEnds`, `ClosedIsFreed`: the close event comes; the memory is returned.
- `StaysInRead`: pointer, length and bytes beyond the current call add up to what was received;
  kept header bytes are fewer than the header has.
- `ServerClosesOnce`, `SessionsDisposed`, `ServerCloses`: see above; the first two hold in the middle
  of every call, with listeners that close the server during an upgrade.
- `QueueBounded`, and `AnsweredOnce` and `NoDataAfterClose` of the fallback path: a send is in the queue
  or answered, with success if and only if its frame was sent.
- `Exclusion`, `RobbedOnlyAfterRelease`, `CacheIsWhole`, `BuildsWhole`, `StaleLockGoes`.

The type invariant of the native path is also a property of a run (`native_tcp`), where each of its
conjuncts is about a call on the stack or a queue; the others, and `StackMatchesMessage` and `OneCloseFrame` of the session, are theorems.

Each of these has in `PROJECT.json` a mutant of the model (`..._Suffix` definitions beside the
original) that a plausible slip in the code would make, and that violates it.

Five states are exceptions that the properties name, since no document says what should happen
there. `ClosedBeforeResponse`: over TLS a client may have sent its Close before the 101 response
was written; the WebSocket then goes from CLOSING to OPEN. And in `WritesProgress`: when a Close
arrives with the upgrade request, `feed()` leaves `close_notify` without asking for WRITABLE, and
the close deadline ends the connection. `Stuck` (in `ServerCloses`) has two states that the server
waits in for ever: a socket that closed before `handleUpgrade()` was called, whose 'close' nobody
will hear (`eiows.js` 246), and a client that ended its side and takes no data, for which no
deadline was set and `close()` sets none (`eiows.js` 247-252). `Ended` (in `ClosingEnds` and
`ClosedIsFreed`): an 'error' before the upgrade callback has given the WebSocket to anybody has
no listener, so `emit()` throws and the process ends, with nothing closed or freed any more.

### Fairness

- `StreamWebSocket` (`stream_reads`): weak fairness of the parser's steps, a loop that runs to its
  end, and of reads, since the property is about a peer that stays connected.
- `NativeWebSocket` (`native_tls`): weak fairness of `Proceed` (a call gets to its end), of the
  poll handle's close callback, of Node's socket closing (it was destroyed or aborted) and of
  the scheduled activation: libuv and Node run what is due. Strong fairness of `CloseTimeout`: the
  model's timer is enabled between calls only, and each turn of the loop looks at timers,
  however busy the socket is. No fairness of the peer, the network or the application.
- `WebSocketServer` (`server_close`): weak fairness of `Proceed`, of what `process.nextTick()` was given,
  of 'close' of a destroyed stream and of a stream that ended on both sides destroying itself;
  strong fairness of `CloseTimeout`, for the same reason as above. None of `Flush`: a peer need not
  take data.
- `NativeEnvironment` (`native_environment`): weak fairness of `OnPollClosed` or `Sweep` taken
  together: the loop of a thread that ends runs until every cleanup hook is removed.
- `SourceCache` (`source_cache`): weak fairness per installer of its own steps: a process that was not
  killed goes on. Strong fairness of `JudgeDead`: the pid of an ended process may be in use by
  another one for a while, but not each time anybody looks.

## 4. Findings

1. *Data after our Close* (`data_after_close`). `handleFragment()` ignores data once our Close was
   created, but returns before `compressionStatus` is set back (`StreamWebSocket.cpp` 386-388).
   The second compressed message in flight is then refused in its header, the session fails with
   1002, and the peer's Close is never handled: 1006 instead of a clean close. The comment there
   says that application data is ignored.
2. *Late reclaim* (`late_reclaim`). A tombstone protects a new lock from a reclaimer of a *crashed*
   owner. An owner that *released* leaves none: a reclaimer that had read its token, and finds the
   process ended, renames whatever lock is there by then (`build.js` 138-146), contrary to the
   comment at 141-143. `RobbedOnlyAfterRelease` and its proof show that this is the only way, and all
   other properties of the cache hold up to that event (`~robbed`).
3. *The limit over a Node stream* (`fallback_limit`). The README says that exceeding `maxBackpressure`
   completes pending `send()` callbacks with `EIOWS_MAX_BACKPRESSURE`. On the fallback path only the
   send that exceeds it hears that; those queued before end with Node's error for a destroyed
   stream (`eiows.js` 529-542).

## 5. Proofs

All theorems are checked by TLAPS for every value of the constants under the `ASSUME`s of the
modules that declare them, which only say that bounds are numbers, header sizes and windows grow,
lock values differ from installers, connections are pairs of contexts and Node installs none of the
addon's own callbacks.

**`StreamWebSocketProofs`.** None of the properties is inductive alone. `SessionInv` adds to
`TypeOK`, `StackMatchesMessage`, `TipIsControlFrame` and `MemoryBounded` what the parser's position
means (`CallState`): in each state of a call whether a header or a payload comes next, that a session
still parses only while it is not closing, and that within a frame the stack holds its opcode. It
is needed because the opcode on top of the stack, the count of remaining bytes and the tip's
length are all kept by different branches. Each action has a lemma,
and the branches of `HandleFragment` one each, since three actions share it. From it follow
`TypeCorrect`, `StackCorrect`, `TipCorrect`, `MemoryCorrect` and `StackCheckNeverAlone` (the last
check of `consumeMessage` is redundant). `LogInv`, an invariant of the log relative to
`SessionInv`, gives `CloseOnce` and `CloseIsFinal`.

**`StreamWebSocketProofs`, the reads.** `StaysInRead` alone is not inductive: `ReadInv` adds that kept bytes are part
of what a call looks at, and that a call with bytes behind it (the first of two, on a completed
header) looks at exactly one header. The length of a header is a function of the stream, so a
step that leaves `wire` alone cannot change which header a pointer is at (`SameHeader`). Hence
`ReadsInBounds`.

**`StreamWebSocketProofs`, the refinement.** The mapping counts the frames that end at or before the
parser's position, so the proof begins with the layout of the stream: `Start`, a sum over the
frames, is unfolded to the function it chooses (`StartStep`), and a position within frame c
or at its start counts c - 1 frames (`FrameCount`), holds c's header (`HeaderOf`) or the byte
one expects (`BytesOf`, `UnmaskOf`). `StreamInv` adds three parts to `SessionInv` and `ReadInv`.
`Aligned`: the position is the start of a frame, or as far into its payload as was handled, and the
mask, the stack and `lastFin` are that frame's. `Gathered`: what was handled of it lies on top of the complete
fragments, in `fragmentBuffer`. `Inflating`: `compressionStatus` says whether the message in
progress is compressed, which no code keeps beside it. Then each step is sorted by what it does to
the frame at hand. It refuses it by the checks `MessageStream` has (`Checks`); it hands over a part
that is not the last, which shows nothing unless the message is too long with it
(`Advances`, `Within`); or it hands over the last bytes (`Finishes`), and the lemmas that follow take
the frame apart no further: `DataFinished`, `ControlFinished` and `IgnoredFinished` say what became of it, and `Taken`
that `MessageStream` does the same. Hence `Refines`: `Spec => ImplementsMessageStream`, for every
peer, every header size and payload limit, and every way to cut the stream.

**`WebSocketServerProofs`.** `CloseInv` adds to `ServerClosesOnce` that while `_finishClose()` is
scheduled the server is closing and has no client, which holds since a request becomes a client
only after the second look at `_closing`. Hence `ServerClosesForGood`. `SessionInv` is what
`SessionsDisposed` needs to be inductive: the rest of `handleUpgrade()` lies at the bottom of the
stack, for a socket whose WebSocket is not there yet, and every other step is about a WebSocket
that is there. Steps are sorted by what they push (`Pushes`) and by whether a WebSocket comes or
goes (`SameLife`); most of them follow from `QuietStep`, and three have a proof of their own. Hence
`SessionsAreDisposed`, and with flags, counts and deadlines `TypeCorrect`.

**`WebSocketServerProofs`, the frames.** A step is looked at three times, and the invariants follow from what
is seen. It leaves a socket's frames, drops them, sends the first or adds one, and there are five
reasons for adding one (`Effects`, `Reason`). It makes no WebSocket `OPEN` but by an upgrade, and
takes back no Close (`StateEffects`). The replies it leaves on the stack were there, but the one of a
read (`StackEffects`). `QueueInv` says that frames belong to a WebSocket that is there: the response
is written without a look at the limit, into a socket that is empty. Hence `QueueIsBounded`. For
`NothingAfterClose` the state of the WebSocket is not enough: a reply is among the frames while it
is still `OPEN`, with the session closed since the read was parsed. `OrderInv` says why nothing is
sent in between: a waiting reply has the peer's Close right behind it on the stack (`RepliesApart`),
which is handled before any code of the application runs.

**`WebSocketServerProofs`, the answers.** `AnswersInv` keeps the books of each socket: of every number
the frames that wait, the answers and the frames that went out hold one at most; a send
waits or was answered, never both; and what went out is what was answered with success (`Right`). Each
way of changing a socket keeps them by a lemma of its own (`BooksDrop`, `BooksFrame`, `BooksSend`,
`BooksAnswer`, `BooksFlush`), and `Stream()`, whatever it is given, is one of these or two in turn: a send
that exceeds the limit is answered first and then fails the others. What a destroyed socket
tells is a fold over its queue (`Failed`), which an induction shows to answer each send of the
queue and no other (`FailedIs`). Hence `AnswersCorrect`.

**`SourceCacheProofs`, the lock.** `IInv` says who may own the lock: whoever works under it (`HolderOwns`); its
owner works or crashed (`OwnerHolds`); tombstones belong to crashed owners that lost it
(`TombstonesAreOld`); and what a reclaimer saw is still there, has a tombstone, or was released
(`SeenIsKnown`). The last is the point of the protocol: only in its third case can the rename hit
somebody else. Hence `LockExcludes` and `OnlyReleasedOwnersMislead`.

**`SourceCacheProofs`.** Its steps are steps of the lock or leave it alone (`LockStep`), so `IInv`
is kept. On top: an installer that replaces the tree found it unusable, and a successful one finds
it there until it has built. Hence `CrashesLeaveNoPart` and `BuildsAreUndisturbed`.

**`CompressionProofs`.** What the sessions share is as good as new between two messages (`Fresh`),
since whoever uses it resets it behind a message and a failure; everything else belongs to one
session: its options, its own context and its client agree (`Agree`), in each direction. A session
that comes and goes disturbs no other because of the first. `SlidWindow`, `EndsBehindMore`
and `EndsSlides` are about windows: what a longer window was asked for is still there after both
slid. Hence `ClientInflates` and `ServerInflates`, for any headers.

**`CompressionProofs`, the negotiation.** `OfferAnswered` compares the parser with a grammar that says
of a whole header where its marks may be, for every sequence of lexemes (`CompressionAssumption`:
`Headers` are such sequences, of any length and number). `ReadingSteps` unfolds the parser lexeme by lexeme;
`Sound` is what it knows behind n of them. The part since the last comma or semicolon is one that
can still become an extension or a parameter (`Within`), and all parts before it are (`Fine`); when
the parser has failed, some part is not, whatever follows (`NotFine`). What it holds is in the header:
the offers are those behind the commas, in their order (`Content`), and the parameters of each are
those behind the semicolons up to the next comma (`Lists`, `Matches`), with a value exactly if an
`=` is there. One lemma for each kind of lexeme keeps this (`ContentName`, `ContentParameter`,
`ContentValue`, `ContentSame`). At the end of the header it gives `ParsesHeader`, the parser accepts what
the grammar does and nothing else, and `ReadingMade`. The rest is about one offer: it is compatible
if and only if it is acceptable (`CompatibleAcceptable`), so the first of the one is the first of
the other (`CandidatesGood`), and the window the code finds is the one the client asked for
(`WindowAsked`). `SessionAnswers` puts this together.

**`NativeEnvironmentProofs`.** `IInv` has a part for the sessions and one for the environment.
`Good` relates the four that point at each other; `Sound` says what of a transport's members go
together, of which `PointersLive` needs that a transport whose destruction was requested has let
go of its handle: deleting it then cannot leave a pointer. That a running environment has no
transport marked for cleanup is why the last of these cannot take away an environment in use.
`RegistryInv` and `EntriesInv` are about the registry: owners are counted, and an entry without
owners has not taken Node's place, also in a context nobody refers to, whose address may come
back. Four lemmas say what becomes of all that when one transport changes, is retained, is deleted,
or a handle goes without; each operation is one of them. Hence `PointersAreLive`,
`EnvironmentGoesLast`, `RegistryIsExact` and `NodeIsHeard`.

**`NativeWebSocketProofs`.** The difficulty is the stack: almost every step pushes others, and what
holds of a request depends on which calls about it are still open. The proofs therefore never
look at how a stack is made. `Moves` says that a step laid n steps on the stack in place of the
first d, and for each kind of step a lemma says which steps it may push and what must be true
when it does. `WriteInv` then adds to `TypeOK` what each step on the stack is about (`Formed`,
`Refers`), that the queue is in the order of its requests and holds exactly the pending ones
(`QueueInv`), and that what OpenSSL has taken belongs to the head (`Committed`). `PendingBytes`
is a sum over a set: `LeftSum` gives the recursion of that fold, proved by taking a least set for
which two solutions would differ. Hence `TypeCorrect` and `PendingBytesCorrect`.

**`NativeCallsProofs`.** Each invariant here says that something is true or that a step that will
make it true is on the stack, and each rests on the one before:

1. `LifeInv`: which steps exclude each other, and what a closing transport, a requested
   destruction and a closed poll handle have already done. `FreedCorrect` needs all of it, since
   `delete this` is reached from three places.
2. `CallInv`: at most one submit is in its own flush, with nothing else queued (`LookupCorrect`);
   only `cancelWrites()` leaves requests in a closing transport; a passed limit has a `submitted` or
   `closeNow` that will see it (`BackpressureCorrect`); and the poll handle asks for the right
   events, or `updatePoll` is still to run (`ProgressCorrect`).
3. `CloseInv`: a Close is made once, by the session or by the application, and while it is
   being written no application code runs, but in the case `ClosedBeforeResponse` names
   (`CloseOrderCorrect`).
4. `AnswerInv`: of a step that will tell, a deferred request in the queue, and an answer, each send
   has exactly one (`Owed`); and what is told is what became of the bytes (`Truthful`,
   `AnswersTrue`), for which a transport that is not closing must have sent or still have every
   request (`Ends`), and a submit must not be answered inside another's flush (`Direct`,
   `SentOpen`). Hence `AnswerCorrect`. With `Ends`, and a queue in the order of its requests,
   nothing is sent before what was made earlier (`SentFirst`); and a handshake is asked for only
   when our Close is among the requests (`Gives`, `Graces`), since the answer to the peer's is on
   the stack above the step that asks. Hence `HandshakeCorrect`.
5. `ToldInv`: what the limit may cost. Before it cancels anything its owner was told, so the
   application is no longer OPEN and no send was refused (`Limits`, `Spared`); a transport closes for
   one reason, so that nothing is cut off by the limit and cancelled otherwise (`OneReason`). A submit
   in its own flush never sees the limit close the transport under it (`Inside`), so only a request
   that was cancelled or refused is told of an error (`Blames`, `Blamed`), and there is none. The
   code could still be the peer's, 1000, but that is told when the answer to its Close is out:
   the step that tells was reached from the event loop and not from a send (`Reading`), and from
   then on no send is made that the limit could cut off (`CodeTold`, `Polite`). Hence `ToldCorrect`.

**`WriteRequestProofs`.** A byte is its position, so each part of a message is a run of numbers, and
a *ladder* gives the byte at which each part begins. `Spelled` says that parts are the runs
from one byte to another; moving, cutting, copying and dropping empty parts keep it, and
`prepare()` makes every pointer good again (`ArrangedSpelled`). The invariant says that what is on
the wire is the run from 0, that the parts from the cursor on still spell the rest, all of
them readable, and that the cursor is at the next byte (`AtByte`), which is never the end of a
part. That last is why a write is never offered nothing. Released parts are behind the cursor and
nothing is said of them. Hence `WholeCorrect`, `HeldCorrect` and `WritesCorrect`.

**Induction over data.** The library's induction theorems take an operator as a parameter, which the
provers cannot instantiate. Three forms of induction that need none are proved here from facts
about finite sets: a family of subsets of a finite set has a least member (`LeastSubset`), a
subset of 0..n with 0 and closed under successors is all of it (`UpTo`), and the same from m
(`From`). Folds over sequences and `FlattenSeq` are unfolded to the function they choose, of
which existence and uniqueness follow by the first.

**Model-checked only:** liveness, which is out of the prover's reach, as is ENABLED. Every invariant
and every action property that a passing run checks, and the refinement, have a theorem. No module
uses a RECURSIVE operator.

## 6. Not modelled

- Contents of payloads and certificates, UTF-8 validation, masking beyond which byte meets which;
  wording of errors; logging.
- Exceptions and failed allocations in native code, errors returned by Node-API calls,
  `uv_poll_start` failing; conversion of arguments and results.
- The pool of `WriteRequest` objects: a request is a new one each time.
- The validation of upgrade requests in `eiows.js`: comparisons of strings, without state.
- Characters and white space of a `Sec-WebSocket-Extensions` header, below its lexemes.
- zlib, OpenSSL, libuv, Node's streams and its TLS are external: what they may do is modelled from
  how the code uses them.
- Containers that share a host name but no pids (`build.js` takes host and pid as identity).
- A read longer than `UINT_MAX` (`StreamWebSocket.cpp` 531-535), which Node never makes, and the
  internal error 1011.
- A listener that throws in the middle of the events of a read on the fallback path, or an
  'error' nobody listens to there (`eiows.js` 549-568).
- A second attempt at `activate()` (`native_transport.cpp` 1096): JavaScript makes one.
- Empty frames in `NativeTransport`'s queue (`Sizes` are positive); `WriteRequest` has them.
- The addon build (one process, one directory, outside the lock), and the legacy uWebSockets core,
  which nothing is built from.

## 7. Order of construction, and what is left

Session, its refinement and proofs; transport and native WebSocket; server, fallback path and
proofs; source cache and proofs; handles, environment and TLS callbacks with proofs; write requests;
negotiation and compression with proofs; proofs about the native path and the write requests.
Left, in this order:

1. `FromNative` and the fallback path as refinements of one abstract WebSocket, so that an
   application could not tell them apart but for the limit (finding 3).
2. The pool of write requests, and what a failed allocation leaves behind.
