---------------------------- MODULE NativeTransport ----------------------------
(***************************************************************************)
(* The native socket of one WebSocket: class NativeTransport.  It owns a   *)
(* descriptor and a uv_poll handle, writes a queue of requests, reads and  *)
(* hands parsed events over, closes, and deletes itself.                   *)
(*                                                                         *)
(* Everything runs on one thread, but native code calls JavaScript and     *)
(* JavaScript calls back into it: a write callback may send, close or      *)
(* terminate while flushWrites() is halfway through the queue.  `stack` is *)
(* that call stack.  Its head is the step that runs next; a step replaces  *)
(* itself with the steps that continue it, or puts a call on top of it.    *)
(* When it is empty the event loop runs.  The steps named after methods of *)
(* the owner are those of module NativeWebSocket, which composes the two.  *)
(***************************************************************************)
EXTENDS Integers, Sequences, SequencesExt, FiniteSetsExt

CONSTANTS
    Tls,             \* whether ssl_ is set
    MaxBackpressure, \* maxBackpressure_; 0 means no limit
    Bodies,          \* bound: what one read holds before a Close may follow
    MaxReads         \* bound: reads that bring data

ASSUME TransportAssumption ==
    /\ Tls \in BOOLEAN /\ MaxBackpressure \in Nat /\ MaxReads \in Nat
    /\ \A b \in Bodies : b \in Seq({"message", "pong"})

VARIABLES
    stack,           \* the calls in progress, innermost first
    active,          \* active_
    closing,         \* closing_
    poll,            \* the uv_poll handle: "none", "open", "closing" or "closed"
    interest,        \* pollEvents_
    destroyRequested,
    frees,           \* how often the object was deleted
    parserClosing,   \* session_: the peer's Close was parsed, or the parse failed
    closeSent,       \* session_: our Close was created
    graceful,        \* gracefulCloseRequested_
    reads,           \* reads so far
    requests,        \* every WriteRequest ever made, in order
    queue,           \* writeHead_ to writeTail_, indexes of requests
    pendingBytes,
    flushing,        \* flushingWrites_
    output,          \* hasTLSOutput()
    committed,       \* tlsCommittedPlaintext_
    blockedOnRead,   \* tlsWriteBlockedOnRead_
    shutdownPending, shutdownGenerated

handleVars == <<active, closing, poll, interest, destroyRequested, frees>>
peerVars == <<parserClosing, closeSent, graceful, reads>>
writeVars == <<requests, queue, pendingBytes, flushing>>
tlsVars == <<output, committed, blockedOnRead, shutdownPending, shutdownGenerated>>
nativeVars == <<stack, handleVars, peerVars, writeVars, tlsVars>>

-----------------------------------------------------------------------------
(* The call stack *)

\* A step; `on` is the request, close code or handshake it is about.
Step(name, on, why) == [at |-> name, on |-> on, why |-> why]
At(name) == Step(name, 0, "none")
CloseNow(why) == Step("closeNow", 0, why)

Top(name) == stack # <<>> /\ Head(stack).at = name
Continue(steps) == stack' = steps \o Tail(stack)
Call(steps) == stack' = steps \o stack
Return == Continue(<<>>)
Running(name) == \E i \in DOMAIN stack : stack[i].at = name

-----------------------------------------------------------------------------
(* Write requests *)

Owned == {"pong", "reply"}               \* made by consume(), without a callback
Kinds == Owned \cup {"app", "close", "response"}

NewRequest(kind, size) == Append(requests, [kind |-> kind, left |-> size,
                                            deferred |-> FALSE, outcome |-> "pending"])
NextRequest == Len(requests) + 1

writable == ~closing /\ ~destroyRequested

backpressureExceeded == MaxBackpressure # 0 /\ pendingBytes > MaxBackpressure

\* Mutant: the owner hears of it last.
Backpressure_ClosesFirst == <<CloseNow("nobufs"), At("_onNativeBackpressure")>>

\* terminateForBackpressure()
Backpressure == <<At("_onNativeBackpressure"), CloseNow("nobufs")>>

\* Mutant: forgets the ciphertext that waits.
Events_QueueOnly == {"READABLE"} \cup (IF queue # <<>> /\ ~blockedOnRead THEN {"WRITABLE"} ELSE {})

\* What updatePoll() asks libuv for.
Events ==
    {"READABLE"} \cup
    (IF \/ queue # <<>> /\ (~Tls \/ ~blockedOnRead)
        \/ shutdownPending
        \/ Tls /\ output
     THEN {"WRITABLE"} ELSE {})
updatePoll == interest' = IF active /\ ~closing THEN Events' ELSE interest

UpdatePoll ==
    /\ Top("updatePoll") /\ Return
    /\ UNCHANGED <<active, closing, poll, destroyRequested, frees, peerVars, writeVars, tlsVars>>
    /\ updatePoll

\* What submit() returned goes to _finishNativeWrite(), or to consume(), which fails on
\* an error: the transport is closing by then.
Returned(i, status) ==
    IF requests[i].kind \in Owned THEN <<>> ELSE <<Step("_finishNativeWrite", i, status)>>

\* Mutant: a request behind others is not deferred.
Defer_OnlyAfterFlush(i) == [requests EXCEPT ![i].deferred = queue = <<>>]

Defer(i) == [requests EXCEPT ![i].deferred = TRUE]

\* Mutant: counts only what waits for other requests.
Enqueue_Uncounted(i) ==
    /\ queue' = Append(queue, i)
    /\ pendingBytes' = IF queue = <<>> THEN pendingBytes ELSE pendingBytes + requests[i].left
    /\ UNCHANGED flushing

Enqueue(i) ==
    /\ queue' = Append(queue, i)
    /\ pendingBytes' = pendingBytes + requests[i].left
    /\ UNCHANGED flushing

\* Mutant: the limit is looked at only after a flush of one's own.
SubmitBehindOthers_NoLimit(i) ==
    /\ Top("submit") /\ (queue # <<>> \/ flushing)
    /\ Enqueue(i) /\ requests' = Defer(i)
    /\ updatePoll /\ Continue(Returned(i, "async"))

\* submit() while other requests wait, or from a callback of flushWrites().
SubmitBehindOthers(i) ==
    /\ Top("submit") /\ (queue # <<>> \/ flushing)
    /\ Enqueue(i) /\ requests' = Defer(i)
    /\ IF backpressureExceeded'
         THEN Continue(Backpressure \o Returned(i, "async")) /\ UNCHANGED interest
         ELSE updatePoll /\ Continue(Returned(i, "async"))

SubmitIdle(i) ==
    /\ Top("submit") /\ queue = <<>> /\ ~flushing
    /\ Enqueue(i) /\ UNCHANGED <<requests, interest>>
    /\ Continue(<<At("flushWrites"), Step("submitted", i, "none")>>)

\* submit() after its flush: failed, still queued, or sent already.
Submitted(i) ==
    /\ Top("submitted")
    /\ UNCHANGED <<queue, pendingBytes, flushing>>
    /\ \/ /\ closing
          /\ Continue(Returned(i, "error")) /\ UNCHANGED <<requests, interest>>
       \/ /\ ~closing /\ Contains(queue, i)
          /\ requests' = Defer(i)
          /\ IF backpressureExceeded
               THEN Continue(Backpressure \o Returned(i, "async")) /\ UNCHANGED interest
               ELSE updatePoll /\ Continue(Returned(i, "async"))
       \/ /\ ~closing /\ ~Contains(queue, i)
          /\ Continue(Returned(i, "sync")) /\ UNCHANGED <<requests, interest>>

Submit ==
    /\ stack # <<>>
    /\ UNCHANGED <<active, closing, poll, destroyRequested, frees, peerVars, tlsVars>>
    /\ LET i == Head(stack).on IN SubmitBehindOthers(i) \/ SubmitIdle(i) \/ Submitted(i)

-----------------------------------------------------------------------------
(* flushWrites() *)

\* flushMemoryBIOOutput() leaves ciphertext behind, or sends all of it.
Drained == output' = FALSE
StillBlocked == output /\ output' = TRUE

FlushWrites ==
    /\ Top("flushWrites")
    /\ \/ /\ flushing \/ closing \/ ~active
          /\ Return /\ UNCHANGED <<flushing, output>>
       \/ /\ ~flushing /\ ~closing /\ active
          /\ \/ Drained /\ flushing' = TRUE /\ Continue(<<At("writing")>>)
             \/ StillBlocked /\ Return /\ UNCHANGED flushing
             \/ output /\ Continue(<<At("fail")>>) /\ UNCHANGED <<flushing, output>>
    /\ UNCHANGED <<handleVars, peerVars, requests, queue, pendingBytes, committed, blockedOnRead,
                   shutdownPending, shutdownGenerated>>

\* Mutant: a request that completes within submit() is called back too.
HasCallback_Always(i) == requests[i].kind = "app"

HasCallback(i) == requests[i].kind = "app" /\ requests[i].deferred

\* n bytes of the first request went out; the last ones complete it.
Wrote(n) ==
    LET i == Head(queue) done == requests[i].left = n IN
    /\ requests' = [requests EXCEPT ![i].left = @ - n, ![i].outcome = IF done THEN "sent" ELSE @]
    /\ pendingBytes' = pendingBytes - n
    /\ queue' = IF done THEN Tail(queue) ELSE queue
    /\ IF done /\ HasCallback(i) THEN Call(<<Step("writeCallback", i, "ok")>>) ELSE UNCHANGED stack
    /\ UNCHANGED flushing

WouldBlock == flushing' = FALSE /\ Return /\ UNCHANGED <<requests, queue, pendingBytes>>
WriteError ==
    /\ flushing' = FALSE /\ Continue(<<At("fail")>>)
    /\ UNCHANGED <<requests, queue, pendingBytes, output, committed, blockedOnRead>>

writeTCP ==
    /\ ~Tls
    /\ \/ (\E n \in 1..requests[Head(queue)].left : Wrote(n)) \/ WouldBlock
       \/ WriteError
    /\ UNCHANGED <<output, committed, blockedOnRead>>

\* Mutant: plaintext handed to OpenSSL is forgotten while its ciphertext waits.
writeTLS_Restages ==
    /\ Tls
    /\ \E n \in 1..requests[Head(queue)].left, wantRead \in BOOLEAN :
        /\ blockedOnRead' = wantRead
        /\ \/ Drained /\ Wrote(n) /\ UNCHANGED committed
           \/ output' = TRUE /\ WouldBlock /\ committed' = committed + n

\* OpenSSL takes the plaintext before the ciphertext is sent.  Until that is out the
\* bytes are committed: they stay in the queue and are not given to OpenSSL again.
writeTLS ==
    /\ Tls
    /\ \/ /\ committed > 0 /\ UNCHANGED blockedOnRead
          /\ \/ Drained /\ Wrote(committed) /\ committed' = 0
             \/ StillBlocked /\ WouldBlock /\ UNCHANGED committed
       \/ /\ committed = 0
          /\ \E n \in 1..requests[Head(queue)].left, wantRead \in BOOLEAN :
                /\ n = requests[Head(queue)].left => ~wantRead
                /\ blockedOnRead' = wantRead
                /\ \/ Drained /\ Wrote(n) /\ UNCHANGED committed
                   \/ output' = TRUE /\ WouldBlock /\ committed' = n
       \/ /\ committed = 0 /\ blockedOnRead' \in BOOLEAN
          /\ Drained /\ WouldBlock /\ UNCHANGED committed
       \/ WriteError

\* One turn of the loop over the queue, or its end.
Writing ==
    /\ Top("writing")
    /\ \/ queue # <<>> /\ ~closing /\ (writeTCP \/ writeTLS)
       \/ /\ queue = <<>> \/ closing
          /\ flushing' = FALSE
          /\ Continue(IF queue = <<>> THEN <<At("performTLSShutdown")>> ELSE <<>>)
          /\ UNCHANGED <<requests, queue, pendingBytes, output, committed, blockedOnRead>>
    /\ UNCHANGED <<handleVars, peerVars, shutdownPending, shutdownGenerated>>

-----------------------------------------------------------------------------
(* Input *)

\* Mutant: the Close is handed over before the answer to it is written.
CloseEvents_AnsweredLast(code) ==
    <<Step("peerClose", code, "none")>> \o (IF closeSent THEN <<>> ELSE <<At("reply")>>)

\* What a read may hold: messages and pings, and at last the peer's Close or a
\* protocol error.  The session drops messages once our Close was created, and
\* answers a Close unless it was; nothing is parsed after that.
CloseEvents(code) ==
    (IF closeSent THEN <<>> ELSE <<At("reply")>>) \o <<Step("peerClose", code, "none")>>

Inputs ==
    IF parserClosing THEN {<<>>}
    ELSE {b \in Bodies : closeSent => ~Contains(b, "message")}
EventSteps(body) == [k \in DOMAIN body |-> At(body[k])]

\* consume(): the parser runs first, then its events are handed over.
Consume(rest) ==
    /\ reads < MaxReads /\ reads' = reads + 1
    /\ \E body \in Inputs :
         \/ /\ stack' = EventSteps(body) \o rest
            /\ UNCHANGED <<parserClosing, closeSent>>
         \/ /\ ~parserClosing
            /\ \E code \in {1000, 1006} :
                  stack' = EventSteps(body) \o CloseEvents(code) \o rest
            /\ parserClosing' = TRUE /\ closeSent' = TRUE
    /\ UNCHANGED <<handleVars, writeVars, tlsVars, graceful>>

\* The data of the HTTP request's last packet that was not HTTP.
Feed ==
    /\ Top("feed")
    /\ IF writable THEN Consume(Tail(stack))
       ELSE Return /\ UNCHANGED <<handleVars, writeVars, tlsVars, peerVars>>

Receive ==
    /\ Top("readAvailable")
    /\ \/ ~Tls /\ Consume(Tail(stack))
       \/ /\ \/ Return                                   \* nothing to read
             \/ Continue(<<CloseNow("cancelled")>>)      \* end of file
             \/ Continue(<<At("fail")>>)                 \* recv() failed
             \/ Tls /\ Continue(<<At("processMemoryBIO")>>)
          /\ UNCHANGED <<handleVars, writeVars, tlsVars, peerVars>>

\* processMemoryBIO(): decrypts and consumes until nothing is left, then sends what
\* OpenSSL wants sent.  Called from an event it consumes, it only does the latter.
ProcessMemoryBIO ==
    /\ Top("processMemoryBIO")
    /\ Continue(IF closing THEN <<>>
                ELSE IF Running("SSL_read") THEN <<At("flushOutput")>>
                ELSE <<At("SSL_read"), At("flushOutput")>>)
    /\ UNCHANGED <<handleVars, writeVars, tlsVars, peerVars>>

ReadTLS ==
    /\ Top("SSL_read")
    /\ \/ ~closing /\ Consume(stack)
       \/ /\ \/ Return
             \/ ~closing /\ Continue(<<CloseNow("cancelled")>>)
             \/ ~closing /\ Continue(<<At("fail")>>)
          /\ UNCHANGED <<handleVars, writeVars, tlsVars, peerVars>>

FlushOutput ==
    /\ Top("flushOutput")
    /\ \/ closing /\ Return /\ UNCHANGED output
       \/ ~closing /\ output' \in BOOLEAN /\ Return
       \/ ~closing /\ Continue(<<At("fail")>>) /\ UNCHANGED output
    /\ UNCHANGED <<handleVars, peerVars, writeVars, committed, blockedOnRead, shutdownPending,
                   shutdownGenerated>>

\* The loop over the events of consume() ends as soon as the transport closes.
Dispatch ==
    /\ stack # <<>>
    /\ \/ /\ Head(stack).at \in {"message", "pong", "reply", "peerClose", "peerClosed"}
          /\ closing
          /\ Return /\ UNCHANGED <<requests, graceful>>
       \/ /\ Top("message") /\ ~closing
          /\ Continue(<<At("_onNativeMessage")>>) /\ UNCHANGED <<requests, graceful>>
       \/ /\ Head(stack).at \in Owned /\ ~closing
          /\ requests' = NewRequest(Head(stack).at, 1)
          /\ Continue(<<Step("submit", NextRequest, "none")>>) /\ UNCHANGED graceful
       \/ /\ Top("peerClose") /\ ~closing
          /\ Continue(<<Step("_onNativeClose", Head(stack).on, "none"), At("peerClosed")>>)
          /\ UNCHANGED <<requests, graceful>>
       \/ /\ Top("peerClosed") /\ ~closing
          /\ graceful' = TRUE
          /\ Continue(<<At("performTLSShutdown")>>) /\ UNCHANGED requests
    /\ UNCHANGED <<handleVars, parserClosing, closeSent, reads, queue, pendingBytes, flushing, tlsVars>>

-----------------------------------------------------------------------------
(* Closing *)

ShutdownDue == graceful /\ ~closing /\ queue = <<>>

\* performTLSShutdown(): a plain socket is closed.  With TLS what is left of the input
\* is processed, close_notify made once, and all of it sent before that.
PerformTLSShutdown ==
    /\ Top("performTLSShutdown") \/ Top("shutdownIfPending")
    /\ LET due == ShutdownDue /\ (Top("shutdownIfPending") => shutdownPending) IN
       \/ ~due /\ Return /\ UNCHANGED tlsVars
       \/ due /\ ~Tls /\ Continue(<<CloseNow("handshake")>>) /\ UNCHANGED tlsVars
       \/ /\ due /\ Tls /\ UNCHANGED <<committed, blockedOnRead>>
          /\ \/ /\ Drained /\ shutdownPending' = FALSE /\ shutdownGenerated' = TRUE
                /\ Continue(<<CloseNow("handshake")>>)
             \/ /\ output \/ ~shutdownGenerated
                /\ output' = TRUE /\ shutdownPending' = TRUE
                /\ shutdownGenerated' \in {shutdownGenerated, TRUE}
                /\ Return
             \/ /\ Continue(<<At("fail")>>) \/ Continue(<<CloseNow("cancelled")>>)
                /\ UNCHANGED <<output, shutdownPending, shutdownGenerated>>
    /\ UNCHANGED <<handleVars, peerVars, writeVars>>

\* closeNow(): only the first call has an effect.
BeginClose ==
    /\ Top("closeNow")
    /\ Continue(IF closing THEN <<>> ELSE <<Step("cancelWrites", 0, Head(stack).why)>>)
    /\ closing' = TRUE
    /\ UNCHANGED <<active, poll, interest, destroyRequested, frees, peerVars, writeVars, tlsVars>>

\* cancelWrites(), one request after the other: its callback may run any code.
CancelWrite ==
    /\ Top("cancelWrites") /\ queue # <<>>
    /\ LET i == Head(queue) why == Head(stack).why IN
       /\ queue' = Tail(queue)
       /\ pendingBytes' = pendingBytes - requests[i].left
       /\ requests' = [requests EXCEPT ![i].outcome = why]
       /\ IF HasCallback(i)
            THEN Call(<<Step("writeCallback", i, IF why = "nobufs" THEN "nobufs" ELSE "error")>>)
            ELSE UNCHANGED stack
    /\ UNCHANGED <<handleVars, peerVars, flushing, tlsVars>>

\* ... and the rest of closeNow().
Closed ==
    /\ Top("cancelWrites") /\ queue = <<>>
    /\ output' = FALSE /\ committed' = 0
    /\ interest' = {}
    /\ poll' = IF poll = "open" THEN "closing" ELSE poll
    /\ Return
    /\ UNCHANGED <<active, closing, destroyRequested, frees, peerVars, writeVars, blockedOnRead,
                   shutdownPending, shutdownGenerated>>

\* fail(): reports, then closes.
Fail ==
    /\ Top("fail")
    /\ Continue(IF closing THEN <<>> ELSE <<At("_onNativeTransportError"), CloseNow("cancelled")>>)
    /\ UNCHANGED <<handleVars, peerVars, writeVars, tlsVars>>

\* dispose() and requestDestroy(): the object goes now, or with its poll handle.
RequestDestroy ==
    /\ Top("requestDestroy")
    /\ destroyRequested' = TRUE
    /\ IF ~active THEN frees' = frees + 1 /\ Return
       ELSE Continue((IF closing THEN <<>> ELSE <<CloseNow("cancelled")>>) \o <<At("destroy")>>)
            /\ UNCHANGED frees
    /\ UNCHANGED <<active, closing, poll, interest, peerVars, writeVars, tlsVars>>

\* Mutant: insideCloseCallback_ is not looked at.
DestroyNow_Ignored == poll = "closed"

DestroyNow == poll = "closed" /\ ~Running("release")

Destroy ==
    /\ Top("destroy")
    /\ frees' = IF DestroyNow THEN frees + 1 ELSE frees
    /\ Return
    /\ UNCHANGED <<active, closing, poll, interest, destroyRequested, peerVars, writeVars, tlsVars>>

\* Mutant: leaves the object to requestDestroy().
Release_Never == Top("release") /\ Return /\ UNCHANGED <<handleVars, peerVars, writeVars, tlsVars>>

\* The end of onPollClosed().
Release ==
    /\ Top("release")
    /\ frees' = IF destroyRequested THEN frees + 1 ELSE frees
    /\ Return
    /\ UNCHANGED <<active, closing, poll, interest, destroyRequested, peerVars, writeVars, tlsVars>>

-----------------------------------------------------------------------------
(* The event loop *)

\* onPoll().  A write that waits for input is retried after a read.
OnPoll ==
    /\ stack = <<>> /\ poll = "open" /\ interest # {}
    /\ \E events \in SUBSET interest \ {{}} :
        /\ Call((IF "READABLE" \in events
                 THEN <<At("readAvailable")>> \o (IF blockedOnRead THEN <<At("flushWrites")>> ELSE <<>>)
                 ELSE <<>>)
                \o (IF "WRITABLE" \in events
                    THEN <<At("shutdownIfPending")>>
                         \o (IF Tls THEN <<At("processMemoryBIO")>> ELSE <<>>)
                         \o <<At("flushWrites"), At("shutdownIfPending")>>
                    ELSE <<>>)
                \o <<At("updatePoll")>>)
        /\ blockedOnRead' = IF "READABLE" \in events THEN FALSE ELSE blockedOnRead
    /\ UNCHANGED <<handleVars, peerVars, writeVars, output, committed, shutdownPending,
                   shutdownGenerated>>

OnPollError ==
    /\ stack = <<>> /\ poll = "open" /\ Call(<<At("fail")>>)
    /\ UNCHANGED <<handleVars, peerVars, writeVars, tlsVars>>

OnPollClosed ==
    /\ stack = <<>> /\ poll = "closing"
    /\ poll' = "closed"
    /\ Call(<<At("_onNativeClosed"), At("release")>>)
    /\ UNCHANGED <<active, closing, interest, destroyRequested, frees, peerVars, writeVars, tlsVars>>

\* activate() takes the socket over; TLS input that Node had buffered comes first.
Activate ==
    /\ Top("activate")
    /\ IF active \/ closing THEN Continue(<<At("activated")>>) /\ UNCHANGED <<active, poll>>
       ELSE /\ active' = TRUE /\ poll' = "open"
            /\ Continue((IF Tls THEN <<At("processMemoryBIO")>> ELSE <<>>)
                        \o <<At("flushWrites"), At("updatePoll"), At("activated")>>)
    /\ UNCHANGED <<closing, interest, destroyRequested, frees, peerVars, writeVars, tlsVars>>

-----------------------------------------------------------------------------
NativeInit ==
    /\ stack = <<>>
    /\ active = FALSE /\ closing = FALSE /\ poll = "none" /\ interest = {}
    /\ destroyRequested = FALSE /\ frees = 0
    /\ parserClosing = FALSE /\ closeSent = FALSE /\ graceful = FALSE /\ reads = 0
    /\ requests = <<>> /\ queue = <<>> /\ pendingBytes = 0 /\ flushing = FALSE
    /\ output = FALSE /\ committed = 0 /\ blockedOnRead = FALSE
    /\ shutdownPending = FALSE /\ shutdownGenerated = FALSE

\* The steps of a call in progress.
NativeStep ==
    \/ UpdatePoll \/ Submit \/ FlushWrites \/ Writing
    \/ Feed \/ Receive \/ ProcessMemoryBIO \/ ReadTLS \/ FlushOutput \/ Dispatch
    \/ PerformTLSShutdown \/ BeginClose \/ CancelWrite \/ Closed \/ Fail
    \/ RequestDestroy \/ Destroy \/ Release \/ Activate
=============================================================================
