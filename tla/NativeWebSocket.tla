---------------------------- MODULE NativeWebSocket ----------------------------
(***************************************************************************)
(* A WebSocket of the JavaScript layer over its native transport: class    *)
(* WebSocket of eiows.js, from the upgrade that hands it the socket to its *)
(* 'close' event.  The application is arbitrary code: whenever it runs, in *)
(* an event of its own or within a callback, it may send, close and        *)
(* terminate.                                                              *)
(***************************************************************************)
EXTENDS NativeTransport

CONSTANTS
    Sizes,           \* bound: bytes of a sent frame
    MaxSends         \* bound: calls to send()

ASSUME WebSocketAssumption ==
    /\ Sizes \subseteq Nat \ {0} /\ MaxSends \in Nat

VARIABLES
    readyState,      \* with external, which is null from CLOSED on
    upgradePending,  \* _upgradePending
    nodeSocket,      \* Node's socket: "open", "scheduled" once closed with an
                     \* activation to follow, or "released"
    nativeActive,    \* _nativeActive
    given,           \* the upgrade callback has run
    closeTimer,      \* "off", "armed" or "fired"
    closeCode,       \* _closeCode
    socketError,     \* _socketError was set, and so an 'error' emitted
    answers          \* what send() callbacks were called with, in order

jsVars == <<readyState, upgradePending, nodeSocket, nativeActive, given, closeTimer, closeCode,
            socketError, answers>>
vars == <<nativeVars, jsVars>>

\* Application code that runs in an event or callback, until it returns.
User == IF given THEN <<At("user")>> ELSE <<>>

\* emit('error').  Before the upgrade callback nobody can listen: emit() throws, and the
\* process ends.
EmitError == IF given THEN <<At("user")>> ELSE <<At("uncaught")>>
Ended == Top("uncaught")

Answer(i, result) == answers' = Append(answers, [request |-> i, result |-> result])

Closing == readyState' = IF readyState = "CLOSED" THEN "CLOSED" ELSE "CLOSING"
\* Mutant: no deadline.
StartCloseTimeout_Never == UNCHANGED closeTimer

StartCloseTimeout == closeTimer' = IF closeTimer = "off" THEN "armed" ELSE closeTimer

-----------------------------------------------------------------------------
(* The upgrade *)

\* 'close' of Node's socket: because it was aborted, failed, or was destroyed to hand
\* its descriptor over.  With TLS the activation takes place one turn later.
NodeSocketClosed ==
    /\ stack = <<>> /\ nodeSocket = "open"
    /\ IF upgradePending /\ readyState = "CONNECTING"
         THEN IF Tls THEN nodeSocket' = "scheduled" /\ UNCHANGED stack
              ELSE nodeSocket' = "released" /\ Call(<<At("activate")>>)
         ELSE nodeSocket' = "released" /\ Call(<<At("_finalizeClose")>>)
    /\ UNCHANGED <<handleVars, peerVars, writeVars, tlsVars, readyState, upgradePending, nativeActive,
                   given, closeTimer, closeCode, socketError, answers>>

\* The checks that the delayed activation repeats.
StillPending == upgradePending /\ readyState = "CONNECTING"

RunScheduled ==
    /\ stack = <<>> /\ nodeSocket = "scheduled"
    /\ nodeSocket' = "released"
    /\ Call(<<At(IF StillPending THEN "activate" ELSE "_finalizeClose")>>)
    /\ UNCHANGED <<handleVars, peerVars, writeVars, tlsVars, readyState, upgradePending, nativeActive,
                   given, closeTimer, closeCode, socketError, answers>>

\* activateTransport() returned: the 101 response is the first thing to write, unless
\* Node's socket had an error before.
Activated ==
    /\ Top("activated")
    /\ nativeActive' = ~closing
    /\ \/ Continue(<<At("_fail")>>) /\ UNCHANGED requests
       \/ /\ ~closing
          /\ requests' = NewRequest("response", 1)
          /\ Continue(<<Step("submit", NextRequest, "none"), At("opened")>>)
    /\ UNCHANGED <<handleVars, peerVars, queue, pendingBytes, flushing, tlsVars, readyState,
                   upgradePending, nodeSocket, given, closeTimer, closeCode, socketError, answers>>

\* The response was written or queued: the application gets the WebSocket, then what
\* followed the request.
Opened ==
    /\ Top("opened")
    /\ IF ~upgradePending
         THEN Return /\ UNCHANGED <<readyState, upgradePending, given>>
         ELSE /\ upgradePending' = FALSE /\ readyState' = "OPEN" /\ given' = TRUE
              /\ \/ Continue(<<At("user")>>)
                 \/ reads < MaxReads /\ Continue(<<At("user"), At("feed")>>)
    /\ UNCHANGED <<handleVars, peerVars, writeVars, tlsVars, nodeSocket, nativeActive, closeTimer,
                   closeCode, socketError, answers>>

\* Server.close() during the upgrade: close(1001), hence _abortPendingUpgrade().  The
\* WebSocket waits for Node's socket; when that is gone already it is finalized now.
AbortUpgrade ==
    /\ stack = <<>> /\ upgradePending /\ readyState = "CONNECTING"
    /\ readyState' = "CLOSING"
    /\ IF nodeSocket = "open"
         THEN Call(<<CloseNow("cancelled")>>) /\ UNCHANGED upgradePending
         ELSE Call(<<CloseNow("cancelled"), At("_finalizeClose")>>) /\ upgradePending' = FALSE
    /\ UNCHANGED <<handleVars, peerVars, writeVars, tlsVars, nodeSocket, nativeActive, given,
                   closeTimer, closeCode, socketError, answers>>

-----------------------------------------------------------------------------
(* Calls from the native side *)

FromNative ==
    /\ stack # <<>>
    /\ \/ /\ Top("_onNativeMessage")
          /\ Continue(IF readyState = "OPEN" THEN User ELSE <<>>)
          /\ UNCHANGED <<readyState, closeTimer, closeCode, socketError, answers>>
       \/ /\ Top("_onNativeClose") /\ Return
          /\ IF readyState = "CLOSED" THEN UNCHANGED <<readyState, closeTimer, closeCode>>
             ELSE closeCode' = Head(stack).on /\ Closing /\ StartCloseTimeout
          /\ UNCHANGED <<socketError, answers>>
       \/ /\ Top("_onNativeBackpressure") /\ Return
          /\ Closing /\ UNCHANGED <<closeTimer, closeCode, socketError, answers>>
       \/ /\ Top("_onNativeTransportError")
          /\ Continue(IF socketError \/ readyState = "CLOSED" THEN <<>> ELSE EmitError)
          /\ socketError' = (socketError \/ readyState # "CLOSED")
          /\ Closing /\ UNCHANGED <<closeTimer, closeCode, answers>>
       \/ /\ Top("_onNativeClosed") /\ Continue(<<At("_finalizeClose")>>)
          /\ UNCHANGED <<readyState, closeTimer, closeCode, socketError, answers>>
       \/ /\ Top("writeCallback") /\ Answer(Head(stack).on, Head(stack).why)
          /\ Continue(User)
          /\ UNCHANGED <<readyState, closeTimer, closeCode, socketError>>
    /\ UNCHANGED <<handleVars, peerVars, writeVars, tlsVars, upgradePending, nodeSocket, nativeActive,
                   given>>

\* _finishNativeWrite(): a synchronous result is told by JavaScript, a later one by the
\* transport.  close() does not come here: its transport closes anyway.
FinishNativeWrite ==
    /\ Top("_finishNativeWrite")
    /\ LET i == Head(stack).on status == Head(stack).why IN
       /\ IF requests[i].kind = "app" /\ status # "async"
            THEN Answer(i, IF status = "sync" THEN "ok" ELSE "error") ELSE UNCHANGED answers
       /\ Continue(IF status = "error" /\ requests[i].kind # "close" THEN <<At("_fail")>> ELSE <<>>)
    /\ UNCHANGED <<handleVars, peerVars, writeVars, tlsVars, readyState, upgradePending, nodeSocket,
                   nativeActive, given, closeTimer, closeCode, socketError>>

\* _fail()
FailWebSocket ==
    /\ Top("_fail")
    /\ Continue(IF readyState = "CLOSED" THEN <<>>
                ELSE (IF socketError THEN <<>> ELSE EmitError) \o <<At("terminate")>>)
    /\ Closing /\ socketError' = (socketError \/ readyState # "CLOSED")
    /\ UNCHANGED <<handleVars, peerVars, writeVars, tlsVars, upgradePending, nodeSocket, nativeActive,
                   given, closeTimer, closeCode, answers>>

\* The end of _fail() and terminate(): once active the transport finalizes when it is
\* closed.
Terminate ==
    /\ Top("terminate")
    /\ upgradePending' = FALSE
    /\ Continue(IF readyState = "CLOSED" THEN <<>>
                ELSE <<CloseNow("cancelled")>>
                     \o (IF nativeActive THEN <<>> ELSE <<At("_finalizeClose")>>))
    /\ UNCHANGED <<handleVars, peerVars, writeVars, tlsVars, readyState, nodeSocket, nativeActive,
                   given, closeTimer, closeCode, socketError, answers>>

FinalizeClose ==
    /\ Top("_finalizeClose")
    /\ IF readyState = "CLOSED"
         THEN Return /\ UNCHANGED <<upgradePending, readyState, closeTimer, nativeActive>>
         ELSE /\ upgradePending' = FALSE /\ readyState' = "CLOSED" /\ nativeActive' = FALSE
              /\ closeTimer' = IF closeTimer = "armed" THEN "off" ELSE closeTimer
              /\ Continue(<<At("requestDestroy")>> \o User)
    /\ UNCHANGED <<handleVars, peerVars, writeVars, tlsVars, nodeSocket, given, closeCode, socketError,
                   answers>>

CloseTimeout ==
    /\ stack = <<>> /\ closeTimer = "armed"
    /\ closeTimer' = "fired" /\ Call(<<CloseNow("cancelled")>>)
    /\ UNCHANGED <<handleVars, peerVars, writeVars, tlsVars, readyState, upgradePending, nodeSocket,
                   nativeActive, given, closeCode, socketError, answers>>

-----------------------------------------------------------------------------
(* The application *)

MayAct == given /\ (stack = <<>> \/ Top("user"))

Sends == Cardinality({i \in DOMAIN requests : requests[i].kind = "app"})

Send ==
    /\ MayAct /\ readyState = "OPEN" /\ Sends < MaxSends
    /\ \E size \in Sizes :
        IF writable
          THEN requests' = NewRequest("app", size) /\ Call(<<Step("submit", NextRequest, "none")>>)
          ELSE /\ requests' = Append(requests, [kind |-> "app", left |-> size, deferred |-> FALSE,
                                               outcome |-> "refused"])
               /\ Call(<<Step("_finishNativeWrite", NextRequest, "error")>>)
    /\ UNCHANGED <<handleVars, peerVars, queue, pendingBytes, flushing, tlsVars, jsVars>>

\* Mutant: a Close is written although one was before.
MayWriteClose_Always == writable

\* writeClose(): not when a Close is out already.
MayWriteClose == writable /\ ~closeSent /\ ~parserClosing

Close ==
    /\ MayAct /\ readyState = "OPEN"
    /\ readyState' = "CLOSING" /\ StartCloseTimeout
    /\ IF MayWriteClose
         THEN /\ closeSent' = TRUE
              /\ requests' = NewRequest("close", 1)
              /\ Call(<<Step("submit", NextRequest, "none")>>)
         ELSE /\ UNCHANGED <<closeSent, requests>>
              /\ IF writable THEN UNCHANGED stack ELSE Call(<<CloseNow("cancelled")>>)
    /\ UNCHANGED <<handleVars, parserClosing, graceful, reads, queue, pendingBytes, flushing, tlsVars,
                   upgradePending, nodeSocket, nativeActive, given, closeCode, socketError, answers>>

\* terminate(); once the transport closes a further call changes nothing.
UserTerminate ==
    /\ MayAct
    /\ readyState = "OPEN" \/ (readyState = "CLOSING" /\ ~closing)
    /\ readyState' = "CLOSING" /\ Call(<<At("terminate")>>)
    /\ UNCHANGED <<handleVars, peerVars, writeVars, tlsVars, upgradePending, nodeSocket, nativeActive,
                   given, closeTimer, closeCode, socketError, answers>>

UserReturns ==
    /\ Top("user") /\ Return
    /\ UNCHANGED <<handleVars, peerVars, writeVars, tlsVars, jsVars>>

-----------------------------------------------------------------------------
Init ==
    /\ NativeInit
    /\ readyState = "CONNECTING" /\ upgradePending = TRUE /\ nodeSocket = "open"
    /\ nativeActive = FALSE /\ given = FALSE /\ closeTimer = "off" /\ closeCode = 1006
    /\ socketError = FALSE /\ answers = <<>>

\* What the thread does on its own account: a call in progress goes on.
Proceed ==
    \/ (NativeStep /\ UNCHANGED jsVars)
    \/ Activated \/ Opened \/ FromNative \/ FinishNativeWrite \/ FailWebSocket \/ Terminate
    \/ FinalizeClose \/ UserReturns

\* The events of the loop that come about without the peer.
Loop == (OnPollClosed /\ UNCHANGED jsVars) \/ NodeSocketClosed \/ RunScheduled \/ CloseTimeout

Next ==
    \/ Proceed \/ Loop
    \/ (OnPoll \/ OnPollError) /\ UNCHANGED jsVars
    \/ AbortUpgrade
    \/ Send \/ Close \/ UserTerminate

Spec == Init /\ [][Next]_vars
\* A call that runs gets to its end, and the loop gets round to every event that waits.  A
\* due timer runs however often the socket is ready, since each turn of the loop looks at
\* the timers first.
FairSpec == Spec /\ WF_vars(Proceed) /\ WF_vars(OnPollClosed /\ UNCHANGED jsVars)
                 /\ WF_vars(NodeSocketClosed) /\ WF_vars(RunScheduled) /\ SF_vars(CloseTimeout)

-----------------------------------------------------------------------------
(* Properties *)

TypeOK ==
    /\ \A k \in DOMAIN stack : stack[k].on \in 0..Len(requests) \cup {1000, 1006}
    /\ active \in BOOLEAN /\ closing \in BOOLEAN
    /\ poll \in {"none", "open", "closing", "closed"}
    /\ interest \subseteq {"READABLE", "WRITABLE"}
    /\ destroyRequested \in BOOLEAN /\ frees \in Nat
    /\ parserClosing \in BOOLEAN /\ closeSent \in BOOLEAN /\ graceful \in BOOLEAN
    /\ reads \in 0..MaxReads
    /\ \A i \in DOMAIN requests :
          /\ requests[i].kind \in Kinds /\ requests[i].left \in Nat /\ requests[i].deferred \in BOOLEAN
          /\ requests[i].outcome \in {"pending", "sent", "cancelled", "nobufs", "handshake", "refused"}
    /\ ToSet(queue) \subseteq DOMAIN requests /\ pendingBytes \in Nat /\ flushing \in BOOLEAN
    /\ output \in BOOLEAN /\ committed \in Nat /\ blockedOnRead \in BOOLEAN
    /\ shutdownPending \in BOOLEAN /\ shutdownGenerated \in BOOLEAN
    /\ readyState \in {"CONNECTING", "OPEN", "CLOSING", "CLOSED"}
    /\ nodeSocket \in {"open", "scheduled", "released"}
    /\ upgradePending \in BOOLEAN /\ nativeActive \in BOOLEAN /\ given \in BOOLEAN
    /\ closeTimer \in {"off", "armed", "fired"} /\ closeCode \in {1000, 1006}
    /\ socketError \in BOOLEAN
    /\ \A k \in DOMAIN answers : answers[k].result \in {"ok", "error", "nobufs"}

Idle == stack = <<>>
AnswersTo(i) == {k \in DOMAIN answers : answers[k].request = i}

\* A TLS client may have sent its Close before it got the 101 response; Opened then makes a
\* closing WebSocket OPEN, and what it sends may go out and still be told to have failed.
ClosedBeforeResponse ==
    \E i, j \in DOMAIN requests : i < j /\ requests[i].kind = "reply" /\ requests[j].kind = "response"

\* Three places tell an application what became of a send(): the result of the call, the
\* flush that completes it later, and the close that cancels it.  However callbacks
\* re-enter, exactly one of them does, with the truth.
AnsweredOnce ==
    \A i \in DOMAIN requests : requests[i].kind = "app" =>
        /\ Cardinality(AnswersTo(i)) <= 1
        /\ \A k \in AnswersTo(i) :
              \/ answers[k].result = "ok" <=> requests[i].outcome = "sent"
              \/ answers[k].result = "error" /\ ClosedBeforeResponse
        /\ Idle => (AnswersTo(i) = {} <=> Contains(queue, i) /\ requests[i].deferred)

\* pendingBytes_ is kept by increments that clamp instead of failing.  It is the size of
\* what is queued, and what OpenSSL has taken is a part of the first request.
PendingBytes ==
    /\ pendingBytes = MapThenSumSet(LAMBDA i : requests[i].left, ToSet(queue))
    /\ committed > 0 /\ ~closing => queue # <<>> /\ committed <= requests[Head(queue)].left

\* After its flush submit() looks for its request by address, although the flush may have
\* freed it and another may have been allocated in its place.  Nothing else is queued then.
LooksForItsOwn == Top("submitted") /\ ~closing => ToSet(queue) \subseteq {Head(stack).on}

\* Between events no transport holds more than the limit.
BackpressureBounded == Idle /\ MaxBackpressure # 0 => pendingBytes <= MaxBackpressure

\* README, "backpressure": the pending send() callbacks get EIOWS_MAX_BACKPRESSURE and
\* the close event 1006.  None of them gets another error, and nothing else fails.
BackpressureIsTold ==
    /\ \E i \in DOMAIN requests : requests[i].kind = "app" /\ requests[i].outcome = "nobufs"
    /\ ~ClosedBeforeResponse
    =>
        /\ closeCode = 1006
        /\ \A k \in DOMAIN answers : answers[k].result # "error"
        /\ Idle => \A i \in DOMAIN requests : requests[i].outcome \in {"sent", "nobufs"}

\* The transport never waits for nothing: what is queued is sent when the socket can take
\* it, or, with TLS, when the input came that OpenSSL asked for.  The close_notify of a
\* finished handshake is left out: when a Close came with the upgrade request, feed() makes
\* it without updatePoll(), and the close timer ends the connection.
WritesProgress ==
    Idle /\ poll = "open" /\ (queue # <<>> \/ (output /\ ~graceful)) =>
        /\ "READABLE" \in interest
        /\ "WRITABLE" \in interest \/ blockedOnRead

\* The object is deleted once, when no poll handle and no queued request is left and none
\* of its own methods is still running.
NativeMethods == {"updatePoll", "submit", "submitted", "flushWrites", "writing", "feed",
    "readAvailable", "processMemoryBIO", "SSL_read", "flushOutput", "message", "pong", "reply",
    "peerClose", "peerClosed", "performTLSShutdown", "shutdownIfPending", "closeNow", "cancelWrites",
    "fail", "requestDestroy", "destroy", "activate"}
FreedOnce ==
    /\ frees <= 1
    /\ frees = 1 => /\ poll \in {"none", "closed"} /\ queue = <<>>
                    /\ \A k \in DOMAIN stack : stack[k].at \notin NativeMethods
                    /\ readyState = "CLOSED"

\* Frames go out in the order they were made in, so that a peer that has our Close has every
\* message before it, whatever ends the connection then.  The closing handshake ends it only
\* when that Close was sent, the answer to the peer's or our own, and every other frame too.
HandshakeLosesNothing ==
    /\ \A i, j \in DOMAIN requests :
           i < j /\ requests[j].outcome = "sent" => requests[i].outcome = "sent"
    /\ Top("closeNow") /\ Head(stack).why = "handshake" /\ ~closing =>
           /\ \A i \in DOMAIN requests : requests[i].outcome = "sent"
           /\ \E i \in DOMAIN requests : requests[i].kind \in {"close", "reply"}

\* Our Close, or the answer to the peer's, is queued once and is the last thing but a pong:
\* no message follows it, unless the peer closed before the upgrade was answered.
NoDataAfterClose ==
    \A i, j \in DOMAIN requests : i < j /\ requests[i].kind \in {"close", "reply"} =>
        /\ requests[j].kind \notin {"close", "reply"}
        /\ ~ClosedBeforeResponse => requests[j].kind # "app"

\* Once closing, a WebSocket gets its close event: the peer may be silent, but the timer
\* or the transport ends it.  And the native object is freed, once its socket is closed.
ClosingEnds == readyState = "CLOSING" ~> readyState = "CLOSED" \/ Ended
ClosedIsFreed == closing ~> frees = 1 \/ Ended
=============================================================================
