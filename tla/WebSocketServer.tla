---------------------------- MODULE WebSocketServer ----------------------------
(***************************************************************************)
(* The JavaScript Server and its WebSockets over Node streams, the path    *)
(* that is taken when the native side cannot take a socket over: classes   *)
(* Server and WebSocket of eiows.js.                                       *)
(*                                                                         *)
(* JavaScript runs on one thread; `stack` is what it has still to do,      *)
(* innermost first, as in module NativeTransport.  Node's sockets are      *)
(* external: they take frames into a queue, send them in order, and emit   *)
(* 'end', 'error' and 'close' in turns of the event loop of their own.     *)
(***************************************************************************)
EXTENDS Integers, Sequences, SequencesExt, FiniteSets

CONSTANTS
    Sockets,         \* sockets that ask for an upgrade
    NoSocket,
    MaxBackpressure, \* maxBackpressure in frames; 0 means no limit
    Bodies,          \* bound: what one read holds before a Close may follow
    MaxReads,        \* bound: reads of one socket
    MaxSends         \* bound: calls to send() of one WebSocket

ASSUME ServerAssumption ==
    /\ NoSocket \notin Sockets
    /\ MaxBackpressure \in Nat /\ MaxReads \in Nat /\ MaxSends \in Nat
    /\ <<>> \in Bodies /\ Bodies \subseteq Seq({"message", "pong"})

VARIABLES
    stack,
    serverClosing, serverClosed,   \* _closing and _closed of the server
    finishScheduled, \* process.nextTick(_finishClose)
    closeEvents,     \* how often the server emitted 'close'
    clients,         \* _clients
    readyState,      \* of each WebSocket; "none" and "refused" when there is none
    external,        \* whether its native session is there
    parserClosing,   \* the session saw the peer's Close or failed
    closeSent,       \* the session made our Close
    closeTimer,      \* "off", "armed" or "fired"
    answers,         \* what send() callbacks were called with
    queue,           \* frames in the socket
    wire,            \* frames it sent
    ended,           \* end() was called
    destroyed,       \* destroy() was called, or the socket failed
    gone,            \* it emitted 'close'
    peerEnded,       \* it emitted 'end'
    reads, sends

serverVars == <<serverClosing, serverClosed, finishScheduled, closeEvents, clients>>
sessionVars == <<external, parserClosing, closeSent>>
streamVars == <<answers, queue, destroyed>>
peerVars == <<wire, gone, peerEnded, reads>>
vars == <<stack, serverVars, readyState, sessionVars, closeTimer, streamVars, ended, peerVars, sends>>

-----------------------------------------------------------------------------
(* The call stack *)

\* A step, and the socket it is about.
Step(name, w) == [at |-> name, on |-> w]
User == Step("user", NoSocket)   \* application code in a callback or listener

\* The event loop goes on when no call is left, nor what process.nextTick() was given.
Idle == stack = <<>> /\ ~finishScheduled
Top(name) == stack # <<>> /\ Head(stack).at = name
Continue(steps) == stack' = steps \o Tail(stack)
Call(steps) == stack' = steps \o stack
Return == Continue(<<>>)

-----------------------------------------------------------------------------
(* Frames into the socket *)

Frame(kind, send) == [kind |-> kind, send |-> send]
Nothing == [w \in Sockets |-> <<>>]
Of(w, s) == [Nothing EXCEPT ![w] = s]
Told(send, result) == [send |-> send, result |-> result]

\* Node fails the sends that a destroyed socket had not sent.
Failing(told, frame) ==
    IF frame.kind = "app" THEN Append(told, Told(frame.send, "error")) ELSE told
Failed(frames) == FoldLeft(Failing, <<>>, frames)

\* The sockets in `lost` are destroyed, the others get `more` frames; `told` is what is
\* told to callbacks besides.
Stream(lost, more, told) ==
    /\ destroyed' = [w \in Sockets |-> destroyed[w] \/ w \in lost]
    /\ queue' = [w \in Sockets |-> IF destroyed'[w] THEN <<>> ELSE queue[w] \o more[w]]
    /\ answers' = [w \in Sockets |->
                      answers[w] \o told[w] \o (IF destroyed'[w] THEN Failed(queue[w]) ELSE <<>>)]

writable(w) == ~ended[w] /\ ~destroyed[w]

\* Mutant: counts without the frame at hand.
Accepts_Queued(w) == MaxBackpressure = 0 \/ Len(queue[w]) <= MaxBackpressure

\* _acceptFallbackWrite()
Accepts(w) == MaxBackpressure = 0 \/ Len(queue[w]) + 1 <= MaxBackpressure

\* terminate(): a socket that was destroyed before is not waited for.
TerminateSteps(w) == IF destroyed[w] THEN <<Step("_finalizeClose", w)>> ELSE <<>>

\* _writeFrame() of a frame without callback, then `rest`.  One that is too much
\* terminates the WebSocket; one that cannot be written is dropped.
WriteFrame(w, kind, rest) ==
    \/ /\ writable(w) /\ Accepts(w)
       /\ Stream({}, Of(w, <<Frame(kind, 0)>>), Nothing)
       /\ Continue(rest) /\ UNCHANGED readyState
    \/ /\ writable(w) /\ ~Accepts(w)
       /\ Stream({w}, Nothing, Nothing)
       /\ readyState' = [readyState EXCEPT ![w] = "CLOSING"]
       /\ Continue(rest)
    \/ /\ ~writable(w)
       /\ UNCHANGED <<streamVars, readyState>> /\ Continue(rest)

\* Mutant: no deadline.
TimersAfter_Never(S) == closeTimer

\* _startCloseTimeout()
TimersAfter(S) == [w \in Sockets |-> IF w \in S /\ closeTimer[w] = "off" THEN "armed" ELSE closeTimer[w]]

-----------------------------------------------------------------------------
(* Server.handleUpgrade() *)

\* A request that is not valid, or comes when the server closes, is refused.  For others a
\* session is made, and 'headers' emitted.
HandleUpgrade(w) ==
    /\ Idle /\ readyState[w] = "none"
    /\ \/ /\ readyState' = [readyState EXCEPT ![w] = "refused"]
          /\ UNCHANGED <<external, stack>>
       \/ /\ ~serverClosing
          /\ external' = [external EXCEPT ![w] = TRUE]
          /\ Call(<<User, Step("headers", w)>>)
          /\ UNCHANGED readyState
    /\ UNCHANGED <<serverVars, parserClosing, closeSent, closeTimer, streamVars, ended, peerVars, sends>>

\* Mutant: does not look again whether the server closes.
MayAccept_Ignored == TRUE

MayAccept == ~serverClosing

\* Mutant: forgets the session.
Refuse_KeepsSession(w) ==
    /\ readyState' = [readyState EXCEPT ![w] = "refused"] /\ UNCHANGED external

\* The session is disposed of and an HTTP error answered.
Refuse(w) ==
    /\ readyState' = [readyState EXCEPT ![w] = "refused"]
    /\ external' = [external EXCEPT ![w] = FALSE]

\* After the 'headers' listeners: one may have thrown or made a header invalid, one may
\* have closed the server.  Otherwise the response is written and the callback called.
HeadersEmitted ==
    /\ Top("headers")
    /\ LET w == Head(stack).on IN
       \/ /\ Refuse(w) /\ Continue(<<User>>) /\ UNCHANGED <<clients, streamVars>>
       \/ /\ ~MayAccept
          /\ Refuse(w) /\ Return /\ UNCHANGED <<clients, streamVars>>
       \/ /\ MayAccept
          /\ clients' = clients \cup {w}
          /\ readyState' = [readyState EXCEPT ![w] = "OPEN"]
          /\ Stream({}, Of(w, <<Frame("response", 0)>>), Nothing)
          /\ Continue(<<User, Step("upgraded", w)>>)
          /\ UNCHANGED external
    /\ UNCHANGED <<serverClosing, serverClosed, finishScheduled, closeEvents, parserClosing, closeSent,
                   closeTimer, ended, peerVars, sends>>

\* After the upgrade callback: it may have thrown, hence terminate(); else what followed
\* the request is consumed.
Upgraded ==
    /\ Top("upgraded")
    /\ LET w == Head(stack).on IN
       \/ /\ readyState[w] # "CLOSED"
          /\ readyState' = [readyState EXCEPT ![w] = "CLOSING"]
          /\ Continue(TerminateSteps(w)) /\ Stream({w}, Nothing, Nothing)
       \/ /\ Return \/ (reads[w] < MaxReads /\ Continue(<<Step("data", w)>>))
          /\ UNCHANGED <<readyState, streamVars>>
    /\ UNCHANGED <<serverVars, sessionVars, closeTimer, ended, peerVars, sends>>

-----------------------------------------------------------------------------
(* WebSocket._consume() *)

\* What the session makes of a read: messages and pings, at last the peer's Close or a
\* failure.  Messages are dropped once our Close was made, and a Close is answered unless
\* it was.  All of it is parsed before the first event is handled.
Events(w, body, closes) ==
    [k \in DOMAIN body |-> Step(body[k], w)]
    \o (IF closes /\ ~closeSent[w] THEN <<Step("reply", w)>> ELSE <<>>)
    \o (IF closes THEN <<Step("peerClose", w)>> ELSE <<>>)

Consume(w, rest) ==
    \/ /\ ~external[w] /\ stack' = rest
       /\ UNCHANGED <<reads, parserClosing, closeSent>>
    \/ /\ external[w] /\ reads[w] < MaxReads
       /\ reads' = [reads EXCEPT ![w] = @ + 1]
       /\ \E body \in Bodies, closes \in BOOLEAN :
            /\ closeSent[w] => ~Contains(body, "message")
            /\ parserClosing[w] => body = <<>> /\ ~closes
            /\ stack' = Events(w, body, closes) \o rest
            /\ parserClosing' = [parserClosing EXCEPT ![w] = @ \/ closes]
            /\ closeSent' = [closeSent EXCEPT ![w] = @ \/ closes]

\* The rest of the HTTP request's last packet, or a 'data' event.
Data ==
    /\ \/ Top("data") /\ Consume(Head(stack).on, Tail(stack))
       \/ \E w \in clients : Idle /\ ~destroyed[w] /\ ~peerEnded[w] /\ Consume(w, <<>>)
    /\ UNCHANGED <<serverVars, readyState, external, closeTimer, streamVars, ended, wire, gone, peerEnded,
                   sends>>

\* One event; the loop over them ends with the WebSocket.
HandleEvent ==
    /\ stack # <<>> /\ Head(stack).at \in {"message", "pong", "reply", "peerClose"}
    /\ LET w == Head(stack).on event == Head(stack).at IN
       \/ /\ readyState[w] = "CLOSED" \/ (event = "message" /\ readyState[w] # "OPEN")
          /\ Return /\ UNCHANGED <<readyState, closeTimer, streamVars, ended>>
       \/ /\ event = "message" /\ readyState[w] = "OPEN"
          /\ Continue(<<User>>) /\ UNCHANGED <<readyState, closeTimer, streamVars, ended>>
       \/ /\ event \in {"pong", "reply"} /\ readyState[w] # "CLOSED"
          /\ WriteFrame(w, event, <<>>)
          /\ UNCHANGED <<closeTimer, ended>>
       \/ /\ event = "peerClose" /\ readyState[w] # "CLOSED"
          /\ readyState' = [readyState EXCEPT ![w] = "CLOSING"]
          /\ closeTimer' = TimersAfter({w})
          /\ ended' = [ended EXCEPT ![w] = TRUE]
          /\ Return /\ UNCHANGED streamVars
    /\ UNCHANGED <<serverVars, sessionVars, peerVars, sends>>

-----------------------------------------------------------------------------
(* Events of the socket and the timer *)

\* 'end'
SocketEnds(w) ==
    /\ Idle /\ w \in clients /\ ~destroyed[w] /\ ~peerEnded[w]
    /\ peerEnded' = [peerEnded EXCEPT ![w] = TRUE]
    /\ readyState' = [readyState EXCEPT ![w] = IF @ = "OPEN" THEN "CLOSING" ELSE @]
    /\ ended' = [ended EXCEPT ![w] = TRUE]
    /\ UNCHANGED <<stack, serverVars, sessionVars, closeTimer, streamVars, wire, gone, reads, sends>>

\* 'error': the socket is destroyed, and the WebSocket stays OPEN until 'close'.
SocketFails(w) ==
    /\ Idle /\ w \in clients /\ ~destroyed[w]
    /\ Stream({w}, Nothing, Nothing)
    /\ Call(<<User>>)
    /\ UNCHANGED <<serverVars, readyState, sessionVars, closeTimer, ended, peerVars, sends>>

\* 'close', which the WebSocket listens to since it is there.
SocketCloses(w) ==
    /\ Idle /\ destroyed[w] /\ ~gone[w] /\ readyState[w] \in {"OPEN", "CLOSING", "CLOSED"}
    /\ gone' = [gone EXCEPT ![w] = TRUE]
    /\ Call(<<Step("_finalizeClose", w)>>)
    /\ UNCHANGED <<serverVars, readyState, sessionVars, closeTimer, streamVars, ended, wire, peerEnded, reads,
                   sends>>

\* The peer takes a frame, and Node answers its send.
Flush(w) ==
    /\ Idle /\ queue[w] # <<>> /\ ~destroyed[w]
    /\ LET frame == Head(queue[w]) IN
       /\ queue' = [queue EXCEPT ![w] = Tail(@)]
       /\ wire' = [wire EXCEPT ![w] = Append(@, frame)]
       /\ answers' = [answers EXCEPT ![w] = IF frame.kind = "app" THEN Append(@, Told(frame.send, "ok")) ELSE @]
    /\ UNCHANGED <<stack, serverVars, readyState, sessionVars, closeTimer, destroyed, ended, gone, peerEnded,
                   reads, sends>>

\* A socket that ended on both sides destroys itself.
AutoDestroy(w) ==
    /\ Idle /\ ended[w] /\ peerEnded[w] /\ queue[w] = <<>> /\ ~destroyed[w]
    /\ Stream({w}, Nothing, Nothing)
    /\ UNCHANGED <<stack, serverVars, readyState, sessionVars, closeTimer, ended, peerVars, sends>>

CloseTimeout(w) ==
    /\ Idle /\ closeTimer[w] = "armed"
    /\ closeTimer' = [closeTimer EXCEPT ![w] = "fired"]
    /\ Stream({w}, Nothing, Nothing)
    /\ UNCHANGED <<stack, serverVars, readyState, sessionVars, ended, peerVars, sends>>

-----------------------------------------------------------------------------
(* The end of a WebSocket, and of the server *)

\* _finishClose()
FinishClose ==
    /\ serverClosed' = TRUE
    /\ closeEvents' = IF serverClosed THEN closeEvents ELSE closeEvents + 1

\* Server._remove() finds the server closing and no other client.
LastClient(w) == serverClosing /\ clients \ {w} = {}

ClearTimer(w) == closeTimer' = [closeTimer EXCEPT ![w] = "off"]

\* _finalizeClose(): 'close' is emitted by the WebSocket, and perhaps by the server.
FinalizeClose ==
    /\ Top("_finalizeClose")
    /\ LET w == Head(stack).on IN
       \/ /\ readyState[w] = "CLOSED"
          /\ Return /\ UNCHANGED <<readyState, closeTimer, external, clients, serverClosed, closeEvents>>
       \/ /\ readyState[w] # "CLOSED"
          /\ readyState' = [readyState EXCEPT ![w] = "CLOSED"]
          /\ ClearTimer(w)
          /\ external' = [external EXCEPT ![w] = FALSE]
          /\ clients' = clients \ {w}
          /\ IF LastClient(w) THEN FinishClose ELSE UNCHANGED <<serverClosed, closeEvents>>
          /\ Continue(<<User>>)
    /\ UNCHANGED <<serverClosing, finishScheduled, parserClosing, closeSent, streamVars, ended, peerVars,
                   sends>>

FinishScheduled ==
    /\ stack = <<>> /\ finishScheduled
    /\ finishScheduled' = FALSE
    /\ FinishClose /\ Call(<<User>>)
    /\ UNCHANGED <<serverClosing, clients, readyState, sessionVars, closeTimer, streamVars, ended, peerVars,
                   sends>>

\* _fail() after its 'error' event.
FailWebSocket ==
    /\ Top("_fail")
    /\ LET w == Head(stack).on IN
       Continue(TerminateSteps(w)) /\ Stream({w}, Nothing, Nothing)
    /\ UNCHANGED <<serverVars, readyState, sessionVars, closeTimer, ended, peerVars, sends>>

-----------------------------------------------------------------------------
(* The application *)

MayAct == stack = <<>> \/ Top("user")

\* An uncompressed frame is written whether or not the socket is writable.
SendWrites(w, n) ==
    /\ Accepts(w)
    /\ Stream({}, Of(w, <<Frame("app", n)>>), Of(w, IF destroyed[w] THEN <<Told(n, "error")>> ELSE <<>>))
    /\ UNCHANGED <<stack, readyState>>

\* Mutant: the send that is too much is not answered.
TooMuch_Silent(w, n) == Nothing

TooMuch(w, n) == Of(w, <<Told(n, "nobufs")>>)

\* Too much for the queue, or by itself.
SendExceeds(w, n) ==
    /\ MaxBackpressure # 0
    /\ Stream({w}, Nothing, TooMuch(w, n))
    /\ readyState' = [readyState EXCEPT ![w] = "CLOSING"]
    /\ Call(TerminateSteps(w))

\* A compressed frame is made by the session, which throws once it saw or made a Close.
\* A send without callback then fails the WebSocket.
SendThrows(w, n) ==
    /\ closeSent[w]
    /\ Stream({}, Nothing, Of(w, <<Told(n, "error")>>))
    /\ \/ UNCHANGED <<stack, readyState>>
       \/ readyState' = [readyState EXCEPT ![w] = "CLOSING"] /\ Call(<<User, Step("_fail", w)>>)

\* Mutant: also when the WebSocket is closing.
MaySend_Closing(w) == readyState[w] \in {"OPEN", "CLOSING"} /\ writable(w)

MaySend(w) == readyState[w] = "OPEN"

Send(w) ==
    /\ MayAct /\ MaySend(w) /\ sends[w] < MaxSends
    /\ sends' = [sends EXCEPT ![w] = @ + 1]
    /\ LET n == sends[w] + 1 IN SendWrites(w, n) \/ SendExceeds(w, n) \/ SendThrows(w, n)
    /\ UNCHANGED <<serverVars, sessionVars, closeTimer, ended, peerVars>>

\* close() of the WebSockets in S, which are OPEN.  The session makes no Close when a
\* Close was parsed already: then the socket is ended.
CloseAll(S) ==
    LET framed == {w \in S : ~closeSent[w] /\ writable(w)}
        tooMuch == {w \in framed : ~Accepts(w)}
    IN
    /\ readyState' = [w \in Sockets |-> IF w \in S THEN "CLOSING" ELSE readyState[w]]
    /\ closeTimer' = TimersAfter(S)
    /\ closeSent' = [w \in Sockets |-> closeSent[w] \/ w \in S]
    /\ ended' = [w \in Sockets |-> ended[w] \/ (w \in S /\ closeSent[w] /\ ~destroyed[w])]
    /\ Stream(tooMuch, [w \in Sockets |-> IF w \in framed THEN <<Frame("close", 0)>> ELSE <<>>], Nothing)

Close(w) ==
    /\ MayAct /\ readyState[w] = "OPEN" /\ CloseAll({w})
    /\ UNCHANGED <<stack, serverVars, external, parserClosing, peerVars, sends>>

\* Server.close()
CloseServer ==
    /\ MayAct /\ ~serverClosing
    /\ serverClosing' = TRUE
    /\ CloseAll({w \in clients : readyState[w] = "OPEN"})
    /\ finishScheduled' = (clients = {})
    /\ UNCHANGED <<stack, serverClosed, closeEvents, clients, external, parserClosing, peerVars, sends>>

Terminate(w) ==
    /\ MayAct /\ readyState[w] \in {"OPEN", "CLOSING"}
    /\ readyState' = [readyState EXCEPT ![w] = "CLOSING"]
    /\ Call(TerminateSteps(w)) /\ Stream({w}, Nothing, Nothing)
    /\ UNCHANGED <<serverVars, sessionVars, closeTimer, ended, peerVars, sends>>

UserReturns ==
    /\ Top("user") /\ Return
    /\ UNCHANGED <<serverVars, readyState, sessionVars, closeTimer, streamVars, ended, peerVars, sends>>

-----------------------------------------------------------------------------

\* A socket may be gone before its upgrade is handled.
Init ==
    /\ stack = <<>>
    /\ serverClosing = FALSE /\ serverClosed = FALSE /\ finishScheduled = FALSE /\ closeEvents = 0
    /\ clients = {}
    /\ readyState = [w \in Sockets |-> "none"]
    /\ external = [w \in Sockets |-> FALSE]
    /\ parserClosing = external /\ closeSent = external
    /\ closeTimer = [w \in Sockets |-> "off"]
    /\ answers = Nothing /\ queue = Nothing /\ wire = Nothing
    /\ ended = external /\ peerEnded = external
    /\ destroyed \in [Sockets -> BOOLEAN] /\ gone = destroyed
    /\ reads = [w \in Sockets |-> 0] /\ sends = reads

\* What the thread still has to do.
Proceed ==
    \/ HeadersEmitted \/ Upgraded \/ HandleEvent \/ FinalizeClose \/ FailWebSocket \/ UserReturns
    \/ Top("data") /\ Data

Socket(w) ==
    \/ SocketEnds(w) \/ SocketFails(w) \/ SocketCloses(w)
    \/ Flush(w) \/ AutoDestroy(w) \/ CloseTimeout(w)

Application(w) == HandleUpgrade(w) \/ Send(w) \/ Close(w) \/ Terminate(w)

Next ==
    \/ Proceed \/ (Idle /\ Data) \/ FinishScheduled \/ CloseServer
    \/ \E w \in Sockets : Socket(w) \/ Application(w)

Spec == Init /\ [][Next]_vars

\* The thread runs to the end what it began, and the event loop comes round to what is
\* due.  Peers and the application need do nothing.
FairSpec ==
    /\ Spec /\ WF_vars(Proceed) /\ WF_vars(FinishScheduled)
    /\ \A w \in Sockets : WF_vars(SocketCloses(w)) /\ WF_vars(AutoDestroy(w)) /\ SF_vars(CloseTimeout(w))

-----------------------------------------------------------------------------
(* Properties *)

\* Every variable keeps its type, the clients are the WebSockets that are not CLOSED, and
\* only one of them that is CLOSING has a deadline.
TypeOK ==
    /\ stack \in Seq([at : {"user", "headers", "upgraded", "data", "message", "pong", "reply", "peerClose",
                             "_finalizeClose", "_fail"},
                      on : Sockets \cup {NoSocket}])
    /\ serverClosing \in BOOLEAN /\ serverClosed \in BOOLEAN /\ finishScheduled \in BOOLEAN
    /\ closeEvents \in Nat
    /\ readyState \in [Sockets -> {"none", "refused", "OPEN", "CLOSING", "CLOSED"}]
    /\ clients = {w \in Sockets : readyState[w] \in {"OPEN", "CLOSING"}}
    /\ {external, parserClosing, closeSent, ended, destroyed, gone, peerEnded}
           \subseteq [Sockets -> BOOLEAN]
    /\ closeTimer \in [Sockets -> {"off", "armed", "fired"}]
    /\ \A w \in Sockets : closeTimer[w] # "off" => readyState[w] = "CLOSING"
    /\ reads \in [Sockets -> 0..MaxReads] /\ sends \in [Sockets -> 0..MaxSends]

\* The server emits 'close' once, after close() and after the 'close' of its last client,
\* and has no client from then on: a 'headers' listener that closes it in the middle of
\* handleUpgrade() does not leave that request behind as a client.
ServerClosesOnce ==
    /\ closeEvents = IF serverClosed THEN 1 ELSE 0
    /\ serverClosed => serverClosing /\ clients = {}

\* A native session lives as long as its client, or as the handleUpgrade() that made it:
\* whatever ends an upgrade or a WebSocket disposes of it.
SessionsDisposed ==
    \A w \in Sockets : external[w] <=> w \in clients \/ Contains(stack, Step("headers", w))

Asked(w) == 1 .. sends[w]
Count(s, Test(_)) == Cardinality({i \in DOMAIN s : Test(s[i])})

\* A send() is in the queue or answered, and that once; it is answered with success when
\* its frame went to the peer, whatever ended the connection.
AnsweredOnce ==
    \A w \in Sockets : \A n \in Asked(w) :
        LET queued == Count(queue[w], LAMBDA f : f.send = n)
            sent == Count(wire[w], LAMBDA f : f.send = n)
            succeeded == Count(answers[w], LAMBDA a : a = Told(n, "ok"))
        IN  /\ queued + Count(answers[w], LAMBDA a : a.send = n) = 1
            /\ sent = succeeded

IsClose(frame) == frame.kind \in {"close", "reply"}

\* The peer gets at most one Close, and no frame of the application after it: also when
\* handlers send or close while the Close of the same read waits in _consume()'s events.
NoDataAfterClose ==
    \A w \in Sockets :
        LET frames == wire[w] \o queue[w] IN
        \A i, j \in DOMAIN frames :
            i < j /\ IsClose(frames[i]) => frames[j].kind = "pong"

\* A limit counts every frame in the socket.
QueueBounded ==
    MaxBackpressure # 0 => \A w \in Sockets : Len(queue[w]) <= MaxBackpressure

\* What nothing in the program will end.  A socket that was gone before its upgrade emits
\* no 'close' any more.  One that ended and whose peer takes no data has no deadline.
Stuck(w) ==
    /\ stack = <<>> /\ w \in clients
    /\ gone[w] \/ (peerEnded[w] /\ closeTimer[w] = "off" /\ ~destroyed[w])

\* After Server.close() the server emits 'close', with no help from peers or application:
\* the deadline ends a client that does not answer, and the others go on their way.
ServerCloses ==
    []<>(\A w \in Sockets : ~Stuck(w)) => (serverClosing ~> serverClosed)

\* README.md: when the limit is exceeded, pending send() callbacks complete with
\* EIOWS_MAX_BACKPRESSURE.
PendingSendsHearLimit ==
    \A w \in Sockets : \A i, j \in DOMAIN answers[w] :
        answers[w][j].result = "nobufs" /\ j < i => answers[w][i].result = "nobufs"
=============================================================================
