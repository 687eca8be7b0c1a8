------------------------- MODULE WebSocketServerProofs -------------------------
(***************************************************************************)
(* The server closes once and for good, sessions are disposed of, types    *)
(* are kept, the limit bounds the frames in a socket, the application      *)
(* sends nothing after a Close, and every send() is answered once: for     *)
(* every set of sockets, limit and bound of module WebSocketServer.        *)
(***************************************************************************)
EXTENDS WebSocketServer, SequenceTheorems, FiniteSetTheorems, WellFoundedInduction, TLAPS

\* What process.nextTick() was given is still to be done, and there is no client then.
CloseInv ==
    /\ ServerClosesOnce
    /\ serverClosing \in BOOLEAN /\ serverClosed \in BOOLEAN /\ finishScheduled \in BOOLEAN
    /\ finishScheduled => serverClosing /\ clients = {}

\* Only these change what the invariant is about.
LEMMA OthersLeaveServer ==
    ASSUME Next
    PROVE  \/ HeadersEmitted \/ FinalizeClose \/ FinishScheduled \/ CloseServer
           \/ UNCHANGED serverVars
<1>1. Upgraded \/ HandleEvent \/ FailWebSocket \/ UserReturns \/ Data => UNCHANGED serverVars
  BY DEF Upgraded, HandleEvent, FailWebSocket, UserReturns, Data
<1>2. ASSUME NEW w \in Sockets, Socket(w)
      PROVE  UNCHANGED serverVars
  BY <1>2 DEF Socket, SocketEnds, SocketFails, SocketCloses, Flush, AutoDestroy, CloseTimeout
<1>3. ASSUME NEW w \in Sockets, Application(w)
      PROVE  UNCHANGED serverVars
  BY <1>3 DEF Application, HandleUpgrade, Send, Close, Terminate, serverVars
<1>4. QED BY <1>1, <1>2, <1>3 DEF Next, Proceed

\* A request becomes a client only while the server is not closing.
LEMMA AcceptKeepsCloseInv == CloseInv /\ HeadersEmitted => CloseInv'
BY DEF CloseInv, ServerClosesOnce, HeadersEmitted, MayAccept, Refuse

\* _finishClose() runs when the last client of a closing server has gone.
LEMMA FinalizeKeepsCloseInv == CloseInv /\ FinalizeClose => CloseInv'
<1> SUFFICES ASSUME CloseInv, FinalizeClose
             PROVE  CloseInv'
  OBVIOUS
<1>1. UNCHANGED <<serverClosing, finishScheduled>>
  BY DEF FinalizeClose
<1>2. CASE UNCHANGED <<clients, serverClosed, closeEvents>>
  BY <1>1, <1>2 DEF CloseInv, ServerClosesOnce
<1>3. CASE \E w : LastClient(w) /\ FinishClose /\ clients' = clients \ {w}
  BY <1>1, <1>3 DEF CloseInv, ServerClosesOnce, LastClient, FinishClose
<1>4. CASE \E w : UNCHANGED <<serverClosed, closeEvents>> /\ clients' = clients \ {w}
  BY <1>1, <1>4 DEF CloseInv, ServerClosesOnce
<1>5. QED BY <1>2, <1>3, <1>4 DEF FinalizeClose

\* The scheduled _finishClose(), and close() that schedules it.
LEMMA CloseKeepsCloseInv ==
    ASSUME CloseInv, FinishScheduled \/ CloseServer
    PROVE  CloseInv'
<1>1. CASE FinishScheduled
  <2>1. serverClosing /\ clients = {}
    BY <1>1 DEF CloseInv, FinishScheduled
  <2>2. serverClosed' = TRUE /\ finishScheduled' = FALSE /\ UNCHANGED <<serverClosing, clients>>
    BY <1>1 DEF FinishScheduled, FinishClose
  <2>3. closeEvents' = 1
    BY <1>1 DEF CloseInv, ServerClosesOnce, FinishScheduled, FinishClose
  <2>4. QED BY <2>1, <2>2, <2>3 DEF CloseInv, ServerClosesOnce
<1>2. CASE CloseServer
  BY <1>2 DEF CloseInv, ServerClosesOnce, CloseServer
<1>3. QED BY <1>1, <1>2

LEMMA CloseInvariant == Spec => []CloseInv
<1>1. Init => CloseInv
  BY DEF Init, CloseInv, ServerClosesOnce
<1>2. CloseInv /\ [Next]_vars => CloseInv'
  <2> SUFFICES ASSUME CloseInv, [Next]_vars
               PROVE  CloseInv'
    OBVIOUS
  <2>1. CASE UNCHANGED serverVars
    BY <2>1 DEF CloseInv, ServerClosesOnce, serverVars
  <2>2. CASE UNCHANGED vars
    BY <2>1, <2>2 DEF vars
  <2>3. CASE Next
    BY <2>1, <2>3, OthersLeaveServer, AcceptKeepsCloseInv, FinalizeKeepsCloseInv, CloseKeepsCloseInv
  <2>4. QED BY <2>2, <2>3
<1>3. QED BY <1>1, <1>2, PTL DEF Spec

\* Server.close() leads to one 'close' event at most, when no client is left, and no
\* request becomes a client afterwards: whatever 'headers' listeners do.
THEOREM ServerClosesForGood == Spec => []ServerClosesOnce
<1>1. CloseInv => ServerClosesOnce
  BY DEF CloseInv
<1>2. QED BY <1>1, CloseInvariant, PTL


-----------------------------------------------------------------------------
(* Sessions *)

StepName == {"user", "headers", "upgraded", "data", "message", "pong", "reply", "peerClose",
             "_finalizeClose", "_fail"}
StepType == [at : StepName, on : Sockets \cup {NoSocket}]
ReadyState == {"none", "refused", "OPEN", "CLOSING", "CLOSED"}
Live == {"OPEN", "CLOSING", "CLOSED"}

\* A step of a WebSocket is about one that there is, given the states rs.
Known(s, rs) ==
    /\ s \in StepType
    /\ s.at \notin {"headers", "user"} => s.on \in Sockets /\ rs[s.on] \in Live

\* The rest of handleUpgrade() lies below everything else, and no WebSocket is there yet.
StackKnown ==
    /\ stack \in Seq(StepType)
    /\ \A i \in 1..Len(stack) :
        /\ Known(stack[i], readyState)
        /\ stack[i].at = "headers" =>
              i = Len(stack) /\ stack[i].on \in Sockets /\ readyState[stack[i].on] = "none"

InUpgrade(w) == \E i \in 1..Len(stack) : stack[i] = Step("headers", w)

SessionInv ==
    /\ StackKnown
    /\ readyState \in [Sockets -> ReadyState]
    /\ external \in [Sockets -> BOOLEAN]
    /\ clients = {w \in Sockets : readyState[w] \in {"OPEN", "CLOSING"}}
    /\ \A w \in Sockets : external[w] <=> w \in clients \/ InUpgrade(w)

LEMMA InvHasSessionsDisposed == SessionInv => SessionsDisposed
BY DEF SessionInv, SessionsDisposed, InUpgrade, Contains

\* Steps put on the stack by what is not handleUpgrade().
Pushes(steps) ==
    /\ steps \in Seq(StepType)
    /\ \A i \in 1..Len(steps) : Known(steps[i], readyState') /\ steps[i].at # "headers"

\* A WebSocket that is there stays one, and a request is not decided in passing.
LivesOn ==
    /\ readyState' \in [Sockets -> ReadyState]
    /\ \A w \in Sockets :
        /\ readyState[w] \in Live => readyState'[w] \in Live
        /\ readyState[w] = "none" => readyState'[w] = "none"

\* WebSockets come to be and go elsewhere.
SameLife ==
    /\ readyState' \in [Sockets -> ReadyState]
    /\ \A w \in Sockets :
        /\ readyState[w] \in {"OPEN", "CLOSING"} <=> readyState'[w] \in {"OPEN", "CLOSING"}
        /\ readyState[w] = "CLOSED" <=> readyState'[w] = "CLOSED"
        /\ readyState[w] = "none" => readyState'[w] = "none"

\* What is still on the stack when its first step has run.
LEMMA PoppedStack ==
    ASSUME StackKnown, stack # <<>>, NEW base, base = Tail(stack)
    PROVE  /\ base \in Seq(StepType) /\ Len(base) \in Nat /\ Len(stack) = Len(base) + 1
           /\ \A i \in 1..Len(base) : base[i] = stack[i + 1]
           /\ Head(stack) = stack[1] /\ Known(Head(stack), readyState)
<1>1. Len(stack) \in Nat \ {0} /\ Head(stack) = stack[1]
  BY EmptySeq DEF StackKnown
<1>2. /\ base \in Seq(StepType) /\ Len(base) = Len(stack) - 1
      /\ \A i \in 1..Len(base) : base[i] = stack[i + 1]
  BY HeadTailProperties DEF StackKnown
<1>3. Known(Head(stack), readyState)
  BY <1>1 DEF StackKnown
<1>4. QED BY <1>1, <1>2, <1>3, LenProperties

\* Pushing steps over what is left of the stack keeps its order and the pending upgrade.
LEMMA StackGoesOn ==
    ASSUME StackKnown, readyState \in [Sockets -> ReadyState], LivesOn,
           NEW steps, Pushes(steps), NEW base,
           \/ base = stack
           \/ base = Tail(stack) /\ stack # <<>> /\ Head(stack).at # "headers",
           stack' = steps \o base
    PROVE  StackKnown' /\ \A w \in Sockets : InUpgrade(w)' <=> InUpgrade(w)
<1>1. PICK d \in {0, 1} :
         /\ base \in Seq(StepType) /\ Len(base) \in Nat /\ Len(stack) = Len(base) + d
         /\ \A i \in 1..Len(base) : base[i] = stack[i + d]
         /\ d = 1 => stack[1].at # "headers"
  <2>1. CASE base = stack
    <3>1. base \in Seq(StepType) /\ Len(base) \in Nat
      BY <2>1, LenProperties DEF StackKnown
    <3>2. QED BY <2>1, <3>1
  <2>2. CASE base = Tail(stack) /\ stack # <<>> /\ Head(stack).at # "headers"
    BY <2>2, PoppedStack
  <2>3. QED BY <2>1, <2>2
<1>3. /\ stack' \in Seq(StepType) /\ Len(steps) \in Nat /\ Len(stack') = Len(steps) + Len(base)
      /\ \A i \in 1..Len(stack') : stack'[i] = IF i <= Len(steps) THEN steps[i] ELSE base[i - Len(steps)]
  <2>1. steps \in Seq(StepType) /\ base \in Seq(StepType)
    BY <1>1 DEF Pushes
  <2>2. Len(steps) \in Nat /\ Len(base) \in Nat
    BY <2>1, LenProperties
  <2>3. /\ steps \o base \in Seq(StepType) /\ Len(steps \o base) = Len(steps) + Len(base)
        /\ \A i \in 1..Len(steps) + Len(base) :
              (steps \o base)[i] = IF i <= Len(steps) THEN steps[i] ELSE base[i - Len(steps)]
    BY <2>1, ConcatProperties
  <2>4. QED BY <2>2, <2>3
<1>4. \A i \in 1..Len(stack') :
         \/ i <= Len(steps) /\ stack'[i] = steps[i]
         \/ /\ i - Len(steps) + d \in 1..Len(stack) /\ stack'[i] = stack[i - Len(steps) + d]
            /\ i = Len(stack') <=> i - Len(steps) + d = Len(stack)
  <2> SUFFICES ASSUME NEW i \in 1..Len(stack'), i > Len(steps)
               PROVE  /\ i - Len(steps) + d \in 1..Len(stack) /\ stack'[i] = stack[i - Len(steps) + d]
                      /\ i = Len(stack') <=> i - Len(steps) + d = Len(stack)
    BY <1>1, <1>3
  <2>1. i - Len(steps) \in 1..Len(base)
    BY <1>1, <1>3
  <2>2. stack'[i] = base[i - Len(steps)]
    BY <1>3
  <2>3. base[i - Len(steps)] = stack[i - Len(steps) + d]
    BY <1>1, <2>1
  <2>4. QED BY <1>1, <1>3, <2>1, <2>2, <2>3
<1>5. \A s : Known(s, readyState) => Known(s, readyState')
  BY DEF Known, LivesOn
<1>6. StackKnown'
  <2> SUFFICES ASSUME NEW i \in 1..Len(stack')
               PROVE  /\ Known(stack'[i], readyState')
                      /\ stack'[i].at = "headers" =>
                            i = Len(stack') /\ stack'[i].on \in Sockets /\ readyState'[stack'[i].on] = "none"
    BY <1>3 DEF StackKnown
  <2>1. CASE i <= Len(steps) /\ stack'[i] = steps[i]
    BY <2>1, <1>3 DEF Pushes
  <2>2. CASE /\ i - Len(steps) + d \in 1..Len(stack) /\ stack'[i] = stack[i - Len(steps) + d]
             /\ i = Len(stack') <=> i - Len(steps) + d = Len(stack)
    BY <2>2, <1>5 DEF StackKnown, LivesOn
  <2>3. QED BY <2>1, <2>2, <1>4
<1>7. ASSUME NEW w \in Sockets, InUpgrade(w)
      PROVE  InUpgrade(w)'
  <2>1. PICK i \in 1..Len(stack) : stack[i] = Step("headers", w)
    BY <1>7 DEF InUpgrade
  <2>2. i - d \in 1..Len(base) /\ base[i - d] = stack[i]
    <3>1. d = 1 => i # 1
      BY <2>1, <1>1 DEF Step
    <3>2. i - d \in 1..Len(base)
      BY <3>1, <1>1
    <3>3. QED BY <3>2, <1>1
  <2>3. i - d + Len(steps) \in 1..Len(stack') /\ stack'[i - d + Len(steps)] = base[i - d]
    <3>1. i - d + Len(steps) \in 1..Len(stack') /\ ~(i - d + Len(steps) <= Len(steps))
      BY <2>2, <1>1, <1>3
    <3>2. i - d + Len(steps) - Len(steps) = i - d
      BY <1>1, <1>3
    <3>3. QED BY <3>1, <3>2, <1>3
  <2>4. QED BY <2>1, <2>2, <2>3 DEF InUpgrade
<1>8. ASSUME NEW w \in Sockets, InUpgrade(w)'
      PROVE  InUpgrade(w)
  <2>1. PICK i \in 1..Len(stack') : stack'[i] = Step("headers", w)
    BY <1>8 DEF InUpgrade, Step
  <2>2. ~(i <= Len(steps) /\ stack'[i] = steps[i])
    BY <2>1, <1>3 DEF Pushes, Step
  <2>3. QED BY <2>1, <2>2, <1>4 DEF InUpgrade
<1>9. QED BY <1>6, <1>7, <1>8

\* A step that makes or ends no WebSocket keeps the invariant, whatever it pushes.
LEMMA QuietStep ==
    ASSUME SessionInv, SameLife, UNCHANGED <<external, clients>>,
           NEW steps, Pushes(steps),
           \/ stack' = steps \o stack
           \/ stack' = steps \o Tail(stack) /\ stack # <<>> /\ Head(stack).at # "headers"
    PROVE  SessionInv'
<1>1. StackKnown' /\ \A w \in Sockets : InUpgrade(w)' <=> InUpgrade(w)
  <2>1. LivesOn
    BY DEF SameLife, LivesOn, Live, ReadyState, SessionInv
  <2>2. QED BY <2>1, StackGoesOn DEF SessionInv
<1>2. clients' = {w \in Sockets : readyState'[w] \in {"OPEN", "CLOSING"}}
  BY DEF SessionInv, SameLife
<1>3. QED BY <1>1, <1>2 DEF SessionInv, SameLife

-----------------------------------------------------------------------------
(* What the steps push *)

LEMMA PushNothing == Pushes(<<>>)
BY EmptySeq DEF Pushes

LEMMA PushUser == Pushes(<<User>>)
BY DEF Pushes, User, Step, Known, StepType, StepName

LEMMA PushStep ==
    ASSUME NEW w \in Sockets, readyState'[w] \in Live, NEW name \in StepName \ {"headers"}
    PROVE  Pushes(<<Step(name, w)>>) /\ Pushes(<<User, Step(name, w)>>)
<1>1. Known(Step(name, w), readyState') /\ Step(name, w).at # "headers" /\ Step(name, w) \in StepType
  BY DEF Step, Known, StepType
<1>2. Known(User, readyState') /\ User.at # "headers" /\ User \in StepType
  BY DEF User, Step, Known, StepType, StepName
<1>3. QED BY <1>1, <1>2 DEF Pushes

LEMMA PushTerminate ==
    ASSUME NEW w \in Sockets, readyState'[w] \in Live
    PROVE  Pushes(TerminateSteps(w))
BY PushNothing, PushStep DEF TerminateSteps, StepName

LEMMA PushEvents ==
    ASSUME NEW w \in Sockets, readyState'[w] \in Live, NEW body \in Bodies, NEW closes \in BOOLEAN
    PROVE  Pushes(Events(w, body, closes))
<1> DEFINE messages == [k \in DOMAIN body |-> Step(body[k], w)]
           reply == IF closes /\ ~closeSent[w] THEN <<Step("reply", w)>> ELSE <<>>
           close == IF closes THEN <<Step("peerClose", w)>> ELSE <<>>
<1>1. body \in Seq({"message", "pong"})
  BY ServerAssumption
<1>2. Len(body) \in Nat /\ DOMAIN body = 1..Len(body) /\ \A k \in 1..Len(body) : body[k] \in {"message", "pong"}
  BY <1>1, LenProperties, ElementOfSeq
<1>3. \A k \in 1..Len(body) : /\ Step(body[k], w) \in StepType /\ Step(body[k], w).at # "headers"
                              /\ Known(Step(body[k], w), readyState')
  BY <1>2 DEF Step, StepType, StepName, Known
<1>4. Pushes(messages)
  <2>1. messages \in Seq(StepType) /\ Len(messages) = Len(body)
    BY <1>2, <1>3
  <2>2. QED BY <2>1, <1>2, <1>3 DEF Pushes
<1>5. Pushes(reply) /\ Pushes(close)
  BY PushNothing, PushStep DEF StepName
<1>6. ASSUME NEW s, NEW t, Pushes(s), Pushes(t)
      PROVE  Pushes(s \o t)
  <2>1. s \in Seq(StepType) /\ t \in Seq(StepType)
    BY <1>6 DEF Pushes
  <2>2. Len(s) \in Nat /\ Len(t) \in Nat
    BY <2>1, LenProperties
  <2>3. /\ s \o t \in Seq(StepType) /\ Len(s \o t) = Len(s) + Len(t)
        /\ \A i \in 1..Len(s) + Len(t) : (s \o t)[i] = IF i <= Len(s) THEN s[i] ELSE t[i - Len(s)]
    BY <2>1, ConcatProperties
  <2>4. ASSUME NEW i \in 1..Len(s \o t)
        PROVE  Known((s \o t)[i], readyState') /\ (s \o t)[i].at # "headers"
    <3>1. CASE i <= Len(s)
      BY <3>1, <2>2, <2>3, <1>6 DEF Pushes
    <3>2. CASE i > Len(s)
      <4>1. i - Len(s) \in 1..Len(t) /\ (s \o t)[i] = t[i - Len(s)]
        BY <3>2, <2>2, <2>3
      <4>2. QED BY <4>1, <1>6 DEF Pushes
    <3>3. QED BY <3>1, <3>2, <2>2, <2>3
  <2>5. QED BY <2>3, <2>4 DEF Pushes
<1>7. Pushes((messages \o reply) \o close)
  BY <1>4, <1>5, <1>6
<1>8. Events(w, body, closes) = (messages \o reply) \o close
  BY DEF Events
<1>9. QED BY <1>7, <1>8

-----------------------------------------------------------------------------
(* The steps *)

\* Calls and the event loop: the stack grows.
LEMMA Grows ==
    ASSUME SessionInv, SameLife, UNCHANGED <<external, clients>>,
           NEW steps, Pushes(steps), Call(steps)
    PROVE  SessionInv'
BY QuietStep DEF Call

\* The step on top goes on.
LEMMA GoesOn ==
    ASSUME SessionInv, SameLife, UNCHANGED <<external, clients>>,
           NEW steps, Pushes(steps), Continue(steps), NEW name, Top(name), name # "headers"
    PROVE  SessionInv'
BY QuietStep DEF Continue, Top

LEMMA StaysPut ==
    ASSUME SessionInv, SameLife, UNCHANGED <<stack, external, clients>>
    PROVE  SessionInv'
<1>1. stack' = <<>> \o stack
  BY ConcatEmptySeq DEF SessionInv, StackKnown
<1>2. QED BY <1>1, Grows, PushNothing DEF Call

\* Nothing else is left to do.
LEMMA OnlyPushed ==
    ASSUME NEW steps, Pushes(steps), stack' = steps
    PROVE  StackKnown' /\ \A w \in Sockets : ~InUpgrade(w)'
<1>1. StackKnown'
  BY DEF StackKnown, Pushes
<1>2. ASSUME NEW w \in Sockets, NEW i \in 1..Len(stack')
      PROVE  stack'[i] # Step("headers", w)
  BY DEF Pushes, Step
<1>3. QED BY <1>1, <1>2 DEF InUpgrade, Step

\* The step on top is about a WebSocket that is there.
LEMMA TopKnown ==
    ASSUME SessionInv, NEW name \in StepName \ {"headers", "user"}, Top(name)
    PROVE  Head(stack).on \in Sockets /\ readyState[Head(stack).on] \in Live
BY PoppedStack DEF SessionInv, Top, Known

\* Changing OPEN to CLOSING, or nothing, ends no WebSocket.
LEMMA ClosingIsLife ==
    ASSUME SessionInv,
           \/ UNCHANGED readyState
           \/ \E S \in SUBSET Sockets :
                /\ \A w \in S : readyState[w] \in {"OPEN", "CLOSING"}
                /\ readyState' = [w \in Sockets |-> IF w \in S THEN "CLOSING" ELSE readyState[w]]
    PROVE  SameLife
BY DEF SessionInv, SameLife, ReadyState

LEMMA OneClosing ==
    ASSUME SessionInv, NEW w \in Sockets, readyState[w] \in {"OPEN", "CLOSING"},
           readyState' = [readyState EXCEPT ![w] = "CLOSING"]
    PROVE  SameLife
BY DEF SessionInv, SameLife, ReadyState

\* A request is refused, or its rest waits below the 'headers' listeners.
LEMMA HandleUpgradeKeeps ==
    ASSUME SessionInv, NEW w \in Sockets, HandleUpgrade(w)
    PROVE  SessionInv'
<1>1. stack = <<>> /\ readyState[w] = "none" /\ UNCHANGED clients
  BY DEF HandleUpgrade, Idle, serverVars
<1>2. \A x \in Sockets : ~InUpgrade(x)
  BY <1>1 DEF InUpgrade
<1>3. CASE readyState' = [readyState EXCEPT ![w] = "refused"] /\ UNCHANGED <<external, stack>>
  <2>1. readyState' \in [Sockets -> ReadyState]
    BY <1>3 DEF SessionInv, ReadyState
  <2>2. clients' = {x \in Sockets : readyState'[x] \in {"OPEN", "CLOSING"}}
    BY <1>1, <1>3 DEF SessionInv
  <2>3. StackKnown'
    BY <1>1, <1>3, EmptySeq DEF StackKnown
  <2>4. \A x \in Sockets : ~InUpgrade(x)'
    BY <1>1, <1>3 DEF InUpgrade
  <2>5. QED BY <1>1, <1>2, <1>3, <2>1, <2>2, <2>3, <2>4 DEF SessionInv
<1>4. CASE /\ external' = [external EXCEPT ![w] = TRUE]
           /\ Call(<<User, Step("headers", w)>>) /\ UNCHANGED readyState
  <2>1. stack' = <<User, Step("headers", w)>>
    BY <1>1, <1>4 DEF Call
  <2>2. User \in StepType /\ Known(User, readyState) /\ User.at # "headers"
    BY DEF User, Step, StepType, StepName, Known
  <2>3. Step("headers", w) \in StepType /\ Known(Step("headers", w), readyState)
        /\ Step("headers", w).on = w
    BY DEF Step, StepType, StepName, Known
  <2>4. /\ stack' \in Seq(StepType) /\ Len(stack') = 2
        /\ stack'[1] = User /\ stack'[2] = Step("headers", w)
    BY <2>1, <2>2, <2>3
  <2>5. StackKnown'
    BY <1>1, <1>4, <2>2, <2>3, <2>4 DEF StackKnown
  <2>6. ASSUME NEW x \in Sockets
        PROVE  InUpgrade(x)' <=> x = w
    BY <2>2, <2>3, <2>4 DEF InUpgrade, Step
  <2>7. \A x \in Sockets : external'[x] <=> x \in clients \/ x = w
    BY <1>2, <1>4 DEF SessionInv
  <2>8. QED BY <1>1, <1>4, <2>5, <2>6, <2>7 DEF SessionInv
<1>5. QED BY <1>3, <1>4 DEF HandleUpgrade

\* The rest of handleUpgrade() is the last thing on the stack.  It disposes of the session
\* or makes it that of a client.
LEMMA HeadersEmittedKeeps ==
    ASSUME SessionInv, HeadersEmitted
    PROVE  SessionInv'
<1> DEFINE w == Head(stack).on
<1>1. /\ Len(stack) = 1 /\ stack[1].at = "headers" /\ w \in Sockets /\ stack[1].on = w
      /\ readyState[w] = "none" /\ Tail(stack) = <<>>
  <2>1. stack # <<>> /\ Head(stack).at = "headers"
    BY DEF HeadersEmitted, Top
  <2>2. Head(stack) = stack[1] /\ Len(stack) \in Nat \ {0}
    BY <2>1, EmptySeq DEF SessionInv, StackKnown
  <2>3. Len(stack) = 1 /\ w \in Sockets /\ readyState[w] = "none"
    <3>1. 1 \in 1..Len(stack) /\ stack[1].at = "headers"
      BY <2>1, <2>2
    <3>2. 1 = Len(stack) /\ stack[1].on \in Sockets /\ readyState[stack[1].on] = "none"
      BY <3>1 DEF SessionInv, StackKnown
    <3>3. QED BY <2>2, <3>2
  <2>4. Tail(stack) = <<>>
    <3>1. PICK base : base = Tail(stack)
      OBVIOUS
    <3>2. base \in Seq(StepType) /\ Len(base) \in Nat /\ Len(stack) = Len(base) + 1
      BY <2>1, <3>1, PoppedStack DEF SessionInv
    <3>3. base = <<>>
      BY SMTT(30), <2>3, <3>2, EmptySeq
    <3>4. QED BY <3>1, <3>3
  <2>5. QED BY <2>1, <2>2, <2>3, <2>4
<1>2. stack[1] = Step("headers", w)
  <2>1. 1 \in 1..Len(stack)
    BY <1>1
  <2>2. PICK top \in StepType : top = stack[1]
    BY <2>1 DEF SessionInv, StackKnown, Known
  <2>3. top.at = "headers" /\ top.on = w
    BY <1>1, <2>2
  <2>4. top = [at |-> top.at, on |-> top.on]
    BY <2>2 DEF StepType
  <2>5. QED BY <2>2, <2>3, <2>4 DEF Step
<1>3. \A x \in Sockets : InUpgrade(x) <=> x = w
  BY <1>1, <1>2 DEF InUpgrade, Step
<1>4. CASE Refuse(w) /\ UNCHANGED clients /\ (Continue(<<User>>) \/ Return)
  <2>1. /\ readyState' \in [Sockets -> ReadyState] /\ external' \in [Sockets -> BOOLEAN]
        /\ clients' = {x \in Sockets : readyState'[x] \in {"OPEN", "CLOSING"}}
    BY <1>1, <1>4 DEF SessionInv, Refuse, ReadyState
  <2>2. Pushes(<<User>>) /\ Pushes(<<>>)
    BY PushUser, PushNothing
  <2>3. stack' = <<User>> \/ stack' = <<>>
    BY <1>1, <1>4, <2>2, ConcatEmptySeq DEF Continue, Return, Pushes
  <2>4. StackKnown' /\ \A x \in Sockets : ~InUpgrade(x)'
    BY <2>2, <2>3, OnlyPushed
  <2>5. \A x \in Sockets : external'[x] <=> x \in clients
    BY <1>1, <1>3, <1>4 DEF SessionInv, Refuse
  <2>6. QED BY <1>4, <2>1, <2>4, <2>5 DEF SessionInv
<1>5. CASE /\ clients' = clients \cup {w} /\ readyState' = [readyState EXCEPT ![w] = "OPEN"]
           /\ Continue(<<User, Step("upgraded", w)>>) /\ UNCHANGED external
  <2>1. /\ readyState' \in [Sockets -> ReadyState]
        /\ clients' = {x \in Sockets : readyState'[x] \in {"OPEN", "CLOSING"}}
    BY <1>1, <1>5 DEF SessionInv, ReadyState
  <2>2. Pushes(<<User, Step("upgraded", w)>>)
    BY <1>1, <1>5, PushStep DEF StepName, Live, SessionInv
  <2>3. stack' = <<User, Step("upgraded", w)>>
    BY <1>1, <1>5, <2>2, ConcatEmptySeq DEF Continue, Pushes
  <2>4. StackKnown' /\ \A x \in Sockets : ~InUpgrade(x)'
    BY <2>2, <2>3, OnlyPushed
  <2>5. QED BY <1>3, <1>5, <2>1, <2>4 DEF SessionInv
<1>6. QED BY <1>4, <1>5 DEF HeadersEmitted

\* _finalizeClose() disposes of the session and gives the client up, and that once.
LEMMA FinalizeCloseKeeps ==
    ASSUME SessionInv, FinalizeClose
    PROVE  SessionInv'
<1> DEFINE w == Head(stack).on
<1>1. w \in Sockets /\ readyState[w] \in Live /\ Top("_finalizeClose")
  BY TopKnown DEF FinalizeClose, StepName
<1>2. CASE Return /\ UNCHANGED <<readyState, external, clients>>
  BY <1>1, <1>2, GoesOn, ClosingIsLife, PushNothing DEF Return
<1>3. CASE /\ readyState[w] # "CLOSED" /\ readyState' = [readyState EXCEPT ![w] = "CLOSED"]
           /\ external' = [external EXCEPT ![w] = FALSE] /\ clients' = clients \ {w}
           /\ Continue(<<User>>)
  <2>1. LivesOn
    BY <1>1, <1>3 DEF LivesOn, SessionInv, ReadyState, Live
  <2>2. StackKnown' /\ \A x \in Sockets : InUpgrade(x)' <=> InUpgrade(x)
    <3>1. stack' = <<User>> \o Tail(stack) /\ stack # <<>> /\ Head(stack).at # "headers"
      BY <1>1, <1>3 DEF Continue, Top
    <3>2. QED BY <2>1, <3>1, StackGoesOn, PushUser DEF SessionInv
  <2>3. ~InUpgrade(w)
    BY <1>1 DEF InUpgrade, SessionInv, StackKnown, Step, Live
  <2>4. /\ external' \in [Sockets -> BOOLEAN]
        /\ clients' = {x \in Sockets : readyState'[x] \in {"OPEN", "CLOSING"}}
    BY <1>1, <1>3 DEF SessionInv
  <2>5. \A x \in Sockets : external'[x] <=> x \in clients' \/ InUpgrade(x)
    BY <1>1, <1>3, <2>3 DEF SessionInv
  <2>6. QED BY <2>1, <2>2, <2>4, <2>5 DEF SessionInv, LivesOn
<1>4. QED BY <1>2, <1>3 DEF FinalizeClose

LEMMA ThreadKeeps ==
    ASSUME SessionInv, Upgraded \/ FailWebSocket \/ UserReturns \/ FinishScheduled
    PROVE  SessionInv'
<1>1. CASE Upgraded
  <2> DEFINE w == Head(stack).on
  <2>1. w \in Sockets /\ readyState[w] \in Live /\ UNCHANGED <<external, clients>> /\ Top("upgraded")
    BY <1>1, TopKnown DEF Upgraded, StepName, serverVars, sessionVars
  <2>2. CASE readyState[w] # "CLOSED" /\ readyState' = [readyState EXCEPT ![w] = "CLOSING"]
             /\ Continue(TerminateSteps(w))
    <3>1. SameLife
      BY <2>1, <2>2, OneClosing DEF Live
    <3>2. Pushes(TerminateSteps(w))
      BY <2>1, <2>2, PushTerminate DEF Live, SessionInv
    <3>3. QED BY <2>1, <2>2, <3>1, <3>2, GoesOn
  <2>3. CASE (Return \/ Continue(<<Step("data", w)>>)) /\ UNCHANGED readyState
    <3>1. SameLife
      BY <2>3, ClosingIsLife
    <3>2. Pushes(<<>>) /\ Pushes(<<Step("data", w)>>)
      BY <2>1, <2>3, PushNothing, PushStep DEF StepName
    <3>3. QED BY <2>1, <2>3, <3>1, <3>2, GoesOn DEF Return
  <2>4. QED BY <1>1, <2>2, <2>3 DEF Upgraded
<1>2. CASE FailWebSocket
  <2> DEFINE w == Head(stack).on
  <2>1. /\ w \in Sockets /\ readyState[w] \in Live /\ UNCHANGED <<readyState, external, clients>>
        /\ Top("_fail") /\ Continue(TerminateSteps(w))
    BY <1>2, TopKnown DEF FailWebSocket, StepName, serverVars, sessionVars
  <2>2. SameLife /\ Pushes(TerminateSteps(w))
    BY <2>1, ClosingIsLife, PushTerminate
  <2>3. QED BY <2>1, <2>2, GoesOn
<1>3. CASE UserReturns
  <2>1. Top("user") /\ Continue(<<>>) /\ UNCHANGED <<readyState, external, clients>>
    BY <1>3 DEF UserReturns, Return, serverVars, sessionVars
  <2>2. QED BY <2>1, GoesOn, ClosingIsLife, PushNothing
<1>4. CASE FinishScheduled
  <2>1. Call(<<User>>) /\ UNCHANGED <<readyState, external, clients>>
    BY <1>4 DEF FinishScheduled, sessionVars
  <2>2. QED BY <2>1, Grows, ClosingIsLife, PushUser
<1>5. QED BY <1>1, <1>2, <1>3, <1>4

LEMMA WriteFrameClosesOnly ==
    ASSUME SessionInv, NEW w \in Sockets, readyState[w] \in {"OPEN", "CLOSING"}, NEW kind, NEW rest,
           WriteFrame(w, kind, rest)
    PROVE  SameLife /\ Continue(rest)
BY ClosingIsLife, OneClosing DEF WriteFrame

LEMMA ReadsKeep ==
    ASSUME SessionInv, Data \/ HandleEvent
    PROVE  SessionInv'
<1>1. CASE Data
  <2>1. UNCHANGED <<readyState, external, clients>>
    BY <1>1 DEF Data, serverVars
  <2>2. SameLife
    BY <2>1, ClosingIsLife
  <2>3. CASE Top("data") /\ Consume(Head(stack).on, Tail(stack))
    <3> DEFINE w == Head(stack).on
    <3>1. w \in Sockets /\ readyState'[w] \in Live
      BY <2>1, <2>3, TopKnown DEF StepName
    <3>2. CASE stack' = Tail(stack)
      <4>1. PICK base : base = Tail(stack)
        OBVIOUS
      <4>2. base \in Seq(StepType)
        BY <2>3, <4>1, PoppedStack DEF SessionInv, Top
      <4>3. Continue(<<>>)
        BY <3>2, <4>1, <4>2, ConcatEmptySeq DEF Continue
      <4>4. QED BY <2>1, <2>2, <2>3, <4>3, GoesOn, PushNothing
    <3>3. CASE \E body \in Bodies, closes \in BOOLEAN : stack' = Events(w, body, closes) \o Tail(stack)
      <4>1. PICK body \in Bodies, closes \in BOOLEAN : stack' = Events(w, body, closes) \o Tail(stack)
        BY <3>3
      <4>2. Pushes(Events(w, body, closes))
        BY <3>1, PushEvents
      <4>3. QED BY <2>1, <2>2, <2>3, <4>1, <4>2, GoesOn DEF Continue
    <3>4. QED BY <2>3, <3>2, <3>3 DEF Consume
  <2>4. ASSUME NEW w \in clients, Idle, Consume(w, <<>>)
        PROVE  SessionInv'
    <3>1. stack = <<>> /\ w \in Sockets /\ readyState'[w] \in Live
      BY <2>1, <2>4 DEF Idle, SessionInv, Live
    <3>2. CASE stack' = <<>>
      BY <2>1, <2>2, <3>1, <3>2, StaysPut
    <3>3. CASE \E body \in Bodies, closes \in BOOLEAN : stack' = Events(w, body, closes) \o <<>>
      <4>1. PICK body \in Bodies, closes \in BOOLEAN : stack' = Events(w, body, closes) \o <<>>
        BY <3>3
      <4>2. Pushes(Events(w, body, closes))
        BY <3>1, PushEvents
      <4>3. QED BY <2>1, <2>2, <3>1, <4>1, <4>2, Grows DEF Call
    <3>4. QED BY <2>4, <3>2, <3>3 DEF Consume
  <2>5. QED BY <1>1, <2>3, <2>4 DEF Data
<1>2. CASE HandleEvent
  <2> DEFINE w == Head(stack).on
  <2>1. PICK event \in {"message", "pong", "reply", "peerClose"} : Top(event) /\ Head(stack).at = event
    BY <1>2 DEF HandleEvent, Top
  <2>2. w \in Sockets /\ readyState[w] \in Live /\ UNCHANGED <<external, clients>>
    BY <1>2, <2>1, TopKnown DEF HandleEvent, StepName, serverVars, sessionVars
  <2>3. CASE UNCHANGED readyState /\ (Return \/ Continue(<<User>>))
    BY <2>1, <2>2, <2>3, ClosingIsLife, GoesOn, PushNothing, PushUser DEF Return
  <2>4. CASE WriteFrame(w, event, <<>>) /\ readyState[w] # "CLOSED"
    <3>1. SameLife /\ Continue(<<>>)
      BY <2>2, <2>4, WriteFrameClosesOnly DEF Live
    <3>2. QED BY <2>1, <2>2, <3>1, GoesOn, PushNothing
  <2>5. CASE readyState[w] # "CLOSED" /\ readyState' = [readyState EXCEPT ![w] = "CLOSING"] /\ Return
    <3>1. SameLife
      BY <2>2, <2>5, OneClosing DEF Live
    <3>2. QED BY <2>1, <2>2, <2>5, <3>1, GoesOn, PushNothing DEF Return
  <2>6. QED BY <1>2, <2>1, <2>3, <2>4, <2>5 DEF HandleEvent
<1>3. QED BY <1>1, <1>2

\* The events of a socket.
LEMMA SocketKeeps ==
    ASSUME SessionInv, NEW w \in Sockets, Socket(w)
    PROVE  SessionInv'
<1>1. UNCHANGED <<external, clients>>
  BY DEF Socket, SocketEnds, SocketFails, SocketCloses, Flush, AutoDestroy, CloseTimeout, serverVars,
         sessionVars
<1>2. CASE SocketEnds(w)
  <2>1. /\ w \in clients /\ UNCHANGED stack
        /\ readyState' = [readyState EXCEPT ![w] = IF @ = "OPEN" THEN "CLOSING" ELSE @]
    BY <1>2 DEF SocketEnds
  <2>2. SameLife
    BY <2>1 DEF SessionInv, SameLife, ReadyState
  <2>3. QED BY <1>1, <2>1, <2>2, StaysPut
<1>3. CASE SocketFails(w)
  <2>1. Call(<<User>>) /\ UNCHANGED readyState
    BY <1>3 DEF SocketFails
  <2>2. QED BY <1>1, <2>1, Grows, ClosingIsLife, PushUser
<1>4. CASE SocketCloses(w)
  <2>1. /\ Call(<<Step("_finalizeClose", w)>>) /\ UNCHANGED readyState
        /\ readyState'[w] \in Live
    BY <1>4 DEF SocketCloses, Live
  <2>2. Pushes(<<Step("_finalizeClose", w)>>)
    BY <2>1, PushStep DEF StepName
  <2>3. QED BY <1>1, <2>1, <2>2, Grows, ClosingIsLife
<1>5. CASE Flush(w) \/ AutoDestroy(w) \/ CloseTimeout(w)
  <2>1. UNCHANGED <<stack, readyState>>
    BY <1>5 DEF Flush, AutoDestroy, CloseTimeout
  <2>2. QED BY <1>1, <2>1, StaysPut, ClosingIsLife
<1>6. QED BY <1>2, <1>3, <1>4, <1>5 DEF Socket

\* What the application does.
LEMMA ApplicationKeeps ==
    ASSUME SessionInv,
           \/ \E w \in Sockets : Send(w) \/ Close(w) \/ Terminate(w)
           \/ CloseServer
    PROVE  SessionInv'
<1>1. UNCHANGED <<external, clients>>
  BY DEF Send, Close, Terminate, CloseServer, serverVars, sessionVars
<1>2. ASSUME NEW w \in Sockets, Send(w)
      PROVE  SessionInv'
  <2>1. readyState[w] = "OPEN"
    BY <1>2 DEF Send, MaySend
  <2>2. CASE UNCHANGED <<stack, readyState>>
    BY <1>1, <2>2, StaysPut, ClosingIsLife
  <2>3. CASE readyState' = [readyState EXCEPT ![w] = "CLOSING"] /\ Call(TerminateSteps(w))
    <3>1. SameLife /\ readyState'[w] \in Live
      BY <2>1, <2>3, OneClosing DEF SessionInv, Live
    <3>2. QED BY <1>1, <2>3, <3>1, Grows, PushTerminate
  <2>4. CASE readyState' = [readyState EXCEPT ![w] = "CLOSING"] /\ Call(<<User, Step("_fail", w)>>)
    <3>1. SameLife /\ readyState'[w] \in Live
      BY <2>1, <2>4, OneClosing DEF SessionInv, Live
    <3>2. Pushes(<<User, Step("_fail", w)>>)
      BY <3>1, PushStep DEF StepName
    <3>3. QED BY <1>1, <2>4, <3>1, <3>2, Grows
  <2>5. QED BY <1>2, <2>2, <2>3, <2>4 DEF Send, SendWrites, SendExceeds, SendThrows
<1>3. ASSUME NEW S \in SUBSET Sockets, \A w \in S : readyState[w] = "OPEN", CloseAll(S), UNCHANGED stack
      PROVE  SessionInv'
  <2>1. readyState' = [w \in Sockets |-> IF w \in S THEN "CLOSING" ELSE readyState[w]]
    BY <1>3 DEF CloseAll
  <2>2. SameLife
    BY <1>3, <2>1, ClosingIsLife
  <2>3. QED BY <1>1, <1>3, <2>2, StaysPut
<1>4. ASSUME NEW w \in Sockets, Close(w)
      PROVE  SessionInv'
  BY <1>3, <1>4 DEF Close
<1>5. CASE CloseServer
  <2>1. {w \in clients : readyState[w] = "OPEN"} \in SUBSET Sockets
    BY DEF SessionInv
  <2>2. QED BY <1>3, <1>5, <2>1 DEF CloseServer
<1>6. ASSUME NEW w \in Sockets, Terminate(w)
      PROVE  SessionInv'
  <2>1. /\ readyState[w] \in {"OPEN", "CLOSING"} /\ readyState' = [readyState EXCEPT ![w] = "CLOSING"]
        /\ Call(TerminateSteps(w))
    BY <1>6 DEF Terminate
  <2>2. SameLife /\ readyState'[w] \in Live
    BY <2>1, OneClosing DEF SessionInv, Live
  <2>3. QED BY <1>1, <2>1, <2>2, Grows, PushTerminate
<1>7. QED BY <1>2, <1>4, <1>5, <1>6

LEMMA SessionInvariant == Spec => []SessionInv
<1>1. Init => SessionInv
  BY EmptySeq DEF Init, SessionInv, StackKnown, InUpgrade, ReadyState
<1>2. SessionInv /\ [Next]_vars => SessionInv'
  <2> SUFFICES ASSUME SessionInv, [Next]_vars
               PROVE  SessionInv'
    OBVIOUS
  <2>1. CASE UNCHANGED vars
    <3>1. UNCHANGED <<stack, readyState, external, clients>>
      BY <2>1 DEF vars, serverVars, sessionVars
    <3>2. QED BY <3>1, StaysPut, ClosingIsLife
  <2>2. CASE Next
    BY <2>2, HandleUpgradeKeeps, HeadersEmittedKeeps, FinalizeCloseKeeps, ThreadKeeps, ReadsKeep,
       SocketKeeps, ApplicationKeeps DEF Next, Proceed, Application
  <2>3. QED BY <2>1, <2>2
<1>3. QED BY <1>1, <1>2, PTL DEF Spec

\* Every session that was made is that of a client or of an upgrade under way, and is
\* disposed of when that ends, whichever of the ways it takes.
THEOREM SessionsAreDisposed == Spec => []SessionsDisposed
BY SessionInvariant, InvHasSessionsDisposed, PTL

-----------------------------------------------------------------------------
(* Types *)

FlagsTyped ==
    /\ parserClosing \in [Sockets -> BOOLEAN] /\ closeSent \in [Sockets -> BOOLEAN]
    /\ ended \in [Sockets -> BOOLEAN] /\ destroyed \in [Sockets -> BOOLEAN]
    /\ gone \in [Sockets -> BOOLEAN] /\ peerEnded \in [Sockets -> BOOLEAN]

CountsTyped == reads \in [Sockets -> 0..MaxReads] /\ sends \in [Sockets -> 0..MaxSends]

DeadlineWhenClosing ==
    /\ closeTimer \in [Sockets -> {"off", "armed", "fired"}]
    /\ \A w \in Sockets : closeTimer[w] # "off" => readyState[w] = "CLOSING"

LEMMA TypeParts ==
    CloseInv /\ SessionInv /\ FlagsTyped /\ CountsTyped /\ DeadlineWhenClosing => TypeOK
<1> SUFFICES ASSUME CloseInv, SessionInv, FlagsTyped, CountsTyped, DeadlineWhenClosing
             PROVE  TypeOK
  OBVIOUS
<1>1. stack \in Seq(StepType) /\ readyState \in [Sockets -> ReadyState]
  BY DEF SessionInv, StackKnown
<1>2. closeEvents \in Nat
  BY DEF CloseInv, ServerClosesOnce
<1>3. QED BY <1>1, <1>2 DEF TypeOK, SessionInv, CloseInv, FlagsTyped, CountsTyped, DeadlineWhenClosing,
             StepType, StepName, ReadyState

LEMMA FlagsKept ==
    ASSUME FlagsTyped, Next
    PROVE  FlagsTyped'
<1>1. ASSUME NEW lost, NEW more, NEW told, Stream(lost, more, told)
      PROVE  destroyed' \in [Sockets -> BOOLEAN]
  BY <1>1 DEF Stream
<1>2. CASE Proceed \/ (Idle /\ Data) \/ FinishScheduled \/ CloseServer
  <2>1. CASE HeadersEmitted \/ Upgraded \/ FinalizeClose \/ FailWebSocket \/ UserReturns \/ FinishScheduled
    BY <2>1, <1>1 DEF HeadersEmitted, Upgraded, FinalizeClose, FailWebSocket, UserReturns, FinishScheduled,
       FlagsTyped, sessionVars, streamVars, peerVars
  <2>2. CASE HandleEvent
    BY <2>2, <1>1 DEF HandleEvent, WriteFrame, FlagsTyped, sessionVars, streamVars, peerVars
  <2>3. CASE Data
    BY <2>3 DEF Data, Consume, FlagsTyped, streamVars
  <2>4. CASE CloseServer
    BY <2>4, <1>1 DEF CloseServer, CloseAll, FlagsTyped, peerVars
  <2>5. QED BY <1>2, <2>1, <2>2, <2>3, <2>4 DEF Proceed
<1>3. ASSUME NEW w \in Sockets, Socket(w)
      PROVE  FlagsTyped'
  BY <1>3, <1>1 DEF Socket, SocketEnds, SocketFails, SocketCloses, Flush, AutoDestroy, CloseTimeout, FlagsTyped,
     sessionVars, streamVars, peerVars
<1>4. ASSUME NEW w \in Sockets, Application(w)
      PROVE  FlagsTyped'
  <2>1. CASE HandleUpgrade(w) \/ Terminate(w)
    BY <2>1, <1>1 DEF HandleUpgrade, Terminate, FlagsTyped, sessionVars, streamVars, peerVars
  <2>2. CASE Send(w)
    BY <2>2, <1>1 DEF Send, SendWrites, SendExceeds, SendThrows, FlagsTyped, sessionVars, peerVars
  <2>3. CASE Close(w)
    BY <2>3, <1>1 DEF Close, CloseAll, FlagsTyped, peerVars
  <2>4. QED BY <1>4, <2>1, <2>2, <2>3 DEF Application
<1>5. QED BY <1>2, <1>3, <1>4 DEF Next

LEMMA CountsKept ==
    ASSUME CountsTyped, SessionInv, Next
    PROVE  CountsTyped'
<1>1. CASE Data
  <2>1. ASSUME NEW w \in Sockets, reads[w] < MaxReads, reads' = [reads EXCEPT ![w] = @ + 1], UNCHANGED sends
        PROVE  CountsTyped'
    BY <2>1, ServerAssumption DEF CountsTyped
  <2>2. ASSUME Top("data")
        PROVE  Head(stack).on \in Sockets
    BY <2>2, TopKnown DEF StepName
  <2>3. \A w \in clients : w \in Sockets
    BY DEF SessionInv
  <2>4. QED BY <1>1, <2>1, <2>2, <2>3 DEF Data, Consume, CountsTyped
<1>2. ASSUME NEW w \in Sockets, Send(w)
      PROVE  CountsTyped'
  BY <1>2, ServerAssumption DEF Send, CountsTyped, peerVars
<1>3. CASE UNCHANGED <<reads, sends>>
  BY <1>3 DEF CountsTyped
<1>4. ASSUME NEW w \in Sockets, Socket(w) \/ HandleUpgrade(w) \/ Close(w) \/ Terminate(w)
      PROVE  UNCHANGED <<reads, sends>>
  BY <1>4 DEF Socket, SocketEnds, SocketFails, SocketCloses, Flush, AutoDestroy, CloseTimeout, HandleUpgrade,
     Close, Terminate, peerVars
<1>5. ASSUME \/ HeadersEmitted \/ Upgraded \/ HandleEvent \/ FinalizeClose \/ FailWebSocket \/ UserReturns
             \/ FinishScheduled \/ CloseServer
      PROVE  UNCHANGED <<reads, sends>>
  BY <1>5 DEF HeadersEmitted, Upgraded, HandleEvent, FinalizeClose, FailWebSocket, UserReturns, FinishScheduled,
     CloseServer, peerVars
<1>6. QED BY <1>1, <1>2, <1>3, <1>4, <1>5 DEF Next, Proceed, Application

\* A deadline is set by what makes a WebSocket CLOSING, and cleared when it is CLOSED.
LEMMA DeadlineKept ==
    ASSUME DeadlineWhenClosing, SessionInv, Next
    PROVE  DeadlineWhenClosing'
<1>1. ASSUME UNCHANGED closeTimer,
             \A w \in Sockets : readyState[w] = "CLOSING" => readyState'[w] = "CLOSING"
      PROVE  DeadlineWhenClosing'
  BY <1>1 DEF DeadlineWhenClosing
<1>2. ASSUME NEW S \in SUBSET Sockets, closeTimer' = TimersAfter(S),
             \A w \in Sockets : readyState[w] = "CLOSING" \/ w \in S => readyState'[w] = "CLOSING"
      PROVE  DeadlineWhenClosing'
  BY <1>2 DEF DeadlineWhenClosing, TimersAfter
<1>3. ASSUME NEW w \in Sockets, readyState' = [readyState EXCEPT ![w] = "CLOSING"]
      PROVE  /\ \A x \in Sockets : readyState[x] = "CLOSING" => readyState'[x] = "CLOSING"
             /\ readyState'[w] = "CLOSING"
  BY <1>3 DEF SessionInv
<1>4. ASSUME NEW w \in Sockets, NEW state, readyState[w] # "CLOSING",
             readyState' = [readyState EXCEPT ![w] = state], UNCHANGED closeTimer
      PROVE  DeadlineWhenClosing'
  BY <1>1, <1>4 DEF SessionInv
<1>5. CASE HeadersEmitted
  <2>1. Head(stack).on \in Sockets /\ readyState[Head(stack).on] = "none"
    <3>1. stack # <<>> /\ Head(stack).at = "headers"
      BY <1>5 DEF HeadersEmitted, Top
    <3>2. Head(stack) = stack[1] /\ 1 \in 1..Len(stack)
      BY <3>1, EmptySeq DEF SessionInv, StackKnown
    <3>3. QED BY <3>1, <3>2 DEF SessionInv, StackKnown
  <2>2. QED BY <1>4, <1>5, <2>1 DEF HeadersEmitted, Refuse
<1>6. CASE Upgraded
  <2>1. Head(stack).on \in Sockets
    BY <1>6, TopKnown DEF Upgraded, StepName
  <2>2. QED BY <1>1, <1>3, <1>6, <2>1 DEF Upgraded
<1>7. CASE HandleEvent
  <2> DEFINE w == Head(stack).on
  <2>1. PICK event \in {"message", "pong", "reply", "peerClose"} : Top(event) /\ Head(stack).at = event
    BY <1>7 DEF HandleEvent, Top
  <2>2. w \in Sockets
    BY <2>1, TopKnown DEF StepName
  <2>3. CASE UNCHANGED <<readyState, closeTimer>>
    BY <1>1, <2>3
  <2>4. CASE readyState' = [readyState EXCEPT ![w] = "CLOSING"] /\ UNCHANGED closeTimer
    BY <1>1, <1>3, <2>2, <2>4
  <2>5. CASE readyState' = [readyState EXCEPT ![w] = "CLOSING"] /\ closeTimer' = TimersAfter({w})
    <3>1. {w} \in SUBSET Sockets
      BY <2>2
    <3>2. QED BY <1>2, <1>3, <2>2, <2>5, <3>1
  <2>6. QED BY <1>7, <2>3, <2>4, <2>5 DEF HandleEvent, WriteFrame
<1>8. CASE FinalizeClose
  <2> DEFINE w == Head(stack).on
  <2>1. w \in Sockets
    BY <1>8, TopKnown DEF FinalizeClose, StepName
  <2>2. CASE UNCHANGED <<readyState, closeTimer>>
    BY <1>1, <2>2
  <2>3. CASE readyState' = [readyState EXCEPT ![w] = "CLOSED"] /\ ClearTimer(w)
    BY <2>1, <2>3 DEF DeadlineWhenClosing, SessionInv, ClearTimer
  <2>4. QED BY <1>8, <2>2, <2>3 DEF FinalizeClose
<1>9. CASE FailWebSocket \/ UserReturns \/ FinishScheduled \/ Data
  BY <1>1, <1>9 DEF FailWebSocket, UserReturns, FinishScheduled, Data
<1>10. ASSUME NEW S \in SUBSET Sockets, CloseAll(S)
       PROVE  DeadlineWhenClosing'
  <2>1. \A w \in Sockets : readyState[w] = "CLOSING" \/ w \in S => readyState'[w] = "CLOSING"
    BY <1>10 DEF CloseAll
  <2>2. QED BY <1>2, <1>10, <2>1 DEF CloseAll
<1>11. CASE CloseServer
  <2>1. {w \in clients : readyState[w] = "OPEN"} \in SUBSET Sockets
    BY DEF SessionInv
  <2>2. QED BY <1>10, <1>11, <2>1 DEF CloseServer
<1>12. ASSUME NEW w \in Sockets, Socket(w)
       PROVE  DeadlineWhenClosing'
  <2>1. CASE SocketEnds(w)
    BY <1>1, <2>1 DEF SocketEnds, SessionInv
  <2>2. CASE CloseTimeout(w)
    BY <2>2 DEF CloseTimeout, DeadlineWhenClosing
  <2>3. CASE SocketFails(w) \/ SocketCloses(w) \/ Flush(w) \/ AutoDestroy(w)
    BY <1>1, <2>3 DEF SocketFails, SocketCloses, Flush, AutoDestroy
  <2>4. QED BY <1>12, <2>1, <2>2, <2>3 DEF Socket
<1>13. ASSUME NEW w \in Sockets, Application(w)
       PROVE  DeadlineWhenClosing'
  <2>1. CASE HandleUpgrade(w)
    BY <1>1, <1>4, <2>1 DEF HandleUpgrade
  <2>2. CASE Send(w)
    BY <1>1, <1>3, <2>2 DEF Send, SendWrites, SendExceeds, SendThrows
  <2>3. CASE Close(w)
    BY <1>10, <2>3 DEF Close
  <2>4. CASE Terminate(w)
    BY <1>1, <1>3, <2>4 DEF Terminate
  <2>5. QED BY <1>13, <2>1, <2>2, <2>3, <2>4 DEF Application
<1>14. QED BY <1>5, <1>6, <1>7, <1>8, <1>9, <1>11, <1>12, <1>13 DEF Next, Proceed

\* Every variable keeps its type, the clients are the WebSockets that are there and not
\* CLOSED, and a deadline runs only for one that is CLOSING: _finalizeClose() clears it.
THEOREM TypeCorrect == Spec => []TypeOK
<1> DEFINE Rest == FlagsTyped /\ CountsTyped /\ DeadlineWhenClosing
<1>1. Init => Rest
  BY ServerAssumption DEF Init, FlagsTyped, CountsTyped, DeadlineWhenClosing
<1>2. SessionInv /\ Rest /\ [Next]_vars => Rest'
  <2>1. SessionInv /\ Rest /\ Next => Rest'
    BY FlagsKept, CountsKept, DeadlineKept
  <2>2. Rest /\ UNCHANGED vars => Rest'
    BY DEF FlagsTyped, CountsTyped, DeadlineWhenClosing, vars, sessionVars, streamVars, peerVars
  <2>3. QED BY <2>1, <2>2
<1>3. CloseInv /\ SessionInv /\ Rest => TypeOK
  BY TypeParts
<1>4. QED BY <1>1, <1>2, <1>3, CloseInvariant, SessionInvariant, PTL DEF Spec

-----------------------------------------------------------------------------
(* What a peer gets and what waits for it.  The proof looks at a step      *)
(* three times: at the frames it adds or drops, at the session's flags and *)
(* states, and at the events it leaves on the stack.  The invariants       *)
(* follow from these effects alone.                                        *)

Kinds == {"app", "close", "reply", "pong", "response"}
FrameType == [kind : Kinds, send : Nat]

FramesTyped ==
    /\ queue \in [Sockets -> Seq(FrameType)] /\ wire \in [Sockets -> Seq(FrameType)]
    /\ sends \in [Sockets -> Nat]

-----------------------------------------------------------------------------
(* What a step does to the frames of a socket *)

Keeps(w) == wire'[w] = wire[w] /\ (queue'[w] = <<>> \/ queue'[w] = queue[w])

\* What a frame may be added for.
Reason(w, kind) ==
    \/ kind = "pong" /\ stack # <<>> /\ Head(stack) = Step("pong", w)
    \/ kind = "reply" /\ stack # <<>> /\ Head(stack) = Step("reply", w)
    \/ kind = "close" /\ ~closeSent[w] /\ closeSent'[w] /\ readyState'[w] = "CLOSING"
    \/ kind = "app" /\ MayAct /\ readyState[w] = "OPEN"
    \/ kind = "response" /\ readyState[w] = "none"

Adds(w) ==
    \E f \in FrameType :
        /\ wire'[w] = wire[w] /\ queue'[w] = Append(queue[w], f)
        /\ Reason(w, f.kind) /\ readyState'[w] \in Live
        /\ Accepts(w) \/ queue[w] = <<>>

Flushes(w) ==
    /\ queue[w] # <<>>
    /\ queue'[w] = Tail(queue[w]) /\ wire'[w] = Append(wire[w], Head(queue[w]))

Effects ==
    /\ queue' \in [Sockets -> Seq(FrameType)] /\ wire' \in [Sockets -> Seq(FrameType)]
    /\ \A w \in Sockets : Keeps(w) \/ Adds(w) \/ Flushes(w)

LEMMA FrameTyped ==
    ASSUME NEW kind \in Kinds, NEW n \in Nat
    PROVE  Frame(kind, n) \in FrameType /\ Frame(kind, n).kind = kind
BY DEF Frame, FrameType

\* Stream() drops the frames of a socket or adds what it is given.
LEMMA StreamQueues ==
    ASSUME FramesTyped, NEW lost, NEW more, NEW told, Stream(lost, more, told),
           \A w \in Sockets : more[w] = <<>> \/ \E f \in FrameType : more[w] = <<f>>
    PROVE  /\ queue' \in [Sockets -> Seq(FrameType)]
           /\ \A w \in Sockets :
                 \/ queue'[w] = <<>> \/ queue'[w] = queue[w]
                 \/ \E f \in FrameType : more[w] = <<f>> /\ queue'[w] = Append(queue[w], f)
           /\ \A w \in Sockets : w \in lost => queue'[w] = <<>>
<1>1. queue' = [w \in Sockets |-> IF destroyed'[w] THEN <<>> ELSE queue[w] \o more[w]]
  BY DEF Stream
<1>2. ASSUME NEW w \in Sockets, more[w] = <<>>
      PROVE  queue[w] \o more[w] = queue[w]
  BY <1>2, ConcatEmptySeq DEF FramesTyped
<1>3. ASSUME NEW w \in Sockets, NEW f \in FrameType, more[w] = <<f>>
      PROVE  queue[w] \o more[w] = Append(queue[w], f) /\ Append(queue[w], f) \in Seq(FrameType)
  BY <1>3, AppendIsConcat, AppendProperties DEF FramesTyped
<1>4. <<>> \in Seq(FrameType) /\ \A w \in Sockets : queue[w] \in Seq(FrameType)
  BY EmptySeq DEF FramesTyped
<1>5. \A w \in Sockets : queue'[w] = IF destroyed'[w] THEN <<>> ELSE queue[w] \o more[w]
  BY <1>1
<1>6. ASSUME NEW w \in Sockets
      PROVE  /\ queue'[w] \in Seq(FrameType)
             /\ \/ queue'[w] = <<>> \/ queue'[w] = queue[w]
                \/ \E f \in FrameType : more[w] = <<f>> /\ queue'[w] = Append(queue[w], f)
  BY <1>2, <1>3, <1>4, <1>5
<1>7. \A w \in Sockets : w \in lost => queue'[w] = <<>>
  BY <1>5 DEF Stream
<1>8. QED BY <1>1, <1>6, <1>7

\* Nothing is added.
LEMMA StreamLoses ==
    ASSUME FramesTyped, NEW lost, NEW told, Stream(lost, Nothing, told), UNCHANGED wire
    PROVE  Effects
<1>1. \A w \in Sockets : Nothing[w] = <<>>
  BY DEF Nothing
<1>2. \A f \in FrameType : <<>> # <<f>>
  OBVIOUS
<1>3. /\ queue' \in [Sockets -> Seq(FrameType)]
      /\ \A w \in Sockets : queue'[w] = <<>> \/ queue'[w] = queue[w]
  <2>1. \A w \in Sockets : Nothing[w] = <<>> \/ \E f \in FrameType : Nothing[w] = <<f>>
    BY <1>1
  <2>2. /\ queue' \in [Sockets -> Seq(FrameType)]
        /\ \A w \in Sockets :
              \/ queue'[w] = <<>> \/ queue'[w] = queue[w]
              \/ \E f \in FrameType : Nothing[w] = <<f>> /\ queue'[w] = Append(queue[w], f)
    BY <2>1, StreamQueues
  <2>3. QED BY <1>1, <1>2, <2>2
<1>4. QED BY <1>3 DEF Effects, Keeps, FramesTyped

\* One frame is added.
LEMMA StreamAdds ==
    ASSUME FramesTyped, NEW told, NEW w \in Sockets, NEW f \in FrameType,
           Stream({}, Of(w, <<f>>), told), UNCHANGED wire,
           Reason(w, f.kind), readyState'[w] \in Live, Accepts(w) \/ queue[w] = <<>>
    PROVE  Effects
<1> DEFINE more == Of(w, <<f>>)
<1>1. \A x \in Sockets : more[x] = IF x = w THEN <<f>> ELSE <<>>
  BY DEF Of, Nothing
<1>2. \A g \in FrameType : <<>> # <<g>> /\ (<<f>> = <<g>> => f = g)
  OBVIOUS
<1> HIDE DEF more
<1>3. /\ queue' \in [Sockets -> Seq(FrameType)]
      /\ \A x \in Sockets :
            \/ queue'[x] = <<>> \/ queue'[x] = queue[x]
            \/ \E g \in FrameType : more[x] = <<g>> /\ queue'[x] = Append(queue[x], g)
  BY <1>1, StreamQueues DEF more
<1>4. \A x \in Sockets : Keeps(x) \/ (x = w /\ queue'[x] = Append(queue[x], f))
  BY <1>1, <1>2, <1>3 DEF Keeps
<1>5. QED BY <1>3, <1>4 DEF Effects, Adds, FramesTyped

LEMMA NoFrames ==
    ASSUME FramesTyped, UNCHANGED <<queue, wire>>
    PROVE  Effects
BY DEF Effects, Keeps, FramesTyped

\* The step on top, in one piece.
LEMMA TopIsStep ==
    ASSUME SessionInv, NEW name, Top(name)
    PROVE  Head(stack) = Step(name, Head(stack).on) /\ stack # <<>>
<1>1. PICK top \in StepType : top = Head(stack)
  BY PoppedStack DEF SessionInv, Top, Known
<1>2. top = [at |-> top.at, on |-> top.on]
  BY DEF StepType
<1>3. QED BY <1>1, <1>2 DEF Top, Step

\* A frame that _writeFrame() makes, or what it does instead.
LEMMA WriteFrameEffects ==
    ASSUME FramesTyped, SessionInv, NEW w \in Sockets, readyState[w] \in Live,
           NEW kind \in {"pong", "reply"}, stack # <<>>, Head(stack) = Step(kind, w),
           WriteFrame(w, kind, <<>>), UNCHANGED wire
    PROVE  Effects
<1>1. Frame(kind, 0) \in FrameType /\ Frame(kind, 0).kind = kind
  BY FrameTyped DEF Kinds
<1>2. CASE Accepts(w) /\ Stream({}, Of(w, <<Frame(kind, 0)>>), Nothing) /\ UNCHANGED readyState
  <2>1. Reason(w, kind) /\ readyState'[w] \in Live
    BY <1>2 DEF Reason
  <2>2. QED BY <1>1, <1>2, <2>1, StreamAdds
<1>3. CASE Stream({w}, Nothing, Nothing)
  BY <1>3, StreamLoses
<1>4. CASE UNCHANGED streamVars
  BY <1>4, NoFrames DEF streamVars
<1>5. QED BY <1>2, <1>3, <1>4 DEF WriteFrame

LEMMA HeadersEmittedEffects ==
    ASSUME FramesTyped, SessionInv, HeadersEmitted,
           \A w \in Sockets : readyState[w] \notin Live => queue[w] = <<>>
    PROVE  Effects
<1> DEFINE w == Head(stack).on
<1>1. w \in Sockets /\ readyState[w] = "none" /\ UNCHANGED wire
  <2>1. stack # <<>> /\ Head(stack).at = "headers"
    BY DEF HeadersEmitted, Top
  <2>2. Head(stack) = stack[1] /\ 1 \in 1..Len(stack)
    BY <2>1, EmptySeq DEF SessionInv, StackKnown
  <2>3. QED BY <2>1, <2>2 DEF SessionInv, StackKnown, HeadersEmitted, peerVars
<1>2. CASE UNCHANGED streamVars
  BY <1>1, <1>2, NoFrames DEF streamVars
<1>3. CASE /\ readyState' = [readyState EXCEPT ![w] = "OPEN"]
           /\ Stream({}, Of(w, <<Frame("response", 0)>>), Nothing)
  <2>1. Reason(w, "response") /\ readyState'[w] \in Live /\ queue[w] = <<>>
    BY <1>1, <1>3 DEF Reason, Live, SessionInv
  <2>2. Frame("response", 0) \in FrameType /\ Frame("response", 0).kind = "response"
    BY FrameTyped DEF Kinds
  <2>3. QED BY <1>1, <1>3, <2>1, <2>2, StreamAdds
<1>4. QED BY <1>2, <1>3 DEF HeadersEmitted

LEMMA HandleEventEffects ==
    ASSUME FramesTyped, SessionInv, HandleEvent
    PROVE  Effects
<1> DEFINE w == Head(stack).on
<1>1. PICK event \in {"message", "pong", "reply", "peerClose"} : Top(event) /\ Head(stack).at = event
  BY DEF HandleEvent, Top
<1>2. w \in Sockets /\ readyState[w] \in Live /\ UNCHANGED wire
  BY <1>1, TopKnown DEF HandleEvent, StepName, peerVars
<1>3. Head(stack) = Step(event, w) /\ stack # <<>>
  BY <1>1, TopIsStep
<1>4. CASE UNCHANGED streamVars
  BY <1>2, <1>4, NoFrames DEF streamVars
<1>5. CASE event \in {"pong", "reply"} /\ WriteFrame(w, event, <<>>)
  BY <1>2, <1>3, <1>5, WriteFrameEffects
<1>6. QED BY <1>1, <1>4, <1>5 DEF HandleEvent

\* close() of several WebSockets, or of one.
LEMMA CloseAllEffects ==
    ASSUME FramesTyped, SessionInv, NEW S \in SUBSET Sockets, CloseAll(S), UNCHANGED wire
    PROVE  Effects
<1> DEFINE framed == {w \in S : ~closeSent[w] /\ writable(w)}
           tooMuch == {w \in framed : ~Accepts(w)}
           more == [w \in Sockets |-> IF w \in framed THEN <<Frame("close", 0)>> ELSE <<>>]
<1>1. Frame("close", 0) \in FrameType /\ Frame("close", 0).kind = "close"
  BY FrameTyped DEF Kinds
<1>2. /\ Stream(tooMuch, more, Nothing)
      /\ readyState' = [w \in Sockets |-> IF w \in S THEN "CLOSING" ELSE readyState[w]]
      /\ closeSent' = [w \in Sockets |-> closeSent[w] \/ w \in S]
  BY DEF CloseAll
<1>3. \A w \in Sockets : more[w] = IF w \in framed THEN <<Frame("close", 0)>> ELSE <<>>
  OBVIOUS
<1>4. \A w \in framed : Reason(w, "close") /\ readyState'[w] \in Live
  BY <1>2 DEF Reason, Live
<1>5. \A w \in framed : w \notin tooMuch => Accepts(w)
  OBVIOUS
<1> HIDE DEF more, framed, tooMuch
<1>6. /\ queue' \in [Sockets -> Seq(FrameType)]
      /\ \A w \in Sockets :
            \/ queue'[w] = <<>> \/ queue'[w] = queue[w]
            \/ \E f \in FrameType : more[w] = <<f>> /\ queue'[w] = Append(queue[w], f)
      /\ \A w \in Sockets : w \in tooMuch => queue'[w] = <<>>
  <2>1. \A w \in Sockets : more[w] = <<>> \/ \E f \in FrameType : more[w] = <<f>>
    BY <1>1, <1>3
  <2>2. QED BY <1>2, <2>1, StreamQueues
<1>7. ASSUME NEW w \in Sockets, ~Keeps(w)
      PROVE  Adds(w)
  <2>1. PICK f \in FrameType : more[w] = <<f>> /\ queue'[w] = Append(queue[w], f)
    BY <1>6, <1>7 DEF Keeps
  <2>2. w \in framed /\ f = Frame("close", 0)
    <3>1. \A g : <<>> # <<g>> /\ (<<g>> = <<f>> => f = g)
      OBVIOUS
    <3>2. QED BY <1>3, <2>1, <3>1
  <2>3. w \notin tooMuch
    BY <1>6, <1>7 DEF Keeps
  <2>4. QED BY <1>1, <1>4, <1>5, <2>1, <2>2, <2>3 DEF Adds
<1>8. QED BY <1>6, <1>7 DEF Effects, FramesTyped

LEMMA SendEffects ==
    ASSUME FramesTyped, SessionInv, NEW w \in Sockets, Send(w)
    PROVE  Effects
<1> DEFINE n == sends[w] + 1
<1>1. n \in Nat /\ UNCHANGED wire /\ readyState[w] = "OPEN" /\ MayAct
  BY DEF FramesTyped, Send, MaySend, peerVars
<1>2. CASE SendWrites(w, n)
  <2>1. Frame("app", n) \in FrameType /\ Frame("app", n).kind = "app"
    BY <1>1, FrameTyped DEF Kinds
  <2>2. Reason(w, "app") /\ readyState'[w] \in Live /\ Accepts(w)
    BY <1>1, <1>2 DEF Reason, Live, SendWrites
  <2>3. QED BY <1>1, <1>2, <2>1, <2>2, StreamAdds DEF SendWrites
<1>3. CASE SendExceeds(w, n) \/ SendThrows(w, n)
  BY <1>1, <1>3, StreamLoses DEF SendExceeds, SendThrows
<1>4. QED BY <1>2, <1>3 DEF Send

LEMMA SocketEffects ==
    ASSUME FramesTyped, NEW w \in Sockets, Socket(w)
    PROVE  Effects
<1>1. CASE Flush(w)
  <2>1. queue[w] \in Seq(FrameType) /\ wire[w] \in Seq(FrameType) /\ queue[w] # <<>>
    BY <1>1 DEF FramesTyped, Flush
  <2>2. /\ queue' = [queue EXCEPT ![w] = Tail(queue[w])]
        /\ wire' = [wire EXCEPT ![w] = Append(wire[w], Head(queue[w]))]
    BY <1>1 DEF Flush
  <2>3. Tail(queue[w]) \in Seq(FrameType) /\ Append(wire[w], Head(queue[w])) \in Seq(FrameType)
    BY <2>1, HeadTailProperties, AppendProperties
  <2>4. \A x \in Sockets : x # w => Keeps(x)
    BY <2>2 DEF Keeps, FramesTyped
  <2>5. Flushes(w)
    BY <2>1, <2>2 DEF Flushes, FramesTyped
  <2>6. QED BY <2>2, <2>3, <2>4, <2>5 DEF Effects, FramesTyped
<1>2. CASE SocketFails(w) \/ AutoDestroy(w) \/ CloseTimeout(w)
  BY <1>2, StreamLoses DEF SocketFails, AutoDestroy, CloseTimeout, peerVars
<1>3. CASE SocketEnds(w) \/ SocketCloses(w)
  BY <1>3, NoFrames DEF SocketEnds, SocketCloses, streamVars
<1>4. QED BY <1>1, <1>2, <1>3 DEF Socket

LEMMA StepEffects ==
    ASSUME FramesTyped, SessionInv, Next,
           \A w \in Sockets : readyState[w] \notin Live => queue[w] = <<>>
    PROVE  Effects
<1>1. CASE Upgraded \/ FailWebSocket
  BY <1>1, StreamLoses, NoFrames DEF Upgraded, FailWebSocket, streamVars, peerVars
<1>2. CASE FinalizeClose \/ UserReturns \/ FinishScheduled \/ Data
  BY <1>2, NoFrames DEF FinalizeClose, UserReturns, FinishScheduled, Data, streamVars, peerVars
<1>3. CASE CloseServer
  <2>1. {w \in clients : readyState[w] = "OPEN"} \in SUBSET Sockets
    BY DEF SessionInv
  <2>2. QED BY <1>3, <2>1, CloseAllEffects DEF CloseServer, peerVars
<1>4. ASSUME NEW w \in Sockets, Application(w)
      PROVE  Effects
  <2>1. CASE HandleUpgrade(w)
    BY <2>1, NoFrames DEF HandleUpgrade, streamVars, peerVars
  <2>2. CASE Close(w)
    BY <2>2, CloseAllEffects DEF Close, peerVars
  <2>3. CASE Terminate(w)
    BY <2>3, StreamLoses DEF Terminate, peerVars
  <2>4. QED BY <1>4, <2>1, <2>2, <2>3, SendEffects DEF Application
<1>5. QED BY <1>1, <1>2, <1>3, <1>4, HeadersEmittedEffects, HandleEventEffects, SocketEffects
          DEF Next, Proceed

-----------------------------------------------------------------------------
(* What a step does to states and to the session *)

CloseSentTyped == closeSent \in [Sockets -> BOOLEAN]

\* A WebSocket that is there stays one, it is OPEN from the upgrade on only, and what made
\* a Close is never taken back.
StateEffects ==
    \A w \in Sockets :
        /\ readyState[w] \in Live => readyState'[w] \in Live
        /\ readyState'[w] = "OPEN" => readyState[w] \in {"OPEN", "none"}
        /\ closeSent[w] => closeSent'[w]
        /\ closeSent'[w] /\ ~closeSent[w] => readyState'[w] \in Live

\* One WebSocket that is there is CLOSING or CLOSED now, or nothing changes.
LEMMA StateEnds ==
    ASSUME SessionInv, CloseSentTyped, UNCHANGED closeSent,
           \/ UNCHANGED readyState
           \/ \E w \in Sockets, state \in {"CLOSING", "CLOSED"} :
                 readyState' = [readyState EXCEPT ![w] = state]
    PROVE  StateEffects
BY DEF StateEffects, SessionInv, ReadyState, Live

LEMMA CloseAllStates ==
    ASSUME SessionInv, CloseSentTyped, NEW S \in SUBSET Sockets, CloseAll(S)
    PROVE  StateEffects
<1>1. /\ readyState' = [w \in Sockets |-> IF w \in S THEN "CLOSING" ELSE readyState[w]]
      /\ closeSent' = [w \in Sockets |-> closeSent[w] \/ w \in S]
  BY DEF CloseAll
<1>2. QED BY <1>1 DEF StateEffects, Live, CloseSentTyped

LEMMA DataStates ==
    ASSUME SessionInv, CloseSentTyped, Data
    PROVE  StateEffects
<1>1. ASSUME NEW w \in Sockets, readyState[w] \in Live, UNCHANGED readyState, NEW rest, Consume(w, rest)
      PROVE  StateEffects
  <2>1. CASE UNCHANGED closeSent
    BY <1>1, <2>1 DEF StateEffects
  <2>2. CASE \E closes \in BOOLEAN : closeSent' = [closeSent EXCEPT ![w] = @ \/ closes]
    BY <1>1, <2>2 DEF StateEffects, CloseSentTyped
  <2>3. QED BY <1>1, <2>1, <2>2 DEF Consume
<1>2. CASE Top("data") /\ Consume(Head(stack).on, Tail(stack))
  BY <1>1, <1>2, TopKnown DEF Data, StepName
<1>3. CASE \E w \in clients : Idle /\ Consume(w, <<>>)
  BY <1>1, <1>3 DEF Data, SessionInv, Live
<1>4. QED BY <1>2, <1>3 DEF Data

LEMMA StepStates ==
    ASSUME SessionInv, CloseSentTyped, Next
    PROVE  StateEffects
<1>1. CASE HeadersEmitted
  <2> DEFINE w == Head(stack).on
  <2>1. w \in Sockets /\ readyState[w] = "none"
    <3>1. stack # <<>> /\ Head(stack).at = "headers"
      BY <1>1 DEF HeadersEmitted, Top
    <3>2. Head(stack) = stack[1] /\ 1 \in 1..Len(stack)
      BY <3>1, EmptySeq DEF SessionInv, StackKnown
    <3>3. QED BY <3>1, <3>2 DEF SessionInv, StackKnown
  <2>2. UNCHANGED closeSent /\ \E state : readyState' = [readyState EXCEPT ![w] = state]
    BY <1>1 DEF HeadersEmitted, Refuse
  <2>3. QED BY <2>1, <2>2 DEF StateEffects, SessionInv, Live
<1>2. CASE Upgraded
  <2>1. Head(stack).on \in Sockets
    BY <1>2, TopKnown DEF Upgraded, StepName
  <2>2. QED BY <1>2, <2>1, StateEnds DEF Upgraded, sessionVars
<1>3. CASE HandleEvent
  <2>1. PICK event \in {"message", "pong", "reply", "peerClose"} : Top(event) /\ Head(stack).at = event
    BY <1>3 DEF HandleEvent, Top
  <2>2. Head(stack).on \in Sockets
    BY <2>1, TopKnown DEF StepName
  <2>3. UNCHANGED readyState \/ readyState' = [readyState EXCEPT ![Head(stack).on] = "CLOSING"]
    BY <1>3 DEF HandleEvent, WriteFrame
  <2>4. QED BY <1>3, <2>2, <2>3, StateEnds DEF HandleEvent, sessionVars
<1>4. CASE FinalizeClose
  <2>1. Head(stack).on \in Sockets
    BY <1>4, TopKnown DEF FinalizeClose, StepName
  <2>2. QED BY <1>4, <2>1, StateEnds DEF FinalizeClose
<1>5. CASE FailWebSocket \/ UserReturns \/ FinishScheduled
  BY <1>5, StateEnds DEF FailWebSocket, UserReturns, FinishScheduled, sessionVars
<1>6. CASE CloseServer
  <2>1. {w \in clients : readyState[w] = "OPEN"} \in SUBSET Sockets
    BY DEF SessionInv
  <2>2. QED BY <1>6, <2>1, CloseAllStates DEF CloseServer
<1>7. ASSUME NEW w \in Sockets, Socket(w)
      PROVE  StateEffects
  <2>1. CASE SocketEnds(w)
    <3>1. /\ readyState' = [readyState EXCEPT ![w] = IF @ = "OPEN" THEN "CLOSING" ELSE @]
          /\ UNCHANGED closeSent
      BY <2>1 DEF SocketEnds, sessionVars
    <3>2. QED BY <3>1 DEF StateEffects, SessionInv, Live
  <2>2. CASE SocketFails(w) \/ SocketCloses(w) \/ Flush(w) \/ AutoDestroy(w) \/ CloseTimeout(w)
    BY <2>2, StateEnds DEF SocketFails, SocketCloses, Flush, AutoDestroy, CloseTimeout, sessionVars
  <2>3. QED BY <1>7, <2>1, <2>2 DEF Socket
<1>8. ASSUME NEW w \in Sockets, Application(w)
      PROVE  StateEffects
  <2>1. CASE HandleUpgrade(w)
    <3>1. /\ readyState[w] = "none" /\ UNCHANGED closeSent
          /\ UNCHANGED readyState \/ readyState' = [readyState EXCEPT ![w] = "refused"]
      BY <2>1 DEF HandleUpgrade
    <3>2. QED BY <3>1 DEF StateEffects, SessionInv, Live
  <2>2. CASE Send(w)
    <3>1. UNCHANGED closeSent
      BY <2>2 DEF Send, sessionVars
    <3>2. UNCHANGED readyState \/ readyState' = [readyState EXCEPT ![w] = "CLOSING"]
      BY <2>2 DEF Send, SendWrites, SendExceeds, SendThrows
    <3>3. QED BY <3>1, <3>2, StateEnds
  <2>3. CASE Close(w)
    BY <2>3, CloseAllStates DEF Close
  <2>4. CASE Terminate(w)
    BY <2>4, StateEnds DEF Terminate, sessionVars
  <2>5. QED BY <1>8, <2>1, <2>2, <2>3, <2>4 DEF Application
<1>9. QED BY <1>1, <1>2, <1>3, <1>4, <1>5, <1>6, <1>7, <1>8, DataStates DEF Next, Proceed

-----------------------------------------------------------------------------
(* The limit *)

\* A socket has frames when it is that of a WebSocket: the response is the first.
QueueInv ==
    /\ queue \in [Sockets -> Seq(FrameType)] /\ wire \in [Sockets -> Seq(FrameType)]
    /\ \A w \in Sockets : readyState[w] \notin Live => queue[w] = <<>>
    /\ QueueBounded

LEMMA TypesGiven ==
    ASSUME TypeOK, QueueInv
    PROVE  FramesTyped /\ CloseSentTyped
BY ServerAssumption DEF TypeOK, QueueInv, FramesTyped, CloseSentTyped

LEMMA QueueKept ==
    ASSUME QueueInv, Effects, StateEffects
    PROVE  QueueInv'
<1>1. ASSUME NEW w \in Sockets, readyState'[w] \notin Live
      PROVE  queue'[w] = <<>>
  <2>1. queue[w] = <<>>
    BY <1>1 DEF QueueInv, StateEffects
  <2>2. QED BY <1>1, <2>1 DEF Effects, Keeps, Adds, Flushes
<1>2. ASSUME MaxBackpressure # 0, NEW w \in Sockets
      PROVE  Len(queue'[w]) <= MaxBackpressure
  <2>1. queue[w] \in Seq(FrameType) /\ Len(queue[w]) \in Nat /\ Len(queue[w]) <= MaxBackpressure
    BY <1>2, LenProperties DEF QueueInv, QueueBounded
  <2>2. MaxBackpressure \in Nat \ {0} /\ Len(<<>>) = 0
    BY <1>2, ServerAssumption
  <2>3. CASE Keeps(w)
    BY <2>1, <2>2, <2>3 DEF Keeps
  <2>4. CASE Adds(w)
    <3>1. PICK f \in FrameType : queue'[w] = Append(queue[w], f) /\ (Accepts(w) \/ queue[w] = <<>>)
      BY <2>4 DEF Adds
    <3>2. Len(queue'[w]) = Len(queue[w]) + 1
      BY <2>1, <3>1, AppendProperties
    <3>3. QED BY <1>2, <2>1, <2>2, <3>1, <3>2 DEF Accepts
  <2>5. CASE Flushes(w)
    <3>1. Len(queue'[w]) = Len(queue[w]) - 1
      BY <2>1, <2>5, HeadTailProperties DEF Flushes
    <3>2. QED BY <2>1, <2>2, <3>1
  <2>6. QED BY <2>3, <2>4, <2>5 DEF Effects
<1>3. QED BY <1>1, <1>2 DEF QueueInv, QueueBounded, Effects

LEMMA QueueInvariant == Spec => []QueueInv
<1>1. Init => QueueInv
  BY EmptySeq, ServerAssumption DEF Init, QueueInv, QueueBounded, Nothing
<1>2. TypeOK /\ SessionInv /\ QueueInv /\ [Next]_vars => QueueInv'
  <2> SUFFICES ASSUME TypeOK, SessionInv, QueueInv, [Next]_vars
               PROVE  QueueInv'
    OBVIOUS
  <2>1. CASE UNCHANGED vars
    BY <2>1 DEF vars, streamVars, peerVars, QueueInv, QueueBounded
  <2>2. CASE Next
    <3>1. FramesTyped /\ CloseSentTyped
      BY TypesGiven
    <3>2. Effects
      BY <2>2, <3>1, StepEffects DEF QueueInv
    <3>3. StateEffects
      BY <2>2, <3>1, StepStates
    <3>4. QED BY <3>2, <3>3, QueueKept
  <2>3. QED BY <2>1, <2>2
<1>3. QED BY <1>1, <1>2, TypeCorrect, SessionInvariant, PTL DEF Spec

\* No socket holds more frames than the limit, whoever adds them: sends, the pongs and the
\* Close of a read, close() of the WebSocket or of the server, and the response itself,
\* which is not checked.
THEOREM QueueIsBounded == Spec => []QueueBounded
<1>1. QueueInv => QueueBounded
  BY DEF QueueInv
<1>2. QED BY <1>1, QueueInvariant, PTL

-----------------------------------------------------------------------------
(* What a step does to the replies that are to be written *)

Reply(w) == Step("reply", w)
Replies(w) == \E i \in 1..Len(stack) : stack[i] = Reply(w)

\* A reply is followed by the peer's Close it answers, and there is no other.
RepliesApart ==
    \A w \in Sockets : \A i \in 1..Len(stack) :
        stack[i] = Reply(w) =>
            /\ i < Len(stack) /\ stack[i + 1] = Step("peerClose", w)
            /\ \A j \in 1..Len(stack) : stack[j] = Reply(w) => j = i

\* Steps put over the stack, or over what is left of it, add no reply.
PushesNoReply ==
    \E steps \in Seq(StepType) :
        /\ \A i \in 1..Len(steps) : \A w \in Sockets : steps[i] # Reply(w)
        /\ \/ stack' = steps \o stack
           \/ stack # <<>> /\ stack' = steps \o Tail(stack)

\* The positions of the stack after a step, seen from those before.
Shift(n, d) ==
    /\ Len(stack') = n + Len(stack) - d
    /\ \A i \in 1..Len(stack') : i > n =>
          i - n + d \in 1..Len(stack) /\ stack'[i] = stack[i - n + d]

LEMMA StackShifts ==
    ASSUME StackKnown, NEW steps \in Seq(StepType), NEW base,
           \/ base = stack
           \/ base = Tail(stack) /\ stack # <<>>,
           stack' = steps \o base
    PROVE  /\ stack' \in Seq(StepType)
           /\ \E d \in {0, 1} : Shift(Len(steps), d)
           /\ \A i \in 1..Len(steps) : i \in 1..Len(stack') /\ stack'[i] = steps[i]
<1>1. PICK d \in {0, 1} :
         /\ base \in Seq(StepType) /\ Len(base) \in Nat /\ Len(stack) = Len(base) + d
         /\ \A i \in 1..Len(base) : base[i] = stack[i + d]
  <2>1. CASE base = stack
    BY <2>1, LenProperties DEF StackKnown
  <2>2. CASE base = Tail(stack) /\ stack # <<>>
    BY <2>2, PoppedStack
  <2>3. QED BY <2>1, <2>2
<1>2. Len(steps) \in Nat
  BY LenProperties
<1>3. /\ stack' \in Seq(StepType) /\ Len(stack') = Len(steps) + Len(base)
      /\ \A i \in 1..Len(steps) + Len(base) :
            stack'[i] = IF i <= Len(steps) THEN steps[i] ELSE base[i - Len(steps)]
  BY <1>1, ConcatProperties
<1>4. ASSUME NEW i \in 1..Len(stack'), i > Len(steps)
      PROVE  i - Len(steps) + d \in 1..Len(stack) /\ stack'[i] = stack[i - Len(steps) + d]
  <2>1. i - Len(steps) \in 1..Len(base) /\ stack'[i] = base[i - Len(steps)]
    BY <1>1, <1>2, <1>3, <1>4
  <2>2. QED BY <1>1, <2>1
<1>5. Shift(Len(steps), d)
  BY <1>1, <1>2, <1>3, <1>4 DEF Shift
<1>6. \A i \in 1..Len(steps) : i \in 1..Len(stack') /\ stack'[i] = steps[i]
  BY <1>1, <1>2, <1>3
<1>7. QED BY <1>1, <1>3, <1>5, <1>6

LEMMA ApartKept ==
    ASSUME StackKnown, RepliesApart, PushesNoReply
    PROVE  /\ RepliesApart'
           /\ \A w \in Sockets : Replies(w)' => Replies(w)
<1>1. PICK steps \in Seq(StepType) :
         /\ \A i \in 1..Len(steps) : \A w \in Sockets : steps[i] # Reply(w)
         /\ \/ stack' = steps \o stack
            \/ stack # <<>> /\ stack' = steps \o Tail(stack)
  BY DEF PushesNoReply
<1> DEFINE n == Len(steps)
<1>2. PICK d \in {0, 1} :
         /\ Shift(n, d)
         /\ \A i \in 1..n : i \in 1..Len(stack') /\ stack'[i] = steps[i]
  BY <1>1, StackShifts
<1>3. n \in Nat /\ Len(stack) \in Nat
  BY LenProperties DEF StackKnown
<1>4. ASSUME NEW w \in Sockets, NEW i \in 1..Len(stack'), stack'[i] = Reply(w)
      PROVE  i > n /\ i - n + d \in 1..Len(stack) /\ stack[i - n + d] = Reply(w)
  BY SMTT(30), <1>1, <1>2, <1>3, <1>4 DEF Shift
<1>5. ASSUME NEW w \in Sockets, NEW i \in 1..Len(stack'), stack'[i] = Reply(w)
      PROVE  /\ i < Len(stack') /\ stack'[i + 1] = Step("peerClose", w)
             /\ \A j \in 1..Len(stack') : stack'[j] = Reply(w) => j = i
  <2>1. i > n /\ i - n + d \in 1..Len(stack) /\ stack[i - n + d] = Reply(w)
    BY <1>4, <1>5
  <2>2. i - n + d < Len(stack) /\ stack[i - n + d + 1] = Step("peerClose", w)
    BY <2>1 DEF RepliesApart
  <2>3. i < Len(stack') /\ i + 1 \in 1..Len(stack') /\ i + 1 > n
    BY <1>2, <1>3, <2>1, <2>2 DEF Shift
  <2>4. stack'[i + 1] = stack[i + 1 - n + d] /\ i + 1 - n + d = i - n + d + 1
    BY <1>2, <1>3, <2>3 DEF Shift
  <2>5. ASSUME NEW j \in 1..Len(stack'), stack'[j] = Reply(w)
        PROVE  j = i
    <3>1. j - n + d \in 1..Len(stack) /\ stack[j - n + d] = Reply(w)
      BY <1>4, <2>5
    <3>2. j - n + d = i - n + d
      BY <2>1, <3>1 DEF RepliesApart
    <3>3. QED BY <1>3, <3>2
  <2>6. QED BY <2>2, <2>3, <2>4, <2>5
<1>6. RepliesApart'
  BY <1>5 DEF RepliesApart, Reply, Step
<1>7. ASSUME NEW w \in Sockets, Replies(w)'
      PROVE  Replies(w)
  <2>1. PICK i \in 1..Len(stack') : stack'[i] = Reply(w)
    BY <1>7 DEF Replies, Reply, Step
  <2>2. QED BY <1>4, <2>1 DEF Replies
<1>8. QED BY <1>6, <1>7

\* A read that is to be answered pushes one reply, right before the peer's Close.
LEMMA EventsWithReply ==
    ASSUME NEW w \in Sockets, NEW body \in Bodies, ~closeSent[w],
           NEW e, e = Events(w, body, TRUE)
    PROVE  \E m \in Nat :
             /\ e \in Seq(StepType) /\ Len(e) = m + 2
             /\ \A i \in 1..m : \A x \in Sockets : e[i] # Reply(x)
             /\ e[m + 1] = Reply(w) /\ e[m + 2] = Step("peerClose", w)
<1> DEFINE messages == [k \in DOMAIN body |-> Step(body[k], w)]
           m == Len(body)
<1>1. body \in Seq({"message", "pong"})
  BY ServerAssumption
<1>2. m \in Nat /\ DOMAIN body = 1..m /\ \A k \in 1..m : body[k] \in {"message", "pong"}
  BY <1>1, LenProperties, ElementOfSeq
<1>3. /\ Reply(w) \in StepType /\ Step("peerClose", w) \in StepType
      /\ \A k \in 1..m : Step(body[k], w) \in StepType /\ \A x \in Sockets : Step(body[k], w) # Reply(x)
  BY <1>2 DEF Reply, Step, StepType, StepName
<1>4. /\ messages \in Seq(StepType) /\ Len(messages) = m
      /\ \A k \in 1..m : messages[k] = Step(body[k], w)
  BY <1>2, <1>3
<1>5. e = (messages \o <<Reply(w)>>) \o <<Step("peerClose", w)>>
  BY DEF Events, Reply
<1> HIDE DEF messages, m
<1>6. PICK s : s = messages \o <<Reply(w)>>
  OBVIOUS
<1>7. s = Append(messages, Reply(w)) /\ s \in Seq(StepType)
  BY <1>3, <1>4, <1>6, AppendIsConcat, AppendProperties
<1>8. Len(s) = m + 1 /\ s[m + 1] = Reply(w) /\ \A k \in 1..m : s[k] = messages[k]
  BY <1>3, <1>4, <1>7, AppendProperties
<1>9. e = Append(s, Step("peerClose", w))
  BY <1>3, <1>5, <1>6, <1>7, AppendIsConcat
<1>10. PICK t \in StepType : t = Step("peerClose", w) /\ e = Append(s, t)
  BY <1>3, <1>9
<1>11. /\ e \in Seq(StepType) /\ Len(e) = Len(s) + 1 /\ e[Len(s) + 1] = t
       /\ \A i \in 1..Len(s) : e[i] = s[i]
  <2>1. s \in Seq(StepType)
    BY <1>7
  <2>2. /\ Append(s, t) \in Seq(StepType) /\ Len(Append(s, t)) = Len(s) + 1
        /\ Append(s, t)[Len(s) + 1] = t /\ \A i \in 1..Len(s) : Append(s, t)[i] = s[i]
    BY <2>1, AppendProperties
  <2>3. QED BY <1>10, <2>2
<1>12. ASSUME NEW i \in 1..m, NEW x \in Sockets
       PROVE  e[i] # Reply(x)
  <2>1. i \in 1..Len(s)
    BY <1>2, <1>8
  <2>2. e[i] = Step(body[i], w)
    BY <1>4, <1>8, <1>11, <2>1
  <2>3. QED BY <1>3, <2>2
<1>13. Len(e) = m + 2 /\ e[m + 1] = Reply(w) /\ e[m + 2] = Step("peerClose", w)
  <2>1. m + 1 \in 1..Len(s) /\ Len(s) + 1 = m + 2
    BY <1>2, <1>8
  <2>2. QED BY <1>8, <1>10, <1>11, <2>1
<1>14. QED BY <1>2, <1>11, <1>12, <1>13

\* Any other read pushes none.
LEMMA EventsWithoutReply ==
    ASSUME NEW w \in Sockets, readyState'[w] \in Live, NEW body \in Bodies, NEW closes \in BOOLEAN,
           ~(closes /\ ~closeSent[w]), NEW e, e = Events(w, body, closes)
    PROVE  /\ e \in Seq(StepType)
           /\ \A i \in 1..Len(e) : \A x \in Sockets : e[i] # Reply(x)
<1> DEFINE messages == [k \in DOMAIN body |-> Step(body[k], w)]
           m == Len(body)
           close == IF closes THEN <<Step("peerClose", w)>> ELSE <<>>
<1>1. body \in Seq({"message", "pong"})
  BY ServerAssumption
<1>2. m \in Nat /\ DOMAIN body = 1..m /\ \A k \in 1..m : body[k] \in {"message", "pong"}
  BY <1>1, LenProperties, ElementOfSeq
<1>3. /\ Step("peerClose", w) \in StepType /\ \A x \in Sockets : Step("peerClose", w) # Reply(x)
      /\ \A k \in 1..m : Step(body[k], w) \in StepType /\ \A x \in Sockets : Step(body[k], w) # Reply(x)
  BY <1>2 DEF Reply, Step, StepType, StepName
<1>4. /\ messages \in Seq(StepType) /\ Len(messages) = m
      /\ \A k \in 1..m : messages[k] = Step(body[k], w)
  BY <1>2, <1>3
<1>5. e = (messages \o <<>>) \o close
  BY DEF Events
<1> HIDE DEF messages, m
<1>6. messages \o <<>> = messages
  BY <1>4, ConcatEmptySeq
<1>7. CASE closes
  <2>1. e = Append(messages, Step("peerClose", w))
    BY <1>3, <1>4, <1>5, <1>6, <1>7, AppendIsConcat
  <2>2. /\ e \in Seq(StepType) /\ Len(e) = m + 1 /\ e[m + 1] = Step("peerClose", w)
        /\ \A i \in 1..m : e[i] = messages[i]
    BY <1>3, <1>4, <2>1, AppendProperties
  <2>3. QED BY <1>2, <1>3, <1>4, <2>2
<1>8. CASE ~closes
  <2>1. e = messages
    BY <1>4, <1>5, <1>6, <1>8, ConcatEmptySeq
  <2>2. QED BY <1>2, <1>3, <1>4, <2>1
<1>9. QED BY <1>7, <1>8

\* n steps are pushed, and one of them, right before a peer's Close, is a reply.
LEMMA ReplyPushed ==
    ASSUME StackKnown, RepliesApart, NEW w \in Sockets, ~Replies(w),
           NEW m \in Nat, NEW n \in Nat, n = m + 2, NEW d \in {0, 1}, Shift(n, d),
           \A i \in 1..n : i \in 1..Len(stack'),
           \A i \in 1..m : \A x \in Sockets : stack'[i] # Reply(x),
           stack'[m + 1] = Reply(w), stack'[m + 2] = Step("peerClose", w)
    PROVE  /\ RepliesApart'
           /\ \A x \in Sockets : Replies(x)' => x = w \/ Replies(x)
<1>1. Len(stack) \in Nat /\ Len(stack') = n + Len(stack) - d
  BY LenProperties DEF StackKnown, Shift
<1>2. /\ \A x \in Sockets : Step("peerClose", w) # Reply(x)
      /\ \A x \in Sockets : Reply(w) = Reply(x) => x = w
  BY DEF Reply, Step
<1>3. ASSUME NEW x \in Sockets, NEW i \in 1..Len(stack'), stack'[i] = Reply(x)
      PROVE  \/ x = w /\ i = m + 1
             \/ x # w /\ i > n /\ i - n + d \in 1..Len(stack) /\ stack[i - n + d] = Reply(x)
  <2>1. CASE i \in 1..m
    <3>1. i \in 1..n
      BY <2>1
    <3>2. QED BY <1>3, <2>1, <3>1
  <2>2. CASE i = m + 1
    <3>1. i \in 1..n
      BY <2>2
    <3>2. QED BY <1>2, <1>3, <2>2, <3>1
  <2>3. CASE i = m + 2
    <3>1. i \in 1..n
      BY <2>3
    <3>2. QED BY <1>2, <1>3, <2>3, <3>1
  <2>4. CASE i > n
    <3>1. i - n + d \in 1..Len(stack) /\ stack[i - n + d] = Reply(x)
      BY <1>3, <2>4 DEF Shift
    <3>2. QED BY <2>4, <3>1 DEF Replies
  <2>5. QED BY <2>1, <2>2, <2>3, <2>4
<1>4. m + 1 \in 1..n /\ m + 2 \in 1..n /\ m + 1 + 1 = m + 2 /\ m + 1 < Len(stack')
  <2>1. m + 1 \in 1..n /\ m + 2 \in 1..n
    OBVIOUS
  <2>2. m + 2 \in 1..Len(stack')
    BY <2>1
  <2>3. Len(stack') \in Int
    BY <1>1
  <2>4. QED BY <2>1, <2>2, <2>3
<1>5. ASSUME NEW x \in Sockets, NEW i \in 1..Len(stack'), stack'[i] = Reply(x)
      PROVE  /\ i < Len(stack') /\ stack'[i + 1] = Step("peerClose", x)
             /\ \A j \in 1..Len(stack') : stack'[j] = Reply(x) => j = i
  <2>1. CASE x = w /\ i = m + 1
    <3>1. stack'[i + 1] = Step("peerClose", w)
      BY <1>4, <2>1
    <3>2. \A j \in 1..Len(stack') : stack'[j] = Reply(x) => j = i
      BY <1>3, <2>1
    <3>3. QED BY <1>4, <2>1, <3>1, <3>2
  <2>2. CASE x # w /\ i > n /\ i - n + d \in 1..Len(stack) /\ stack[i - n + d] = Reply(x)
    <3>1. i - n + d < Len(stack) /\ stack[i - n + d + 1] = Step("peerClose", x)
      BY <2>2 DEF RepliesApart
    <3>2. i < Len(stack') /\ i + 1 \in 1..Len(stack') /\ i + 1 > n
      BY <1>1, <2>2, <3>1
    <3>3. stack'[i + 1] = stack[i + 1 - n + d]
      BY <3>2 DEF Shift
    <3>4. i + 1 - n + d = i - n + d + 1
      OBVIOUS
    <3>5. ASSUME NEW j \in 1..Len(stack'), stack'[j] = Reply(x)
          PROVE  j = i
      <4>1. j - n + d \in 1..Len(stack) /\ stack[j - n + d] = Reply(x)
        BY <1>3, <2>2, <3>5
      <4>2. j - n + d = i - n + d
        BY <2>2, <4>1 DEF RepliesApart
      <4>3. QED BY <4>2
    <3>6. QED BY <3>1, <3>2, <3>3, <3>4, <3>5
  <2>3. QED BY <1>3, <1>5, <2>1, <2>2
<1>6. RepliesApart'
  BY <1>5 DEF RepliesApart, Reply, Step
<1>7. ASSUME NEW x \in Sockets, Replies(x)'
       PROVE  x = w \/ Replies(x)
  <2>1. PICK i \in 1..Len(stack') : stack'[i] = Reply(x)
    BY <1>7 DEF Replies, Reply, Step
  <2>2. QED BY <1>3, <2>1 DEF Replies
<1>8. QED BY <1>6, <1>7

\* The reply that a read pushes is the only one of its WebSocket.
LEMMA EventsApart ==
    ASSUME StackKnown, RepliesApart, NEW w \in Sockets, ~Replies(w), NEW body \in Bodies, ~closeSent[w],
           NEW base, base = stack \/ (base = Tail(stack) /\ stack # <<>>),
           stack' = Events(w, body, TRUE) \o base
    PROVE  /\ RepliesApart'
           /\ \A x \in Sockets : Replies(x)' => x = w \/ Replies(x)
<1>1. PICK e : e = Events(w, body, TRUE)
  OBVIOUS
<1>2. PICK m \in Nat :
         /\ e \in Seq(StepType) /\ Len(e) = m + 2
         /\ \A i \in 1..m : \A x \in Sockets : e[i] # Reply(x)
         /\ e[m + 1] = Reply(w) /\ e[m + 2] = Step("peerClose", w)
  BY ZenonT(30), <1>1, EventsWithReply
<1>3. stack' = e \o base
  BY <1>1
<1>4. PICK d \in {0, 1} : Shift(Len(e), d)
  BY <1>2, <1>3, StackShifts
<1>5. \A i \in 1..Len(e) : i \in 1..Len(stack') /\ stack'[i] = e[i]
  BY <1>2, <1>3, StackShifts
<1>6. /\ \A i \in 1..m : i \in 1..Len(e)
      /\ m + 1 \in 1..Len(e) /\ m + 2 \in 1..Len(e) /\ Len(e) \in Nat
  BY <1>2
<1>7. /\ \A i \in 1..m : \A x \in Sockets : stack'[i] # Reply(x)
      /\ stack'[m + 1] = Reply(w) /\ stack'[m + 2] = Step("peerClose", w)
  BY <1>2, <1>5, <1>6
<1>8. QED BY <1>2, <1>4, <1>5, <1>6, <1>7, ReplyPushed

\* A reply that is handled was the last of its WebSocket, and the Close is next.
LEMMA ReplyPopped ==
    ASSUME StackKnown, RepliesApart, NEW w \in Sockets, stack # <<>>, Head(stack) = Reply(w),
           NEW base, base = Tail(stack), stack' = base
    PROVE  ~Replies(w)' /\ stack' # <<>> /\ Head(stack') = Step("peerClose", w)
<1>1. /\ base \in Seq(StepType) /\ Len(base) \in Nat /\ Len(stack) = Len(base) + 1
      /\ \A i \in 1..Len(base) : base[i] = stack[i + 1]
      /\ Head(stack) = stack[1]
  BY PoppedStack
<1>2. 1 \in 1..Len(stack) /\ stack[1] = Reply(w)
  BY <1>1
<1>3. 1 < Len(stack) /\ stack[1 + 1] = Step("peerClose", w)
      /\ \A j \in 1..Len(stack) : stack[j] = Reply(w) => j = 1
  BY <1>2 DEF RepliesApart
<1>4. 1 \in 1..Len(base) /\ base[1] = Step("peerClose", w)
  BY <1>1, <1>3
<1>5. base # <<>> /\ Head(base) = base[1]
  <2>1. base # <<>>
    BY <1>4, EmptySeq
  <2>2. Len(base) \in Nat \ {0}
    BY <1>1, <2>1, EmptySeq
  <2>3. QED BY <1>1, <2>1, <2>2
<1>6. ASSUME NEW i \in 1..Len(base), base[i] = Reply(w)
      PROVE  FALSE
  <2>1. i + 1 \in 1..Len(stack) /\ stack[i + 1] = Reply(w)
    BY <1>1, <1>6
  <2>2. i + 1 = 1
    BY <1>3, <2>1
  <2>3. QED BY <2>2
<1>7. QED BY <1>4, <1>5, <1>6 DEF Replies, Reply, Step

\* A reply on the stack is one there was, or one that this read made.
StackEffects ==
    /\ RepliesApart'
    /\ \A w \in Sockets : Replies(w)' =>
          \/ Replies(w) /\ ~(stack # <<>> /\ Head(stack) = Reply(w))
          \/ ~closeSent[w] /\ closeSent'[w] /\ UNCHANGED <<queue, wire>>
    /\ \A w \in Sockets : stack # <<>> /\ Head(stack) = Reply(w) =>
          stack' # <<>> /\ Head(stack') = Step("peerClose", w)
    /\ \A w \in Sockets : stack # <<>> /\ Head(stack) = Step("peerClose", w) => readyState'[w] # "OPEN"

\* Neither a reply nor the peer's Close is next.
NoCloseNext == stack = <<>> \/ Head(stack).at \notin {"reply", "peerClose"}

LEMMA NoCloseStack ==
    ASSUME SessionInv, RepliesApart, NoCloseNext, PushesNoReply
    PROVE  StackEffects
<1>1. \A w \in Sockets : stack # <<>> => Head(stack) # Reply(w) /\ Head(stack) # Step("peerClose", w)
  BY DEF NoCloseNext, Reply, Step
<1>2. QED BY <1>1, ApartKept DEF StackEffects, SessionInv

LEMMA StayPushesNoReply ==
    ASSUME StackKnown, UNCHANGED stack
    PROVE  PushesNoReply
<1>1. PICK steps \in Seq(StepType) : steps = <<>> /\ Len(steps) = 0
  BY EmptySeq
<1>2. stack' = steps \o stack
  BY <1>1, ConcatEmptySeq DEF StackKnown
<1>3. \A i \in 1..Len(steps) : FALSE
  BY <1>1
<1>4. QED BY <1>2, <1>3 DEF PushesNoReply

\* What is pushed besides the events of a read.
LEMMA OthersPushNoReply ==
    ASSUME StackKnown, NEW steps, NEW w \in Sockets \cup {NoSocket}, NEW name \in StepName \ {"reply"},
           \/ steps = <<>> \/ steps = <<User>>
           \/ steps = <<Step(name, w)>> \/ steps = <<User, Step(name, w)>>,
           \/ Call(steps)
           \/ stack # <<>> /\ Continue(steps)
    PROVE  PushesNoReply
<1>1. /\ User \in StepType /\ Step(name, w) \in StepType
      /\ \A x \in Sockets : User # Reply(x) /\ Step(name, w) # Reply(x)
  BY DEF User, Step, Reply, StepType, StepName
<1>2. PICK u \in StepType, s \in StepType : u = User /\ s = Step(name, w)
  BY <1>1
<1>3. steps = <<>> \/ steps = <<u>> \/ steps = <<s>> \/ steps = <<u, s>>
  BY <1>2
<1>4. steps \in Seq(StepType) /\ \A i \in 1..Len(steps) : steps[i] = u \/ steps[i] = s
  <2>1. CASE steps = <<>>
    <3>1. steps \in Seq(StepType) /\ Len(steps) = 0
      BY <2>1, EmptySeq
    <3>2. QED BY <3>1
  <2>2. CASE steps = <<u>>
    BY <2>2
  <2>3. CASE steps = <<s>>
    BY <2>3
  <2>4. CASE steps = <<u, s>>
    BY <2>4
  <2>5. QED BY <1>3, <2>1, <2>2, <2>3, <2>4
<1>5. QED BY <1>1, <1>2, <1>4 DEF PushesNoReply, Call, Continue

LEMMA TerminatePushesNoReply ==
    ASSUME StackKnown, NEW w \in Sockets,
           \/ Call(TerminateSteps(w))
           \/ stack # <<>> /\ Continue(TerminateSteps(w))
    PROVE  PushesNoReply
<1>1. "_finalizeClose" \in StepName \ {"reply"}
  BY DEF StepName
<1>2. CASE destroyed[w]
  BY <1>1, <1>2, OthersPushNoReply DEF TerminateSteps
<1>3. CASE ~destroyed[w]
  BY <1>1, <1>3, OthersPushNoReply DEF TerminateSteps
<1>4. QED BY <1>2, <1>3

\* A read: the events of what it parsed, and a reply when it is the first Close.
LEMMA DataStack ==
    ASSUME SessionInv, CloseSentTyped, RepliesApart, \A w \in Sockets : Replies(w) => closeSent[w],
           Data
    PROVE  StackEffects
<1>1. UNCHANGED <<queue, wire, readyState>> /\ NoCloseNext
  BY DEF Data, streamVars, Top, Idle, NoCloseNext
<1>2. ASSUME NEW w \in Sockets, readyState[w] \in Live, NEW base,
             base = stack \/ (base = Tail(stack) /\ stack # <<>>), Consume(w, base)
      PROVE  StackEffects
  <2>1. CASE stack' = base
    <3>1. PushesNoReply
      <4>1. CASE base = stack
        BY <2>1, <4>1, StayPushesNoReply DEF SessionInv
      <4>2. CASE base = Tail(stack) /\ stack # <<>>
        <5>1. base \in Seq(StepType)
          BY <4>2, PoppedStack DEF SessionInv
        <5>2. stack # <<>> /\ Continue(<<>>)
          BY <2>1, <4>2, <5>1, ConcatEmptySeq DEF Continue
        <5>3. "user" \in StepName \ {"reply"}
          BY DEF StepName
        <5>4. QED BY <5>2, <5>3, OthersPushNoReply DEF SessionInv
      <4>3. QED BY <1>2, <4>1, <4>2
    <3>2. QED BY <1>1, <3>1, NoCloseStack
  <2>2. ASSUME NEW body \in Bodies, NEW closes \in BOOLEAN, stack' = Events(w, body, closes) \o base,
               closeSent' = [closeSent EXCEPT ![w] = @ \/ closes]
        PROVE  StackEffects
    <3>1. CASE closes /\ ~closeSent[w]
      <4>1. stack' = Events(w, body, TRUE) \o base /\ ~Replies(w)
        <5>1. closes = TRUE
          BY <3>1
        <5>2. QED BY <2>2, <3>1, <5>1
      <4>2. RepliesApart' /\ \A x \in Sockets : Replies(x)' => x = w \/ Replies(x)
        BY <1>2, <3>1, <4>1, EventsApart DEF SessionInv
      <4>3. \A x \in Sockets : stack # <<>> => Head(stack) # Reply(x) /\ Head(stack) # Step("peerClose", x)
        BY <1>1 DEF NoCloseNext, Reply, Step
      <4>4. closeSent'[w]
        BY <2>2, <3>1 DEF CloseSentTyped
      <4>5. QED BY <1>1, <3>1, <4>2, <4>3, <4>4 DEF StackEffects
    <3>2. CASE ~(closes /\ ~closeSent[w])
      <4>1. PICK e : e = Events(w, body, closes)
        OBVIOUS
      <4>2. e \in Seq(StepType) /\ \A i \in 1..Len(e) : \A x \in Sockets : e[i] # Reply(x)
        BY <1>1, <1>2, <3>2, <4>1, EventsWithoutReply
      <4>3. PushesNoReply
        BY <1>2, <2>2, <4>1, <4>2 DEF PushesNoReply
      <4>4. QED BY <1>1, <4>3, NoCloseStack
    <3>3. QED BY <3>1, <3>2
  <2>3. QED BY <1>2, <2>1, <2>2 DEF Consume
<1>3. CASE Top("data") /\ Consume(Head(stack).on, Tail(stack))
  <2>1. Head(stack).on \in Sockets /\ readyState[Head(stack).on] \in Live /\ stack # <<>>
    BY <1>3, TopKnown DEF StepName, Top
  <2>2. QED BY <1>2, <1>3, <2>1
<1>4. CASE \E w \in clients : Idle /\ Consume(w, <<>>)
  <2>1. PICK w \in clients : Idle /\ Consume(w, <<>>)
    BY <1>4
  <2>2. w \in Sockets /\ readyState[w] \in Live /\ stack = <<>>
    BY <2>1 DEF SessionInv, Live, Idle
  <2>3. Consume(w, stack)
    BY <2>1, <2>2
  <2>4. QED BY <1>2, <2>2, <2>3
<1>5. QED BY <1>3, <1>4 DEF Data

\* An event: of the replies only the one that is handled goes, and after the peer's Close
\* the WebSocket is not OPEN.
LEMMA HandleEventStack ==
    ASSUME SessionInv, RepliesApart, HandleEvent
    PROVE  StackEffects
<1> DEFINE w == Head(stack).on
<1>1. PICK event \in {"message", "pong", "reply", "peerClose"} : Top(event) /\ Head(stack).at = event
  BY DEF HandleEvent, Top
<1>2. w \in Sockets /\ Head(stack) = Step(event, w) /\ stack # <<>>
  BY <1>1, TopKnown, TopIsStep DEF StepName
<1>3. Continue(<<>>) \/ (event = "message" /\ Continue(<<User>>))
  BY <1>1 DEF HandleEvent, Return, WriteFrame
<1>4. PushesNoReply
  <2>1. "user" \in StepName \ {"reply"}
    BY DEF StepName
  <2>2. QED BY <1>2, <1>3, <2>1, OthersPushNoReply DEF SessionInv
<1>5. RepliesApart' /\ \A x \in Sockets : Replies(x)' => Replies(x)
  BY <1>4, ApartKept DEF SessionInv
<1>6. ASSUME NEW x \in Sockets, Head(stack) = Reply(x)
      PROVE  ~Replies(x)' /\ stack' # <<>> /\ Head(stack') = Step("peerClose", x)
  <2>1. event # "message"
    BY <1>2, <1>6 DEF Reply, Step
  <2>2. PICK base : base = Tail(stack)
    OBVIOUS
  <2>3. base \in Seq(StepType)
    BY <1>2, <2>2, PoppedStack DEF SessionInv
  <2>4. stack' = base
    BY <1>3, <2>1, <2>2, <2>3, ConcatEmptySeq DEF Continue
  <2>5. QED BY <1>2, <1>6, <2>2, <2>4, ReplyPopped DEF SessionInv
<1>7. ASSUME NEW x \in Sockets, Head(stack) = Step("peerClose", x)
      PROVE  readyState'[x] # "OPEN"
  <2>1. x = w /\ Head(stack).at = "peerClose"
    BY <1>2, <1>7 DEF Step
  <2>2. QED BY <1>2, <2>1 DEF HandleEvent, SessionInv
<1>8. QED BY <1>5, <1>6, <1>7 DEF StackEffects

LEMMA StepStack ==
    ASSUME SessionInv, CloseSentTyped, RepliesApart, \A w \in Sockets : Replies(w) => closeSent[w], Next
    PROVE  StackEffects
<1>1. {"user", "headers", "upgraded", "data", "_finalizeClose", "_fail"} \subseteq StepName \ {"reply"}
  BY DEF StepName
<1>2. StackKnown
  BY DEF SessionInv
<1>3. ASSUME NEW w \in Sockets \cup {NoSocket}, NEW name \in StepName \ {"reply"}, NEW steps,
             \/ steps = <<>> \/ steps = <<User>>
             \/ steps = <<Step(name, w)>> \/ steps = <<User, Step(name, w)>>,
             NoCloseNext, Call(steps) \/ (stack # <<>> /\ Continue(steps))
      PROVE  StackEffects
  BY <1>2, <1>3, OthersPushNoReply, NoCloseStack
<1>4. ASSUME NEW w \in Sockets, NoCloseNext,
             Call(TerminateSteps(w)) \/ (stack # <<>> /\ Continue(TerminateSteps(w)))
      PROVE  StackEffects
  BY <1>2, <1>4, TerminatePushesNoReply, NoCloseStack
<1>5. ASSUME NoCloseNext, UNCHANGED stack
      PROVE  StackEffects
  BY <1>2, <1>5, StayPushesNoReply, NoCloseStack
<1>6. CASE HeadersEmitted
  <2> DEFINE w == Head(stack).on
  <2>1. NoCloseNext /\ stack # <<>> /\ w \in Sockets
    <3>1. stack # <<>> /\ Head(stack).at = "headers"
      BY <1>6 DEF HeadersEmitted, Top
    <3>2. Head(stack) = stack[1] /\ 1 \in 1..Len(stack)
      BY <3>1, EmptySeq DEF SessionInv, StackKnown
    <3>3. QED BY <3>1, <3>2 DEF SessionInv, StackKnown, NoCloseNext
  <2>2. Continue(<<>>) \/ Continue(<<User>>) \/ Continue(<<User, Step("upgraded", w)>>)
    BY <1>6 DEF HeadersEmitted, Return
  <2>3. QED BY <1>1, <1>3, <2>1, <2>2
<1>7. CASE Upgraded
  <2> DEFINE w == Head(stack).on
  <2>1. NoCloseNext /\ stack # <<>> /\ w \in Sockets
    BY <1>7, TopKnown DEF Upgraded, Top, StepName, NoCloseNext
  <2>2. Continue(<<>>) \/ Continue(TerminateSteps(w)) \/ Continue(<<Step("data", w)>>)
    BY <1>7 DEF Upgraded, Return
  <2>3. QED BY <1>1, <1>3, <1>4, <2>1, <2>2
<1>8. CASE FinalizeClose
  <2> DEFINE w == Head(stack).on
  <2>1. NoCloseNext /\ stack # <<>> /\ w \in Sockets
    BY <1>8, TopKnown DEF FinalizeClose, Top, StepName, NoCloseNext
  <2>2. Continue(<<>>) \/ Continue(<<User>>)
    BY <1>8 DEF FinalizeClose, Return
  <2>3. QED BY <1>1, <1>3, <2>1, <2>2
<1>9. CASE FailWebSocket
  <2>1. NoCloseNext /\ stack # <<>> /\ Head(stack).on \in Sockets
    BY <1>9, TopKnown DEF FailWebSocket, Top, StepName, NoCloseNext
  <2>2. QED BY <1>4, <1>9, <2>1 DEF FailWebSocket
<1>10. CASE UserReturns \/ FinishScheduled
  <2>1. NoCloseNext
    BY <1>10 DEF UserReturns, FinishScheduled, Top, NoCloseNext
  <2>2. (stack # <<>> /\ Continue(<<>>)) \/ Call(<<User>>)
    BY <1>10 DEF UserReturns, FinishScheduled, Return, Top
  <2>3. NoSocket \in Sockets \cup {NoSocket}
    OBVIOUS
  <2>4. QED BY <1>1, <1>3, <2>1, <2>2, <2>3
<1>11. CASE CloseServer
  <2>1. NoCloseNext /\ UNCHANGED stack
    BY <1>11 DEF CloseServer, MayAct, Top, NoCloseNext
  <2>2. QED BY <1>5, <2>1
<1>12. ASSUME NEW w \in Sockets, Socket(w)
       PROVE  StackEffects
  <2>1. NoCloseNext
    BY <1>12 DEF Socket, SocketEnds, SocketFails, SocketCloses, Flush, AutoDestroy, CloseTimeout, Idle,
       NoCloseNext
  <2>2. UNCHANGED stack \/ Call(<<User>>) \/ Call(<<Step("_finalizeClose", w)>>)
    BY <1>12 DEF Socket, SocketEnds, SocketFails, SocketCloses, Flush, AutoDestroy, CloseTimeout
  <2>3. QED BY <1>1, <1>3, <1>5, <2>1, <2>2
<1>13. ASSUME NEW w \in Sockets, Application(w)
       PROVE  StackEffects
  <2>1. NoCloseNext
    BY <1>13 DEF Application, HandleUpgrade, Send, Close, Terminate, Idle, MayAct, Top, NoCloseNext
  <2>2. CASE HandleUpgrade(w)
    <3>1. UNCHANGED stack \/ Call(<<User, Step("headers", w)>>)
      BY <2>2 DEF HandleUpgrade
    <3>2. QED BY <1>1, <1>3, <1>5, <2>1, <3>1
  <2>3. CASE Send(w)
    <3>1. UNCHANGED stack \/ Call(TerminateSteps(w)) \/ Call(<<User, Step("_fail", w)>>)
      BY <2>3 DEF Send, SendWrites, SendExceeds, SendThrows
    <3>2. QED BY <1>1, <1>3, <1>4, <1>5, <2>1, <3>1
  <2>4. CASE Close(w) \/ Terminate(w)
    BY <1>4, <1>5, <2>1, <2>4 DEF Close, Terminate
  <2>5. QED BY <1>13, <2>2, <2>3, <2>4 DEF Application
<1>14. QED BY <1>6, <1>7, <1>8, <1>9, <1>10, <1>11, <1>12, <1>13, DataStack, HandleEventStack
           DEF Next, Proceed

-----------------------------------------------------------------------------
(* The order of the frames *)

Frames(w) == wire[w] \o queue[w]
HasClose(w) == \E i \in 1..Len(Frames(w)) : IsClose(Frames(w)[i])
Ordered(w) ==
    \A i, j \in 1..Len(Frames(w)) : i < j /\ IsClose(Frames(w)[i]) => Frames(w)[j].kind = "pong"

LEMMA EndDropped ==
    ASSUME NEW S, NEW s \in Seq(S), NEW t \in Seq(S)
    PROVE  /\ Len(s) \in Nat /\ Len(s \o t) \in Nat /\ Len(s) <= Len(s \o t)
           /\ \A i \in 1..Len(s) : s[i] = (s \o t)[i]
<1>1. Len(s) \in Nat /\ Len(t) \in Nat
  BY LenProperties
<1>2. /\ Len(s \o t) = Len(s) + Len(t)
      /\ \A i \in 1..Len(s) + Len(t) : (s \o t)[i] = IF i <= Len(s) THEN s[i] ELSE t[i - Len(s)]
  BY ConcatProperties
<1>3. QED BY <1>1, <1>2

LEMMA HeadMoved ==
    ASSUME NEW S, NEW s \in Seq(S), NEW t \in Seq(S), t # <<>>
    PROVE  Append(s, Head(t)) \o Tail(t) = s \o t
<1>1. PICK h \in S, r \in Seq(S) : h = Head(t) /\ r = Tail(t)
  BY HeadTailProperties
<1>2. <<h>> \in Seq(S) /\ t = <<h>> \o r
  BY <1>1
<1>3. Append(s, h) = s \o <<h>>
  BY AppendIsConcat
<1>4. (s \o <<h>>) \o r = s \o (<<h>> \o r)
  BY <1>2, ConcatAssociative
<1>5. QED BY <1>1, <1>2, <1>3, <1>4

LEMMA EndAdded ==
    ASSUME NEW S, NEW s \in Seq(S), NEW t \in Seq(S), NEW f \in S
    PROVE  s \o Append(t, f) = Append(s \o t, f) /\ s \o t \in Seq(S)
<1>1. <<f>> \in Seq(S) /\ s \o t \in Seq(S)
  BY ConcatProperties
<1>2. Append(t, f) = t \o <<f>> /\ Append(s \o t, f) = (s \o t) \o <<f>>
  BY <1>1, AppendIsConcat
<1>3. (s \o t) \o <<f>> = s \o (t \o <<f>>)
  BY <1>1, ConcatAssociative
<1>4. QED BY <1>1, <1>2, <1>3

\* Frames that are sent stay where they are, those that are dropped were the last.
LEMMA FramesGoOn ==
    ASSUME FramesTyped, NEW w \in Sockets, Keeps(w) \/ Flushes(w),
           NEW f, f = Frames(w), NEW g, g = Frames(w)'
    PROVE  /\ Len(f) \in Nat /\ Len(g) \in Nat /\ Len(g) <= Len(f)
           /\ \A i \in 1..Len(g) : g[i] = f[i]
<1>1. /\ wire[w] \in Seq(FrameType) /\ queue[w] \in Seq(FrameType)
      /\ f = wire[w] \o queue[w] /\ g = wire'[w] \o queue'[w]
  BY DEF FramesTyped, Frames
<1>2. CASE f = g
  <2>1. Len(f) \in Nat
    BY <1>1, ConcatProperties, LenProperties
  <2>2. QED BY <1>2, <2>1
<1>3. CASE Keeps(w) /\ queue'[w] = <<>>
  <2>1. g = wire[w]
    BY <1>1, <1>3, ConcatEmptySeq DEF Keeps
  <2>2. PICK p \in Seq(FrameType), q \in Seq(FrameType) : p = wire[w] /\ q = queue[w]
    BY <1>1
  <2>3. /\ Len(p) \in Nat /\ Len(p \o q) \in Nat /\ Len(p) <= Len(p \o q)
        /\ \A i \in 1..Len(p) : p[i] = (p \o q)[i]
    BY EndDropped
  <2>4. f = p \o q /\ g = p
    BY <1>1, <2>1, <2>2
  <2>5. QED BY <2>3, <2>4
<1>4. CASE Keeps(w) /\ queue'[w] = queue[w]
  BY <1>1, <1>2, <1>4 DEF Keeps
<1>5. CASE Flushes(w)
  <2>1. g = f
    BY <1>1, <1>5, HeadMoved DEF Flushes
  <2>2. QED BY <1>2, <2>1
<1>6. QED BY <1>3, <1>4, <1>5 DEF Keeps

\* A frame that is added is the last.
LEMMA FrameAdded ==
    ASSUME FramesTyped, NEW w \in Sockets, NEW new \in FrameType, wire'[w] = wire[w],
           queue'[w] = Append(queue[w], new),
           NEW f, f = Frames(w), NEW g, g = Frames(w)'
    PROVE  /\ Len(f) \in Nat /\ Len(g) = Len(f) + 1 /\ g[Len(f) + 1] = new
           /\ \A i \in 1..Len(f) : g[i] = f[i]
<1>1. wire[w] \in Seq(FrameType) /\ queue[w] \in Seq(FrameType)
  BY DEF FramesTyped
<1>2. f = wire[w] \o queue[w] /\ g = wire[w] \o Append(queue[w], new)
  BY DEF Frames
<1>3. f \in Seq(FrameType) /\ g = Append(f, new)
  <2>1. PICK p \in Seq(FrameType), q \in Seq(FrameType) : p = wire[w] /\ q = queue[w]
    BY <1>1
  <2>2. p \o Append(q, new) = Append(p \o q, new) /\ p \o q \in Seq(FrameType)
    BY EndAdded
  <2>3. f = p \o q /\ g = p \o Append(q, new)
    BY <1>2, <2>1
  <2>4. QED BY <2>2, <2>3
<1>4. /\ Len(Append(f, new)) = Len(f) + 1 /\ Append(f, new)[Len(f) + 1] = new
      /\ \A i \in 1..Len(f) : Append(f, new)[i] = f[i]
  BY <1>3, AppendProperties
<1>5. Len(f) \in Nat
  BY <1>3, LenProperties
<1>6. QED BY <1>3, <1>4, <1>5

\* Frames keep their order and a frame that is added may come last.
LEMMA OrderKept ==
    ASSUME FramesTyped, NEW w \in Sockets, Ordered(w), Keeps(w) \/ Flushes(w)
    PROVE  Ordered(w)' /\ (HasClose(w)' => HasClose(w))
<1>1. PICK f, g : f = Frames(w) /\ g = Frames(w)'
  OBVIOUS
<1>2. /\ Len(f) \in Nat /\ Len(g) \in Nat /\ Len(g) <= Len(f)
      /\ \A i \in 1..Len(g) : g[i] = f[i]
  BY <1>1, FramesGoOn
<1>3. \A i, j \in 1..Len(f) : i < j /\ IsClose(f[i]) => f[j].kind = "pong"
  BY <1>1 DEF Ordered
<1>4. \A i \in 1..Len(g) : i \in 1..Len(f)
  BY <1>2
<1>5. \A i, j \in 1..Len(g) : i < j /\ IsClose(g[i]) => g[j].kind = "pong"
  BY <1>2, <1>3, <1>4
<1>6. (\E i \in 1..Len(g) : IsClose(g[i])) => \E i \in 1..Len(f) : IsClose(f[i])
  BY <1>2, <1>4
<1>7. QED BY <1>1, <1>5, <1>6 DEF Ordered, HasClose, IsClose

LEMMA OrderExtended ==
    ASSUME FramesTyped, NEW w \in Sockets, Ordered(w), NEW new \in FrameType, wire'[w] = wire[w],
           queue'[w] = Append(queue[w], new), new.kind = "pong" \/ ~HasClose(w)
    PROVE  Ordered(w)' /\ (HasClose(w)' => HasClose(w) \/ IsClose(new))
<1>1. PICK f, g : f = Frames(w) /\ g = Frames(w)'
  OBVIOUS
<1>2. /\ Len(f) \in Nat /\ Len(g) = Len(f) + 1 /\ g[Len(f) + 1] = new
      /\ \A i \in 1..Len(f) : g[i] = f[i]
  BY <1>1, FrameAdded
<1>3. /\ \A i, j \in 1..Len(f) : i < j /\ IsClose(f[i]) => f[j].kind = "pong"
      /\ new.kind = "pong" \/ ~\E i \in 1..Len(f) : IsClose(f[i])
  BY <1>1 DEF Ordered, HasClose
<1>4. \A i \in 1..Len(g) : i \in 1..Len(f) \/ i = Len(f) + 1
  BY <1>2
<1>5. ASSUME NEW i \in 1..Len(g), NEW j \in 1..Len(g), i < j, IsClose(g[i])
      PROVE  g[j].kind = "pong"
  <2>1. i \in 1..Len(f) /\ IsClose(f[i])
    BY <1>2, <1>4, <1>5
  <2>2. QED BY <1>2, <1>3, <1>4, <1>5, <2>1
<1>6. (\E i \in 1..Len(g) : IsClose(g[i])) => (\E i \in 1..Len(f) : IsClose(f[i])) \/ IsClose(new)
  BY <1>2, <1>4
<1>7. QED BY <1>1, <1>5, <1>6 DEF Ordered, HasClose, IsClose

\* The session's flag tells of every Close that was made.  While one waits on the stack no
\* other is among the frames, and once it is the WebSocket is OPEN only until the peer's
\* Close, which is next, is handled.
OrderInv ==
    /\ RepliesApart
    /\ \A w \in Sockets :
        /\ Ordered(w)
        /\ closeSent[w] => readyState[w] \in Live
        /\ Replies(w) => closeSent[w] /\ ~HasClose(w)
        /\ HasClose(w) => closeSent[w]
        /\ HasClose(w) /\ readyState[w] = "OPEN" =>
              stack # <<>> /\ Head(stack) = Step("peerClose", w)

\* One WebSocket after a step.
LEMMA OrderOfOne ==
    ASSUME FramesTyped, OrderInv, Effects, StateEffects, StackEffects, NEW w \in Sockets
    PROVE  /\ Ordered(w)'
           /\ closeSent'[w] => readyState'[w] \in Live
           /\ Replies(w)' => closeSent'[w] /\ ~HasClose(w)'
           /\ HasClose(w)' => closeSent'[w]
           /\ HasClose(w)' /\ readyState'[w] = "OPEN" =>
                 stack' # <<>> /\ Head(stack') = Step("peerClose", w)
<1>1. closeSent'[w] => readyState'[w] \in Live
  BY DEF OrderInv, StateEffects
<1>2. closeSent[w] => closeSent'[w]
  BY DEF StateEffects
<1>3. readyState'[w] = "OPEN" => ~HasClose(w)
  <2>1. CASE readyState[w] = "none"
    BY <2>1 DEF OrderInv, Live
  <2>2. CASE readyState[w] = "OPEN"
    BY <2>2 DEF OrderInv, StackEffects
  <2>3. QED BY <2>1, <2>2 DEF StateEffects
<1>4. CASE Keeps(w) \/ Flushes(w)
  <2>1. Ordered(w)' /\ (HasClose(w)' => HasClose(w))
    BY <1>4, OrderKept DEF OrderInv
  <2>2. Replies(w)' => closeSent'[w] /\ ~HasClose(w)
    BY <1>2 DEF OrderInv, StackEffects
  <2>3. QED BY <1>1, <1>2, <1>3, <2>1, <2>2 DEF OrderInv
<1>5. CASE Adds(w)
  <2>1. PICK f \in FrameType :
           wire'[w] = wire[w] /\ queue'[w] = Append(queue[w], f) /\ Reason(w, f.kind)
    BY <1>5 DEF Adds
  <2>2. CASE f.kind \in {"pong", "app", "response"}
    <3>1. f.kind = "pong" \/ ~HasClose(w)
      BY <2>1, <2>2 DEF OrderInv, Reason, MayAct, Top, Step, Live
    <3>2. ~IsClose(f)
      BY <2>2 DEF IsClose
    <3>3. Ordered(w)' /\ (HasClose(w)' => HasClose(w))
      BY <2>1, <3>1, <3>2, OrderExtended DEF OrderInv
    <3>4. Replies(w)' => closeSent'[w] /\ ~HasClose(w)
      BY <1>2 DEF OrderInv, StackEffects
    <3>5. QED BY <1>1, <1>2, <1>3, <3>3, <3>4 DEF OrderInv
  <2>3. CASE f.kind = "reply"
    <3>1. stack # <<>> /\ Head(stack) = Reply(w)
      BY <2>1, <2>3 DEF Reason, Reply
    <3>2. Replies(w)
      BY <3>1 DEF Replies
    <3>3. closeSent[w] /\ ~HasClose(w)
      BY <3>2 DEF OrderInv
    <3>4. Ordered(w)'
      BY <2>1, <3>3, OrderExtended DEF OrderInv
    <3>5. ~Replies(w)' /\ stack' # <<>> /\ Head(stack') = Step("peerClose", w)
      BY <3>1, <3>3 DEF StackEffects
    <3>6. QED BY <1>1, <1>2, <3>3, <3>4, <3>5
  <2>4. CASE f.kind = "close"
    <3>1. ~closeSent[w] /\ closeSent'[w] /\ readyState'[w] = "CLOSING"
      BY <2>1, <2>4 DEF Reason
    <3>2. ~HasClose(w) /\ ~Replies(w)
      BY <3>1 DEF OrderInv
    <3>3. Ordered(w)'
      BY <2>1, <3>2, OrderExtended DEF OrderInv
    <3>4. ~Replies(w)'
      <4>1. queue'[w] # queue[w]
        <5>1. queue[w] \in Seq(FrameType)
          BY DEF FramesTyped
        <5>2. Len(Append(queue[w], f)) = Len(queue[w]) + 1 /\ Len(queue[w]) \in Nat
          BY <5>1, AppendProperties, LenProperties
        <5>3. QED BY <2>1, <5>2
      <4>2. QED BY <3>2, <4>1 DEF StackEffects
    <3>5. QED BY <3>1, <3>3, <3>4 DEF Live
  <2>5. QED BY <2>1, <2>2, <2>3, <2>4 DEF Reason
<1>6. QED BY <1>4, <1>5 DEF Effects

LEMMA OrderInvariant == Spec => []OrderInv
<1>1. Init => OrderInv
  <2> SUFFICES ASSUME Init
               PROVE  OrderInv
    OBVIOUS
  <2>1. stack = <<>> /\ Len(stack) = 0
    BY EmptySeq DEF Init
  <2>2. RepliesApart /\ \A w \in Sockets : ~Replies(w)
    BY <2>1 DEF RepliesApart, Replies
  <2>3. ASSUME NEW w \in Sockets
        PROVE  Len(Frames(w)) = 0
    <3>1. wire[w] = <<>> /\ queue[w] = <<>>
      BY DEF Init, Nothing
    <3>2. QED BY <3>1 DEF Frames
  <2>4. \A w \in Sockets : Ordered(w) /\ ~HasClose(w)
    BY <2>3 DEF Ordered, HasClose
  <2>5. \A w \in Sockets : ~closeSent[w]
    BY DEF Init
  <2>6. QED BY <2>2, <2>4, <2>5 DEF OrderInv
<1>2. TypeOK /\ SessionInv /\ QueueInv /\ OrderInv /\ [Next]_vars => OrderInv'
  <2> SUFFICES ASSUME TypeOK, SessionInv, QueueInv, OrderInv, [Next]_vars
               PROVE  OrderInv'
    OBVIOUS
  <2>1. CASE UNCHANGED vars
    <3>1. UNCHANGED <<stack, wire, queue, closeSent, readyState>>
      BY <2>1 DEF vars, sessionVars, streamVars, peerVars
    <3>2. RepliesApart' /\ \A w \in Sockets : Replies(w)' <=> Replies(w)
      BY <3>1 DEF OrderInv, RepliesApart, Replies, Reply, Step
    <3>3. \A w \in Sockets : Frames(w)' = Frames(w)
      BY <3>1 DEF Frames
    <3>4. \A w \in Sockets : (Ordered(w)' <=> Ordered(w)) /\ (HasClose(w)' <=> HasClose(w))
      BY <3>3 DEF Ordered, HasClose, IsClose
    <3>5. QED BY <3>1, <3>2, <3>4 DEF OrderInv
  <2>2. CASE Next
    <3>1. FramesTyped /\ CloseSentTyped
      BY TypesGiven
    <3>2. Effects
      BY <2>2, <3>1, StepEffects DEF QueueInv
    <3>3. StateEffects
      BY <2>2, <3>1, StepStates
    <3>4. StackEffects
      BY <2>2, <3>1, StepStack DEF OrderInv
    <3>5. RepliesApart'
      BY <3>4 DEF StackEffects
    <3>6. QED BY <3>1, <3>2, <3>3, <3>4, <3>5, OrderOfOne DEF OrderInv
  <2>3. QED BY <2>1, <2>2
<1>3. QED BY <1>1, <1>2, TypeCorrect, SessionInvariant, QueueInvariant, PTL DEF Spec

\* The peer gets one Close at most, and after it only pongs: whatever handlers send, close
\* or terminate while the events of a read wait, whoever closes the server meanwhile, and
\* whichever side closes first.
THEOREM NothingAfterClose == Spec => []NoDataAfterClose
<1>1. QueueInv /\ OrderInv => NoDataAfterClose
  <2> SUFFICES ASSUME QueueInv, OrderInv, NEW w \in Sockets
               PROVE  \A i, j \in DOMAIN (wire[w] \o queue[w]) :
                         i < j /\ IsClose((wire[w] \o queue[w])[i]) =>
                            (wire[w] \o queue[w])[j].kind = "pong"
    BY DEF NoDataAfterClose
  <2>1. wire[w] \o queue[w] \in Seq(FrameType)
    BY ConcatProperties DEF QueueInv
  <2>2. DOMAIN (wire[w] \o queue[w]) = 1..Len(wire[w] \o queue[w])
    BY <2>1, LenProperties
  <2>3. QED BY <2>2 DEF OrderInv, Ordered, Frames
<1>2. QED BY <1>1, QueueInvariant, OrderInvariant, PTL

-----------------------------------------------------------------------------
(* What is answered.  Failed() is a fold, so what it makes of a queue is   *)
(* proved by induction over its frames; the rest says how each step leaves *)
(* the books of a socket: what waits, what was answered and what went out. *)

\* A family of subsets of a finite set has a least member: the inductions below use it,
\* without an operator as a parameter.
LEMMA LeastSubset ==
    \A S, F : IsFiniteSet(S) /\ (\A X \in F : X \subseteq S) /\ F # {}
        => \E X \in F : \A Y \in F : Y \subseteq X => Y = X
<1> SUFFICES ASSUME NEW S, NEW F, IsFiniteSet(S), \A X \in F : X \subseteq S, F # {}
             PROVE  \E X \in F : \A Y \in F : Y \subseteq X => Y = X
  OBVIOUS
<1>1. IsWellFoundedOn(StrictSubsetOrdering(S), SUBSET S)
  BY FS_StrictSubsetOrderingWellFounded, FS_FiniteSubsetsOfFinite
<1>2. \E x \in F : \A y \in F : ~(<<y, x>> \in StrictSubsetOrdering(S))
  <2> HIDE DEF StrictSubsetOrdering
  <2> QED BY <1>1, WFMin
<1>3. PICK X \in F : \A y \in F : ~(<<y, X>> \in StrictSubsetOrdering(S))  BY <1>2
<1>4. ASSUME NEW Y \in F, Y \subseteq X PROVE Y = X
  <2>1. <<Y, X>> \notin StrictSubsetOrdering(S)  BY <1>3
  <2>2. <<Y, X>> \in (SUBSET S) \X (SUBSET S)  OBVIOUS
  <2>3. QED BY <2>1, <2>2, <1>4 DEF StrictSubsetOrdering
<1>5. QED BY <1>3, <1>4

\* Induction over the numbers from 0 to n, without an operator.
LEMMA UpTo ==
    ASSUME NEW n \in Nat, NEW S, 0 \in S, \A k \in 0..(n - 1) : k \in S => k + 1 \in S
    PROVE  0..n \subseteq S
<1> SUFFICES ASSUME NEW m \in 0..n, m \notin S PROVE FALSE  OBVIOUS
<1>1. PICK F : F = {0..k : k \in {k \in 0..n : k \notin S}}  OBVIOUS
<1>2. IsFiniteSet(0..n) /\ F # {} /\ \A X \in F : X \subseteq 0..n
  <2>1. IsFiniteSet(0..n)  BY FS_Interval
  <2>2. QED BY <1>1, <2>1
<1>3. PICK X \in F : \A Y \in F : Y \subseteq X => Y = X  BY <1>2, LeastSubset
<1>4. PICK k \in 0..n : k \notin S /\ X = 0..k  BY <1>1, <1>3
<1>5. k # 0 /\ k - 1 \in 0..(n - 1) /\ (k - 1) + 1 = k  BY <1>4
<1>6. k - 1 \notin S  BY <1>4, <1>5
<1>7. 0..(k - 1) \in F /\ 0..(k - 1) \subseteq X  BY <1>1, <1>4, <1>5, <1>6
<1>8. k \in X /\ k \notin 0..(k - 1)  BY <1>4
<1>9. QED BY <1>3, <1>7, <1>8

\* What the folds choose next.
Greatest(s) == Max(s)

\* Indices of a sequence.
Indices(s) == \E n \in Nat : s \subseteq 1..n

\* A set of indices that is not empty has a greatest.
LEMMA MaxIn ==
    ASSUME NEW s, Indices(s), s # {}
    PROVE  Greatest(s) \in s /\ \A y \in s : Greatest(s) >= y
<1>0. PICK n \in Nat : s \subseteq 1..n  BY DEF Indices
<1>1. PICK S : S = {k \in 0..n : s \cap (1..k) = {} \/ \E x \in s : \A y \in s \cap (1..k) : x >= y}
  OBVIOUS
<1>2. 0 \in S
  BY <1>1
<1>3. ASSUME NEW k \in 0..(n - 1), k \in S PROVE k + 1 \in S
  <2>1. CASE k + 1 \in s
    <3>1. \A y \in s \cap (1..(k + 1)) : k + 1 >= y  OBVIOUS
    <3>2. QED BY <1>1, <2>1, <3>1
  <2>2. CASE k + 1 \notin s
    <3>1. s \cap (1..(k + 1)) = s \cap (1..k)  BY <2>2
    <3>2. QED BY <1>1, <1>3, <3>1
  <2>3. QED BY <2>1, <2>2
<1>4. n \in S
  <2>1. 0..n \subseteq S  BY <1>2, <1>3, UpTo
  <2>2. QED BY <2>1
<1>5. s \cap (1..n) = s  BY <1>0
<1>6. \E x \in s : \A y \in s : x >= y  BY <1>1, <1>4, <1>5
<1>7. QED BY <1>6, Zenon DEF Greatest, Max

\* Fewer indices are indices, ...
LEMMA IndicesPart == ASSUME NEW s, NEW t, Indices(s), t \subseteq s PROVE Indices(t)
BY DEF Indices

\* ... and there are finitely many.
LEMMA IndicesFinite == ASSUME NEW s, Indices(s) PROVE IsFiniteSet(s)
<1>1. PICK n \in Nat : s \subseteq 1..n  BY DEF Indices
<1>2. IsFiniteSet(1..n)  BY FS_Interval
<1>3. QED BY <1>1, <1>2, FS_Subset

\* The function by which Failed() is defined, over the sets of indices of ps: f solves it, ...
Fails(f, ps, S) ==
    f = [s \in SUBSET S |-> IF s = {} THEN <<>> ELSE Failing(f[s \ {Greatest(s)}], ps[Greatest(s)])]

\* ... which gives its value for one set from that of a smaller one.
FailsNext(f, ps, s) == IF s = {} THEN <<>> ELSE Failing(f[s \ {Greatest(s)}], ps[Greatest(s)])

\* That value.
LEMMA FailsAt ==
    ASSUME NEW f, NEW ps, NEW S, Fails(f, ps, S), NEW s \in SUBSET S
    PROVE  f[s] = FailsNext(f, ps, s)
<1> DEFINE e(g, t) == IF t = {} THEN <<>> ELSE Failing(g[t \ {Greatest(t)}], ps[Greatest(t)])
<1>1. f = [t \in SUBSET S |-> e(f, t)]  BY Zenon DEF Fails
<1> HIDE DEF e
<1>2. f[s] = e(f, s)  BY <1>1, Zenon
<1>3. QED BY <1>2 DEF e, FailsNext

\* Solutions over the same elements agree.
LEMMA FailsAgree ==
    ASSUME NEW f, NEW g, NEW ps, NEW qs, NEW S, NEW T, Fails(f, ps, S), Fails(g, qs, T),
           NEW U, Indices(U), U \subseteq S, U \subseteq T,
           \A i \in U : ps[i] = qs[i]
    PROVE  f[U] = g[U]
<1> SUFFICES ASSUME f[U] # g[U] PROVE FALSE  OBVIOUS
<1>1. PICK bad : bad = {s \in SUBSET U : f[s] # g[s]}  OBVIOUS
<1>2. bad # {} /\ \A s \in bad : s \subseteq U  BY <1>1
<1>f. IsFiniteSet(U)  BY IndicesFinite
<1>3. PICK s \in bad : \A t \in bad : t \subseteq s => t = s  BY <1>2, <1>f, LeastSubset
<1>4. s \in SUBSET U /\ f[s] # g[s]  BY <1>1
<1>a. s \in SUBSET S /\ s \in SUBSET T  BY <1>4
<1>b. f[s] = FailsNext(f, ps, s)
  BY ONLY Fails(f, ps, S), <1>a, FailsAt
<1>5. g[s] = FailsNext(g, qs, s)
  BY ONLY Fails(g, qs, T), <1>a, FailsAt
<1>6. s # {}  BY <1>4, <1>b, <1>5 DEF FailsNext
<1>7. Greatest(s) \in s  BY <1>4, <1>6, MaxIn, IndicesPart
<1>8. f[s \ {Greatest(s)}] = g[s \ {Greatest(s)}]  BY <1>1, <1>3, <1>4, <1>7
<1>9. ps[Greatest(s)] = qs[Greatest(s)]  BY <1>4, <1>7
<1>10. QED BY <1>4, <1>b, <1>5, <1>6, <1>8, <1>9 DEF FailsNext

\* There is a solution.
LEMMA FailsExist ==
    ASSUME NEW ps, NEW S, Indices(S) PROVE \E f : Fails(f, ps, S)
<1> SUFFICES ASSUME ~\E f : Fails(f, ps, S) PROVE FALSE  OBVIOUS
<1>1. PICK bad : bad = {X \in SUBSET S : ~\E f : Fails(f, ps, X)}  OBVIOUS
<1>2. bad # {} /\ \A X \in bad : X \subseteq S  BY <1>1
<1>f. IsFiniteSet(S)  BY IndicesFinite
<1>3. PICK X \in bad : \A Y \in bad : Y \subseteq X => Y = X  BY <1>2, <1>f, LeastSubset
<1>4. X \subseteq S /\ Indices(X) /\ ~\E f : Fails(f, ps, X)  BY <1>1, IndicesPart
<1> DEFINE sol(s) == CHOOSE f : Fails(f, ps, s)
           val(s) == sol(s)[s]
           new(s) == IF s = {} THEN <<>> ELSE Failing(val(s \ {Greatest(s)}), ps[Greatest(s)])
<1>5. ASSUME NEW s, s \subseteq X, s # X PROVE Fails(sol(s), ps, s)
  <2>1. \E f : Fails(f, ps, s)  BY <1>1, <1>3, <1>4, <1>5
  <2>2. QED BY <2>1
<1>6. ASSUME NEW s, s \subseteq X, s # X PROVE val(s) = new(s)
  <2>1. Fails(sol(s), ps, s)  BY <1>5, <1>6
  <2>2. sol(s)[s] = FailsNext(sol(s), ps, s)
    <3> HIDE DEF sol
    <3>1. s \in SUBSET s  OBVIOUS
    <3> QED BY ONLY <2>1, <3>1, FailsAt
  <2>3. CASE s = {}  BY <2>2, <2>3 DEF FailsNext
  <2>4. CASE s # {}
    <3>1. PICK x : x = Greatest(s)  OBVIOUS
    <3>2. PICK t : t = s \ {x}  OBVIOUS
    <3>3. x \in s  BY <1>4, <1>6, <2>4, <3>1, MaxIn, IndicesPart
    <3>4. t \subseteq X /\ t # X /\ t \subseteq s /\ Indices(t)
      BY <1>4, <1>6, <3>2, <3>3, IndicesPart
    <3>5. Fails(sol(t), ps, t)  BY <1>5, <3>4
    <3>7. sol(s)[t] = sol(t)[t]
      <4> HIDE DEF sol
      <4>1. PICK f : f = sol(s)  OBVIOUS
      <4>2. PICK g : g = sol(t)  OBVIOUS
      <4>3. Fails(f, ps, s) /\ Fails(g, ps, t)  BY <2>1, <3>5, <4>1, <4>2
      <4>5. t \subseteq t  OBVIOUS
      <4>6. f[t] = g[t]
        <5>1. PICK qs : qs = ps  OBVIOUS
        <5>2. Fails(g, qs, t) /\ \A i \in t : ps[i] = qs[i]  BY <4>3, <5>1
        <5>4. Indices(t) /\ t \subseteq s  BY <3>4
        <5>3. QED BY ONLY <5>4, <4>3, <5>2, <4>5, FailsAgree
      <4> QED BY <4>1, <4>2, <4>6
    <3>8. QED BY <2>2, <2>4, <3>1, <3>2, <3>7 DEF FailsNext
  <2>5. QED BY <2>3, <2>4
<1>7. PICK f : f = [s \in SUBSET X |-> new(s)]  OBVIOUS
<1>8. ASSUME NEW s \in SUBSET X
      PROVE  new(s) = IF s = {} THEN <<>> ELSE Failing(f[s \ {Greatest(s)}], ps[Greatest(s)])
  <2>1. CASE s = {}  BY <2>1
  <2>2. CASE s # {}
    <3>1. PICK t : t = s \ {Greatest(s)}  OBVIOUS
    <3>2. Greatest(s) \in s  BY <1>4, <2>2, MaxIn, IndicesPart
    <3>3. t \in SUBSET X /\ t # X  BY <3>1, <3>2
    <3>4. f[t] = new(t)
      <4> HIDE DEF new
      <4> QED BY <1>7, <3>3
    <3>5. val(t) = new(t)  BY <1>6, <3>3
    <3>6. f[t] = val(t)  BY <3>4, <3>5
    <3>7. QED
      <4> HIDE DEF val
      <4> QED BY <2>2, <3>1, <3>6
  <2>3. QED BY <2>1, <2>2
<1>9. Fails(f, ps, X)
  <2> HIDE DEF new
  <2>1. f = [s \in SUBSET X |-> IF s = {} THEN <<>> ELSE Failing(f[s \ {Greatest(s)}], ps[Greatest(s)])]
    BY <1>7, <1>8
  <2>2. QED BY <2>1 DEF Fails
<1>10. QED BY <1>4, <1>9

\* The function that Failed is defined by is a solution.
LEMMA FailedSolution ==
    ASSUME NEW n \in Nat, NEW ps, DOMAIN ps = 1..n
    PROVE  \E f : Fails(f, ps, DOMAIN ps) /\ Failed(ps) = f[DOMAIN ps]
<1>1. PICK f : f = CHOOSE g : Fails(g, ps, DOMAIN ps)  OBVIOUS
<1>2. Fails(f, ps, DOMAIN ps)
  <2>1. Indices(DOMAIN ps)  BY DEF Indices
  <2>2. QED BY <1>1, <2>1, FailsExist
<1>3. Failed(ps) = f[DOMAIN ps]  BY <1>1, Zenon DEF Failed, Failing, FoldLeft, MapThenFoldSet, Fails, Greatest, Max
<1>4. QED BY <1>2, <1>3


\* Nothing fails.
LEMMA FailedNone == ASSUME NEW ps, DOMAIN ps = {} PROVE Failed(ps) = <<>>
<1>1. DOMAIN ps = 1..0  OBVIOUS
<1>2. PICK f : Fails(f, ps, DOMAIN ps) /\ Failed(ps) = f[DOMAIN ps]
  <2>1. 0 \in Nat  OBVIOUS
  <2>2. QED BY <1>1, <2>1, FailedSolution
<1>3. DOMAIN ps \in SUBSET DOMAIN ps  OBVIOUS
<1>4. QED BY <1>2, <1>3, FailsAt DEF FailsNext

\* One frame more.
LEMMA FailedMore ==
    ASSUME NEW n \in Nat, NEW ps, NEW qs, DOMAIN ps = 1..n, DOMAIN qs = 1..(n + 1),
           \A i \in 1..n : qs[i] = ps[i]
    PROVE  Failed(qs) = Failing(Failed(ps), qs[n + 1])
<1>1. PICK f : Fails(f, ps, DOMAIN ps) /\ Failed(ps) = f[DOMAIN ps]  BY FailedSolution
<1>2. PICK g : Fails(g, qs, DOMAIN qs) /\ Failed(qs) = g[DOMAIN qs]
  <2>1. n + 1 \in Nat  OBVIOUS
  <2>2. QED BY <2>1, FailedSolution
<1>3. PICK s : s = 1..(n + 1)  OBVIOUS
<1>4. Greatest(s) = n + 1
  <2>1. s \subseteq 1..(n + 1) /\ n + 1 \in s /\ n + 1 \in Nat  BY <1>3
  <2>0. Indices(s)  BY <2>1 DEF Indices
  <2>2. Greatest(s) \in s /\ \A y \in s : Greatest(s) >= y  BY <2>0, <2>1, MaxIn
  <2>3. QED BY <1>3, <2>1, <2>2
<1>5. s \ {n + 1} = 1..n  BY <1>3
<1>6. g[s] = Failing(g[1..n], qs[n + 1])
  <2>1. s \in SUBSET DOMAIN qs  BY <1>3
  <2>2. n + 1 \in s  BY <1>3
  <2>3. g[s] = FailsNext(g, qs, s)
    BY ONLY <1>2, <2>1, FailsAt
  <2>4. QED BY <1>4, <1>5, <2>2, <2>3 DEF FailsNext
<1>7. g[1..n] = f[1..n]
  <2>1. 1..n \subseteq DOMAIN qs /\ 1..n \subseteq DOMAIN ps /\ 1..n \subseteq 1..n  OBVIOUS
  <2>2. Indices(1..n)  BY DEF Indices
  <2>3. QED BY <1>1, <1>2, <2>1, <2>2, FailsAgree
<1>8. QED BY <1>1, <1>2, <1>3, <1>6, <1>7

-----------------------------------------------------------------------------
(* Frames and answers of one send *)

Results == {"ok", "error", "nobufs"}
AnswerType == [send : Nat, result : Results]

\* Some element of x is about send n, ...
Has(x, n) == \E i \in 1..Len(x) : x[i].send = n
\* ... one at most, ...
Once(x, n) == \A i, j \in 1..Len(x) : x[i].send = n /\ x[j].send = n => i = j
\* ... and some answer to it is a success.
HasOk(x, n) == \E i \in 1..Len(x) : x[i].send = n /\ x[i].result = "ok"

\* Nothing is about any.
LEMMA NoneHas == \A n : ~Has(<<>>, n) /\ Once(<<>>, n) /\ ~HasOk(<<>>, n)
<1>1. 1..Len(<<>>) = {}  OBVIOUS
<1>2. QED BY <1>1 DEF Has, Once, HasOk

\* One sequence behind another.
LEMMA ConcatHas ==
    ASSUME NEW S, NEW x \in Seq(S), NEW y \in Seq(S), NEW n
    PROVE  /\ x \o y \in Seq(S)
           /\ Has(x \o y, n) <=> Has(x, n) \/ Has(y, n)
           /\ HasOk(x \o y, n) <=> HasOk(x, n) \/ HasOk(y, n)
           /\ Once(x, n) /\ Once(y, n) /\ ~(Has(x, n) /\ Has(y, n)) => Once(x \o y, n)
<1>1. PICK l \in Nat : l = Len(x)  BY LenProperties
<1>2. PICK m \in Nat : m = Len(y)  BY LenProperties
<1>3. PICK z : z = x \o y  OBVIOUS
<1>4. /\ z \in Seq(S) /\ Len(z) = l + m
      /\ \A i \in 1..(l + m) : z[i] = IF i <= l THEN x[i] ELSE y[i - l]
  BY <1>1, <1>2, <1>3, ConcatProperties
<1>5. \A i \in 1..l : i \in 1..(l + m) /\ z[i] = x[i]  BY <1>4
<1>6. \A i \in 1..m : l + i \in 1..(l + m) /\ z[l + i] = y[i]
  <2> SUFFICES ASSUME NEW i \in 1..m PROVE l + i \in 1..(l + m) /\ z[l + i] = y[i]  OBVIOUS
  <2>1. PICK j : j = l + i  OBVIOUS
  <2>2. j \in 1..(l + m) /\ ~(j <= l) /\ j - l = i  BY <2>1
  <2>3. QED BY <1>4, <2>1, <2>2
<1>7. \A j \in 1..(l + m) : j \in 1..l \/ \E i \in 1..m : j = l + i
  <2> SUFFICES ASSUME NEW j \in 1..(l + m), j \notin 1..l PROVE \E i \in 1..m : j = l + i  OBVIOUS
  <2>1. j - l \in 1..m /\ j = l + (j - l)  OBVIOUS
  <2>2. QED BY <2>1
<1>8. Has(z, n) <=> Has(x, n) \/ Has(y, n)
  <2>1. ASSUME NEW i \in 1..l, x[i].send = n PROVE Has(z, n)
    <3>1. i \in 1..Len(z) /\ z[i].send = n  BY <1>4, <1>5, <2>1
    <3>2. QED BY <3>1 DEF Has
  <2>3. ASSUME NEW i \in 1..m, y[i].send = n PROVE Has(z, n)
    <3>1. l + i \in 1..Len(z) /\ z[l + i].send = n  BY <1>4, <1>6, <2>3
    <3>2. QED BY <3>1 DEF Has
  <2>2. Has(z, n) => Has(x, n) \/ Has(y, n)
    <3> SUFFICES ASSUME NEW j \in 1..(l + m), z[j].send = n PROVE Has(x, n) \/ Has(y, n)
      BY <1>4 DEF Has
    <3>1. CASE j \in 1..l  BY <1>1, <1>5, <3>1 DEF Has
    <3>2. CASE \E i \in 1..m : j = l + i  BY <1>2, <1>6, <3>2 DEF Has
    <3>3. QED BY <1>7, <3>1, <3>2
  <2>4. QED BY <1>1, <1>2, <2>1, <2>2, <2>3 DEF Has
<1>9. HasOk(z, n) <=> HasOk(x, n) \/ HasOk(y, n)
  <2>1. ASSUME NEW i \in 1..l, x[i].send = n, x[i].result = "ok" PROVE HasOk(z, n)
    <3>1. i \in 1..Len(z) /\ z[i].send = n /\ z[i].result = "ok"  BY <1>4, <1>5, <2>1
    <3>2. QED BY <3>1 DEF HasOk
  <2>3. ASSUME NEW i \in 1..m, y[i].send = n, y[i].result = "ok" PROVE HasOk(z, n)
    <3>1. l + i \in 1..Len(z) /\ z[l + i].send = n /\ z[l + i].result = "ok"  BY <1>4, <1>6, <2>3
    <3>2. QED BY <3>1 DEF HasOk
  <2>2. HasOk(z, n) => HasOk(x, n) \/ HasOk(y, n)
    <3> SUFFICES ASSUME NEW j \in 1..(l + m), z[j].send = n /\ z[j].result = "ok"
                 PROVE  HasOk(x, n) \/ HasOk(y, n)
      BY <1>4 DEF HasOk
    <3>1. CASE j \in 1..l  BY <1>1, <1>5, <3>1 DEF HasOk
    <3>2. CASE \E i \in 1..m : j = l + i  BY <1>2, <1>6, <3>2 DEF HasOk
    <3>3. QED BY <1>7, <3>1, <3>2
  <2>4. QED BY <1>1, <1>2, <2>1, <2>2, <2>3 DEF HasOk
<1>10. ASSUME Once(x, n), Once(y, n), ~(Has(x, n) /\ Has(y, n)) PROVE Once(z, n)
  <2> SUFFICES ASSUME NEW i \in 1..(l + m), NEW j \in 1..(l + m), z[i].send = n, z[j].send = n
               PROVE  i = j
    BY <1>4 DEF Once
  <2>1. CASE i \in 1..l /\ j \in 1..l  BY <1>1, <1>5, <1>10, <2>1 DEF Once
  <2>2. CASE i \in 1..l /\ \E k \in 1..m : j = l + k
    <3>1. Has(x, n) /\ Has(y, n)  BY <1>1, <1>2, <1>5, <1>6, <2>2 DEF Has
    <3>2. QED BY <1>10, <3>1
  <2>3. CASE j \in 1..l /\ \E k \in 1..m : i = l + k
    <3>1. Has(x, n) /\ Has(y, n)  BY <1>1, <1>2, <1>5, <1>6, <2>3 DEF Has
    <3>2. QED BY <1>10, <3>1
  <2>4. CASE (\E k \in 1..m : i = l + k) /\ (\E k \in 1..m : j = l + k)
    <3>1. PICK k \in 1..m : i = l + k  BY <2>4
    <3>2. PICK h \in 1..m : j = l + h  BY <2>4
    <3>3. y[k].send = n /\ y[h].send = n  BY <1>6, <3>1, <3>2
    <3>4. k = h  BY <1>2, <1>10, <3>3 DEF Once
    <3>5. QED BY <3>1, <3>2, <3>4
  <2>5. QED BY <1>7, <2>1, <2>2, <2>3, <2>4
<1>11. QED BY <1>3, <1>4, <1>8, <1>9, <1>10

\* A sequence of one.
LEMMA SingleHas ==
    ASSUME NEW S, NEW e \in S, NEW n
    PROVE  /\ <<e>> \in Seq(S) /\ Once(<<e>>, n)
           /\ Has(<<e>>, n) <=> e.send = n
           /\ HasOk(<<e>>, n) <=> e.send = n /\ e.result = "ok"
<1>1. Len(<<e>>) = 1 /\ <<e>>[1] = e  OBVIOUS
<1>2. 1..1 = {1}  OBVIOUS
<1>3. QED BY <1>1, <1>2 DEF Has, Once, HasOk

\* One element more.
LEMMA AppendHas ==
    ASSUME NEW S, NEW x \in Seq(S), NEW e \in S, NEW n
    PROVE  /\ Append(x, e) \in Seq(S)
           /\ Has(Append(x, e), n) <=> Has(x, n) \/ e.send = n
           /\ HasOk(Append(x, e), n) <=> HasOk(x, n) \/ (e.send = n /\ e.result = "ok")
           /\ Once(x, n) /\ ~(Has(x, n) /\ e.send = n) => Once(Append(x, e), n)
<1>0. <<e>> \in Seq(S)  BY SingleHas
<1>1. PICK y \in Seq(S) : y = <<e>>  BY <1>0
<1>2. Append(x, e) = x \o y  BY <1>1, AppendIsConcat
<1>3. Once(y, n) /\ (Has(y, n) <=> e.send = n) /\ (HasOk(y, n) <=> e.send = n /\ e.result = "ok")
  BY <1>1, SingleHas
<1>4. /\ x \o y \in Seq(S)
      /\ Has(x \o y, n) <=> Has(x, n) \/ Has(y, n)
      /\ HasOk(x \o y, n) <=> HasOk(x, n) \/ HasOk(y, n)
      /\ Once(x, n) /\ Once(y, n) /\ ~(Has(x, n) /\ Has(y, n)) => Once(x \o y, n)
  BY ConcatHas
<1>5. QED BY <1>2, <1>3, <1>4

\* One element less.
LEMMA TailHas ==
    ASSUME NEW S, NEW x \in Seq(S), x # <<>>, NEW n
    PROVE  /\ Tail(x) \in Seq(S) /\ Head(x) \in S
           /\ Has(x, n) <=> Head(x).send = n \/ Has(Tail(x), n)
           /\ Once(x, n) => Once(Tail(x), n) /\ ~(Head(x).send = n /\ Has(Tail(x), n))
<1>1. PICK l \in Nat : Len(x) = l + 1
  <2>1. Len(x) \in Nat /\ Len(x) # 0  BY LenProperties, EmptySeq
  <2>2. Len(x) - 1 \in Nat /\ Len(x) = (Len(x) - 1) + 1  BY <2>1
  <2>3. QED BY <2>2
<1>2. PICK y : y = Tail(x)  OBVIOUS
<1>3. /\ y \in Seq(S) /\ Len(y) = l /\ Head(x) = x[1] /\ Head(x) \in S
      /\ \A i \in 1..l : y[i] = x[i + 1]
  <2>1. /\ Tail(x) \in Seq(S) /\ Len(Tail(x)) = Len(x) - 1 /\ Head(x) \in S
        /\ \A i \in 1..Len(Tail(x)) : Tail(x)[i] = x[i + 1]
    BY HeadTailProperties
  <2>2. QED BY <1>1, <1>2, <2>1
<1>4. \A i \in 1..l : i + 1 \in 1..(l + 1) /\ i + 1 # 1  OBVIOUS
<1>5. \A j \in 1..(l + 1) : j = 1 \/ \E i \in 1..l : j = i + 1
  <2> SUFFICES ASSUME NEW j \in 1..(l + 1), j # 1 PROVE \E i \in 1..l : j = i + 1  OBVIOUS
  <2>1. j - 1 \in 1..l /\ j = (j - 1) + 1  OBVIOUS
  <2>2. QED BY <2>1
<1>6. 1 \in 1..(l + 1)  OBVIOUS
<1>7. Has(x, n) <=> Head(x).send = n \/ Has(y, n)
  <2>1. Head(x).send = n => Has(x, n)  BY <1>1, <1>3, <1>6 DEF Has
  <2>2. Has(y, n) => Has(x, n)  BY <1>1, <1>3, <1>4 DEF Has
  <2>3. Has(x, n) => Head(x).send = n \/ Has(y, n)
    <3> SUFFICES ASSUME NEW j \in 1..(l + 1), x[j].send = n PROVE Head(x).send = n \/ Has(y, n)
      BY <1>1 DEF Has
    <3>1. CASE j = 1  BY <1>3, <3>1
    <3>2. CASE \E i \in 1..l : j = i + 1  BY <1>3, <3>2 DEF Has
    <3>3. QED BY <1>5, <3>1, <3>2
  <2>4. QED BY <2>1, <2>2, <2>3
<1>8. ASSUME Once(x, n) PROVE Once(y, n) /\ ~(Head(x).send = n /\ Has(y, n))
  <2>1. ASSUME NEW i \in 1..l, NEW j \in 1..l, y[i].send = n, y[j].send = n PROVE i = j
    <3>1. x[i + 1].send = n /\ x[j + 1].send = n  BY <1>3, <2>1
    <3>2. i + 1 = j + 1  BY <1>1, <1>4, <1>8, <3>1 DEF Once
    <3>3. QED BY <3>2
  <2>2. ASSUME Head(x).send = n, NEW i \in 1..l, y[i].send = n PROVE FALSE
    <3>1. x[1].send = n /\ x[i + 1].send = n  BY <1>3, <2>2
    <3>2. i + 1 = 1  BY <1>1, <1>4, <1>6, <1>8, <3>1 DEF Once
    <3>3. QED BY <1>4, <3>2
  <2>3. QED BY <1>3, <2>1, <2>2 DEF Once, Has
<1>9. QED BY <1>2, <1>3, <1>7, <1>8

\* How many there are, for the property.
LEMMA CountHas ==
    ASSUME NEW S, NEW x \in Seq(S), NEW n, Once(x, n)
    PROVE  Cardinality({i \in DOMAIN x : x[i].send = n}) = IF Has(x, n) THEN 1 ELSE 0
<1>1. DOMAIN x = 1..Len(x)  BY LenProperties
<1>2. PICK s : s = {i \in DOMAIN x : x[i].send = n}  OBVIOUS
<1>3. CASE Has(x, n)
  <2>1. PICK i \in 1..Len(x) : x[i].send = n  BY <1>3 DEF Has
  <2>2. s = {i}  BY <1>1, <1>2, <2>1 DEF Once
  <2>3. Cardinality({i}) = 1  BY FS_Singleton
  <2>4. QED BY <1>2, <1>3, <2>2, <2>3
<1>4. CASE ~Has(x, n)
  <2>1. s = {}  BY <1>1, <1>2, <1>4 DEF Has
  <2>2. Cardinality({}) = 0  BY FS_EmptySet
  <2>3. QED BY <1>2, <1>4, <2>1, <2>2
<1>5. QED BY <1>3, <1>4

-----------------------------------------------------------------------------
(* The frames that fail *)

\* Only a frame of the application is about a send.
GoodFrames(q) == q \in Seq(FrameType) /\ \A i \in 1..Len(q) : q[i].kind = "app" <=> q[i].send # 0

\* Failed() answers each send of the frames, none twice, and none with success.
FailsRight(q) ==
    /\ Failed(q) \in Seq(AnswerType)
    /\ \A n \in Nat \ {0} :
          /\ Has(Failed(q), n) <=> Has(q, n)
          /\ ~HasOk(Failed(q), n)
          /\ Once(q, n) => Once(Failed(q), n)

LEMMA FailedIs ==
    ASSUME NEW q, GoodFrames(q)
    PROVE  FailsRight(q)
<1>1. PICK l \in Nat : l = Len(q)  BY LenProperties DEF GoodFrames
<1>2. PICK S : S = {k \in 0..l : FailsRight(SubSeq(q, 1, k))}  OBVIOUS
<1>3. q \in Seq(FrameType) /\ DOMAIN q = 1..l  BY <1>1, LenProperties DEF GoodFrames
<1>4. 0 \in S
  <2>1. SubSeq(q, 1, 0) = <<>>  BY <1>3
  <2>2. Failed(<<>>) = <<>>
    <3>1. DOMAIN <<>> = {}  OBVIOUS
    <3>2. QED BY <3>1, FailedNone
  <2>3. FailsRight(<<>>)  BY <2>2, NoneHas, EmptySeq DEF FailsRight
  <2>4. 0 \in 0..l  OBVIOUS
  <2>5. QED BY <1>2, <2>1, <2>3, <2>4
<1>5. ASSUME NEW k \in 0..(l - 1), k \in S PROVE k + 1 \in S
  <2>1. PICK p : p = SubSeq(q, 1, k)  OBVIOUS
  <2>2. PICK m \in Nat : m = k + 1 /\ m \in 1..l /\ k \in Nat  OBVIOUS
  <2>3. PICK f : f = q[m]  OBVIOUS
  <2>4. f \in FrameType /\ (f.kind = "app" <=> f.send # 0)  BY <1>1, <1>3, <2>2, <2>3, ElementOfSeq DEF GoodFrames
  <2>5. PICK r : r = SubSeq(q, 1, m)  OBVIOUS
  <2>6. p \in Seq(FrameType) /\ DOMAIN p = 1..k /\ DOMAIN r = 1..(k + 1)
    BY <1>3, <2>1, <2>2, <2>5
  <2>7. (\A i \in 1..k : r[i] = p[i]) /\ r[k + 1] = f
    BY <1>3, <2>1, <2>2, <2>3, <2>5
  <2>8. r = Append(p, f)
    <3>1. SubSeq(q, 1, k + 1) = Append(SubSeq(q, 1, k), q[k + 1])  BY <1>1, <1>3, <2>2
    <3>2. QED BY <2>1, <2>2, <2>3, <2>5, <3>1
  <2>9. Failed(r) = Failing(Failed(p), f)  BY <2>2, <2>6, <2>7, FailedMore
  <2>10. FailsRight(p)  BY <1>2, <1>5, <2>1
  <2>11. PICK t : t = Failed(p)  OBVIOUS
  <2>12. ASSUME NEW n \in Nat \ {0}
         PROVE  /\ Has(r, n) <=> Has(p, n) \/ f.send = n
                /\ Once(r, n) => Once(p, n) /\ ~(Has(p, n) /\ f.send = n)
    <3>1. Has(r, n) <=> Has(p, n) \/ f.send = n  BY <2>4, <2>6, <2>8, AppendHas
    <3>2. Len(p) = k /\ Len(r) = k + 1
      <4>1. Len(p) = k  BY <1>3, <2>1, <2>2
      <4>2. Len(r) = k + 1  BY <2>6, <2>8, <4>1
      <4>3. QED BY <4>1, <4>2
    <3>3. \A i \in 1..k : i \in 1..(k + 1) /\ i # k + 1  BY <2>2
    <3>4. k + 1 \in 1..(k + 1)  BY <2>2
    <3>5. QED BY <2>7, <3>1, <3>2, <3>3, <3>4 DEF Once, Has
  <2>13. FailsRight(r)
    <3>1. CASE f.kind = "app"
      <4>1. PICK e : e = Told(f.send, "error")  OBVIOUS
      <4>2. e \in AnswerType /\ e.send = f.send /\ e.result # "ok"
        BY <2>4, <4>1 DEF Told, AnswerType, Results, FrameType
      <4>3. Failed(r) = Append(t, e)  BY <2>9, <2>11, <3>1, <4>1 DEF Failing
      <4>4. t \in Seq(AnswerType)  BY <2>10, <2>11 DEF FailsRight
      <4>5. Append(t, e) \in Seq(AnswerType)  BY <4>2, <4>4, AppendProperties
      <4>6. ASSUME NEW n \in Nat \ {0}
            PROVE  /\ Has(Append(t, e), n) <=> Has(r, n)
                   /\ ~HasOk(Append(t, e), n)
                   /\ Once(r, n) => Once(Append(t, e), n)
        <5>1. /\ Has(Append(t, e), n) <=> Has(t, n) \/ e.send = n
              /\ HasOk(Append(t, e), n) <=> HasOk(t, n) \/ (e.send = n /\ e.result = "ok")
              /\ Once(t, n) /\ ~(Has(t, n) /\ e.send = n) => Once(Append(t, e), n)
          BY <4>2, <4>4, AppendHas
        <5>2. (Has(t, n) <=> Has(p, n)) /\ ~HasOk(t, n) /\ (Once(p, n) => Once(t, n))
          BY <2>10, <2>11 DEF FailsRight
        <5>3. QED BY <2>12, <4>2, <5>1, <5>2
      <4>7. QED BY <4>3, <4>5, <4>6 DEF FailsRight
    <3>2. CASE f.kind # "app"
      <4>1. Failed(r) = t  BY <2>9, <2>11, <3>2 DEF Failing
      <4>2. \A n \in Nat \ {0} : (Has(r, n) <=> Has(p, n)) /\ (Once(r, n) => Once(p, n))
        BY <2>4, <2>12, <3>2
      <4>3. QED BY <2>10, <2>11, <4>1, <4>2 DEF FailsRight
    <3>3. QED BY <3>1, <3>2
  <2>14. m \in 0..l  BY <2>2
  <2>15. QED BY <1>2, <2>2, <2>5, <2>13, <2>14
<1>6. 0..l \subseteq S  BY ONLY l \in Nat, <1>4, <1>5, UpTo
<1>7. FailsRight(SubSeq(q, 1, l))
  <2>1. l \in 0..l  OBVIOUS
  <2>2. QED BY <1>2, <1>6, <2>1
<1>8. SubSeq(q, 1, l) = q  BY <1>1, <1>3, SubSeqFull
<1>9. QED BY <1>7, <1>8

-----------------------------------------------------------------------------
(* The books of a socket *)

\* Of a send: whether it was called, whether it waits, was answered, or went out.
Right(q, a, v, s, n) ==
    /\ Once(q, n) /\ Once(a, n) /\ Once(v, n)
    /\ ~(Has(q, n) /\ Has(a, n))
    /\ n <= s <=> Has(q, n) \/ Has(a, n)
    /\ Has(v, n) <=> HasOk(a, n)

\* Frames q that wait, answers a, frames v that went out, after s calls to send().
Books(q, a, v, s) ==
    /\ GoodFrames(q) /\ a \in Seq(AnswerType) /\ v \in Seq(FrameType) /\ s \in Nat
    /\ \A n \in Nat \ {0} : Right(q, a, v, s, n)

\* A success is an answer.
LEMMA OkIsAnswer == ASSUME NEW x, NEW n, HasOk(x, n) PROVE Has(x, n)
BY DEF HasOk, Has

\* No call yet.
LEMMA BooksEmpty == Books(<<>>, <<>>, <<>>, 0)
<1>1. <<>> \in Seq(FrameType) /\ <<>> \in Seq(AnswerType) /\ 1..Len(<<>>) = {}  BY EmptySeq
<1>2. GoodFrames(<<>>)  BY <1>1 DEF GoodFrames
<1>3. ASSUME NEW n \in Nat \ {0} PROVE Right(<<>>, <<>>, <<>>, 0, n)
  <2>1. ~(n <= 0)  OBVIOUS
  <2>2. QED BY <2>1, NoneHas DEF Right
<1>4. QED BY <1>1, <1>2, <1>3 DEF Books

\* What waits fails.
LEMMA BooksDrop ==
    ASSUME NEW q, NEW a, NEW v, NEW s, Books(q, a, v, s)
    PROVE  Books(<<>>, a \o Failed(q), v, s)
<1>1. GoodFrames(q) /\ a \in Seq(AnswerType) /\ v \in Seq(FrameType) /\ s \in Nat  BY DEF Books
<1>2. PICK t : t = Failed(q)  OBVIOUS
<1>3. /\ t \in Seq(AnswerType)
      /\ \A n \in Nat \ {0} :
            /\ Has(t, n) <=> Has(q, n)
            /\ ~HasOk(t, n)
            /\ Once(q, n) => Once(t, n)
  BY <1>1, <1>2, FailedIs DEF FailsRight
<1>4. a \o t \in Seq(AnswerType)  BY <1>1, <1>3, ConcatProperties
<1>5. GoodFrames(<<>>)  BY BooksEmpty DEF Books
<1>6. ASSUME NEW n \in Nat \ {0} PROVE Right(<<>>, a \o t, v, s, n)
  <2>1. Right(q, a, v, s, n)  BY DEF Books
  <2>2. /\ Has(a \o t, n) <=> Has(a, n) \/ Has(t, n)
        /\ HasOk(a \o t, n) <=> HasOk(a, n) \/ HasOk(t, n)
        /\ Once(a, n) /\ Once(t, n) /\ ~(Has(a, n) /\ Has(t, n)) => Once(a \o t, n)
    BY <1>1, <1>3, ConcatHas
  <2>3. (Has(t, n) <=> Has(q, n)) /\ ~HasOk(t, n) /\ (Once(q, n) => Once(t, n))  BY <1>3
  <2>4. ~Has(<<>>, n) /\ Once(<<>>, n)  BY NoneHas
  <2>5. QED BY <2>1, <2>2, <2>3, <2>4 DEF Right
<1>7. QED BY <1>1, <1>2, <1>4, <1>5, <1>6 DEF Books

\* A frame that no send is about.
LEMMA BooksFrame ==
    ASSUME NEW q, NEW a, NEW v, NEW s, Books(q, a, v, s),
           NEW f \in FrameType, f.kind # "app", f.send = 0
    PROVE  Books(Append(q, f), a, v, s)
<1>1. GoodFrames(q) /\ q \in Seq(FrameType) /\ a \in Seq(AnswerType) /\ v \in Seq(FrameType) /\ s \in Nat
  BY DEF Books, GoodFrames
<1>2. GoodFrames(Append(q, f))
  <2>1. /\ Append(q, f) \in Seq(FrameType) /\ Len(Append(q, f)) = Len(q) + 1 /\ Len(q) \in Nat
        /\ \A i \in 1..Len(q) : Append(q, f)[i] = q[i]
        /\ Append(q, f)[Len(q) + 1] = f
    BY <1>1, AppendProperties, LenProperties
  <2>2. \A i \in 1..(Len(q) + 1) : i \in 1..Len(q) \/ i = Len(q) + 1  BY <2>1
  <2>3. QED BY <1>1, <2>1, <2>2 DEF GoodFrames
<1>3. ASSUME NEW n \in Nat \ {0} PROVE Right(Append(q, f), a, v, s, n)
  <2>1. Right(q, a, v, s, n)  BY DEF Books
  <2>2. /\ Has(Append(q, f), n) <=> Has(q, n) \/ f.send = n
        /\ Once(q, n) /\ ~(Has(q, n) /\ f.send = n) => Once(Append(q, f), n)
    BY <1>1, AppendHas
  <2>3. f.send # n  OBVIOUS
  <2>4. QED BY <2>1, <2>2, <2>3 DEF Right
<1>4. QED BY <1>1, <1>2, <1>3 DEF Books

\* The next call is no older one.
LEMMA NextSend ==
    ASSUME NEW s \in Nat, NEW n \in Nat \ {0}
    PROVE  s + 1 \in Nat \ {0} /\ (n <= s + 1 <=> n <= s \/ n = s + 1) /\ ~(s + 1 <= s)
OBVIOUS

\* A call whose frame waits.
LEMMA BooksSend ==
    ASSUME NEW q, NEW a, NEW v, NEW s, Books(q, a, v, s)
    PROVE  Books(Append(q, Frame("app", s + 1)), a, v, s + 1)
<1>1. GoodFrames(q) /\ q \in Seq(FrameType) /\ a \in Seq(AnswerType) /\ v \in Seq(FrameType) /\ s \in Nat
  BY DEF Books, GoodFrames
<1>2. PICK m : m = s + 1  OBVIOUS
<1>3. m \in Nat \ {0} /\ ~(m <= s) /\ \A n \in Nat \ {0} : n <= m <=> n <= s \/ n = m
  BY <1>1, <1>2, NextSend
<1>4. PICK f : f = Frame("app", m)  OBVIOUS
<1>5. f \in FrameType /\ f.kind = "app" /\ f.send = m
  BY <1>3, <1>4 DEF Frame, FrameType, Kinds
<1>6. GoodFrames(Append(q, f))
  <2>1. /\ Append(q, f) \in Seq(FrameType) /\ Len(Append(q, f)) = Len(q) + 1 /\ Len(q) \in Nat
        /\ \A i \in 1..Len(q) : Append(q, f)[i] = q[i]
        /\ Append(q, f)[Len(q) + 1] = f
    BY <1>1, <1>5, AppendProperties, LenProperties
  <2>2. \A i \in 1..(Len(q) + 1) : i \in 1..Len(q) \/ i = Len(q) + 1  BY <2>1
  <2>3. QED BY <1>1, <1>3, <1>5, <2>1, <2>2 DEF GoodFrames
<1>7. ASSUME NEW n \in Nat \ {0} PROVE Right(Append(q, f), a, v, m, n)
  <2>1. Right(q, a, v, s, n)  BY DEF Books
  <2>2. /\ Has(Append(q, f), n) <=> Has(q, n) \/ f.send = n
        /\ Once(q, n) /\ ~(Has(q, n) /\ f.send = n) => Once(Append(q, f), n)
    BY <1>1, <1>5, AppendHas
  <2>3. n = m => ~(n <= s)  BY <1>3
  <2>4. n <= m <=> n <= s \/ n = m  BY <1>3
  <2>5. QED BY <1>5, <2>1, <2>2, <2>3, <2>4 DEF Right
<1>8. QED BY <1>1, <1>2, <1>3, <1>4, <1>6, <1>7 DEF Books

\* A call that is answered at once.
LEMMA BooksAnswer ==
    ASSUME NEW q, NEW a, NEW v, NEW s, Books(q, a, v, s), NEW r \in Results \ {"ok"}
    PROVE  Books(q, Append(a, Told(s + 1, r)), v, s + 1)
<1>1. GoodFrames(q) /\ a \in Seq(AnswerType) /\ v \in Seq(FrameType) /\ s \in Nat  BY DEF Books
<1>2. PICK m : m = s + 1  OBVIOUS
<1>3. m \in Nat \ {0} /\ ~(m <= s) /\ \A n \in Nat \ {0} : n <= m <=> n <= s \/ n = m
  BY <1>1, <1>2, NextSend
<1>4. PICK e : e = Told(m, r)  OBVIOUS
<1>5. e \in AnswerType /\ e.send = m /\ e.result # "ok"
  BY <1>3, <1>4 DEF Told, AnswerType
<1>6. Append(a, e) \in Seq(AnswerType)  BY <1>1, <1>5, AppendProperties
<1>7. ASSUME NEW n \in Nat \ {0} PROVE Right(q, Append(a, e), v, m, n)
  <2>1. Right(q, a, v, s, n)  BY DEF Books
  <2>2. /\ Has(Append(a, e), n) <=> Has(a, n) \/ e.send = n
        /\ HasOk(Append(a, e), n) <=> HasOk(a, n) \/ (e.send = n /\ e.result = "ok")
        /\ Once(a, n) /\ ~(Has(a, n) /\ e.send = n) => Once(Append(a, e), n)
    BY <1>1, <1>5, AppendHas
  <2>3. n = m => ~(n <= s)  BY <1>3
  <2>4. n <= m <=> n <= s \/ n = m  BY <1>3
  <2>5. QED BY <1>5, <2>1, <2>2, <2>3, <2>4 DEF Right
<1>8. QED BY <1>1, <1>2, <1>3, <1>4, <1>6, <1>7 DEF Books

\* A frame that goes out, and the answer to its send.
LEMMA BooksFlush ==
    ASSUME NEW q, NEW a, NEW v, NEW s, Books(q, a, v, s), q # <<>>,
           NEW b, b = IF Head(q).kind = "app" THEN Append(a, Told(Head(q).send, "ok")) ELSE a
    PROVE  Books(Tail(q), b, Append(v, Head(q)), s)
<1>1. GoodFrames(q) /\ q \in Seq(FrameType) /\ a \in Seq(AnswerType) /\ v \in Seq(FrameType) /\ s \in Nat
  BY DEF Books, GoodFrames
<1>2. PICK f : f = Head(q)  OBVIOUS
<1>3. PICK y : y = Tail(q)  OBVIOUS
<1>4. /\ f \in FrameType /\ y \in Seq(FrameType) /\ Len(q) \in Nat /\ Len(q) >= 1
      /\ f = q[1] /\ Len(y) = Len(q) - 1 /\ \A i \in 1..Len(y) : y[i] = q[i + 1]
  <2>1. Len(q) \in Nat /\ Len(q) # 0  BY <1>1, LenProperties, EmptySeq
  <2>2. QED BY <1>1, <1>2, <1>3, <2>1, HeadTailProperties
<1>5. GoodFrames(y)
  <2>1. \A i \in 1..Len(y) : i + 1 \in 1..Len(q)  BY <1>4
  <2>2. QED BY <1>1, <1>4, <2>1 DEF GoodFrames
<1>6. f.kind = "app" <=> f.send # 0
  <2>1. 1 \in 1..Len(q)  BY <1>4
  <2>2. QED BY <1>1, <1>4, <2>1 DEF GoodFrames
<1>7. PICK w : w = Append(v, f)  OBVIOUS
<1>8. w \in Seq(FrameType)  BY <1>1, <1>4, <1>7, AppendProperties
<1>9. PICK e : e = Told(f.send, "ok")  OBVIOUS
<1>10. e \in AnswerType /\ e.send = f.send /\ e.result = "ok"
  BY <1>4, <1>9 DEF Told, AnswerType, Results, FrameType
<1>11. b \in Seq(AnswerType)
  <2>1. Append(a, e) \in Seq(AnswerType)  BY <1>1, <1>10, AppendProperties
  <2>2. QED BY <1>1, <1>2, <1>9, <2>1
<1>12. ASSUME NEW n \in Nat \ {0} PROVE Right(y, b, w, s, n)
  <2>1. Right(q, a, v, s, n)  BY DEF Books
  <2>2. /\ Has(q, n) <=> f.send = n \/ Has(y, n)
        /\ Once(q, n) => Once(y, n) /\ ~(f.send = n /\ Has(y, n))
    BY <1>1, <1>2, <1>3, TailHas
  <2>3. /\ Has(w, n) <=> Has(v, n) \/ f.send = n
        /\ Once(v, n) /\ ~(Has(v, n) /\ f.send = n) => Once(w, n)
    BY <1>1, <1>4, <1>7, AppendHas
  <2>4. HasOk(a, n) => Has(a, n)  BY OkIsAnswer
  <2>5. CASE f.kind = "app"
    <3>1. b = Append(a, e)  BY <1>2, <1>9, <2>5
    <3>2. /\ Has(b, n) <=> Has(a, n) \/ f.send = n
          /\ HasOk(b, n) <=> HasOk(a, n) \/ f.send = n
          /\ Once(a, n) /\ ~(Has(a, n) /\ f.send = n) => Once(b, n)
      <4>1. /\ Has(Append(a, e), n) <=> Has(a, n) \/ e.send = n
            /\ HasOk(Append(a, e), n) <=> HasOk(a, n) \/ (e.send = n /\ e.result = "ok")
            /\ Once(a, n) /\ ~(Has(a, n) /\ e.send = n) => Once(Append(a, e), n)
        BY <1>1, <1>10, AppendHas
      <4>2. QED BY <1>10, <3>1, <4>1
    <3>3. QED BY <2>1, <2>2, <2>3, <2>4, <3>2 DEF Right
  <2>6. CASE f.kind # "app"
    <3>1. b = a /\ f.send # n  BY <1>2, <1>6, <2>6
    <3>2. QED BY <2>1, <2>2, <2>3, <3>1 DEF Right
  <2>7. QED BY <2>5, <2>6
<1>13. QED BY <1>1, <1>2, <1>3, <1>5, <1>7, <1>8, <1>11, <1>12 DEF Books

-----------------------------------------------------------------------------
(* The books are kept *)

AllBooks == \A x \in Sockets : Books(queue[x], answers[x], wire[x], sends[x])

AnswersInv == AllBooks /\ answers = [x \in Sockets |-> answers[x]]

\* A frame without a callback.
Silent(f) == f \in FrameType /\ f.kind # "app" /\ f.send = 0

\* The frames of the program that are.
LEMMA SilentFrame == ASSUME NEW kind \in Kinds \ {"app"} PROVE Silent(Frame(kind, 0))
BY DEF Silent, Frame, FrameType

\* What one socket is given, and the others are not.
LEMMA OfOne ==
    ASSUME NEW w, NEW s, NEW x \in Sockets
    PROVE  Nothing[x] = <<>> /\ Of(w, s)[x] \in {<<>>, s} /\ (x = w => Of(w, s)[x] = s) /\ (x # w => Of(w, s)[x] = <<>>)
BY DEF Of, Nothing

\* What Stream() does to one socket, given the frames m and the answers t.
Given(x, m, t) ==
    /\ destroyed'[x] => queue'[x] = <<>> /\ answers'[x] = (answers[x] \o t) \o Failed(queue[x])
    /\ ~destroyed'[x] => queue'[x] = queue[x] \o m /\ answers'[x] = (answers[x] \o t) \o <<>>

LEMMA StreamGives ==
    ASSUME NEW lost, NEW more, NEW told, Stream(lost, more, told), NEW x \in Sockets
    PROVE  Given(x, more[x], told[x])
<1>1. queue' = [w \in Sockets |-> IF destroyed'[w] THEN <<>> ELSE queue[w] \o more[w]]  BY DEF Stream
<1>2. answers' = [w \in Sockets |->
                    answers[w] \o told[w] \o (IF destroyed'[w] THEN Failed(queue[w]) ELSE <<>>)]
  BY DEF Stream
<1>3. queue'[x] = IF destroyed'[x] THEN <<>> ELSE queue[x] \o more[x]  BY <1>1
<1>4. answers'[x] = answers[x] \o told[x] \o (IF destroyed'[x] THEN Failed(queue[x]) ELSE <<>>)
  BY <1>2, Zenon
<1>5. QED BY <1>3, <1>4 DEF Given

\* Answers stay a function of the sockets.
LEMMA StreamShape ==
    ASSUME NEW lost, NEW more, NEW told, Stream(lost, more, told)
    PROVE  answers' = [x \in Sockets |-> answers'[x]]
BY DEF Stream

\* Nothing but frames without callback.
LEMMA StreamBooks ==
    ASSUME AllBooks, NEW lost, NEW more, NEW told, Stream(lost, more, told), UNCHANGED wire,
           NEW x \in Sockets, sends'[x] = sends[x], told[x] = <<>>,
           more[x] = <<>> \/ \E f : Silent(f) /\ more[x] = <<f>>
    PROVE  Books(queue'[x], answers'[x], wire'[x], sends'[x])
<1>g. Given(x, more[x], told[x])  BY StreamGives
<1>1. PICK q, a, v, s : q = queue[x] /\ a = answers[x] /\ v = wire[x] /\ s = sends[x]  OBVIOUS
<1>2. Books(q, a, v, s)  BY <1>1 DEF AllBooks
<1>3. q \in Seq(FrameType) /\ a \in Seq(AnswerType)  BY <1>2 DEF Books, GoodFrames
<1>4. a \o <<>> = a /\ q \o <<>> = q  BY <1>3, ConcatEmptySeq
<1>5. CASE destroyed'[x]
  <2>1. queue'[x] = <<>> /\ answers'[x] = (a \o <<>>) \o Failed(q)  BY <1>1, <1>5, <1>g DEF Given
  <2>2. Books(<<>>, a \o Failed(q), v, s)  BY <1>2, BooksDrop
  <2>3. QED BY <1>1, <1>4, <2>1, <2>2
<1>6. CASE ~destroyed'[x]
  <2>1. queue'[x] = q \o more[x] /\ answers'[x] = (a \o <<>>) \o <<>>  BY <1>1, <1>6, <1>g DEF Given
  <2>2. answers'[x] = a  BY <1>4, <2>1
  <2>3. CASE more[x] = <<>>
    <3>1. queue'[x] = q  BY <1>4, <2>1, <2>3
    <3>2. QED BY <1>1, <1>2, <2>2, <3>1
  <2>4. CASE \E f : Silent(f) /\ more[x] = <<f>>
    <3>1. PICK f : Silent(f) /\ more[x] = <<f>>  BY <2>4
    <3>2. f \in FrameType /\ f.kind # "app" /\ f.send = 0  BY <3>1 DEF Silent
    <3>3. queue'[x] = Append(q, f)  BY <1>3, <2>1, <3>1, <3>2, AppendIsConcat
    <3>4. Books(Append(q, f), a, v, s)  BY <1>2, <3>2, BooksFrame
    <3>5. QED BY <1>1, <2>2, <3>3, <3>4
  <2>5. QED BY <2>3, <2>4
<1>7. QED BY <1>5, <1>6

\* An answer to the call at hand, which adds no frame.
LEMMA StreamAnswer ==
    ASSUME AllBooks, NEW lost, NEW more, NEW told, Stream(lost, more, told), UNCHANGED wire,
           NEW x \in Sockets, sends'[x] = sends[x] + 1, NEW r \in Results \ {"ok"},
           told[x] = <<Told(sends[x] + 1, r)>>, destroyed'[x] \/ more[x] = <<>>
    PROVE  Books(queue'[x], answers'[x], wire'[x], sends'[x])
<1>g. Given(x, more[x], told[x])  BY StreamGives
<1>1. PICK q, a, v, s : q = queue[x] /\ a = answers[x] /\ v = wire[x] /\ s = sends[x]  OBVIOUS
<1>2. Books(q, a, v, s)  BY <1>1 DEF AllBooks
<1>3. q \in Seq(FrameType) /\ a \in Seq(AnswerType) /\ s \in Nat  BY <1>2 DEF Books, GoodFrames
<1>4. PICK b : b = Append(a, Told(s + 1, r))  OBVIOUS
<1>5. Books(q, b, v, s + 1)  BY <1>2, <1>4, BooksAnswer
<1>6. a \o told[x] = b
  <2>1. Told(s + 1, r) \in AnswerType  BY <1>3 DEF Told, AnswerType
  <2>2. a \o <<Told(s + 1, r)>> = Append(a, Told(s + 1, r))  BY <1>3, <2>1, AppendIsConcat
  <2>3. QED BY <1>1, <1>4, <2>2
<1>7. CASE destroyed'[x]
  <2>1. queue'[x] = <<>> /\ answers'[x] = b \o Failed(q)  BY <1>1, <1>6, <1>7, <1>g DEF Given
  <2>2. Books(<<>>, b \o Failed(q), v, s + 1)  BY <1>5, BooksDrop
  <2>3. QED BY <1>1, <2>1, <2>2
<1>8. CASE ~destroyed'[x]
  <2>1. queue'[x] = q \o <<>> /\ answers'[x] = b \o <<>>  BY <1>1, <1>6, <1>8, <1>g DEF Given
  <2>2. b \in Seq(AnswerType)  BY <1>5 DEF Books
  <2>3. q \o <<>> = q /\ b \o <<>> = b  BY <1>3, <2>2, ConcatEmptySeq
  <2>4. QED BY <1>1, <1>5, <2>1, <2>3
<1>9. QED BY <1>7, <1>8

\* A call whose frame is taken.
LEMMA StreamSend ==
    ASSUME AllBooks, NEW lost, NEW more, NEW told, Stream(lost, more, told), UNCHANGED wire,
           NEW x \in Sockets, sends'[x] = sends[x] + 1, ~destroyed'[x],
           more[x] = <<Frame("app", sends[x] + 1)>>, told[x] = <<>>
    PROVE  Books(queue'[x], answers'[x], wire'[x], sends'[x])
<1>g. Given(x, more[x], told[x])  BY StreamGives
<1>1. PICK q, a, v, s : q = queue[x] /\ a = answers[x] /\ v = wire[x] /\ s = sends[x]  OBVIOUS
<1>2. Books(q, a, v, s)  BY <1>1 DEF AllBooks
<1>3. q \in Seq(FrameType) /\ a \in Seq(AnswerType) /\ s \in Nat  BY <1>2 DEF Books, GoodFrames
<1>4. Books(Append(q, Frame("app", s + 1)), a, v, s + 1)  BY <1>2, BooksSend
<1>5. queue'[x] = q \o <<Frame("app", s + 1)>> /\ answers'[x] = (a \o <<>>) \o <<>>
  BY <1>1, <1>g DEF Given
<1>6. a \o <<>> = a  BY <1>3, ConcatEmptySeq
<1>7. Frame("app", s + 1) \in FrameType
  <2>1. "app" \in Kinds /\ s + 1 \in Nat  BY <1>3 DEF Kinds
  <2>2. QED BY <2>1, FrameTyped
<1>8. q \o <<Frame("app", s + 1)>> = Append(q, Frame("app", s + 1))  BY <1>3, <1>7, AppendIsConcat
<1>9. QED BY <1>1, <1>4, <1>5, <1>6, <1>8

\* Frames without callback for some sockets.
LEMMA SilentStream ==
    ASSUME AnswersInv, NEW lost, NEW more, Stream(lost, more, Nothing), UNCHANGED <<wire, sends>>,
           \A x \in Sockets : more[x] = <<>> \/ \E f : Silent(f) /\ more[x] = <<f>>
    PROVE  AnswersInv'
<1>1. ASSUME NEW x \in Sockets PROVE Books(queue'[x], answers'[x], wire'[x], sends'[x])
  <2>1. AllBooks /\ UNCHANGED wire /\ sends'[x] = sends[x]  BY DEF AnswersInv
  <2>2. Nothing[x] = <<>>  BY OfOne
  <2>3. QED BY <2>1, <2>2, StreamBooks
<1>2. answers' = [x \in Sockets |-> answers'[x]]  BY StreamShape
<1>3. QED BY <1>1, <1>2 DEF AnswersInv, AllBooks

\* Sockets that are only destroyed.
LEMMA LostStream ==
    ASSUME AnswersInv, NEW lost, Stream(lost, Nothing, Nothing), UNCHANGED <<wire, sends>>
    PROVE  AnswersInv'
<1>1. \A x \in Sockets : Nothing[x] = <<>>  BY DEF Nothing
<1>2. QED BY <1>1, SilentStream

\* Nothing happens to frames and answers.
LEMMA SameBooks == ASSUME AnswersInv, UNCHANGED <<queue, answers, wire, sends>> PROVE AnswersInv'
BY DEF AnswersInv, AllBooks

\* A frame without callback for one of them.
LEMMA SilentOne ==
    ASSUME AnswersInv, NEW w, NEW kind \in Kinds \ {"app"},
           Stream({}, Of(w, <<Frame(kind, 0)>>), Nothing), UNCHANGED <<wire, sends>>
    PROVE  AnswersInv'
<1>1. PICK more : more = Of(w, <<Frame(kind, 0)>>)  OBVIOUS
<1>2. \A x \in Sockets : more[x] \in {<<>>, <<Frame(kind, 0)>>}  BY <1>1, OfOne
<1>3. \A x \in Sockets : more[x] = <<>> \/ \E f : Silent(f) /\ more[x] = <<f>>  BY <1>2, SilentFrame
<1>4. Stream({}, more, Nothing)  BY <1>1
<1>5. QED BY <1>3, <1>4, SilentStream

\* One event: a pong or a reply may be written, or destroy the socket.
LEMMA HandleEventBooks == ASSUME AnswersInv, HandleEvent PROVE AnswersInv'
<1> DEFINE w == Head(stack).on
<1>1. UNCHANGED <<wire, sends>>  BY DEF HandleEvent, peerVars
<1>2. CASE UNCHANGED streamVars  BY <1>1, <1>2, SameBooks DEF streamVars
<1>3. ASSUME NEW kind \in {"pong", "reply"}, WriteFrame(w, kind, <<>>) PROVE AnswersInv'
  <2>1. kind \in Kinds \ {"app"}  BY DEF Kinds
  <2>2. CASE Stream({}, Of(w, <<Frame(kind, 0)>>), Nothing)  BY <1>1, <2>1, <2>2, SilentOne
  <2>3. CASE Stream({w}, Nothing, Nothing)  BY <1>1, <2>3, LostStream
  <2>4. QED BY <1>2, <1>3, <2>2, <2>3 DEF WriteFrame
<1>4. QED BY <1>2, <1>3 DEF HandleEvent

\* close() of some WebSockets.
LEMMA CloseAllBooks ==
    ASSUME AnswersInv, NEW S, CloseAll(S), UNCHANGED <<wire, sends>> PROVE AnswersInv'
<1> DEFINE framed == {w \in S : ~closeSent[w] /\ writable(w)}
           tooMuch == {w \in framed : ~Accepts(w)}
           more == [w \in Sockets |-> IF w \in framed THEN <<Frame("close", 0)>> ELSE <<>>]
<1>1. Stream(tooMuch, more, Nothing)  BY DEF CloseAll
<1>2. \A x \in Sockets : more[x] \in {<<>>, <<Frame("close", 0)>>}  OBVIOUS
<1>3. Silent(Frame("close", 0))  BY SilentFrame DEF Kinds
<1> HIDE DEF framed, tooMuch, more
<1>4. \A x \in Sockets : more[x] = <<>> \/ \E f : Silent(f) /\ more[x] = <<f>>  BY <1>2, <1>3
<1>5. QED BY <1>1, <1>4, SilentStream

\* send(): its frame is taken, or it is answered at once, and with it all that waits when
\* the socket is destroyed.
LEMMA SendBooks == ASSUME AnswersInv, FramesTyped, NEW w \in Sockets, Send(w) PROVE AnswersInv'
<1>1. PICK n : n = sends[w] + 1  OBVIOUS
<1>2. /\ UNCHANGED wire /\ sends'[w] = sends[w] + 1
      /\ \A x \in Sockets : x # w => sends'[x] = sends[x]
  BY DEF FramesTyped, Send, peerVars
<1>3. AllBooks  BY DEF AnswersInv
<1>4. ASSUME NEW lost, NEW more, NEW told, Stream(lost, more, told),
             \A x \in Sockets : x # w => more[x] = <<>> /\ told[x] = <<>>,
             Books(queue'[w], answers'[w], wire'[w], sends'[w])
      PROVE  AnswersInv'
  <2>1. ASSUME NEW x \in Sockets, x # w PROVE Books(queue'[x], answers'[x], wire'[x], sends'[x])
    <3>1. sends'[x] = sends[x] /\ UNCHANGED wire /\ more[x] = <<>> /\ told[x] = <<>>
      BY <1>2, <1>4, <2>1
    <3>2. QED BY <1>3, <1>4, <3>1, StreamBooks
  <2>2. answers' = [x \in Sockets |-> answers'[x]]  BY <1>4, StreamShape
  <2>3. QED BY <1>4, <2>1, <2>2 DEF AnswersInv, AllBooks
<1>5. CASE SendWrites(w, n)
  <2>1. PICK more : more = Of(w, <<Frame("app", n)>>)  OBVIOUS
  <2>2. PICK told : told = Of(w, IF destroyed[w] THEN <<Told(n, "error")>> ELSE <<>>)  OBVIOUS
  <2>3. Stream({}, more, told)  BY <1>5, <2>1, <2>2 DEF SendWrites
  <2>4. \A x \in Sockets : x # w => more[x] = <<>> /\ told[x] = <<>>  BY <2>1, <2>2, OfOne
  <2>5. /\ more[w] = <<Frame("app", n)>>
        /\ told[w] = IF destroyed[w] THEN <<Told(n, "error")>> ELSE <<>>
    BY <2>1, <2>2, OfOne
  <2>6. destroyed'[w] <=> destroyed[w]
    <3>1. destroyed' = [x \in Sockets |-> destroyed[x] \/ x \in {}]  BY <2>3 DEF Stream
    <3>2. QED BY <3>1
  <2>7. CASE destroyed[w]
    <3>1. "error" \in Results \ {"ok"}  BY DEF Results
    <3>2. Books(queue'[w], answers'[w], wire'[w], sends'[w])
      BY <1>1, <1>2, <1>3, <2>3, <2>5, <2>6, <2>7, <3>1, StreamAnswer
    <3>3. QED BY <1>4, <2>3, <2>4, <3>2
  <2>8. CASE ~destroyed[w]
    <3>1. Books(queue'[w], answers'[w], wire'[w], sends'[w])
      BY <1>1, <1>2, <1>3, <2>3, <2>5, <2>6, <2>8, StreamSend
    <3>2. QED BY <1>4, <2>3, <2>4, <3>1
  <2>9. QED BY <2>7, <2>8
<1>6. CASE SendExceeds(w, n)
  <2>1. PICK told : told = Of(w, <<Told(n, "nobufs")>>)  OBVIOUS
  <2>2. Stream({w}, Nothing, told)  BY <1>6, <2>1 DEF SendExceeds, TooMuch
  <2>3. \A x \in Sockets : x # w => Nothing[x] = <<>> /\ told[x] = <<>>  BY <2>1, OfOne
  <2>4. told[w] = <<Told(n, "nobufs")>> /\ Nothing[w] = <<>>  BY <2>1, OfOne
  <2>5. "nobufs" \in Results \ {"ok"}  BY DEF Results
  <2>6. Books(queue'[w], answers'[w], wire'[w], sends'[w])
    BY <1>1, <1>2, <1>3, <2>2, <2>4, <2>5, StreamAnswer
  <2>7. QED BY <1>4, <2>2, <2>3, <2>6
<1>7. CASE SendThrows(w, n)
  <2>1. PICK told : told = Of(w, <<Told(n, "error")>>)  OBVIOUS
  <2>2. Stream({}, Nothing, told)  BY <1>7, <2>1 DEF SendThrows
  <2>3. \A x \in Sockets : x # w => Nothing[x] = <<>> /\ told[x] = <<>>  BY <2>1, OfOne
  <2>4. told[w] = <<Told(n, "error")>> /\ Nothing[w] = <<>>  BY <2>1, OfOne
  <2>5. "error" \in Results \ {"ok"}  BY DEF Results
  <2>6. Books(queue'[w], answers'[w], wire'[w], sends'[w])
    BY <1>1, <1>2, <1>3, <2>2, <2>4, <2>5, StreamAnswer
  <2>7. QED BY <1>4, <2>2, <2>3, <2>6
<1>8. QED BY <1>1, <1>5, <1>6, <1>7 DEF Send

\* A frame that goes out.
LEMMA FlushBooks == ASSUME AnswersInv, FramesTyped, NEW w \in Sockets, Flush(w) PROVE AnswersInv'
<1>1. PICK q, a, v, s : q = queue[w] /\ a = answers[w] /\ v = wire[w] /\ s = sends[w]  OBVIOUS
<1>2. Books(q, a, v, s)  BY <1>1 DEF AnswersInv, AllBooks
<1>3. PICK b : b = IF Head(q).kind = "app" THEN Append(a, Told(Head(q).send, "ok")) ELSE a  OBVIOUS
<1>4. /\ q # <<>> /\ UNCHANGED sends
      /\ queue' = [queue EXCEPT ![w] = Tail(q)]
      /\ wire' = [wire EXCEPT ![w] = Append(v, Head(q))]
      /\ answers' = [answers EXCEPT ![w] = b]
  BY <1>1, <1>3 DEF Flush
<1>5. Books(Tail(q), b, Append(v, Head(q)), s)  BY <1>2, <1>3, <1>4, BooksFlush
<1>6. DOMAIN answers = Sockets  BY DEF AnswersInv
<1>7. ASSUME NEW x \in Sockets PROVE Books(queue'[x], answers'[x], wire'[x], sends'[x])
  <2>1. CASE x = w
    <3>1. queue'[w] = Tail(q) /\ wire'[w] = Append(v, Head(q)) /\ answers'[w] = b
      BY <1>4, <1>6 DEF FramesTyped
    <3>2. QED BY <1>1, <1>4, <1>5, <2>1, <3>1
  <2>2. CASE x # w
    <3>1. queue'[x] = queue[x] /\ wire'[x] = wire[x] /\ answers'[x] = answers[x]
      BY <1>4, <1>6, <2>2 DEF FramesTyped
    <3>2. QED BY <1>4, <3>1 DEF AnswersInv, AllBooks
  <2>3. QED BY <2>1, <2>2
<1>8. answers' = [x \in Sockets |-> answers'[x]]  BY <1>4 DEF AnswersInv
<1>9. QED BY <1>7, <1>8 DEF AnswersInv, AllBooks

\* Every step.
LEMMA StepBooks == ASSUME AnswersInv, FramesTyped, Next PROVE AnswersInv'
<1>1. CASE Upgraded
  <2>1. UNCHANGED <<wire, sends>>  BY <1>1 DEF Upgraded, peerVars
  <2>2. UNCHANGED streamVars \/ \E w : Stream({w}, Nothing, Nothing)  BY <1>1 DEF Upgraded
  <2>3. QED BY <2>1, <2>2, LostStream, SameBooks DEF streamVars
<1>2. CASE FailWebSocket
  <2>1. UNCHANGED <<wire, sends>> /\ \E w : Stream({w}, Nothing, Nothing)
    BY <1>2 DEF FailWebSocket, peerVars
  <2>2. QED BY <2>1, LostStream
<1>3. CASE FinalizeClose  BY <1>3, SameBooks DEF FinalizeClose, streamVars, peerVars
<1>4. CASE UserReturns  BY <1>4, SameBooks DEF UserReturns, streamVars, peerVars
<1>5. CASE FinishScheduled  BY <1>5, SameBooks DEF FinishScheduled, streamVars, peerVars
<1>6. CASE Data  BY <1>6, SameBooks DEF Data, streamVars
<1>7. CASE CloseServer
  <2>1. UNCHANGED <<wire, sends>> /\ \E S : CloseAll(S)  BY <1>7 DEF CloseServer, peerVars
  <2>2. QED BY <2>1, CloseAllBooks
<1>8. CASE HeadersEmitted
  <2>1. UNCHANGED <<wire, sends>>  BY <1>8 DEF HeadersEmitted, peerVars
  <2>2. UNCHANGED streamVars \/ \E w : Stream({}, Of(w, <<Frame("response", 0)>>), Nothing)
    BY <1>8 DEF HeadersEmitted
  <2>3. "response" \in Kinds \ {"app"}  BY DEF Kinds
  <2>4. QED BY <2>1, <2>2, <2>3, SilentOne, SameBooks DEF streamVars
<1>9. ASSUME NEW w \in Sockets, Application(w) PROVE AnswersInv'
  <2>1. CASE HandleUpgrade(w)  BY <2>1, SameBooks DEF HandleUpgrade, streamVars, peerVars
  <2>2. CASE Close(w)
    <3>1. UNCHANGED <<wire, sends>> /\ CloseAll({w})  BY <2>2 DEF Close, peerVars
    <3>2. QED BY <3>1, CloseAllBooks
  <2>3. CASE Terminate(w)
    <3>1. UNCHANGED <<wire, sends>> /\ Stream({w}, Nothing, Nothing)  BY <2>3 DEF Terminate, peerVars
    <3>2. QED BY <3>1, LostStream
  <2>4. QED BY <1>9, <2>1, <2>2, <2>3, SendBooks DEF Application
<1>10. ASSUME NEW w \in Sockets, Socket(w) PROVE AnswersInv'
  <2>1. CASE SocketFails(w)
    <3>1. UNCHANGED <<wire, sends>> /\ Stream({w}, Nothing, Nothing)  BY <2>1 DEF SocketFails, peerVars
    <3>2. QED BY <3>1, LostStream
  <2>2. CASE AutoDestroy(w)
    <3>1. UNCHANGED <<wire, sends>> /\ Stream({w}, Nothing, Nothing)  BY <2>2 DEF AutoDestroy, peerVars
    <3>2. QED BY <3>1, LostStream
  <2>3. CASE CloseTimeout(w)
    <3>1. UNCHANGED <<wire, sends>> /\ Stream({w}, Nothing, Nothing)  BY <2>3 DEF CloseTimeout, peerVars
    <3>2. QED BY <3>1, LostStream
  <2>4. CASE SocketEnds(w)  BY <2>4, SameBooks DEF SocketEnds, streamVars
  <2>5. CASE SocketCloses(w)  BY <2>5, SameBooks DEF SocketCloses, streamVars
  <2>6. QED BY <1>10, <2>1, <2>2, <2>3, <2>4, <2>5, FlushBooks DEF Socket
<1>11. QED BY <1>1, <1>2, <1>3, <1>4, <1>5, <1>6, <1>7, <1>8, <1>9, <1>10, HandleEventBooks
           DEF Next, Proceed

\* A send is queued or answered, and that once; its successes are the frames sent.
Counted(q, a, v, n) ==
    /\ Cardinality({i \in DOMAIN q : q[i].send = n})
         + Cardinality({i \in DOMAIN a : a[i].send = n}) = 1
    /\ Cardinality({i \in DOMAIN v : v[i].send = n})
         = Cardinality({i \in DOMAIN a : a[i] = Told(n, "ok")})

\* The books say so.
LEMMA BooksCount ==
    ASSUME NEW q, NEW a, NEW v, NEW s, Books(q, a, v, s), NEW n \in Nat \ {0}, n <= s
    PROVE  Counted(q, a, v, n)
<1>1. Right(q, a, v, s, n)  BY DEF Books
<1>2. q \in Seq(FrameType) /\ a \in Seq(AnswerType) /\ v \in Seq(FrameType)  BY DEF Books, GoodFrames
<1>3. Cardinality({i \in DOMAIN q : q[i].send = n}) = IF Has(q, n) THEN 1 ELSE 0
  BY <1>1, <1>2, CountHas DEF Right
<1>4. Cardinality({i \in DOMAIN a : a[i].send = n}) = IF Has(a, n) THEN 1 ELSE 0
  BY <1>1, <1>2, CountHas DEF Right
<1>5. Cardinality({i \in DOMAIN v : v[i].send = n}) = IF Has(v, n) THEN 1 ELSE 0
  BY <1>1, <1>2, CountHas DEF Right
<1>6. Cardinality({i \in DOMAIN a : a[i] = Told(n, "ok")}) = IF HasOk(a, n) THEN 1 ELSE 0
  <2>1. DOMAIN a = 1..Len(a)  BY <1>2, LenProperties
  <2>2. ASSUME NEW i \in 1..Len(a)
        PROVE  a[i] = Told(n, "ok") <=> a[i].send = n /\ a[i].result = "ok"
    <3>1. a[i] \in AnswerType  BY <1>2, <2>1, ElementOfSeq
    <3>2. QED BY <3>1 DEF AnswerType, Told
  <2>3. PICK t : t = {i \in DOMAIN a : a[i] = Told(n, "ok")}  OBVIOUS
  <2>4. CASE HasOk(a, n)
    <3>1. PICK i \in 1..Len(a) : a[i].send = n /\ a[i].result = "ok"  BY <2>4 DEF HasOk
    <3>2. t = {i}  BY <1>1, <2>1, <2>2, <2>3, <3>1 DEF Right, Once
    <3>3. Cardinality({i}) = 1  BY FS_Singleton
    <3>4. QED BY <2>3, <2>4, <3>2, <3>3
  <2>5. CASE ~HasOk(a, n)
    <3>1. t = {}  BY <2>1, <2>2, <2>3, <2>5 DEF HasOk
    <3>2. Cardinality({}) = 0  BY FS_EmptySet
    <3>3. QED BY <2>3, <2>5, <3>1, <3>2
  <2>6. QED BY <2>4, <2>5
<1>7. (Has(q, n) \/ Has(a, n)) /\ ~(Has(q, n) /\ Has(a, n)) /\ (Has(v, n) <=> HasOk(a, n))
  BY <1>1 DEF Right
<1>8. QED BY <1>3, <1>4, <1>5, <1>6, <1>7 DEF Counted

\* A send() is in the socket's queue or its callback was called, and that once; it was
\* called with success when its frame went to the peer: whatever destroys the socket, in
\* the middle of send(), of close() or of an event, fails what waits and nothing else.
THEOREM AnswersCorrect == Spec => []AnsweredOnce
<1>1. Init => AnswersInv
  <2> SUFFICES ASSUME Init PROVE AnswersInv  OBVIOUS
  <2>1. answers = Nothing /\ queue = Nothing /\ wire = Nothing /\ sends = [w \in Sockets |-> 0]
    BY DEF Init
  <2>2. \A x \in Sockets : queue[x] = <<>> /\ answers[x] = <<>> /\ wire[x] = <<>> /\ sends[x] = 0
    BY <2>1 DEF Nothing
  <2>3. AllBooks  BY <2>2, BooksEmpty DEF AllBooks
  <2>4. answers = [x \in Sockets |-> answers[x]]  BY <2>1 DEF Nothing
  <2>5. QED BY <2>3, <2>4 DEF AnswersInv
<1>2. AnswersInv /\ FramesTyped /\ [Next]_vars => AnswersInv'
  <2> SUFFICES ASSUME AnswersInv, FramesTyped, [Next]_vars PROVE AnswersInv'  OBVIOUS
  <2>1. CASE UNCHANGED vars  BY <2>1, SameBooks DEF vars, streamVars, peerVars
  <2>2. QED BY <2>1, StepBooks
<1>3. AnswersInv /\ FramesTyped => AnsweredOnce
  <2> SUFFICES ASSUME AnswersInv, FramesTyped, NEW w \in Sockets, NEW n \in 1..sends[w]
               PROVE  Counted(queue[w], answers[w], wire[w], n)
    BY DEF AnsweredOnce, Asked, Count, Counted
  <2>1. Books(queue[w], answers[w], wire[w], sends[w])  BY DEF AnswersInv, AllBooks
  <2>2. n \in Nat \ {0} /\ n <= sends[w]  BY DEF FramesTyped
  <2>3. QED BY <2>1, <2>2, BooksCount
<1>4. TypeOK /\ QueueInv => FramesTyped  BY TypesGiven
<1>5. QED BY <1>1, <1>2, <1>3, <1>4, TypeCorrect, QueueInvariant, PTL DEF Spec
=============================================================================
