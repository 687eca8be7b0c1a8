------------------------- MODULE NativeCallsProofs -------------------------
(***************************************************************************)
(* What the calls in progress leave to be done: that every watch, limit    *)
(* and object of a WebSocket on the native transport is seen to, by a step *)
(* that still lies on the stack, for every bound and every choice of TLS.  *)
(***************************************************************************)
EXTENDS NativeWebSocketProofs

\* The step in progress is one of these.
Tops(names) == stack # <<>> /\ Head(stack).at \in names

Parsing == {"feed", "readAvailable", "SSL_read"}
Shutdowns == {"performTLSShutdown", "shutdownIfPending"}
Submitters == {"submit", "submitted"}

\* What decides about a step that is put on the stack.
NewNative(s) ==
    /\ s.at = "updatePoll" => stack = <<>> \/ Tops({"activate"})
    /\ s.at = "submitted" => Tops({"submit"}) /\ s.on = Head(stack).on /\ queue = <<>> /\ ~flushing
    /\ s.at = "flushWrites" => stack = <<>> \/ Tops({"submit", "activate"})
    /\ s.at = "writing" => Tops({"flushWrites"}) /\ ~closing /\ active
    /\ s.at = "feed" => Tops({"opened"}) /\ upgradePending
    /\ s.at = "readAvailable" => stack = <<>>
    /\ s.at = "processMemoryBIO" => Tls /\ (stack = <<>> \/ Tops({"readAvailable", "activate"}))
    /\ s.at \in {"SSL_read", "flushOutput"} => Tops({"processMemoryBIO"}) /\ ~closing
    /\ s.at \in {"message", "pong"} => Tops(Parsing)
    /\ s.at = "peerClose" => Tops(Parsing) /\ ~parserClosing /\ parserClosing' /\ closeSent'
    /\ s.at = "reply" => Tops(Parsing) /\ ~parserClosing /\ parserClosing' /\ ~closeSent /\ closeSent'
    /\ s.at = "peerClosed" => Tops({"peerClose"}) /\ ~closing
    /\ s.at = "performTLSShutdown" =>
         (Tops({"writing"}) /\ queue = <<>>) \/ (Tops({"peerClosed"}) /\ ~closing)
    /\ s.at = "shutdownIfPending" => stack = <<>>
    /\ s.at = "cancelWrites" => Tops({"closeNow"}) /\ ~closing /\ s.why = Head(stack).why
    /\ s.at = "fail" =>
         \/ stack = <<>> /\ poll = "open"
         \/ Tops({"readAvailable"})
         \/ Tops({"flushWrites", "writing", "SSL_read", "flushOutput"} \cup Shutdowns) /\ ~closing
    /\ s.at = "destroy" => Tops({"requestDestroy"}) /\ active
    /\ s.at = "activate" => stack = <<>> /\ StillPending /\ nodeSocket # "released"
    /\ s.at = "release" => OnPollClosed
NewCall(s) ==
    /\ s.at = "_onNativeMessage" => Tops({"message"}) /\ ~closing
    /\ s.at = "_onNativeClose" => Tops({"peerClose"}) /\ ~closing /\ s.on = Head(stack).on
    /\ s.at = "_onNativeBackpressure" => Tops(Submitters) /\ ~closing /\ backpressureExceeded'
    /\ s.at = "_onNativeTransportError" => Tops({"fail"}) /\ ~closing
    /\ s.at = "_onNativeClosed" => OnPollClosed
    /\ s.at = "writeCallback" =>
         /\ queue # <<>> /\ s.on = First /\ HasCallback(First)
         /\ \/ Tops({"writing"}) /\ ~closing /\ s.why = "ok" /\ requests'[First].outcome = "sent"
            \/ /\ Tops({"cancelWrites"})
               /\ s.why = (IF Head(stack).why = "nobufs" THEN "nobufs" ELSE "error")
NewClose(s) ==
    s.at = "closeNow" =>
      \/ s.why = "nobufs" /\ Tops(Submitters) /\ ~closing /\ backpressureExceeded'
      \/ s.why = "handshake" /\ Tops(Shutdowns) /\ ShutdownDue
      \/ /\ s.why = "cancelled"
         /\ \/ Tops({"readAvailable", "terminate"})
            \/ Tops({"SSL_read", "fail", "requestDestroy"} \cup Shutdowns) /\ ~closing
            \/ stack = <<>>
            \/ MayAct /\ ~writable
NewScript(s) ==
    /\ s.at = "submit" =>
         /\ ~closing /\ s.on = NextRequest
         /\ \/ Tops(Owned) \/ Tops({"activated"})
            \/ MayAct /\ readyState = "OPEN" /\ writable
    /\ s.at = "activated" => Tops({"activate"})
    /\ s.at = "opened" => Tops({"activated"}) /\ ~closing /\ requests' = NewRequest("response", 1)
    /\ s.at = "_finishNativeWrite" =>
         \/ /\ Tops(Submitters) /\ s.on = Head(stack).on /\ requests[s.on].kind \notin Owned
            /\ \/ s.why = "async"
               \/ s.why = "sync" /\ Tops({"submitted"}) /\ ~closing /\ ~Contains(queue, s.on)
               \/ s.why = "error" /\ Tops({"submitted"}) /\ closing
         \/ MayAct /\ readyState = "OPEN" /\ s.on = NextRequest /\ s.why = "error" /\ ~writable
    /\ s.at = "_fail" =>
         \/ Tops({"activated"})
         \/ /\ Tops({"_finishNativeWrite"}) /\ Head(stack).why = "error"
            /\ requests[Head(stack).on].kind # "close"
    /\ s.at = "terminate" => Tops({"_fail"}) \/ MayAct
    /\ s.at = "_finalizeClose" =>
         \/ Tops({"_onNativeClosed"}) \/ stack = <<>>
         \/ Tops({"terminate"}) /\ ~nativeActive
    /\ s.at = "requestDestroy" => Tops({"_finalizeClose"}) /\ readyState # "CLOSED"
    /\ s.at = "user" =>
         \/ Tops({"opened"}) /\ upgradePending
         \/ given /\ Tops({"_onNativeMessage", "_onNativeTransportError", "writeCallback", "_fail",
                           "_finalizeClose"})
    /\ s.at = "uncaught" => ~given /\ Tops({"_onNativeTransportError", "_fail"})
New(s) == NewNative(s) /\ NewCall(s) /\ NewClose(s) /\ NewScript(s)

\* n new steps in place of the first d, each of which may be put there.
Pushes(n, d) ==
    /\ Moves(n, d) /\ (d = 1 => stack # <<>>)
    /\ \A k \in 1..n : New(stack'[k])
Pushed == \E n \in Nat, d \in {0, 1} : Pushes(n, d)

\* A step of the stack that puts new ones in its place pushes what New allows.
LEMMA PushPuts ==
    ASSUME StackTyped
    PROVE  /\ UNCHANGED stack => Pushed
           /\ stack # <<>> /\ Drops => Pushed
           /\ stack # <<>> => \A a : Puts1(a) /\ New(a) => Pushed
           /\ \A a : Covers1(a) /\ New(a) => Pushed
           /\ stack # <<>> => \A a, b : Puts2(a, b) /\ New(a) /\ New(b) => Pushed
           /\ \A a, b : Covers2(a, b) /\ New(a) /\ New(b) => Pushed
           /\ stack # <<>> => \A a, b, c : Puts3(a, b, c) /\ New(a) /\ New(b) /\ New(c) => Pushed
           /\ stack # <<>> => \A a, b, c, d :
                Puts4(a, b, c, d) /\ New(a) /\ New(b) /\ New(c) /\ New(d) => Pushed
<1>1. UNCHANGED stack => Pushed
  <2>1. UNCHANGED stack => Moves(0, 0)
    BY LenProperties DEF Moves, StackTyped
  <2>2. \A k \in 1..0 : FALSE  OBVIOUS
  <2>3. QED BY <2>1, <2>2 DEF Pushed, Pushes
<1>2. stack # <<>> /\ Drops => Pushed
  BY DEF Drops, Pushed, Pushes
<1>3. stack # <<>> => \A a : Puts1(a) /\ New(a) => Pushed
  BY DEF Puts1, Pushed, Pushes
<1>4. \A a : Covers1(a) /\ New(a) => Pushed
  BY DEF Covers1, Pushed, Pushes
<1>5. stack # <<>> => \A a, b : Puts2(a, b) /\ New(a) /\ New(b) => Pushed
  <2> SUFFICES ASSUME stack # <<>>, NEW a, NEW b, Puts2(a, b), New(a), New(b) PROVE Pushed
    OBVIOUS
  <2>1. \A k \in 1..2 : New(stack'[k])  BY DEF Puts2
  <2>2. QED BY <2>1 DEF Puts2, Pushed, Pushes
<1>6. \A a, b : Covers2(a, b) /\ New(a) /\ New(b) => Pushed
  <2> SUFFICES ASSUME NEW a, NEW b, Covers2(a, b), New(a), New(b) PROVE Pushed
    OBVIOUS
  <2>1. \A k \in 1..2 : New(stack'[k])  BY DEF Covers2
  <2>2. QED BY <2>1 DEF Covers2, Pushed, Pushes
<1>7. stack # <<>> => \A a, b, c : Puts3(a, b, c) /\ New(a) /\ New(b) /\ New(c) => Pushed
  <2> SUFFICES ASSUME stack # <<>>, NEW a, NEW b, NEW c, Puts3(a, b, c), New(a), New(b), New(c)
               PROVE  Pushed
    OBVIOUS
  <2>1. \A k \in 1..3 : New(stack'[k])  BY DEF Puts3
  <2>2. QED BY <2>1 DEF Puts3, Pushed, Pushes
<1>8. stack # <<>> => \A a, b, c, d : Puts4(a, b, c, d) /\ New(a) /\ New(b) /\ New(c) /\ New(d)
                                => Pushed
  <2> SUFFICES ASSUME stack # <<>>, NEW a, NEW b, NEW c, NEW d, Puts4(a, b, c, d),
                      New(a), New(b), New(c), New(d)
               PROVE  Pushed
    OBVIOUS
  <2>1. \A k \in 1..4 : New(stack'[k])  BY SMTT(30) DEF Puts4
  <2>2. QED BY <2>1 DEF Puts4, Pushed, Pushes
<1>9. QED BY <1>1, <1>2, <1>3, <1>4, <1>5, <1>6, <1>7, <1>8

\* When the steps without a subject may be put.
LEMMA NewAts ==
    /\ stack = <<>> \/ Tops({"activate"}) => New(At("updatePoll"))
    /\ stack = <<>> \/ Tops({"submit", "activate"}) => New(At("flushWrites"))
    /\ Tops({"flushWrites"}) /\ ~closing /\ active => New(At("writing"))
    /\ Tops({"opened"}) /\ upgradePending => New(At("feed"))
    /\ stack = <<>> => New(At("readAvailable"))
    /\ Tls /\ (stack = <<>> \/ Tops({"readAvailable", "activate"})) => New(At("processMemoryBIO"))
    /\ Tops({"processMemoryBIO"}) /\ ~closing => New(At("SSL_read")) /\ New(At("flushOutput"))
    /\ Tops(Parsing) => New(At("message")) /\ New(At("pong"))
    /\ Tops(Parsing) /\ ~parserClosing /\ parserClosing' /\ ~closeSent /\ closeSent' => New(At("reply"))
    /\ Tops({"peerClose"}) /\ ~closing => New(At("peerClosed"))
    /\ (Tops({"writing"}) /\ queue = <<>>) \/ (Tops({"peerClosed"}) /\ ~closing)
         => New(At("performTLSShutdown"))
    /\ stack = <<>> => New(At("shutdownIfPending"))
<1>1. /\ stack = <<>> \/ Tops({"activate"}) => New(At("updatePoll"))
      /\ stack = <<>> \/ Tops({"submit", "activate"}) => New(At("flushWrites"))
      /\ Tops({"flushWrites"}) /\ ~closing /\ active => New(At("writing"))
  BY SMTT(30) DEF New, NewNative, NewCall, NewClose, NewScript, At, Step
<1>2. /\ Tops({"opened"}) /\ upgradePending => New(At("feed"))
      /\ stack = <<>> => New(At("readAvailable"))
      /\ Tls /\ (stack = <<>> \/ Tops({"readAvailable", "activate"})) => New(At("processMemoryBIO"))
  BY SMTT(30) DEF New, NewNative, NewCall, NewClose, NewScript, At, Step
<1>3. /\ Tops({"processMemoryBIO"}) /\ ~closing => New(At("SSL_read")) /\ New(At("flushOutput"))
      /\ Tops(Parsing) => New(At("message")) /\ New(At("pong"))
  BY SMTT(30) DEF New, NewNative, NewCall, NewClose, NewScript, At, Step
<1>4. Tops(Parsing) /\ ~parserClosing /\ parserClosing' /\ ~closeSent /\ closeSent' => New(At("reply"))
  BY SMTT(30) DEF New, NewNative, NewCall, NewClose, NewScript, At, Step
<1>5. Tops({"peerClose"}) /\ ~closing => New(At("peerClosed"))
  BY SMTT(30) DEF New, NewNative, NewCall, NewClose, NewScript, At, Step
<1>6. /\ (Tops({"writing"}) /\ queue = <<>>) \/ (Tops({"peerClosed"}) /\ ~closing)
           => New(At("performTLSShutdown"))
      /\ stack = <<>> => New(At("shutdownIfPending"))
  BY SMTT(30) DEF New, NewNative, NewCall, NewClose, NewScript, At, Step
<1>7. QED BY <1>1, <1>2, <1>3, <1>4, <1>5, <1>6

\* Errors, closing and the upcalls: steps without a subject that may be pushed, and when.
LEMMA NewAts2 ==
    /\ (\/ stack = <<>> /\ poll = "open"
        \/ Tops({"readAvailable"})
        \/ Tops({"flushWrites", "writing", "SSL_read", "flushOutput"} \cup Shutdowns) /\ ~closing)
       => New(At("fail"))
    /\ Tops({"requestDestroy"}) /\ active => New(At("destroy"))
    /\ stack = <<>> /\ StillPending /\ nodeSocket # "released" => New(At("activate"))
    /\ OnPollClosed => New(At("release")) /\ New(At("_onNativeClosed"))
    /\ Tops({"message"}) /\ ~closing => New(At("_onNativeMessage"))
    /\ Tops(Submitters) /\ ~closing /\ backpressureExceeded' => New(At("_onNativeBackpressure"))
    /\ Tops({"fail"}) /\ ~closing => New(At("_onNativeTransportError"))
    /\ Tops({"activate"}) => New(At("activated"))
    /\ Tops({"activated"}) /\ ~closing /\ requests' = NewRequest("response", 1) => New(At("opened"))
    /\ (\/ Tops({"activated"})
        \/ /\ Tops({"_finishNativeWrite"}) /\ Head(stack).why = "error"
           /\ requests[Head(stack).on].kind # "close")
       => New(At("_fail"))
    /\ Tops({"_fail"}) \/ MayAct => New(At("terminate"))
    /\ Tops({"_onNativeClosed"}) \/ stack = <<>> \/ (Tops({"terminate"}) /\ ~nativeActive)
         => New(At("_finalizeClose"))
    /\ Tops({"_finalizeClose"}) /\ readyState # "CLOSED" => New(At("requestDestroy"))
    /\ (\/ Tops({"opened"}) /\ upgradePending
        \/ given /\ Tops({"_onNativeMessage", "_onNativeTransportError", "writeCallback", "_fail",
                          "_finalizeClose"}))
       => New(At("user"))
    /\ ~given /\ Tops({"_onNativeTransportError", "_fail"}) => New(At("uncaught"))
  BY DEF New, NewNative, NewCall, NewClose, NewScript, At, Step

\* Steps with a subject: who may push a closeNow() for what reason, and who a flush.
LEMMA NewSubjects ==
    /\ Tops(Submitters) /\ ~closing /\ backpressureExceeded' => New(CloseNow("nobufs"))
    /\ Tops(Shutdowns) /\ ShutdownDue => New(CloseNow("handshake"))
    /\ (\/ Tops({"readAvailable", "terminate"})
        \/ Tops({"SSL_read", "fail", "requestDestroy"} \cup Shutdowns) /\ ~closing
        \/ stack = <<>>
        \/ MayAct /\ ~writable)
       => New(CloseNow("cancelled"))
    /\ \A i : Tops({"submit"}) /\ i = Head(stack).on /\ queue = <<>> /\ ~flushing
         => New(Step("submitted", i, "none"))
    /\ \A why : Tops({"closeNow"}) /\ ~closing /\ why = Head(stack).why
         => New(Step("cancelWrites", 0, why))
    /\ \A i : Tops({"peerClose"}) /\ ~closing /\ i = Head(stack).on
         => New(Step("_onNativeClose", i, "none"))
  BY DEF New, NewNative, NewCall, NewClose, NewScript, CloseNow, Step

\* Who may push a submit() or a write callback, and of which request.
LEMMA NewRequests ==
    /\ queue # <<>> /\ HasCallback(First) /\ Tops({"writing"}) /\ ~closing
       /\ requests'[First].outcome = "sent" => New(Step("writeCallback", First, "ok"))
    /\ \A w : queue # <<>> /\ HasCallback(First) /\ Tops({"cancelWrites"})
              /\ w = (IF Head(stack).why = "nobufs" THEN "nobufs" ELSE "error")
         => New(Step("writeCallback", First, w))
    /\ ~closing /\ (Tops(Owned) \/ Tops({"activated"}) \/ (MayAct /\ readyState = "OPEN" /\ writable))
         => New(Step("submit", NextRequest, "none"))
  BY DEF New, NewNative, NewCall, NewClose, NewScript, CloseNow, Step

\* With what result a submit() may return to _finishNativeWrite().
LEMMA NewBacks ==
    /\ \A i : Tops(Submitters) /\ i = Head(stack).on /\ requests[i].kind \notin Owned
         => New(Back(i, "async"))
    /\ \A i : Tops({"submitted"}) /\ i = Head(stack).on /\ requests[i].kind \notin Owned
              /\ ~closing /\ ~Contains(queue, i) => New(Back(i, "sync"))
    /\ \A i : Tops({"submitted"}) /\ i = Head(stack).on /\ requests[i].kind \notin Owned
              /\ closing => New(Back(i, "error"))
    /\ MayAct /\ readyState = "OPEN" /\ ~writable
         => New(Step("_finishNativeWrite", NextRequest, "error"))
  BY DEF New, NewNative, NewCall, NewClose, NewScript, Back, Step, Tops, Submitters

\* The peer's Close may be pushed by who parsed it.
LEMMA NewPeerClose ==
    ASSUME Tops(Parsing), ~parserClosing, parserClosing', closeSent', NEW s, s.at = "peerClose",
           s.why = "none"
    PROVE  New(s)
  BY DEF New, NewNative, NewCall, NewClose, NewScript

\* The events that consume() pushes are new in this sense.
LEMMA ConsumePushes ==
    ASSUME TypeInv, NEW d \in {0, 1}, Tops(Parsing), NEW rest, rest = Below(d), Consume(rest)
    PROVE  Pushed
<1>0. stack # <<>>  BY DEF Tops
<1>1. PICK n \in Nat :
        /\ Moves(n, d)
        /\ \/ UNCHANGED <<parserClosing, closeSent>> /\ Events1(n)
           \/ ~parserClosing /\ parserClosing' /\ closeSent' /\ LastEvents(n)
  BY <1>0, ConsumeMoves
<1>2. New(At("message")) /\ New(At("pong"))  BY NewAts
<1>3. ASSUME Events1(n), NEW k \in 1..n PROVE New(stack'[k])
  BY <1>2, <1>3 DEF Events1
<1>4. ASSUME ~parserClosing, parserClosing', closeSent', LastEvents(n), NEW k \in 1..n
      PROVE  New(stack'[k])
  <2>1. CASE k = n
    <3>1. stack'[k].at = "peerClose" /\ stack'[k].why = "none"  BY <1>4, <2>1 DEF LastEvents
    <3>2. QED BY <1>4, <3>1, NewPeerClose
  <2>2. CASE k \in 1..n-1
    <3>1. stack'[k] \in {At("message"), At("pong")} \/ (~closeSent /\ stack'[k] = At("reply"))
      BY <1>4, <2>2 DEF LastEvents
    <3>2. ~closeSent => New(At("reply"))  BY <1>4, NewAts
    <3>3. QED BY <1>2, <3>1, <3>2
  <2>3. QED BY <2>1, <2>2
<1>5. \A k \in 1..n : New(stack'[k])
  <2>1. CASE Events1(n)  BY <1>3, <2>1
  <2>2. CASE ~parserClosing /\ parserClosing' /\ closeSent' /\ LastEvents(n)  BY <1>4, <2>2
  <2>3. QED BY <1>1, <2>1, <2>2
<1>6. QED BY <1>0, <1>1, <1>5 DEF Pushed, Pushes

\* Every step of the transport pushes only what New allows.
LEMMA NativePushed ==
    ASSUME BaseInv, AtSubmit, NativeNext PROVE Pushed
<1>a. TypeInv /\ Formed /\ StackTyped  BY DEF BaseInv, TypeInv
<1>1. CASE UpdatePoll  BY <1>1, <1>a, UpdatePollMoves, PushPuts DEF UpdatePoll, Top
<1>2. CASE Submit
  <2>1. PICK i : /\ i = Head(stack).on /\ stack # <<>>
                 /\ SubmitBehindOthers(i) \/ SubmitIdle(i) \/ Submitted(i)
    BY <1>2 DEF Submit
  <2>0. UNCHANGED closing  BY <1>2 DEF Submit
  <2>2. CASE SubmitBehindOthers(i)
    <3>1. i \in Nat /\ requests'[i].kind = requests[i].kind
      <4>1. i \in DOMAIN requests /\ i \in Nat  BY <2>1, <2>2, BehindOthersData
      <4>2. PICK r : r = requests[i]  OBVIOUS
      <4>3. r \in Requests /\ requests'[i] = Deferred(r)
        BY <2>1, <2>2, <4>1, <4>2, BehindOthersData DEF Edits
      <4>5. requests'[i].kind = requests[i].kind
        BY ONLY <4>2, <4>3 DEF Deferred, Requests
      <4>6. QED BY <4>1, <4>5
    <3>2. Tops({"submit"}) /\ Tops(Submitters)  BY <2>2 DEF SubmitBehindOthers, Top, Tops, Submitters
    <3>3. backpressureExceeded' /\ ~closing
             => New(At("_onNativeBackpressure")) /\ New(CloseNow("nobufs"))
      BY <3>2, NewAts2, NewSubjects
    <3>4. requests'[i].kind \notin Owned => New(Back(i, "async"))
      BY <2>1, <3>1, <3>2, NewBacks
    <3>5. ~closing  BY <3>2 DEF Tops, AtSubmit
    <3>6. QED BY <1>a, <2>1, <2>2, <3>1, <3>3, <3>4, <3>5, BehindOthersMoves, PushPuts
  <2>3. CASE SubmitIdle(i)
    <3>1. i \in Nat  BY <2>1, <2>3, SubmitIdleData
    <3>2. Tops({"submit"}) /\ Tops({"submit", "activate"}) /\ queue = <<>> /\ ~flushing
      BY <2>3 DEF SubmitIdle, Top, Tops
    <3>3. New(At("flushWrites"))  BY <3>2, NewAts
    <3>4. New(Step("submitted", i, "none"))  BY <2>1, <3>2, NewSubjects
    <3>5. QED BY <1>a, <2>1, <2>3, <3>1, <3>3, <3>4, SubmitIdleMoves, PushPuts
  <2>4. CASE Submitted(i)
    <3>1. i \in Nat  BY <2>1, <2>4, SubmittedData
    <3>2. Tops({"submitted"}) /\ Tops(Submitters)  BY <2>4 DEF Submitted, Top, Tops, Submitters
    <3>3. backpressureExceeded' = backpressureExceeded
      BY <2>4 DEF Submitted, backpressureExceeded
    <3>4. backpressureExceeded /\ ~closing
             => New(At("_onNativeBackpressure")) /\ New(CloseNow("nobufs"))
      BY <3>2, <3>3, NewAts2, NewSubjects
    <3>5. requests[i].kind \notin Owned =>
            /\ New(Back(i, "async"))
            /\ closing => New(Back(i, "error"))
            /\ ~closing /\ ~Contains(queue, i) => New(Back(i, "sync"))
      BY <2>1, <3>2, NewBacks
    <3>6. QED BY <1>a, <2>1, <2>4, <3>1, <3>4, <3>5, SubmittedMoves, PushPuts
  <2>5. QED BY <2>1, <2>2, <2>3, <2>4
<1>3. CASE FlushWrites
  <2>1. Tops({"flushWrites"}) /\ stack # <<>>
        /\ Tops({"flushWrites", "writing", "SSL_read", "flushOutput"} \cup Shutdowns)
    BY <1>3 DEF FlushWrites, Top, Tops
  <2>2. ~closing => New(At("fail")) /\ (active => New(At("writing")))
    BY <2>1, NewAts, NewAts2
  <2>3. QED BY <1>3, <1>a, <2>1, <2>2, FlushWritesMoves, PushPuts
<1>4. CASE Writing
  <2>0. stack # <<>> /\ Tops({"writing"})
        /\ Tops({"flushWrites", "writing", "SSL_read", "flushOutput"} \cup Shutdowns)
    BY <1>4 DEF Writing, Top, Tops
  <2>1. ASSUME NEW m \in Nat, Sending(m) PROVE Pushed
    <3>1. queue # <<>> /\ Wrote(m) /\ ~closing  BY <2>1 DEF Sending
    <3>2. CASE UNCHANGED stack  BY <1>a, <3>2, PushPuts
    <3>3. CASE /\ requests[First].left = m /\ HasCallback(First)
               /\ Covers1(Step("writeCallback", First, "ok"))
      <4>1. First \in DOMAIN requests /\ requests \in Seq(Requests)
        BY <1>a, <2>1, SendingData DEF TypeInv
      <4>2. requests'[First].outcome = "sent"
        BY <3>1, <3>3, <4>1 DEF Wrote, First, Requests
      <4>3. New(Step("writeCallback", First, "ok"))
        BY <2>0, <3>1, <3>3, <4>2, NewRequests
      <4>4. QED BY <1>a, <3>3, <4>3, PushPuts
    <3>4. QED BY <1>a, <3>1, <3>2, <3>3, WroteMoves
  <2>2. ~closing => New(At("fail"))  BY <2>0, NewAts2
  <2>3. queue = <<>> => New(At("performTLSShutdown"))  BY <2>0, NewAts
  <2>4. QED BY <1>4, <1>a, <2>0, <2>1, <2>2, <2>3, WritingMoves, PushPuts
<1>5. CASE Feed
  <2>1. stack # <<>> /\ Tail(stack) = Below(1) /\ Tops(Parsing)
    BY <1>5 DEF Feed, Top, Below, Tops, Parsing
  <2>2. QED BY <1>5, <1>a, <2>1, FeedMoves, PushPuts, ConsumePushes
<1>6. CASE Receive
  <2>1. stack # <<>> /\ Tail(stack) = Below(1) /\ Tops(Parsing) /\ Tops({"readAvailable"})
        /\ Tops({"readAvailable", "terminate"}) /\ Tops({"readAvailable", "activate"})
    BY <1>6 DEF Receive, Top, Below, Tops, Parsing
  <2>2. /\ New(At("fail")) /\ New(CloseNow("cancelled"))
        /\ Tls => New(At("processMemoryBIO"))
    BY <2>1, NewAts, NewAts2, NewSubjects
  <2>3. QED BY <1>6, <1>a, <2>1, <2>2, ReceiveMoves, PushPuts, ConsumePushes
<1>7. CASE ProcessMemoryBIO
  <2>1. stack # <<>> /\ Tops({"processMemoryBIO"})  BY <1>7 DEF ProcessMemoryBIO, Top, Tops
  <2>2. ~closing => New(At("SSL_read")) /\ New(At("flushOutput"))  BY <2>1, NewAts
  <2>3. QED BY <1>7, <1>a, <2>1, <2>2, ProcessMemoryBIOMoves, PushPuts
<1>8. CASE ReadTLS
  <2>1. /\ stack # <<>> /\ stack = Below(0) /\ Tops(Parsing)
        /\ Tops({"flushWrites", "writing", "SSL_read", "flushOutput"} \cup Shutdowns)
        /\ Tops({"SSL_read", "fail", "requestDestroy"} \cup Shutdowns)
    BY <1>8 DEF ReadTLS, Top, Below, Tops, Parsing
  <2>2. ~closing => New(At("fail")) /\ New(CloseNow("cancelled"))
    BY <2>1, NewAts2, NewSubjects
  <2>3. QED BY <1>8, <1>a, <2>1, <2>2, ReadTLSMoves, PushPuts, ConsumePushes
<1>9. CASE FlushOutput
  <2>1. stack # <<>> /\ Tops({"flushWrites", "writing", "SSL_read", "flushOutput"} \cup Shutdowns)
    BY <1>9 DEF FlushOutput, Top, Tops
  <2>2. ~closing => New(At("fail"))  BY <2>1, NewAts2
  <2>3. QED BY <1>9, <1>a, <2>1, <2>2, FlushOutputMoves, PushPuts
<1>10. CASE Dispatch
  <2>0. stack # <<>>  BY <1>10 DEF Dispatch
  <2>1. CASE Drops  BY <1>a, <2>0, <2>1, PushPuts
  <2>2. CASE Head(stack).at = "message" /\ ~closing /\ Puts1(At("_onNativeMessage"))
    <3>1. New(At("_onNativeMessage"))  BY <2>0, <2>2, NewAts2 DEF Tops
    <3>2. QED BY <1>a, <2>0, <2>2, <3>1, PushPuts
  <2>3. CASE /\ Head(stack).at \in Owned /\ ~closing
             /\ Puts1(Step("submit", NextRequest, "none"))
    <3>2. New(Step("submit", NextRequest, "none"))
      BY <2>0, <2>3, NewRequests DEF Tops
    <3>3. QED BY <1>a, <2>0, <2>3, <3>2, PushPuts
  <2>4. CASE /\ Head(stack).at = "peerClose" /\ ~closing
             /\ Puts2(Step("_onNativeClose", Head(stack).on, "none"), At("peerClosed"))
    <3>1. New(Step("_onNativeClose", Head(stack).on, "none")) /\ New(At("peerClosed"))
      BY <2>0, <2>4, NewAts, NewSubjects DEF Tops
    <3>2. QED BY <1>a, <2>0, <2>4, <3>1, PushPuts
  <2>5. CASE /\ Head(stack).at = "peerClosed" /\ ~closing /\ Puts1(At("performTLSShutdown"))
    <3>1. New(At("performTLSShutdown"))  BY <2>0, <2>5, NewAts DEF Tops
    <3>2. QED BY <1>a, <2>0, <2>5, <3>1, PushPuts
  <2>6. QED BY <1>10, <1>a, <2>1, <2>2, <2>3, <2>4, <2>5, DispatchMoves
<1>11. CASE PerformTLSShutdown
  <2>0. /\ stack # <<>> /\ Tops(Shutdowns)
        /\ Tops({"flushWrites", "writing", "SSL_read", "flushOutput"} \cup Shutdowns)
        /\ Tops({"SSL_read", "fail", "requestDestroy"} \cup Shutdowns)
    BY <1>11 DEF PerformTLSShutdown, Top, Tops, Shutdowns
  <2>1. ShutdownDue => New(At("fail")) /\ New(CloseNow("cancelled")) /\ New(CloseNow("handshake"))
    BY <2>0, NewAts2, NewSubjects DEF ShutdownDue
  <2>4. QED BY <1>11, <1>a, <2>0, <2>1, PerformTLSShutdownMoves, PushPuts
<1>12. CASE BeginClose
  <2>0. stack # <<>> /\ Tops({"closeNow"})  BY <1>12 DEF BeginClose, Top, Tops
  <2>1. ~closing => New(Step("cancelWrites", 0, Head(stack).why))  BY <2>0, NewSubjects
  <2>2. QED BY <1>12, <1>a, <2>0, <2>1, BeginCloseMoves, PushPuts
<1>13. CASE CancelWrite
  <2>1. stack # <<>> /\ Tops({"cancelWrites"}) /\ queue # <<>>  BY <1>13 DEF CancelWrite, Top, Tops
  <2>3. PICK w : w = (IF Head(stack).why = "nobufs" THEN "nobufs" ELSE "error")  OBVIOUS
  <2>4. IF HasCallback(First) THEN Covers1(Step("writeCallback", First, w)) ELSE UNCHANGED stack
    BY <1>13, <1>a, <2>3, CancelWriteMoves
  <2>5. HasCallback(First) => New(Step("writeCallback", First, w))  BY <2>1, <2>3, NewRequests
  <2>6. QED BY <1>a, <2>4, <2>5, PushPuts
<1>14. CASE Closed  BY <1>14, <1>a, ClosedMoves, PushPuts DEF Closed, Top
<1>15. CASE Fail
  <2>1. stack # <<>> /\ Tops({"fail"}) /\ Tops({"SSL_read", "fail", "requestDestroy"} \cup Shutdowns)
    BY <1>15 DEF Fail, Top, Tops
  <2>2. ~closing => New(At("_onNativeTransportError")) /\ New(CloseNow("cancelled"))
    BY <2>1, NewAts2, NewSubjects
  <2>3. QED BY <1>15, <1>a, <2>1, <2>2, FailMoves, PushPuts
<1>16. CASE RequestDestroy
  <2>1. /\ stack # <<>> /\ Tops({"requestDestroy"})
        /\ Tops({"SSL_read", "fail", "requestDestroy"} \cup Shutdowns)
    BY <1>16 DEF RequestDestroy, Top, Tops
  <2>2. /\ active => New(At("destroy"))
        /\ ~closing => New(CloseNow("cancelled"))
    BY <2>1, NewAts2, NewSubjects
  <2>3. QED BY <1>16, <1>a, <2>1, <2>2, RequestDestroyMoves, PushPuts
<1>17. CASE Destroy \/ Release
  BY <1>17, <1>a, DestroyMoves, ReleaseMoves, PushPuts DEF Destroy, Release, Top
<1>18. CASE Activate
  <2>1. stack # <<>> /\ Tops({"activate"}) /\ Tops({"submit", "activate"})
        /\ Tops({"readAvailable", "activate"})
    BY <1>18 DEF Activate, Top, Tops
  <2>2. /\ New(At("activated")) /\ New(At("flushWrites")) /\ New(At("updatePoll"))
        /\ Tls => New(At("processMemoryBIO"))
    BY <2>1, NewAts, NewAts2
  <2>3. QED BY <1>18, <1>a, <2>1, <2>2, ActivateMoves, PushPuts
<1>19. CASE OnPoll
  <2>1. PICK m \in Nat : /\ Moves(m, 0) /\ m >= 1 /\ stack'[m] = At("updatePoll")
                         /\ \A k \in 1..m : stack'[k] \in PollSteps
    BY <1>19, <1>a, OnPollMoves
  <2>2. \A a \in PollSteps : New(a)
    <3>1. stack = <<>>  BY <1>19 DEF OnPoll
    <3>2. Tls => New(At("processMemoryBIO"))  BY <3>1, NewAts
    <3>3. QED BY <3>1, <3>2, NewAts DEF PollSteps
  <2>3. QED BY <2>1, <2>2 DEF Pushed, Pushes
<1>20. CASE OnPollError
  BY <1>20, <1>a, OnPollErrorMoves, NewAts2, PushPuts DEF OnPollError
<1>21. CASE OnPollClosed
  BY <1>21, <1>a, OnPollClosedMoves, NewAts2, PushPuts DEF OnPollClosed
<1>22. QED
  BY <1>1, <1>2, <1>3, <1>4, <1>5, <1>6, <1>7, <1>8, <1>9, <1>10, <1>11, <1>12, <1>13, <1>14,
     <1>15, <1>16, <1>17, <1>18, <1>19, <1>20, <1>21
     DEF NativeNext, NativeStep

\* And every step of the owner.
LEMMA ScriptPushed ==
    ASSUME BaseInv, ScriptNext PROVE Pushed
<1>a. TypeInv /\ StackTyped  BY DEF BaseInv, TypeInv
<1>1. CASE Activated
  <2>1. stack # <<>> /\ Tops({"activated"})  BY <1>1 DEF Activated, Top, Tops
  <2>2. New(At("_fail"))  BY <2>1, NewAts2
  <2>3. ~closing /\ requests' = NewRequest("response", 1)
           => New(Step("submit", NextRequest, "none")) /\ New(At("opened"))
    BY <2>1, NewRequests, NewAts2
  <2>4. QED BY <1>1, <1>a, <2>1, <2>2, <2>3, ActivatedMoves, PushPuts
<1>2. CASE Opened
  <2>1. stack # <<>> /\ Tops({"opened"})  BY <1>2 DEF Opened, Top, Tops
  <2>2. upgradePending => New(At("user")) /\ New(At("feed"))  BY <2>1, NewAts, NewAts2
  <2>3. QED BY <1>2, <1>a, <2>1, <2>2, OpenedMoves, PushPuts
<1>3. CASE FromNative
  <2>0. stack # <<>>  BY <1>3 DEF FromNative
  <2>1. Head(stack).at \in {"_onNativeMessage", "_onNativeTransportError", "writeCallback"} /\ given
          => New(At("user"))
    BY <2>0, NewAts2 DEF Tops
  <2>2. Head(stack).at = "_onNativeTransportError" /\ ~given => New(At("uncaught"))
    BY <2>0, NewAts2 DEF Tops
  <2>3. Head(stack).at = "_onNativeClosed" => New(At("_finalizeClose"))
    BY <2>0, NewAts2 DEF Tops
  <2>4. given \in BOOLEAN  BY <1>a DEF TypeInv
  <2>5. QED BY <1>3, <1>a, <2>0, <2>1, <2>2, <2>3, <2>4, FromNativeMoves, PushPuts DEF Runs
<1>4. CASE FinishNativeWrite
  <2>1. stack # <<>> /\ Tops({"_finishNativeWrite"})  BY <1>4 DEF FinishNativeWrite, Top, Tops
  <2>2. Head(stack).why = "error" /\ requests[Head(stack).on].kind # "close" => New(At("_fail"))
    BY <2>1, NewAts2
  <2>3. QED BY <1>4, <1>a, <2>1, <2>2, FinishNativeWriteMoves, PushPuts
<1>5. CASE FailWebSocket
  <2>1. stack # <<>> /\ Tops({"_fail"})  BY <1>5 DEF FailWebSocket, Top, Tops
  <2>2. /\ New(At("terminate"))
        /\ given => New(At("user"))
        /\ ~given => New(At("uncaught"))
    BY <2>1, NewAts2 DEF Tops
  <2>3. QED BY <1>5, <1>a, <2>1, <2>2, FailWebSocketMoves, PushPuts
<1>6. CASE Terminate
  <2>1. stack # <<>> /\ Tops({"terminate"}) /\ Tops({"readAvailable", "terminate"})
    BY <1>6 DEF Terminate, Top, Tops
  <2>2. New(CloseNow("cancelled")) /\ (~nativeActive => New(At("_finalizeClose")))
    BY <2>1, NewAts2, NewSubjects
  <2>3. QED BY <1>6, <1>a, <2>1, <2>2, TerminateMoves, PushPuts
<1>7. CASE FinalizeClose
  <2>1. stack # <<>> /\ Tops({"_finalizeClose"})  BY <1>7 DEF FinalizeClose, Top, Tops
  <2>2. readyState # "CLOSED" => New(At("requestDestroy")) /\ (given => New(At("user")))
    BY <2>1, NewAts2 DEF Tops
  <2>3. QED BY <1>7, <1>a, <2>1, <2>2, FinalizeCloseMoves, PushPuts
<1>8. CASE UserReturns  BY <1>8, <1>a, UserReturnsMoves, PushPuts DEF UserReturns, Top
<1>9. CASE NodeSocketClosed
  <2>1. /\ New(At("_finalizeClose"))
        /\ upgradePending /\ readyState = "CONNECTING" => New(At("activate"))
    BY <1>9, NewAts2 DEF NodeSocketClosed, StillPending
  <2>2. QED BY <1>9, <1>a, <2>1, NodeSocketClosedMoves, PushPuts
<1>10. CASE RunScheduled
  <2>1. /\ New(At("_finalizeClose"))
        /\ StillPending => New(At("activate"))
    BY <1>10, NewAts2 DEF RunScheduled
  <2>2. QED BY <1>10, <1>a, <2>1, RunScheduledMoves, PushPuts
<1>11. CASE CloseTimeout
  BY <1>11, <1>a, CloseTimeoutMoves, PushPuts, NewSubjects DEF CloseTimeout
<1>12. CASE AbortUpgrade
  <2>1. New(At("_finalizeClose")) /\ New(CloseNow("cancelled"))
    BY <1>12, NewAts2, NewSubjects DEF AbortUpgrade
  <2>2. QED BY <1>12, <1>a, <2>1, AbortUpgradeMoves, PushPuts
<1>13. CASE Send
  <2>0. MayAct /\ readyState = "OPEN"  BY <1>13 DEF Send
  <2>1. PICK size \in Nat \ {0} :
                IF writable
                  THEN /\ Adds(NewOne("app", size)) /\ NewOne("app", size) \in Requests
                       /\ Covers1(Step("submit", NextRequest, "none"))
                  ELSE /\ Adds(Refused(size)) /\ Refused(size) \in Requests
                       /\ Covers1(Step("_finishNativeWrite", NextRequest, "error"))
    BY <1>13, SendData
  <2>2. writable => New(Step("submit", NextRequest, "none"))
    BY <2>0, NewRequests DEF writable
  <2>3. ~writable => New(Step("_finishNativeWrite", NextRequest, "error"))
    BY <2>0, NewBacks
  <2>4. QED BY <1>a, <2>1, <2>2, <2>3, PushPuts
<1>14. CASE Close
  <2>0. MayAct /\ readyState = "OPEN"  BY <1>14 DEF Close
  <2>1. MayWriteClose => New(Step("submit", NextRequest, "none"))
    BY <2>0, NewRequests DEF writable, MayWriteClose
  <2>2. ~writable => New(CloseNow("cancelled"))  BY <2>0, NewSubjects
  <2>3. QED BY <1>14, <1>a, <2>1, <2>2, CloseMoves, PushPuts
<1>15. CASE UserTerminate
  <2>1. New(At("terminate"))  BY <1>15, NewAts2 DEF UserTerminate
  <2>2. QED BY <1>15, <1>a, <2>1, UserTerminateMoves, PushPuts
<1>16. QED
  BY <1>1, <1>2, <1>3, <1>4, <1>5, <1>6, <1>7, <1>8, <1>9, <1>10, <1>11, <1>12, <1>13, <1>14,
     <1>15 DEF ScriptNext

\* So does every step, in place of the top of the stack or above it.
LEMMA PushNext == ASSUME BaseInv, AtSubmit, Next PROVE Pushed
  BY NextNames, NativePushed, ScriptPushed

\* A step in progress, or none, decides which action is next.
LEMMA EventNext ==
    ASSUME Next, stack = <<>>
    PROVE  \/ (OnPoll \/ OnPollError \/ OnPollClosed) /\ UNCHANGED jsVars
           \/ NodeSocketClosed \/ RunScheduled \/ CloseTimeout \/ AbortUpgrade
           \/ Send \/ Close \/ UserTerminate
<1>1. ~NativeStep
  BY DEF NativeStep, UpdatePoll, Submit, FlushWrites, Writing, Feed, Receive, ProcessMemoryBIO,
         ReadTLS, FlushOutput, Dispatch, PerformTLSShutdown, BeginClose, CancelWrite, Closed, Fail,
         RequestDestroy, Destroy, Release, Activate, Top
<1>2. /\ ~Activated /\ ~Opened /\ ~FromNative /\ ~FinishNativeWrite /\ ~FailWebSocket
      /\ ~Terminate /\ ~FinalizeClose /\ ~UserReturns
  BY DEF Activated, Opened, FromNative, FinishNativeWrite, FailWebSocket, Terminate, FinalizeClose,
         UserReturns, Top
<1>3. QED BY <1>1, <1>2 DEF Next, Proceed, Loop

\* While a call is in progress the name of the top of the stack decides which action is next.
LEMMA StepNext ==
    ASSUME Next, stack # <<>>
    PROVE  \/ UpdatePoll /\ Head(stack).at = "updatePoll"
           \/ Submit /\ Head(stack).at \in Submitters
           \/ FlushWrites /\ Head(stack).at = "flushWrites"
           \/ Writing /\ Head(stack).at = "writing"
           \/ Feed /\ Head(stack).at = "feed"
           \/ Receive /\ Head(stack).at = "readAvailable"
           \/ ProcessMemoryBIO /\ Head(stack).at = "processMemoryBIO"
           \/ ReadTLS /\ Head(stack).at = "SSL_read"
           \/ FlushOutput /\ Head(stack).at = "flushOutput"
           \/ Dispatch /\ Head(stack).at \in {"message", "pong", "reply", "peerClose", "peerClosed"}
           \/ PerformTLSShutdown /\ Head(stack).at \in Shutdowns
           \/ BeginClose /\ Head(stack).at = "closeNow"
           \/ (CancelWrite \/ Closed) /\ Head(stack).at = "cancelWrites"
           \/ Fail /\ Head(stack).at = "fail"
           \/ RequestDestroy /\ Head(stack).at = "requestDestroy"
           \/ Destroy /\ Head(stack).at = "destroy"
           \/ Release /\ Head(stack).at = "release"
           \/ Activate /\ Head(stack).at = "activate"
           \/ Activated /\ Head(stack).at = "activated"
           \/ Opened /\ Head(stack).at = "opened"
           \/ FromNative /\ Head(stack).at \in Upcalls
           \/ FinishNativeWrite /\ Head(stack).at = "_finishNativeWrite"
           \/ FailWebSocket /\ Head(stack).at = "_fail"
           \/ Terminate /\ Head(stack).at = "terminate"
           \/ FinalizeClose /\ Head(stack).at = "_finalizeClose"
           \/ (UserReturns \/ Send \/ Close \/ UserTerminate) /\ Head(stack).at = "user"
<1>1. /\ ~OnPoll /\ ~OnPollError /\ ~OnPollClosed /\ ~NodeSocketClosed /\ ~RunScheduled
      /\ ~CloseTimeout /\ ~AbortUpgrade
  BY DEF OnPoll, OnPollError, OnPollClosed, NodeSocketClosed, RunScheduled, CloseTimeout, AbortUpgrade
<1>2. Send \/ Close \/ UserTerminate => Head(stack).at = "user"
  BY DEF Send, Close, UserTerminate, MayAct, Top
<1>3. /\ UpdatePoll => Head(stack).at = "updatePoll"
      /\ Submit => Head(stack).at \in Submitters
      /\ FlushWrites => Head(stack).at = "flushWrites"
      /\ Writing => Head(stack).at = "writing"
      /\ Feed => Head(stack).at = "feed"
      /\ Receive => Head(stack).at = "readAvailable"
      /\ ProcessMemoryBIO => Head(stack).at = "processMemoryBIO"
      /\ ReadTLS => Head(stack).at = "SSL_read"
      /\ FlushOutput => Head(stack).at = "flushOutput"
      /\ Dispatch => Head(stack).at \in {"message", "pong", "reply", "peerClose", "peerClosed"}
      /\ PerformTLSShutdown => Head(stack).at \in Shutdowns
      /\ BeginClose => Head(stack).at = "closeNow"
      /\ CancelWrite \/ Closed => Head(stack).at = "cancelWrites"
      /\ Fail => Head(stack).at = "fail"
      /\ RequestDestroy => Head(stack).at = "requestDestroy"
      /\ Destroy => Head(stack).at = "destroy"
      /\ Release => Head(stack).at = "release"
      /\ Activate => Head(stack).at = "activate"
  BY DEF UpdatePoll, Submit, SubmitBehindOthers, SubmitIdle, Submitted, Submitters, FlushWrites,
         Writing, Feed, Receive, ProcessMemoryBIO, ReadTLS, FlushOutput, Dispatch, Owned,
         PerformTLSShutdown, Shutdowns, BeginClose, CancelWrite, Closed, Fail, RequestDestroy,
         Destroy, Release, Activate, Top
<1>4. /\ Activated => Head(stack).at = "activated"
      /\ Opened => Head(stack).at = "opened"
      /\ FromNative => Head(stack).at \in Upcalls
      /\ FinishNativeWrite => Head(stack).at = "_finishNativeWrite"
      /\ FailWebSocket => Head(stack).at = "_fail"
      /\ Terminate => Head(stack).at = "terminate"
      /\ FinalizeClose => Head(stack).at = "_finalizeClose"
      /\ UserReturns => Head(stack).at = "user"
  BY DEF Activated, Opened, FromNative, Upcalls, FinishNativeWrite, FailWebSocket, Terminate,
         FinalizeClose, UserReturns, Top
<1>5. QED BY <1>1, <1>2, <1>3, <1>4 DEF Next, Proceed, Loop, NativeStep

\* Which steps change the variables of the transport's life, and how.
HandleChanges ==
    /\ UNCHANGED closing \/ (Tops({"closeNow"}) /\ closing')
    /\ \/ UNCHANGED active
       \/ Tops({"activate"}) /\ ~active /\ ~closing /\ active'
    /\ \/ UNCHANGED poll
       \/ Tops({"activate"}) /\ ~active /\ ~closing /\ poll' = "open"
       \/ Tops({"cancelWrites"}) /\ queue = <<>> /\ poll = "open" /\ poll' = "closing"
       \/ stack = <<>> /\ poll = "closing" /\ poll' = "closed"
    /\ UNCHANGED destroyRequested \/ (Tops({"requestDestroy"}) /\ destroyRequested')
    /\ Tops({"requestDestroy"}) => destroyRequested'
    /\ \/ UNCHANGED frees
       \/ /\ frees' = frees + 1
          /\ \/ Tops({"requestDestroy"}) /\ ~active
             \/ Tops({"destroy"}) /\ DestroyNow
             \/ Tops({"release"}) /\ destroyRequested
    /\ Tops({"release"}) /\ destroyRequested => frees' = frees + 1
\* Which change those of the parser.
PeerChanges ==
    /\ \/ UNCHANGED parserClosing
       \/ Tops(Parsing) /\ ~parserClosing /\ parserClosing' /\ closeSent'
    /\ \/ UNCHANGED closeSent
       \/ Tops(Parsing) /\ ~parserClosing /\ parserClosing' /\ closeSent'
       \/ /\ closeSent' /\ MayAct /\ readyState = "OPEN" /\ MayWriteClose
          /\ requests' = NewRequest("close", 1)
    /\ UNCHANGED graceful \/ (Tops({"peerClosed"}) /\ ~closing /\ graceful')

\* Which steps of the transport change its life and its parser.
LEMMA NativeChanges == ASSUME NativeNext PROVE HandleChanges /\ PeerChanges
<1>1. CASE UpdatePoll
  BY <1>1 DEF UpdatePoll, HandleChanges, PeerChanges, handleVars, peerVars, Top, Tops
<1>2. CASE Submit
  BY <1>2 DEF Submit, SubmitBehindOthers, SubmitIdle, Submitted, HandleChanges, PeerChanges, handleVars, peerVars, Top, Tops
<1>3. CASE FlushWrites
  BY <1>3 DEF FlushWrites, HandleChanges, PeerChanges, handleVars, peerVars, Top, Tops
<1>4. CASE Writing
  BY <1>4 DEF Writing, HandleChanges, PeerChanges, handleVars, peerVars, Top, Tops
<1>5. CASE Feed
  BY <1>5 DEF Feed, Consume, Parsing, HandleChanges, PeerChanges, handleVars, peerVars, Top, Tops
<1>6. CASE Receive
  BY <1>6 DEF Receive, Consume, Parsing, HandleChanges, PeerChanges, handleVars, peerVars, Top, Tops
<1>7. CASE ProcessMemoryBIO
  BY <1>7 DEF ProcessMemoryBIO, HandleChanges, PeerChanges, handleVars, peerVars, Top, Tops
<1>8. CASE ReadTLS
  BY <1>8 DEF ReadTLS, Consume, Parsing, HandleChanges, PeerChanges, handleVars, peerVars, Top, Tops
<1>9. CASE FlushOutput
  BY <1>9 DEF FlushOutput, HandleChanges, PeerChanges, handleVars, peerVars, Top, Tops
<1>10. CASE Dispatch
  BY <1>10 DEF Dispatch, Owned, HandleChanges, PeerChanges, handleVars, peerVars, Top, Tops
<1>11. CASE PerformTLSShutdown
  BY <1>11 DEF PerformTLSShutdown, HandleChanges, PeerChanges, handleVars, peerVars, Top, Tops
<1>12. CASE BeginClose
  BY <1>12 DEF BeginClose, HandleChanges, PeerChanges, handleVars, peerVars, Top, Tops
<1>13. CASE CancelWrite
  BY <1>13 DEF CancelWrite, HandleChanges, PeerChanges, handleVars, peerVars, Top, Tops
<1>14. CASE Closed
  BY <1>14 DEF Closed, HandleChanges, PeerChanges, handleVars, peerVars, Top, Tops
<1>15. CASE Fail
  BY <1>15 DEF Fail, HandleChanges, PeerChanges, handleVars, peerVars, Top, Tops
<1>16. CASE RequestDestroy
  BY <1>16 DEF RequestDestroy, HandleChanges, PeerChanges, handleVars, peerVars, Top, Tops
<1>17. CASE Destroy
  BY <1>17 DEF Destroy, HandleChanges, PeerChanges, handleVars, peerVars, Top, Tops
<1>18. CASE Release
  BY <1>18 DEF Release, HandleChanges, PeerChanges, handleVars, peerVars, Top, Tops
<1>19. CASE Activate
  BY <1>19 DEF Activate, HandleChanges, PeerChanges, handleVars, peerVars, Top, Tops
<1>20. CASE OnPoll
  BY <1>20 DEF OnPoll, HandleChanges, PeerChanges, handleVars, peerVars, Top, Tops
<1>21. CASE OnPollError
  BY <1>21 DEF OnPollError, HandleChanges, PeerChanges, handleVars, peerVars, Top, Tops
<1>22. CASE OnPollClosed
  BY <1>22 DEF OnPollClosed, HandleChanges, PeerChanges, handleVars, peerVars, Top, Tops
<1>23. QED
  BY <1>1, <1>2, <1>3, <1>4, <1>5, <1>6, <1>7, <1>8, <1>9, <1>10, <1>11, <1>12, <1>13, <1>14, <1>15, <1>16, <1>17, <1>18, <1>19, <1>20, <1>21, <1>22
     DEF NativeNext, NativeStep

\* Which steps change the state of the upgrade and of the WebSocket.
StateChanges ==
    /\ \/ UNCHANGED readyState
       \/ Tops({"opened"}) /\ upgradePending /\ readyState' = "OPEN"
       \/ /\ readyState # "CLOSED" /\ readyState' = "CLOSING"
          /\ \/ Tops({"_onNativeClose", "_onNativeBackpressure", "_onNativeTransportError", "_fail"})
             \/ MayAct
             \/ stack = <<>> /\ upgradePending /\ readyState = "CONNECTING"
       \/ Tops({"_finalizeClose"}) /\ readyState # "CLOSED" /\ readyState' = "CLOSED"
    /\ Tops({"_finalizeClose"}) => readyState' = "CLOSED"
    /\ Tops({"_onNativeBackpressure", "_onNativeTransportError", "_onNativeClose", "_fail"})
         => readyState' \in {"CLOSING", "CLOSED"}
    /\ UNCHANGED upgradePending \/ ~upgradePending'
    /\ Tops({"opened"}) \/ Tops({"terminate"}) => ~upgradePending'
    /\ Tops({"_finalizeClose"}) /\ readyState # "CLOSED" => ~upgradePending'
    /\ \/ UNCHANGED given
       \/ Tops({"opened"}) /\ upgradePending /\ ~upgradePending' /\ given' /\ readyState' = "OPEN"
\* Which change what goes with it.
CourseChanges ==
    /\ UNCHANGED nodeSocket \/ (stack = <<>> /\ nodeSocket # "released")
    /\ \/ UNCHANGED nativeActive
       \/ Tops({"activated"}) /\ nativeActive' = ~closing
       \/ Tops({"_finalizeClose"}) /\ ~nativeActive'
    /\ \/ UNCHANGED closeTimer
       \/ closeTimer = "off" /\ closeTimer' = "armed" /\ readyState # "CLOSED"
          /\ (Tops({"_onNativeClose"}) \/ (MayAct /\ readyState = "OPEN"))
       \/ closeTimer' # "armed" /\ closeTimer = "armed"
    /\ Tops({"_finalizeClose"}) /\ readyState # "CLOSED" => closeTimer' # "armed"
    /\ \/ UNCHANGED closeCode
       \/ Tops({"_onNativeClose"}) /\ closeCode' = Head(stack).on /\ readyState # "CLOSED"
    /\ UNCHANGED answers \/ Tops({"writeCallback", "_finishNativeWrite"})

\* The application acts in an event of its own or on the top of the stack.
LEMMA MayActTop == ASSUME MayAct PROVE stack = <<>> \/ (stack # <<>> /\ Head(stack).at = "user")
  BY DEF MayAct, Top

\* Which steps of the owner change what it keeps.
LEMMA ScriptChanges ==
    ASSUME ScriptNext PROVE StateChanges /\ CourseChanges /\ HandleChanges /\ PeerChanges
<1>1. CASE Activated
  BY <1>1, MayActTop
     DEF Activated, StateChanges, CourseChanges, HandleChanges, PeerChanges, handleVars, peerVars,
         jsVars, Top, Tops, Closing, StartCloseTimeout
<1>2. CASE Opened
  BY <1>2, MayActTop
     DEF Opened, StateChanges, CourseChanges, HandleChanges, PeerChanges, handleVars, peerVars,
         jsVars, Top, Tops, Closing, StartCloseTimeout
<1>3. CASE FromNative
  BY <1>3, MayActTop
     DEF FromNative, StateChanges, CourseChanges, HandleChanges, PeerChanges, handleVars, peerVars,
         jsVars, Top, Tops, Closing, StartCloseTimeout
<1>4. CASE FinishNativeWrite
  BY <1>4, MayActTop
     DEF FinishNativeWrite, StateChanges, CourseChanges, HandleChanges, PeerChanges, handleVars, peerVars,
         jsVars, Top, Tops, Closing, StartCloseTimeout
<1>5. CASE FailWebSocket
  BY <1>5, MayActTop
     DEF FailWebSocket, StateChanges, CourseChanges, HandleChanges, PeerChanges, handleVars, peerVars,
         jsVars, Top, Tops, Closing, StartCloseTimeout
<1>6. CASE Terminate
  BY <1>6, MayActTop
     DEF Terminate, StateChanges, CourseChanges, HandleChanges, PeerChanges, handleVars, peerVars,
         jsVars, Top, Tops, Closing, StartCloseTimeout
<1>7. CASE FinalizeClose
  BY <1>7, MayActTop
     DEF FinalizeClose, StateChanges, CourseChanges, HandleChanges, PeerChanges, handleVars, peerVars,
         jsVars, Top, Tops, Closing, StartCloseTimeout
<1>8. CASE UserReturns
  BY <1>8, MayActTop
     DEF UserReturns, StateChanges, CourseChanges, HandleChanges, PeerChanges, handleVars, peerVars,
         jsVars, Top, Tops, Closing, StartCloseTimeout
<1>9. CASE NodeSocketClosed
  BY <1>9, MayActTop
     DEF NodeSocketClosed, StateChanges, CourseChanges, HandleChanges, PeerChanges, handleVars, peerVars,
         jsVars, Top, Tops, Closing, StartCloseTimeout
<1>10. CASE RunScheduled
  BY <1>10, MayActTop
     DEF RunScheduled, StateChanges, CourseChanges, HandleChanges, PeerChanges, handleVars, peerVars,
         jsVars, Top, Tops, Closing, StartCloseTimeout
<1>11. CASE CloseTimeout
  BY <1>11, MayActTop
     DEF CloseTimeout, StateChanges, CourseChanges, HandleChanges, PeerChanges, handleVars, peerVars,
         jsVars, Top, Tops, Closing, StartCloseTimeout
<1>12. CASE AbortUpgrade
  BY <1>12, MayActTop
     DEF AbortUpgrade, StateChanges, CourseChanges, HandleChanges, PeerChanges, handleVars, peerVars,
         jsVars, Top, Tops, Closing, StartCloseTimeout
<1>13. CASE Send
  BY <1>13, MayActTop
     DEF Send, StateChanges, CourseChanges, HandleChanges, PeerChanges, handleVars, peerVars,
         jsVars, Top, Tops, Closing, StartCloseTimeout
<1>14. CASE Close
  BY <1>14, MayActTop
     DEF Close, MayWriteClose, StateChanges, CourseChanges, HandleChanges, PeerChanges, handleVars, peerVars,
         jsVars, Top, Tops, Closing, StartCloseTimeout
<1>15. CASE UserTerminate
  BY <1>15, MayActTop
     DEF UserTerminate, StateChanges, CourseChanges, HandleChanges, PeerChanges, handleVars, peerVars,
         jsVars, Top, Tops, Closing, StartCloseTimeout
<1>16. QED
  BY <1>1, <1>2, <1>3, <1>4, <1>5, <1>6, <1>7, <1>8, <1>9, <1>10, <1>11, <1>12, <1>13, <1>14, <1>15
     DEF ScriptNext

\* The transport runs no step of the owner.
LEMMA NativeTops == ASSUME NativeNext PROVE ~Tops({"opened", "terminate", "_finalizeClose",
      "_onNativeBackpressure", "_onNativeTransportError", "_onNativeClose", "_fail"})
  BY DEF NativeNext, NativeStep, UpdatePoll, Submit, SubmitBehindOthers, SubmitIdle, Submitted,
         FlushWrites, Writing, Feed, Receive, ProcessMemoryBIO, ReadTLS, FlushOutput, Dispatch, Owned,
         PerformTLSShutdown, BeginClose, CancelWrite, Closed, Fail, RequestDestroy, Destroy, Release,
         Activate, Top, Tops, OnPoll, OnPollError, OnPollClosed

\* Together: which step may change what, and how.
LEMMA VarsNext ==
    ASSUME Next PROVE HandleChanges /\ PeerChanges /\ StateChanges /\ CourseChanges
<1>1. ASSUME NativeNext, UNCHANGED jsVars PROVE StateChanges /\ CourseChanges
  BY <1>1, NativeTops DEF StateChanges, CourseChanges, jsVars, Tops
<1>2. QED BY <1>1, NextNames, NativeChanges, ScriptChanges

On(name) == \E k \in DOMAIN stack : stack[k].at = name

Early == {"activate", "closeNow", "cancelWrites", "_finalizeClose", "requestDestroy"}
\* What may be in progress while the transport has not been activated.  c: closing; p: the
\* upgrade is pending; state: readyState.
EarlyStep(s, last, c, p, state) ==
    /\ s.at \in Early
    /\ s.at \in {"activate", "_finalizeClose", "requestDestroy"} => last
    /\ s.at = "activate" => ~c /\ p
    /\ s.at \in CloseSteps => state # "CONNECTING"
Startup ==
    ~active =>
      /\ poll = "none" /\ requests = <<>> /\ ~given /\ ~nativeActive /\ closeTimer = "off"
      /\ closing => readyState # "CONNECTING"
      /\ \A k \in DOMAIN stack : EarlyStep(stack[k], k = Len(stack), closing, StillPending, readyState)

\* The indexes of a stack and its top.
LEMMA StackIndexes ==
    ASSUME StackTyped
    PROVE  /\ DOMAIN stack = 1..Len(stack) /\ Len(stack) \in Nat
           /\ stack # <<>> => Len(stack) >= 1 /\ 1 \in DOMAIN stack /\ Head(stack) = stack[1]
           /\ stack = <<>> => Len(stack) = 0
  BY EmptySeq, LenProperties, HeadTailProperties DEF StackTyped

\* The indexes after the top was dropped.
LEMMA AfterDrops ==
    ASSUME StackTyped, stack # <<>>, Drops
    PROVE  /\ DOMAIN stack' = 1..Len(stack)-1 /\ Len(stack') = Len(stack) - 1
           /\ \A k \in DOMAIN stack' : k + 1 \in DOMAIN stack /\ stack'[k] = stack[k + 1]
                                       /\ (k = Len(stack') <=> k + 1 = Len(stack))
<1>1. /\ DOMAIN stack = 1..Len(stack) /\ Len(stack) \in Nat /\ Len(stack) >= 1  BY StackIndexes
<1>2. stack' \in Seq(Steps) /\ Len(stack') = 0 + Len(stack) - 1  BY DEF Drops, Moves
<1>3. DOMAIN stack' = 1..Len(stack')  BY <1>2, LenProperties
<1>4. \A k \in 0+1..Len(stack') : k - 0 + 1 \in DOMAIN stack /\ stack'[k] = stack[k - 0 + 1]
  BY DEF Drops, Moves
<1>5. QED BY <1>1, <1>2, <1>3, <1>4

\* The indexes after the top was replaced.
LEMMA AfterPuts1 ==
    ASSUME StackTyped, stack # <<>>, NEW a, Puts1(a)
    PROVE  /\ DOMAIN stack' = DOMAIN stack /\ Len(stack') = Len(stack) /\ 1 \in DOMAIN stack
           /\ stack'[1] = a
           /\ \A k \in DOMAIN stack' : k # 1 => stack'[k] = stack[k]
<1>1. /\ DOMAIN stack = 1..Len(stack) /\ Len(stack) \in Nat /\ Len(stack) >= 1  BY StackIndexes
<1>2. stack' \in Seq(Steps) /\ Len(stack') = 1 + Len(stack) - 1  BY DEF Puts1, Moves
<1>3. DOMAIN stack' = 1..Len(stack')  BY <1>2, LenProperties
<1>4. \A k \in 1+1..Len(stack') : k - 1 + 1 \in DOMAIN stack /\ stack'[k] = stack[k - 1 + 1]
  BY DEF Puts1, Moves
<1>5. \A k \in DOMAIN stack' : k # 1 => k \in 1+1..Len(stack') /\ k - 1 + 1 = k
  BY <1>1, <1>2, <1>3
<1>6. QED BY <1>1, <1>2, <1>3, <1>4, <1>5 DEF Puts1

\* The indexes of what an event puts on the empty stack.
LEMMA AfterCovers ==
    ASSUME stack = <<>>
    PROVE  /\ \A a : Covers1(a) => DOMAIN stack' = {1} /\ Len(stack') = 1 /\ stack'[1] = a
           /\ \A a, b : Covers2(a, b) => /\ DOMAIN stack' = {1, 2} /\ Len(stack') = 2
                                         /\ stack'[1] = a /\ stack'[2] = b
<1>1. Len(stack) = 0  BY EmptySeq
<1>2. ASSUME NEW a, Covers1(a) PROVE DOMAIN stack' = {1} /\ Len(stack') = 1 /\ stack'[1] = a
  <2>1. stack' \in Seq(Steps) /\ Len(stack') = 1 + Len(stack) - 0  BY <1>2 DEF Covers1, Moves
  <2>2. DOMAIN stack' = 1..Len(stack')  BY <2>1, LenProperties
  <2>3. QED BY <1>1, <1>2, <2>1, <2>2 DEF Covers1
<1>3. ASSUME NEW a, NEW b, Covers2(a, b)
      PROVE  DOMAIN stack' = {1, 2} /\ Len(stack') = 2 /\ stack'[1] = a /\ stack'[2] = b
  <2>1. stack' \in Seq(Steps) /\ Len(stack') = 2 + Len(stack) - 0  BY <1>3 DEF Covers2, Moves
  <2>2. DOMAIN stack' = 1..Len(stack')  BY <2>1, LenProperties
  <2>3. QED BY <1>1, <1>3, <2>1, <2>2 DEF Covers2
<1>4. QED BY <1>2, <1>3

\* The script's steps are not named after the native methods.
LEMMA NamedScript ==
    ASSUME ScriptNext, stack # <<>>
    PROVE  Head(stack).at \in Upcalls \cup {"activated", "opened", "_finishNativeWrite", "_fail",
                                            "terminate", "_finalizeClose", "user"}
  BY DEF ScriptNext, Activated, Opened, FromNative, Upcalls, FinishNativeWrite, FailWebSocket, Terminate,
         FinalizeClose, UserReturns, NodeSocketClosed, RunScheduled, CloseTimeout, AbortUpgrade, Send,
         Close, UserTerminate, MayAct, Top

\* What may be in progress before activation stays so while the upgrade goes on.
LEMMA EarlyStays ==
    ASSUME NEW s, NEW last, NEW c, NEW p, NEW rs, NEW d, NEW q, NEW qs, EarlyStep(s, last, c, p, rs),
           s.at # "activate", rs # "CONNECTING" => qs # "CONNECTING"
    PROVE  EarlyStep(s, last, d, q, qs)
  BY DEF EarlyStep, Early

\* The steps that may come to be in progress before activation.
LEMMA EarlyFirst ==
    /\ \A c, p, rs : ~c /\ p => EarlyStep(At("activate"), TRUE, c, p, rs)
    /\ \A c, p, rs : EarlyStep(At("_finalizeClose"), TRUE, c, p, rs)
    /\ \A c, p, rs : EarlyStep(At("requestDestroy"), TRUE, c, p, rs)
    /\ \A c, p, rs, last, why : rs # "CONNECTING" => EarlyStep(CloseNow(why), last, c, p, rs)
    /\ \A c, p, rs, last, why : rs # "CONNECTING" => EarlyStep(Step("cancelWrites", 0, why), last, c, p, rs)
  BY DEF EarlyStep, Early, At, CloseNow, Step, CloseSteps

\* Startup's condition on the stack.
EarlyStack == \A k \in DOMAIN stack : EarlyStep(stack[k], k = Len(stack), closing, StillPending, readyState)

\* activate() is never below another step.
LEMMA EarlyNotActive ==
    ASSUME StackTyped, Instantly, NEW k \in DOMAIN stack, k # 1 PROVE stack[k].at # "activate"
  BY DEF Instantly, Instant, Immediate

\* Startup's condition on the stack after the top was dropped.
LEMMA EarlyDrops ==
    ASSUME StackTyped, Instantly, EarlyStack, stack # <<>>, Drops,
           readyState # "CONNECTING" => readyState' # "CONNECTING"
    PROVE  EarlyStack'
<1> SUFFICES ASSUME NEW k \in DOMAIN stack'
             PROVE  EarlyStep(stack'[k], k = Len(stack'), closing', StillPending', readyState')
  BY DEF EarlyStack
<1>1. k + 1 \in DOMAIN stack /\ stack'[k] = stack[k + 1] /\ (k = Len(stack')) = (k + 1 = Len(stack))
      /\ k \in Nat /\ k >= 1
  BY AfterDrops, StackIndexes
<1>2. EarlyStep(stack[k + 1], k + 1 = Len(stack), closing, StillPending, readyState)
  BY <1>1 DEF EarlyStack
<1>3. stack[k + 1].at # "activate"  BY <1>1, EarlyNotActive
<1>4. EarlyStep(stack[k + 1], k + 1 = Len(stack), closing', StillPending', readyState')
  BY <1>2, <1>3, EarlyStays
<1>5. QED BY <1>1, <1>4

\* After the top was replaced.
LEMMA EarlyPuts ==
    ASSUME StackTyped, Instantly, EarlyStack, stack # <<>>, NEW a, Puts1(a),
           EarlyStep(a, 1 = Len(stack), closing', StillPending', readyState'),
           readyState # "CONNECTING" => readyState' # "CONNECTING"
    PROVE  EarlyStack'
<1> SUFFICES ASSUME NEW k \in DOMAIN stack'
             PROVE  EarlyStep(stack'[k], k = Len(stack'), closing', StillPending', readyState')
  BY DEF EarlyStack
<1>0. DOMAIN stack' = DOMAIN stack /\ Len(stack') = Len(stack) /\ stack'[1] = a
  BY AfterPuts1
<1>1. CASE k = 1  BY <1>0, <1>1
<1>2. CASE k # 1
  <2>1. stack'[k] = stack[k]  BY <1>2, AfterPuts1
  <2>2. EarlyStep(stack[k], k = Len(stack), closing, StillPending, readyState)
    BY <1>0 DEF EarlyStack
  <2>3. stack[k].at # "activate"  BY <1>0, <1>2, EarlyNotActive
  <2>4. EarlyStep(stack[k], k = Len(stack), closing', StillPending', readyState')
    BY <2>2, <2>3, EarlyStays
  <2>5. QED BY <1>0, <2>1, <2>4
<1>3. QED BY <1>1, <1>2

\* After an event.
LEMMA EarlyCovers ==
    ASSUME stack = <<>>
    PROVE  /\ \A a : Covers1(a) /\ EarlyStep(a, TRUE, closing', StillPending', readyState') => EarlyStack'
           /\ \A a, b : Covers2(a, b) /\ EarlyStep(a, FALSE, closing', StillPending', readyState')
                        /\ EarlyStep(b, TRUE, closing', StillPending', readyState') => EarlyStack'
<1>1. ASSUME NEW a, Covers1(a), EarlyStep(a, TRUE, closing', StillPending', readyState')
      PROVE  EarlyStack'
  <2>1. DOMAIN stack' = {1} /\ Len(stack') = 1 /\ stack'[1] = a  BY <1>1, AfterCovers
  <2>2. (1 = Len(stack')) = TRUE  BY <2>1
  <2>3. QED BY <1>1, <2>1, <2>2 DEF EarlyStack
<1>2. ASSUME NEW a, NEW b, Covers2(a, b),
             EarlyStep(a, FALSE, closing', StillPending', readyState'),
             EarlyStep(b, TRUE, closing', StillPending', readyState')
      PROVE  EarlyStack'
  <2>1. DOMAIN stack' = {1, 2} /\ Len(stack') = 2 /\ stack'[1] = a /\ stack'[2] = b
    BY <1>2, AfterCovers
  <2>2. (1 = Len(stack')) = FALSE /\ (2 = Len(stack')) = TRUE  BY <2>1
  <2>3. QED BY <1>2, <2>1, <2>2 DEF EarlyStack
<1>3. QED BY <1>1, <1>2

\* Until it is activated a transport has no handle and no requests, and its owner no
\* application.
LEMMA StartupNext == ASSUME WriteInv, Startup, Next PROVE Startup'
<1> SUFFICES ASSUME ~active'
             PROVE  /\ poll' = "none" /\ requests' = <<>> /\ ~given' /\ ~nativeActive'
                    /\ closeTimer' = "off"
                    /\ closing' => readyState' # "CONNECTING"
                    /\ EarlyStack'
  BY DEF Startup, EarlyStack
<1>a. TypeInv /\ StackTyped /\ Instantly  BY DEF WriteInv, StackInv, BaseInv, TypeInv
<1>b. ~active  BY <1>a, VarsNext DEF HandleChanges, TypeInv
<1>c. /\ poll = "none" /\ requests = <<>> /\ ~given /\ ~nativeActive /\ closeTimer = "off"
      /\ closing => readyState # "CONNECTING"
      /\ EarlyStack
  BY <1>b DEF Startup, EarlyStack
<1>d. queue = <<>>
  <2>1. queue # <<>> => First \in DOMAIN requests
    BY QueueFacts DEF WriteInv, StackInv
  <2>2. DOMAIN requests = {}  BY <1>c, EmptySeq
  <2>3. QED BY <2>1, <2>2
<1>e. /\ DOMAIN stack = 1..Len(stack) /\ Len(stack) \in Nat
      /\ stack # <<>> => Len(stack) >= 1 /\ 1 \in DOMAIN stack /\ Head(stack) = stack[1]
  BY <1>a, StackIndexes
<1>f. ~MayAct  BY <1>c DEF MayAct
<1>g. readyState # "CONNECTING" => readyState' # "CONNECTING"
  <2>1. StateChanges  BY VarsNext
  <2>2. QED BY <2>1 DEF StateChanges
<1>1. CASE stack = <<>>
  <2>1. CASE OnPoll \/ OnPollError \/ OnPollClosed
    BY <1>c, <2>1 DEF OnPoll, OnPollError, OnPollClosed
  <2>2. CASE NodeSocketClosed \/ RunScheduled
    <3>1. UNCHANGED <<poll, requests, given, nativeActive, closeTimer, closing, readyState,
                      upgradePending>>
      BY <2>2 DEF NodeSocketClosed, RunScheduled, handleVars, writeVars
    <3>2. \/ UNCHANGED stack
          \/ StillPending /\ Covers1(At("activate"))
          \/ Covers1(At("_finalizeClose"))
      BY <1>a, <2>2, NodeSocketClosedMoves, RunScheduledMoves DEF StillPending
    <3>3. EarlyStack'
      <4>1. CASE UNCHANGED stack
        <5>1. DOMAIN stack' = {}  BY <1>1, <4>1, EmptySeq
        <5>2. QED BY <5>1 DEF EarlyStack
      <4>2. CASE StillPending /\ Covers1(At("activate"))
        <5>1. ~closing' /\ StillPending'  BY <1>c, <3>1, <4>2 DEF StillPending
        <5>2. QED BY <1>1, <4>2, <5>1, EarlyCovers, EarlyFirst
      <4>3. CASE Covers1(At("_finalizeClose"))
        BY <1>1, <4>3, EarlyCovers, EarlyFirst
      <4>4. QED BY <3>2, <4>1, <4>2, <4>3
    <3>4. QED BY <1>c, <3>1, <3>3
  <2>3. CASE CloseTimeout  BY <1>c, <2>3 DEF CloseTimeout
  <2>4. CASE AbortUpgrade
    <3>1. /\ UNCHANGED <<poll, requests, given, nativeActive, closeTimer, closing>>
          /\ readyState' = "CLOSING"
      BY <2>4 DEF AbortUpgrade, handleVars, writeVars
    <3>2. Covers1(CloseNow("cancelled")) \/ Covers2(CloseNow("cancelled"), At("_finalizeClose"))
      BY <1>a, <2>4, AbortUpgradeMoves
    <3>3. readyState' # "CONNECTING"  BY <3>1
    <3>4. EarlyStack'
      <4>1. CASE Covers1(CloseNow("cancelled"))  BY <1>1, <3>3, <4>1, EarlyCovers, EarlyFirst
      <4>2. CASE Covers2(CloseNow("cancelled"), At("_finalizeClose"))
        BY <1>1, <3>3, <4>2, EarlyCovers, EarlyFirst
      <4>3. QED BY <3>2, <4>1, <4>2
    <3>5. QED BY <1>c, <3>1, <3>3, <3>4
  <2>5. CASE Send \/ Close \/ UserTerminate  BY <1>f, <2>5 DEF Send, Close, UserTerminate
  <2>6. QED BY <1>1, <2>1, <2>2, <2>3, <2>4, <2>5, EventNext
<1>2. CASE stack # <<>>
  <2>1. EarlyStep(Head(stack), 1 = Len(stack), closing, StillPending, readyState)
    BY <1>2, <1>c, <1>e DEF EarlyStack
  <2>2. Head(stack).at \in Early  BY <2>1 DEF EarlyStep
  <2>3. \/ BeginClose /\ Head(stack).at = "closeNow"
        \/ (CancelWrite \/ Closed) /\ Head(stack).at = "cancelWrites"
        \/ RequestDestroy /\ Head(stack).at = "requestDestroy"
        \/ Activate /\ Head(stack).at = "activate"
        \/ FinalizeClose /\ Head(stack).at = "_finalizeClose"
    BY <1>2, <2>2, StepNext DEF Early, Submitters, Shutdowns, Upcalls
  <2>n. BeginClose \/ CancelWrite \/ Closed \/ RequestDestroy \/ Activate => UNCHANGED jsVars
    BY <1>2, NextNames, NamedScript DEF Upcalls, BeginClose, CancelWrite, Closed, RequestDestroy, Activate, Top
  <2>4. CASE BeginClose /\ Head(stack).at = "closeNow"
    <3>1. UNCHANGED <<poll, requests, given, nativeActive, closeTimer, readyState, upgradePending>>
      BY <2>4, <2>n DEF BeginClose, writeVars, jsVars
    <3>2. readyState' # "CONNECTING"  BY <2>1, <2>4, <3>1 DEF EarlyStep, CloseSteps
    <3>3. Drops \/ Puts1(Step("cancelWrites", 0, Head(stack).why))  BY <1>a, <2>4, BeginCloseMoves
    <3>4. EarlyStack'
      <4>1. CASE Drops  BY <1>2, <1>a, <1>c, <1>g, <4>1, EarlyDrops
      <4>2. CASE Puts1(Step("cancelWrites", 0, Head(stack).why))
        <5>1. PICK b : b = (1 = Len(stack))  OBVIOUS
        <5>2. PICK a : a = Step("cancelWrites", 0, Head(stack).why)  OBVIOUS
        <5>3. EarlyStep(a, b, closing', StillPending', readyState')  BY <3>2, <5>2, EarlyFirst
        <5>4. QED BY <1>2, <1>a, <1>c, <1>g, <4>2, <5>1, <5>2, <5>3, EarlyPuts
      <4>3. QED BY <3>3, <4>1, <4>2
    <3>5. QED BY <1>c, <3>1, <3>2, <3>4
  <2>5. CASE (CancelWrite \/ Closed) /\ Head(stack).at = "cancelWrites"
    <3>1. Closed  BY <1>d, <2>5 DEF CancelWrite
    <3>2. UNCHANGED <<requests, given, nativeActive, closeTimer, readyState, closing>> /\ poll' = "none"
      BY <1>c, <2>n, <3>1 DEF Closed, writeVars, jsVars
    <3>3. EarlyStack'  BY <1>2, <1>a, <1>c, <1>g, <3>1, ClosedMoves, EarlyDrops
    <3>4. QED BY <1>c, <3>2, <3>3
  <2>6. CASE RequestDestroy /\ Head(stack).at = "requestDestroy"
    <3>2. UNCHANGED <<requests, given, nativeActive, closeTimer, readyState, closing, poll>>
      BY <2>6, <2>n DEF RequestDestroy, writeVars, jsVars
    <3>3. Drops  BY <1>a, <1>b, <2>6, RequestDestroyMoves
    <3>4. EarlyStack'  BY <1>2, <1>a, <1>c, <1>g, <3>3, EarlyDrops
    <3>5. QED BY <1>c, <3>2, <3>4
  <2>7. CASE Activate /\ Head(stack).at = "activate"
    <3>1. ~closing  BY <2>1, <2>7 DEF EarlyStep
    <3>2. QED BY <1>b, <2>7, <3>1 DEF Activate
  <2>8. CASE FinalizeClose /\ Head(stack).at = "_finalizeClose"
    <3>1. /\ UNCHANGED <<poll, requests, given, closing>> /\ ~nativeActive' /\ readyState' = "CLOSED"
          /\ closeTimer' = "off"
      BY <1>c, <2>8 DEF FinalizeClose, handleVars, writeVars
    <3>2. Drops \/ Puts1(At("requestDestroy"))  BY <1>a, <1>c, <2>8, FinalizeCloseMoves
    <3>3. EarlyStack'
      <4>1. CASE Drops  BY <1>2, <1>a, <1>c, <1>g, <4>1, EarlyDrops
      <4>2. CASE Puts1(At("requestDestroy"))
        <5>1. (1 = Len(stack)) = TRUE  BY <2>1, <2>8 DEF EarlyStep
        <5>2. EarlyStep(At("requestDestroy"), 1 = Len(stack), closing', StillPending', readyState')
          BY <5>1, EarlyFirst
        <5>3. QED BY <1>2, <1>a, <1>c, <1>g, <4>2, <5>2, EarlyPuts
      <4>3. QED BY <3>2, <4>1, <4>2
    <3>4. QED BY <1>c, <3>1, <3>3
  <2>9. QED BY <2>3, <2>4, <2>5, <2>6, <2>7, <2>8
<1>3. QED BY <1>1, <1>2

\* A step of the next stack is a new one, or was on the stack before, at the same end of it.
LEMMA EachStep ==
    ASSUME StackTyped, Pushed
    PROVE  \A k \in DOMAIN stack' :
             \/ New(stack'[k])
             \/ \E j \in DOMAIN stack : /\ stack'[k] = stack[j] /\ j + Len(stack') = k + Len(stack)
                                        /\ (k = Len(stack')) = (j = Len(stack))
<1> SUFFICES ASSUME NEW k \in DOMAIN stack', ~New(stack'[k])
             PROVE  \E j \in DOMAIN stack : /\ stack'[k] = stack[j] /\ j + Len(stack') = k + Len(stack)
                                            /\ (k = Len(stack')) = (j = Len(stack))
  OBVIOUS
<1>1. PICK n \in Nat, d \in {0, 1} : Pushes(n, d)  BY DEF Pushed
<1>2. /\ stack' \in Seq(Steps) /\ Len(stack') = n + Len(stack) - d
      /\ \A i \in n+1..Len(stack') : i - n + d \in DOMAIN stack /\ stack'[i] = stack[i - n + d]
  BY <1>1 DEF Pushes, Moves
<1>3. DOMAIN stack' = 1..Len(stack') /\ Len(stack') \in Nat /\ Len(stack) \in Nat
  BY <1>2, LenProperties DEF StackTyped
<1>4. k \notin 1..n  BY <1>1 DEF Pushes
<1>5. k \in n+1..Len(stack')  BY <1>3, <1>4
<1>6. k - n + d \in DOMAIN stack /\ stack'[k] = stack[k - n + d]  BY <1>2, <1>5
<1>7. k - n + d + Len(stack') = k + Len(stack)
  <2>1. Len(stack') = n + Len(stack) - d /\ k \in Nat  BY <1>2, <1>3
  <2>2. d \in Int /\ n \in Nat /\ Len(stack) \in Nat  BY <1>3
  <2>3. QED BY ONLY <2>1, <2>2
<1>8. (k = Len(stack')) = (k - n + d = Len(stack))
  <2>1. Len(stack') \in Int /\ k \in Int /\ k - n + d \in Int /\ Len(stack) \in Int  BY <1>2, <1>3
  <2>2. QED BY ONLY SMTT(30), <1>7, <2>1
<1>9. QED BY <1>6, <1>7, <1>8


\* What is below the top stays.
LEMMA EachKept ==
    ASSUME StackTyped, Pushed
    PROVE  \A j \in DOMAIN stack : j > 1 =>
             \E k \in DOMAIN stack' : stack'[k] = stack[j] /\ (k = Len(stack')) = (j = Len(stack))
<1> SUFFICES ASSUME NEW j \in DOMAIN stack, j > 1
             PROVE  \E k \in DOMAIN stack' : /\ stack'[k] = stack[j]
                                             /\ (k = Len(stack')) = (j = Len(stack))
  OBVIOUS
<1>1. PICK n \in Nat, d \in {0, 1} : Pushes(n, d)  BY DEF Pushed
<1>2. /\ stack' \in Seq(Steps) /\ Len(stack') = n + Len(stack) - d
      /\ \A i \in d+1..Len(stack) : i - d + n \in DOMAIN stack' /\ stack'[i - d + n] = stack[i]
  BY <1>1 DEF Pushes, Moves
<1>3. DOMAIN stack = 1..Len(stack) /\ Len(stack') \in Nat /\ Len(stack) \in Nat
  BY <1>2, LenProperties DEF StackTyped
<1>5. j \in d+1..Len(stack)  BY <1>3
<1>6. j - d + n \in DOMAIN stack' /\ stack'[j - d + n] = stack[j]  BY <1>2, <1>5
<1>7. (j - d + n = Len(stack')) = (j = Len(stack))
  <2>1. Len(stack') = n + Len(stack) - d /\ j \in Nat  BY <1>2, <1>3
  <2>2. d \in Int /\ n \in Nat /\ Len(stack) \in Nat  BY <1>3
  <2>3. QED BY ONLY <2>1, <2>2
<1>8. QED BY <1>6, <1>7

\* What is in progress stays so until it is the top of the stack.
LEMMA OnKeeps ==
    ASSUME StackTyped, Pushed, NEW name, On(name), ~Tops({name}) PROVE On(name)'
<1>1. PICK j \in DOMAIN stack : stack[j].at = name  BY DEF On
<1>2. DOMAIN stack = 1..Len(stack) /\ Len(stack) \in Nat /\ (stack # <<>> => Head(stack) = stack[1])
  BY StackIndexes
<1>3. j > 1
  <2>1. stack # <<>>  BY <1>1, EmptySeq
  <2>2. j # 1  BY <1>1, <1>2, <2>1 DEF Tops
  <2>3. QED BY <1>2, <2>2
<1>4. QED BY <1>1, <1>3, EachKept DEF On

\* What is in progress was so before, or is new.
LEMMA OnFrom ==
    ASSUME StackTyped, Pushed, NEW name, On(name)'
    PROVE  On(name) \/ \E k \in DOMAIN stack' : stack'[k].at = name /\ New(stack'[k])
  BY EachStep DEF On

\* What a closed WebSocket no longer does.
AfterClose == readyState = "CLOSED" => ~upgradePending /\ closeTimer # "armed"
\* A closed WebSocket has the object destroyed, and only a closed one does.
Destroys ==
    /\ destroyRequested => readyState = "CLOSED"
    /\ On("requestDestroy") => readyState = "CLOSED"
    /\ readyState = "CLOSED" => destroyRequested \/ On("requestDestroy")
PollEnds == poll \in {"closing", "closed"} => closing /\ queue = <<>> /\ active
\* onPollClosed() is what an event runs, and it tells the owner first.
Releases ==
    /\ \A k \in DOMAIN stack : stack[k].at = "release" => k = Len(stack)
    /\ On("release") => /\ poll = "closed" /\ frees = 0
                        /\ On("_onNativeClosed") \/ On("_finalizeClose") \/ readyState = "CLOSED"
    /\ poll = "closed" => frees = 1 \/ On("release")
Gone ==
    /\ readyState = "CLOSED" /\ destroyRequested /\ poll \in {"none", "closed"} /\ queue = <<>>
    /\ \A k \in DOMAIN stack : stack[k].at = "_finalizeClose"
Freed == frees \in {0, 1} /\ (frees = 1 => Gone)
LifeInv == WriteInv /\ Startup /\ AfterClose /\ Destroys /\ PollEnds /\ Releases /\ Freed

\* Parts of WriteInv that the proofs below use.
LEMMA LifeFacts ==
    ASSUME WriteInv
    PROVE  /\ TypeInv /\ StackTyped /\ BaseInv /\ Instantly /\ AtSubmit /\ StackInv
           /\ upgradePending \in BOOLEAN /\ destroyRequested \in BOOLEAN /\ active \in BOOLEAN
           /\ closing \in BOOLEAN /\ frees \in Nat
  BY DEF WriteInv, StackInv, QueueInv, BaseInv, TypeInv

\* CLOSED is final.
LEMMA ClosedStays == ASSUME LifeInv, Next, readyState = "CLOSED" PROVE readyState' = "CLOSED"
<1>1. StateChanges  BY VarsNext
<1>2. ~upgradePending  BY DEF LifeInv, AfterClose
<1>3. QED BY <1>1, <1>2 DEF StateChanges

\* A closed WebSocket has neither an upgrade pending nor a timer armed.
LEMMA AfterCloseNext == ASSUME LifeInv, Next PROVE AfterClose'
<1>1. StateChanges /\ CourseChanges  BY VarsNext
<1>2. WriteInv /\ AfterClose  BY DEF LifeInv
<1>3. upgradePending \in BOOLEAN  BY <1>2, LifeFacts
<1> SUFFICES ASSUME readyState' = "CLOSED" PROVE ~upgradePending' /\ closeTimer' # "armed"
  BY DEF AfterClose
<1>4. CASE readyState = "CLOSED"
  <2>1. ~upgradePending /\ closeTimer # "armed"  BY <1>2, <1>4 DEF AfterClose
  <2>2. ~upgradePending'  BY <1>1, <2>1 DEF StateChanges
  <2>3. closeTimer' # "armed"  BY <1>1, <1>4, <2>1 DEF CourseChanges
  <2>4. QED BY <2>2, <2>3
<1>5. CASE readyState # "CLOSED"
  <2>1. Tops({"_finalizeClose"})  BY <1>1, <1>5 DEF StateChanges
  <2>2. QED BY <1>1, <1>5, <2>1 DEF StateChanges, CourseChanges
<1>6. QED BY <1>4, <1>5

\* The step that finalizes, whatever its readyState is.
LEMMA Finalizing == ASSUME Next, Tops({"_finalizeClose"}) PROVE FinalizeClose
  BY StepNext DEF Tops, Submitters, Shutdowns, Upcalls

\* Destruction is requested, or about to be, exactly when the WebSocket is closed.
LEMMA DestroysNext == ASSUME LifeInv, Next PROVE Destroys'
<1>1. HandleChanges /\ StateChanges  BY VarsNext
<1>2. WriteInv /\ Destroys  BY DEF LifeInv
<1>3. StackTyped /\ BaseInv /\ AtSubmit /\ TypeInv /\ destroyRequested \in BOOLEAN  BY <1>2, LifeFacts
<1>4. Pushed  BY <1>3, PushNext
<1>5. Tops({"requestDestroy"}) => On("requestDestroy")
  <2>1. stack # <<>> => 1 \in DOMAIN stack /\ Head(stack) = stack[1]  BY <1>3, StackIndexes
  <2>2. QED BY <2>1 DEF On, Tops
<1>6. destroyRequested' => readyState' = "CLOSED"
  <2>1. destroyRequested' => destroyRequested \/ Tops({"requestDestroy"})  BY <1>1 DEF HandleChanges
  <2>2. QED BY <1>2, <1>5, <2>1, ClosedStays DEF Destroys
<1>7. On("requestDestroy")' => readyState' = "CLOSED"
  <2>1. CASE On("requestDestroy")  BY <1>2, <2>1, ClosedStays DEF Destroys
  <2>2. ASSUME NEW k \in DOMAIN stack', stack'[k].at = "requestDestroy", New(stack'[k])
        PROVE  readyState' = "CLOSED"
    <3>1. Tops({"_finalizeClose"})  BY <2>2 DEF New, NewScript
    <3>2. QED BY <1>1, <3>1 DEF StateChanges
  <2>3. QED BY <1>3, <1>4, <2>1, <2>2, OnFrom
<1>8. readyState' = "CLOSED" => destroyRequested' \/ On("requestDestroy")'
  <2>1. CASE readyState = "CLOSED"
    <3>1. CASE destroyRequested  BY <1>1, <3>1 DEF HandleChanges
    <3>2. CASE Tops({"requestDestroy"})  BY <1>1, <3>2 DEF HandleChanges
    <3>3. CASE On("requestDestroy") /\ ~Tops({"requestDestroy"})  BY <1>3, <1>4, <3>3, OnKeeps
    <3>4. QED BY <1>2, <2>1, <3>1, <3>2, <3>3 DEF Destroys
  <2>2. CASE readyState # "CLOSED" /\ readyState' = "CLOSED"
    <3>1. Tops({"_finalizeClose"})  BY <1>1, <2>2 DEF StateChanges
    <3>2. FinalizeClose  BY <3>1, Finalizing
    <3>3. Puts2(At("requestDestroy"), At("user")) \/ Puts1(At("requestDestroy"))
      BY <1>3, <2>2, <3>2, FinalizeCloseMoves
    <3>4. 1 \in DOMAIN stack' /\ stack'[1] = At("requestDestroy")  BY <3>3 DEF Puts1, Puts2
    <3>5. QED BY <3>4 DEF On, At, Step
  <2>3. QED BY <2>1, <2>2
<1>9. QED BY <1>6, <1>7, <1>8 DEF Destroys

\* Nothing is queued any more once the transport closes.
LEMMA EmptyStays == ASSUME WriteInv, Next, closing, queue = <<>> PROVE queue' = <<>>
<1>1. BaseInv /\ AtSubmit  BY LifeFacts
<1>2. Changes  BY <1>1, ChangesNext
<1>3. \A i : ~Enters(i)  BY <1>1 DEF Enters, Top, AtSubmit
<1>4. \A n : ~Sending(n)  BY DEF Sending
<1>5. ~CancelWrite  BY DEF CancelWrite
<1>6. QED BY <1>2, <1>3, <1>4, <1>5 DEF Changes, Stays, Submits, Refuses, Waits

\* The handle closes only when the transport closes and its queue is empty.
LEMMA PollEndsNext == ASSUME LifeInv, Next PROVE PollEnds'
<1>1. HandleChanges  BY VarsNext
<1>2. WriteInv /\ PollEnds /\ Startup  BY DEF LifeInv
<1>3. BaseInv /\ closing \in BOOLEAN /\ active \in BOOLEAN  BY <1>2, LifeFacts
<1>4. closing /\ active /\ queue = <<>> => closing' /\ active' /\ queue' = <<>>
  BY <1>1, <1>2, <1>3, EmptyStays DEF HandleChanges
<1>5. CASE poll \in {"closing", "closed"}  BY <1>2, <1>4, <1>5 DEF PollEnds
<1>6. CASE poll \notin {"closing", "closed"} /\ poll' \in {"closing", "closed"}
  <2>1. Tops({"cancelWrites"}) /\ queue = <<>> /\ poll = "open"  BY <1>1, <1>6 DEF HandleChanges
  <2>2. active  BY <1>2, <2>1 DEF Startup
  <2>3. Form(Head(stack), Len(requests), closing) /\ Head(stack).at = "cancelWrites"
    BY <1>3, <2>1, TopOn DEF Tops
  <2>4. closing  BY <2>3 DEF Form
  <2>5. QED BY <1>4, <2>1, <2>2, <2>4 DEF PollEnds
<1>7. QED BY <1>5, <1>6 DEF PollEnds

\* The handle is closed by its callback alone.
LEMMA ClosesPoll ==
    ASSUME Next, poll # "closed", poll' = "closed"
    PROVE  OnPollClosed /\ UNCHANGED jsVars /\ stack = <<>> /\ poll = "closing"
<1>1. HandleChanges  BY VarsNext
<1>2. stack = <<>> /\ poll = "closing"  BY <1>1 DEF HandleChanges
<1>3. OnPoll \/ OnPollError \/ NodeSocketClosed \/ RunScheduled \/ CloseTimeout \/ AbortUpgrade \/ Send
        \/ Close \/ UserTerminate => UNCHANGED poll
  BY DEF OnPoll, OnPollError, NodeSocketClosed, RunScheduled, CloseTimeout, AbortUpgrade, Send, Close,
         UserTerminate, handleVars
<1>4. QED BY <1>2, <1>3, EventNext

\* Once freed, nothing but a late _finalizeClose() runs, and it does nothing.
LEMMA GoneSteps ==
    ASSUME LifeInv, Gone, Next
    PROVE  /\ NodeSocketClosed \/ RunScheduled \/ FinalizeClose
           /\ UNCHANGED <<readyState, destroyRequested, poll, queue, frees>>
           /\ UNCHANGED stack \/ Covers1(At("_finalizeClose")) \/ (stack # <<>> /\ Drops)
<1>1. WriteInv /\ AfterClose  BY DEF LifeInv
<1>2. TypeInv /\ StackTyped  BY <1>1, LifeFacts
<1>3. readyState = "CLOSED" /\ poll \in {"none", "closed"} /\ ~upgradePending /\ closeTimer # "armed"
  BY <1>1 DEF Gone, AfterClose
<1>4. stack # <<>> => Head(stack).at = "_finalizeClose"
  BY <1>2, StackIndexes DEF Gone
<1>5. CASE stack = <<>>
  <2>1. ~OnPoll /\ ~OnPollError /\ ~OnPollClosed /\ ~CloseTimeout /\ ~AbortUpgrade /\ ~Send /\ ~Close
        /\ ~UserTerminate
    BY <1>3 DEF OnPoll, OnPollError, OnPollClosed, CloseTimeout, AbortUpgrade, Send, Close, UserTerminate
  <2>2. NodeSocketClosed \/ RunScheduled  BY <1>5, <2>1, EventNext
  <2>3. UNCHANGED <<readyState, destroyRequested, poll, queue, frees>>
    BY <2>2 DEF NodeSocketClosed, RunScheduled, handleVars, writeVars
  <2>4. UNCHANGED stack \/ Covers1(At("_finalizeClose"))
    BY <1>2, <1>3, <2>2, NodeSocketClosedMoves, RunScheduledMoves DEF StillPending
  <2>5. QED BY <2>2, <2>3, <2>4
<1>6. CASE stack # <<>>
  <2>1. FinalizeClose  BY <1>4, <1>6, Finalizing DEF Tops
  <2>2. UNCHANGED <<readyState, destroyRequested, poll, queue, frees>>
    BY <1>3, <2>1 DEF FinalizeClose, handleVars, writeVars
  <2>3. Drops  BY <1>2, <1>3, <2>1, FinalizeCloseMoves
  <2>4. QED BY <1>6, <2>1, <2>2, <2>3
<1>7. QED BY <1>5, <1>6

\* Once the object is gone nothing of it is touched, and it is not freed again.
LEMMA GoneStays == ASSUME LifeInv, Gone, Next PROVE Gone' /\ UNCHANGED frees
<1>1. /\ UNCHANGED <<readyState, destroyRequested, poll, queue, frees>>
      /\ UNCHANGED stack \/ Covers1(At("_finalizeClose")) \/ (stack # <<>> /\ Drops)
  BY GoneSteps
<1>2. StackTyped  BY LifeFacts DEF LifeInv
<1>3. \A k \in DOMAIN stack' : stack'[k].at = "_finalizeClose"
  <2>1. CASE UNCHANGED stack  BY <2>1 DEF Gone
  <2>2. CASE Covers1(At("_finalizeClose"))
    <3> SUFFICES ASSUME NEW k \in DOMAIN stack' PROVE stack'[k].at = "_finalizeClose"  OBVIOUS
    <3>1. /\ Len(stack') = 1 + Len(stack) - 0 /\ stack' \in Seq(Steps) /\ stack'[1] = At("_finalizeClose")
          /\ \A i \in 1+1..Len(stack') : i - 1 + 0 \in DOMAIN stack /\ stack'[i] = stack[i - 1 + 0]
      BY <2>2 DEF Covers1, Moves
    <3>2. DOMAIN stack' = 1..Len(stack')  BY <3>1, LenProperties
    <3>3. CASE k = 1  BY <3>1, <3>3 DEF At, Step
    <3>4. CASE k # 1
      <4>1. k - 1 + 0 \in DOMAIN stack /\ stack'[k] = stack[k - 1 + 0]  BY <3>1, <3>2, <3>4
      <4>2. QED BY <4>1 DEF Gone
    <3>5. QED BY <3>3, <3>4
  <2>3. CASE stack # <<>> /\ Drops
    <3>1. \A k \in DOMAIN stack' : k + 1 \in DOMAIN stack /\ stack'[k] = stack[k + 1]
      BY <1>2, <2>3, AfterDrops
    <3>2. QED BY <3>1 DEF Gone
  <2>4. QED BY <1>1, <2>1, <2>2, <2>3
<1>4. QED BY <1>1, <1>3 DEF Gone

\* The end of onPollClosed() is the last thing its event does.
LEMMA ReleaseLast ==
    ASSUME LifeInv, Next, Tops({"release"})
    PROVE  /\ readyState = "CLOSED" /\ destroyRequested /\ frees = 0 /\ poll = "closed"
           /\ frees' = 1 /\ UNCHANGED poll /\ stack' = <<>>
<1>1. WriteInv /\ Releases /\ Destroys  BY DEF LifeInv
<1>2. TypeInv /\ StackTyped  BY <1>1, LifeFacts
<1>3. /\ DOMAIN stack = 1..Len(stack) /\ stack # <<>> /\ 1 \in DOMAIN stack /\ Head(stack) = stack[1]
      /\ Head(stack).at = "release"
  BY <1>2, StackIndexes DEF Tops
<1>4. Len(stack) = 1  BY <1>1, <1>3 DEF Releases
<1>5. On("release")  BY <1>3 DEF On
<1>6. \A name : On(name) => name = "release"  BY <1>3, <1>4 DEF On
<1>7. readyState = "CLOSED" /\ frees = 0 /\ poll = "closed"  BY <1>1, <1>5, <1>6 DEF Releases
<1>8. destroyRequested  BY <1>1, <1>6, <1>7 DEF Destroys
<1>9. HandleChanges  BY VarsNext
<1>10. frees' = 1 /\ UNCHANGED poll
  <2>1. frees' = frees + 1  BY <1>8, <1>9 DEF HandleChanges
  <2>2. UNCHANGED poll  BY <1>3, <1>7, <1>9 DEF HandleChanges, Tops
  <2>3. QED BY <1>7, <2>1, <2>2
<1>11. Release  BY <1>3, StepNext DEF Submitters, Shutdowns, Upcalls
<1>12. Drops  BY <1>2, <1>11, ReleaseMoves
<1>13. stack' \in Seq(Steps) /\ Len(stack') = 0  BY <1>2, <1>3, <1>4, <1>12, AfterDrops DEF Drops, Moves
<1>14. stack' = <<>>  BY <1>13, EmptySeq
<1>15. QED BY <1>7, <1>8, <1>10, <1>14

\* The first and only time the object is deleted.
LEMMA FreeStep ==
    ASSUME LifeInv, Next, frees' # frees
    PROVE  Gone' /\ frees = 0 /\ frees' = 1 /\ stack' = <<>>
<1>1. WriteInv /\ Releases /\ Destroys /\ Startup /\ Freed /\ PollEnds  BY DEF LifeInv
<1>2. /\ TypeInv /\ StackTyped /\ active \in BOOLEAN /\ frees \in Nat /\ destroyRequested \in BOOLEAN
      /\ BaseInv
  BY <1>1, LifeFacts
<1>3. HandleChanges  BY VarsNext
<1>4. frees = 0
  <2>1. ~Gone  BY GoneStays
  <2>2. QED BY <1>1, <2>1 DEF Freed
<1>5. frees' = 1  BY <1>3, <1>4 DEF HandleChanges
<1>e. stack' = <<>> => \A k \in DOMAIN stack' : stack'[k].at = "_finalizeClose"  BY EmptySeq
<1>6. CASE Tops({"requestDestroy"}) /\ ~active
  <2>1. /\ DOMAIN stack = 1..Len(stack) /\ stack # <<>> /\ 1 \in DOMAIN stack /\ Head(stack) = stack[1]
        /\ Head(stack).at = "requestDestroy" /\ Len(stack) \in Nat
    BY <1>2, <1>6, StackIndexes DEF Tops
  <2>2. EarlyStep(stack[1], 1 = Len(stack), closing, StillPending, readyState)
    BY <1>1, <1>6, <2>1 DEF Startup
  <2>3. Len(stack) = 1  BY <2>1, <2>2 DEF EarlyStep
  <2>4. RequestDestroy  BY <2>1, StepNext DEF Submitters, Shutdowns, Upcalls
  <2>5. Drops  BY <1>2, <1>6, <2>4, RequestDestroyMoves
  <2>6. stack' \in Seq(Steps) /\ Len(stack') = 0  BY <1>2, <2>1, <2>3, <2>5, AfterDrops DEF Drops, Moves
  <2>7. stack' = <<>>  BY <2>6, EmptySeq
  <2>8. readyState = "CLOSED"  BY <1>1, <2>1 DEF Destroys, On
  <2>9. readyState' = "CLOSED"  BY <2>8, ClosedStays
  <2>10. destroyRequested' = TRUE /\ UNCHANGED <<poll, queue>>  BY <2>4 DEF RequestDestroy, writeVars
  <2>11. poll = "none" /\ requests = <<>>  BY <1>1, <1>6 DEF Startup
  <2>12. queue = <<>>
    <3>1. queue # <<>> => First \in DOMAIN requests  BY <1>2, QueueFacts
    <3>2. DOMAIN requests = {}  BY <2>11, EmptySeq
    <3>3. QED BY <3>1, <3>2
  <2>13. QED BY <1>4, <1>5, <1>e, <2>7, <2>9, <2>10, <2>11, <2>12 DEF Gone
<1>7. CASE Tops({"destroy"}) /\ DestroyNow
  <2>1. poll = "closed" /\ ~Running("release")  BY <1>7 DEF DestroyNow
  <2>2. ~On("release")  BY <2>1 DEF On, Running
  <2>3. frees = 1  BY <1>1, <2>1, <2>2 DEF Releases
  <2>4. QED BY <1>4, <2>3
<1>8. CASE Tops({"release"}) /\ destroyRequested
  <2>1. readyState = "CLOSED" /\ poll = "closed" /\ UNCHANGED poll /\ stack' = <<>>
    BY <1>8, ReleaseLast
  <2>2. readyState' = "CLOSED"  BY <2>1, ClosedStays
  <2>3. destroyRequested'  BY <1>2, <1>3, <1>8 DEF HandleChanges
  <2>4. queue' = <<>>  BY <1>1, <2>1, EmptyStays DEF PollEnds
  <2>5. QED BY <1>4, <1>5, <1>e, <2>1, <2>2, <2>3, <2>4 DEF Gone
<1>9. QED BY <1>3, <1>6, <1>7, <1>8 DEF HandleChanges

\* The object is freed at most once, and then it is gone.
LEMMA FreedNext == ASSUME LifeInv, Next PROVE Freed'
<1>1. Freed  BY DEF LifeInv
<1>2. CASE frees' # frees  BY <1>2, FreeStep DEF Freed
<1>3. CASE frees' = frees  BY <1>1, <1>3, GoneStays DEF Freed
<1>4. QED BY <1>2, <1>3

\* The end of onPollClosed() runs once, last, with the object still there.
LEMMA ReleasesNext == ASSUME LifeInv, Next PROVE Releases'
<1>1. WriteInv /\ Releases /\ Freed /\ PollEnds  BY DEF LifeInv
<1>2. TypeInv /\ StackTyped /\ BaseInv /\ AtSubmit /\ active \in BOOLEAN  BY <1>1, LifeFacts
<1>3. HandleChanges /\ Pushed /\ StateChanges  BY <1>2, VarsNext, PushNext
<1>4. CASE OnPollClosed
  <2>1. Covers2(At("_onNativeClosed"), At("release"))  BY <1>2, <1>4, OnPollClosedMoves
  <2>2. stack = <<>> /\ poll = "closing" /\ poll' = "closed" /\ UNCHANGED frees
    BY <1>4 DEF OnPollClosed
  <2>3. /\ DOMAIN stack' = {1, 2} /\ Len(stack') = 2 /\ stack'[1] = At("_onNativeClosed")
        /\ stack'[2] = At("release")
    BY <2>1, <2>2, AfterCovers
  <2>4. frees' = 0  BY <1>1, <2>2 DEF Freed, Gone
  <2>5. stack'[1].at = "_onNativeClosed" /\ stack'[2].at = "release"  BY <2>3 DEF At, Step
  <2>6. On("release")' /\ On("_onNativeClosed")'  BY <2>3, <2>5 DEF On
  <2>7. \A k \in DOMAIN stack' : stack'[k].at = "release" => k = Len(stack')  BY <2>3, <2>5
  <2>8. QED BY <2>2, <2>4, <2>6, <2>7 DEF Releases
<1>5. CASE Tops({"release"})
  <2>1. frees' = 1 /\ stack' = <<>>  BY <1>5, ReleaseLast
  <2>2. DOMAIN stack' = {}  BY <2>1, EmptySeq
  <2>3. QED BY <2>1, <2>2 DEF Releases, On
<1>6. CASE ~OnPollClosed /\ ~Tops({"release"})
  <2>1. \A k \in DOMAIN stack' : stack'[k].at = "release" => ~New(stack'[k])
    BY <1>6 DEF New, NewNative
  <2>2. \A k \in DOMAIN stack' : stack'[k].at = "release" => k = Len(stack')
    BY <1>1, <1>2, <1>3, <2>1, EachStep DEF Releases
  <2>3. On("release")' => On("release")  BY <1>2, <1>3, <2>1, OnFrom
  <2>4. On("release") => On("release")'  BY <1>2, <1>3, <1>6, OnKeeps
  <2>5. poll' = "closed" <=> poll = "closed"
    <3>1. poll' = "closed" => poll = "closed"  BY <1>6, ClosesPoll
    <3>2. poll = "closed" => poll' = "closed"
      <4>1. poll = "closed" => active  BY <1>1 DEF PollEnds
      <4>2. QED BY <1>3, <4>1 DEF HandleChanges
    <3>3. QED BY <3>1, <3>2
  <2>6. frees' # frees => frees' = 1 /\ stack' = <<>>  BY FreeStep
  <2>7. frees' # frees => ~On("release")'
    <3>1. stack' = <<>> => DOMAIN stack' = {}  BY EmptySeq
    <3>2. QED BY <2>6, <3>1 DEF On
  <2>8. On("release") => On("_onNativeClosed")' \/ On("_finalizeClose")' \/ readyState' = "CLOSED"
    <3>1. CASE readyState = "CLOSED"  BY <3>1, ClosedStays
    <3>2. CASE On("_finalizeClose")
      <4>1. CASE Tops({"_finalizeClose"})  BY <1>3, <4>1 DEF StateChanges
      <4>2. CASE ~Tops({"_finalizeClose"})  BY <1>2, <1>3, <3>2, <4>2, OnKeeps
      <4>3. QED BY <4>1, <4>2
    <3>3. CASE On("_onNativeClosed")
      <4>1. CASE Tops({"_onNativeClosed"})
        <5>1. FromNative  BY <4>1, StepNext DEF Tops, Submitters, Shutdowns, Upcalls
        <5>2. Puts1(At("_finalizeClose"))  BY <1>2, <4>1, <5>1, FromNativeMoves DEF Tops
        <5>3. 1 \in DOMAIN stack' /\ stack'[1] = At("_finalizeClose")  BY <5>2 DEF Puts1
        <5>4. QED BY <5>3 DEF On, At, Step
      <4>2. CASE ~Tops({"_onNativeClosed"})  BY <1>2, <1>3, <3>3, <4>2, OnKeeps
      <4>3. QED BY <4>1, <4>2
    <3>4. QED BY <1>1, <3>1, <3>2, <3>3 DEF Releases
  <2>9. QED BY <1>1, <2>2, <2>3, <2>4, <2>5, <2>6, <2>7, <2>8 DEF Releases
<1>7. QED BY <1>4, <1>5, <1>6

\* The invariant of the transport's life holds at first.
LEMMA LifeInit == ASSUME Init PROVE LifeInv
<1>1. WriteInv  BY WriteInit
<1>2. stack = <<>> /\ DOMAIN stack = {}  BY EmptySeq DEF Init, NativeInit
<1>3. Startup /\ AfterClose /\ PollEnds /\ Freed  BY <1>2 DEF Init, NativeInit, Startup, AfterClose, PollEnds, Freed
<1>4. Destroys /\ Releases  BY <1>2 DEF Init, NativeInit, Destroys, Releases, On
<1>5. QED BY <1>1, <1>3, <1>4 DEF LifeInv

\* And after each step, stuttering included.
LEMMA LifeStep == ASSUME LifeInv, [Next]_vars PROVE LifeInv'
<1>0. WriteInv' /\ WriteInv  BY WriteStep DEF LifeInv
<1>1. CASE Next
  BY <1>0, <1>1, StartupNext, AfterCloseNext, DestroysNext, PollEndsNext, ReleasesNext, FreedNext
     DEF LifeInv
<1>2. CASE UNCHANGED vars
  <2>1. UNCHANGED <<stack, active, closing, poll, destroyRequested, frees, requests, queue, readyState,
                    upgradePending, nativeActive, given, closeTimer>>
    BY <1>2 DEF vars, nativeVars, handleVars, writeVars, jsVars
  <2>2. Startup' <=> Startup  BY <2>1 DEF Startup, StillPending
  <2>3. AfterClose' <=> AfterClose  BY <2>1 DEF AfterClose
  <2>4. Destroys' <=> Destroys  BY <2>1 DEF Destroys, On
  <2>5. PollEnds' <=> PollEnds  BY <2>1 DEF PollEnds
  <2>6. Releases' <=> Releases  BY <2>1 DEF Releases, On
  <2>7. Freed' <=> Freed  BY <2>1 DEF Freed, Gone
  <2>8. QED BY <1>0, <2>2, <2>3, <2>4, <2>5, <2>6, <2>7 DEF LifeInv
<1>3. QED BY <1>1, <1>2

\* It has the property of the runs in it.
LEMMA LifeFrees == ASSUME LifeInv PROVE FreedOnce
  BY DEF LifeInv, Freed, Gone, FreedOnce, NativeMethods

\* What may run within the flush of submit().
Inner == {"flushWrites", "writing", "performTLSShutdown", "fail", "_onNativeTransportError", "closeNow",
          "cancelWrites", "user", "uncaught", "terminate", "_finalizeClose", "requestDestroy", "destroy"}
Closes(state) == state \in {"CLOSING", "CLOSED"}
\* While submit() flushes nothing else is queued, and the application sends nothing.
Flushed(i, rs, q) ==
    /\ i \in DOMAIN rs /\ ~rs[i].deferred
    /\ \A k \in DOMAIN q : q[k] = i
InnerStep(s, state) == s.at \in Inner /\ (s.at = "user" => Closes(state))
Flushes ==
    \A k \in DOMAIN stack : stack[k].at = "submitted" =>
        /\ Flushed(stack[k].on, requests, queue)
        /\ \A j \in DOMAIN stack : j < k => InnerStep(stack[j], readyState)

\* Once the application knows that the WebSocket closes it stays so, but for the upgrade.
LEMMA ToldStays ==
    ASSUME WriteInv, Next, Closes(readyState), ~Tops({"opened"}) PROVE Closes(readyState')
<1>1. StateChanges  BY VarsNext
<1>2. QED BY <1>1 DEF StateChanges, Closes

\* What such a step puts on the stack.
LEMMA InnerNew ==
    ASSUME WriteInv, Next, stack # <<>>, InnerStep(Head(stack), readyState), queue # <<>> => ~HasCallback(First),
           NEW s, s.at \in Names, New(s)
    PROVE  InnerStep(s, readyState')
<1>1. Head(stack).at \in Inner /\ (Head(stack).at = "user" => Closes(readyState))  BY DEF InnerStep
<1>2. MayAct => Head(stack).at = "user" /\ readyState # "OPEN"
  BY <1>1, MayActTop DEF Closes
<1>3. s.at \in Inner
  <2>1. s.at # "writeCallback" /\ s.at # "submit" /\ s.at # "submitted" /\ s.at # "_finishNativeWrite"
    BY <1>1, <1>2 DEF New, NewCall, NewScript, NewNative, Tops, Inner, Owned, Submitters
  <2>2. s.at \notin {"updatePoll", "feed", "readAvailable", "processMemoryBIO", "SSL_read", "flushOutput",
                     "message", "pong", "peerClose", "reply", "peerClosed", "shutdownIfPending",
                     "activate"}
    BY <1>1 DEF New, NewNative, Tops, Inner, Parsing
  <2>3. s.at # "release" /\ s.at # "_onNativeClosed"
    BY DEF New, NewNative, NewCall, OnPollClosed
  <2>4. s.at \notin {"_onNativeMessage", "_onNativeClose", "_onNativeBackpressure"}
    BY <1>1 DEF New, NewCall, Tops, Inner, Submitters
  <2>5. s.at \notin {"activated", "opened", "_fail"}
    BY <1>1 DEF New, NewScript, Tops, Inner
  <2>6. QED BY <2>1, <2>2, <2>3, <2>4, <2>5 DEF Names, NativeMethods, Upcalls, Inner
<1>4. s.at = "user" => Closes(readyState')
  <2>1. ASSUME s.at = "user" PROVE Tops({"_onNativeTransportError", "_finalizeClose"})
    BY <1>1, <2>1 DEF New, NewScript, Tops, Inner
  <2>2. StateChanges  BY VarsNext
  <2>3. QED BY <2>1, <2>2 DEF StateChanges, Closes, Tops
<1>5. QED BY <1>3, <1>4 DEF InnerStep

\* A write request keeps its callback's state, unless it is its own submit() that defers it.
LEMMA FlushedStays ==
    ASSUME WriteInv, Next, NEW i, Flushed(i, requests, queue), stack # <<>>, Head(stack).at \in Inner PROVE Flushed(i, requests', queue')
<1>1. BaseInv  BY LifeFacts
<1>2. Changes  BY <1>1, ChangesNext
<1>3. CASE Stays  BY <1>3 DEF Stays, Flushed
<1>4. CASE Submits  BY <1>4 DEF Submits, Adds, Flushed
<1>5. CASE Refuses  BY <1>5 DEF Refuses, Adds, Flushed
<1>6. ASSUME NEW j \in Nat, Enters(j) \/ Waits(j) PROVE FALSE
  BY <1>6 DEF Enters, Waits, Top, Inner
<1>7. ASSUME NEW n \in Nat, Sending(n) PROVE Flushed(i, requests', queue')
  <2>1. /\ First \in DOMAIN requests /\ requests[First] \in Requests
        /\ Edits(First, WrittenBy(requests[First], n))
        /\ IF requests[First].left = n THEN Dequeues ELSE UNCHANGED queue
    BY <1>1, <1>7, SendingData
  <2>2. requests'[i].deferred = requests[i].deferred /\ i \in DOMAIN requests'
    <3>1. WrittenBy(requests[First], n).deferred = requests[First].deferred
      BY <2>1 DEF WrittenBy, Requests
    <3>2. QED BY <2>1, <3>1 DEF Edits, Flushed
  <2>3. \A q \in DOMAIN queue' : queue'[q] = i
    BY <2>1 DEF Dequeues, Flushed
  <2>4. QED BY <2>2, <2>3 DEF Flushed
<1>8. CASE CancelWrite
  <2>1. /\ First \in DOMAIN requests /\ requests[First] \in Requests
        /\ Edits(First, EndedBy(requests[First], Head(stack).why)) /\ Dequeues
    BY <1>1, <1>8, CancelWriteData
  <2>2. requests'[i].deferred = requests[i].deferred /\ i \in DOMAIN requests'
    <3>1. EndedBy(requests[First], Head(stack).why).deferred = requests[First].deferred
      BY <2>1 DEF EndedBy, Requests
    <3>2. QED BY <2>1, <3>1 DEF Edits, Flushed
  <2>3. \A q \in DOMAIN queue' : queue'[q] = i
    BY <2>1 DEF Dequeues, Flushed
  <2>4. QED BY <2>2, <2>3 DEF Flushed
<1>9. QED BY <1>2, <1>3, <1>4, <1>5, <1>6, <1>7, <1>8 DEF Changes

\* The end of submit() leaves no other submit() that flushed.
LEMMA SubmittedGone ==
    ASSUME StackInv, Next, Tops({"submitted"}), \A j \in DOMAIN stack : j > 1 => stack[j].at # "submitted"
    PROVE  \A k \in DOMAIN stack' : stack'[k].at # "submitted"
<1>1. BaseInv /\ TypeInv /\ StackTyped  BY DEF StackInv, BaseInv, TypeInv
<1>2. stack # <<>> /\ Head(stack).at = "submitted"  BY DEF Tops
<1>3. PICK i : i = Head(stack).on /\ Submitted(i)
  <2>1. Submit  BY <1>2, SubmitIsNext
  <2>2. QED BY <1>2, <2>1 DEF Submit, SubmitBehindOthers, SubmitIdle, Top
<1>4. i \in Nat  BY <1>1, <1>3, SubmittedData
<1>5. \/ Drops
      \/ \E w : Puts1(Back(i, w))
      \/ Puts2(At("_onNativeBackpressure"), CloseNow("nobufs"))
      \/ Puts3(At("_onNativeBackpressure"), CloseNow("nobufs"), Back(i, "async"))
  BY <1>1, <1>3, <1>4, SubmittedMoves
<1>6. ASSUME NEW n \in Nat, Moves(n, 1), \A k \in 1..n : stack'[k].at # "submitted"
      PROVE  \A k \in DOMAIN stack' : stack'[k].at # "submitted"
  <2> SUFFICES ASSUME NEW k \in DOMAIN stack' PROVE stack'[k].at # "submitted"  OBVIOUS
  <2>1. stack' \in Seq(Steps) /\ Len(stack') = n + Len(stack) - 1
        /\ \A m \in n+1..Len(stack') : m - n + 1 \in DOMAIN stack /\ stack'[m] = stack[m - n + 1]
    BY <1>6 DEF Moves
  <2>2. DOMAIN stack' = 1..Len(stack')  BY <2>1, LenProperties
  <2>3. CASE k \in 1..n  BY <1>6, <2>3
  <2>4. CASE k \notin 1..n
    <3>1. k - n + 1 \in DOMAIN stack /\ stack'[k] = stack[k - n + 1] /\ k - n + 1 > 1
      BY <2>1, <2>2, <2>4
    <3>2. QED BY <3>1
  <2>5. QED BY <2>3, <2>4
<1>7. \A w : Back(i, w).at # "submitted" /\ CloseNow(w).at # "submitted"
  BY DEF Back, CloseNow, Step
<1>8. At("_onNativeBackpressure").at # "submitted"  BY DEF At, Step
<1>9. CASE Drops  BY <1>6, <1>9 DEF Drops
<1>10. CASE \E w : Puts1(Back(i, w))  BY <1>6, <1>7, <1>10 DEF Puts1
<1>11. CASE Puts2(At("_onNativeBackpressure"), CloseNow("nobufs"))
  BY <1>6, <1>7, <1>8, <1>11 DEF Puts2
<1>12. CASE Puts3(At("_onNativeBackpressure"), CloseNow("nobufs"), Back(i, "async"))
  BY <1>6, <1>7, <1>8, <1>12 DEF Puts3
<1>13. QED BY <1>5, <1>9, <1>10, <1>11, <1>12

\* While submit() flushes, nothing but its own request is queued and nothing can be sent.
LEMMA FlushesNext == ASSUME WriteInv, Flushes, Next PROVE Flushes'
<1>1. TypeInv /\ StackTyped /\ BaseInv /\ AtSubmit /\ StackInv  BY LifeFacts
<1>2. Pushed  BY <1>1, PushNext
<1>3. stack' \in Seq(Steps) /\ DOMAIN stack' = 1..Len(stack') /\ Len(stack') \in Nat
  <2>1. stack' \in Seq(Steps)  BY <1>2 DEF Pushed, Pushes, Moves
  <2>2. QED BY <2>1, LenProperties
<1>4. \A k \in DOMAIN stack' : stack'[k].at \in Names
  <2>1. \A k \in DOMAIN stack' : stack'[k] \in Steps  BY <1>3, ElementOfSeq
  <2>2. QED BY <2>1 DEF Steps
<1>5. /\ DOMAIN stack = 1..Len(stack) /\ Len(stack) \in Nat
      /\ stack # <<>> => Head(stack) = stack[1] /\ 1 \in DOMAIN stack
  BY <1>1, StackIndexes
<1> SUFFICES ASSUME NEW k \in DOMAIN stack', stack'[k].at = "submitted"
             PROVE  /\ Flushed(stack'[k].on, requests', queue')
                    /\ \A j \in DOMAIN stack' : j < k => InnerStep(stack'[j], readyState')
  BY DEF Flushes
\* Below another step a submit() that flushes.
<1>6. ASSUME NEW j \in DOMAIN stack, j > 1, stack[j].at = "submitted"
      PROVE  InnerStep(Head(stack), readyState) /\ stack # <<>> /\ Flushed(stack[j].on, requests, queue)
  <2>1. 1 \in DOMAIN stack /\ stack # <<>>  BY <1>5, <1>6, EmptySeq
  <2>2. QED BY <1>5, <1>6, <2>1 DEF Flushes
<1>7. CASE New(stack'[k])
  <2>1. Tops({"submit"}) /\ stack'[k].on = Head(stack).on /\ queue = <<>> /\ ~flushing
    BY <1>7 DEF New, NewNative
  <2>2. PICK i : i = Head(stack).on  OBVIOUS
  <2>3. SubmitIdle(i)
    <3>1. Submit  BY <2>1, SubmitIsNext DEF Tops
    <3>2. QED BY <2>1, <2>2, <3>1 DEF Submit, SubmitBehindOthers, Submitted, Top, Tops
  <2>4. i \in DOMAIN requests /\ i \in Nat /\ Queues(i) /\ UNCHANGED requests
    BY <1>1, <2>2, <2>3, SubmitIdleData
  <2>5. Flushed(i, requests', queue')
    <3>1. ~requests[i].deferred  BY <1>1, <2>1, <2>2 DEF AtSubmit, Tops
    <3>2. Len(queue) = 0 /\ DOMAIN queue = {}  BY <2>1, EmptySeq
    <3>3. \A q \in DOMAIN queue' : queue'[q] = i  BY <2>4, <3>2 DEF Queues
    <3>4. QED BY <2>4, <3>1, <3>3 DEF Flushed
  <2>6. Puts2(At("flushWrites"), Step("submitted", i, "none"))
    BY <1>1, <2>3, <2>4, SubmitIdleMoves
  <2>7. stack'[1].at = "flushWrites" /\ stack'[2].at = "submitted"
    BY <2>6 DEF Puts2, At, Step
  <2>8. k = 2
    <3>1. /\ Len(stack') = 2 + Len(stack) - 1
          /\ \A m \in 2+1..Len(stack') : m - 2 + 1 \in DOMAIN stack /\ stack'[m] = stack[m - 2 + 1]
      BY <2>6 DEF Puts2, Moves
    <3>2. ASSUME k > 2 PROVE FALSE
      <4>1. k - 2 + 1 \in DOMAIN stack /\ stack'[k] = stack[k - 2 + 1] /\ k - 2 + 1 > 1
        BY <1>3, <3>1, <3>2
      <4>2. InnerStep(Head(stack), readyState)  BY <1>6, <4>1
      <4>3. QED BY <2>1, <4>2 DEF InnerStep, Inner, Tops
    <3>3. QED BY <1>3, <2>7, <3>2
  <2>9. \A j \in DOMAIN stack' : j < k => j = 1  BY <1>3, <2>8
  <2>10. InnerStep(stack'[1], readyState')  BY <2>7 DEF InnerStep, Inner
  <2>11. QED BY <2>1, <2>2, <2>5, <2>9, <2>10
<1>8. ASSUME NEW m \in DOMAIN stack, stack'[k] = stack[m], m + Len(stack') = k + Len(stack)
      PROVE  /\ Flushed(stack'[k].on, requests', queue')
             /\ \A j \in DOMAIN stack' : j < k => InnerStep(stack'[j], readyState')
  <2>1. CASE m = 1
    <3>1. Tops({"submitted"})
      <4>1. stack # <<>>  BY <1>8, EmptySeq
      <4>2. QED BY <1>5, <1>8, <2>1, <4>1 DEF Tops
    <3>2. ASSUME NEW j \in DOMAIN stack, j > 1, stack[j].at = "submitted" PROVE FALSE
      <4>1. InnerStep(Head(stack), readyState)  BY <1>6, <3>2
      <4>2. QED BY <3>1, <4>1 DEF InnerStep, Inner, Tops
    <3>3. QED BY <1>1, <3>1, <3>2, SubmittedGone
  <2>2. CASE m # 1
    <3>1. m > 1 /\ stack[m].at = "submitted"  BY <1>5, <1>8, <2>2
    <3>2. InnerStep(Head(stack), readyState) /\ stack # <<>> /\ Flushed(stack[m].on, requests, queue)  BY <1>6, <3>1
    <3>3. Flushed(stack[m].on, requests', queue')
      <4>1. PICK i : i = stack[m].on  OBVIOUS
      <4>2. Head(stack).at \in Inner  BY <3>2 DEF InnerStep
      <4>3. Flushed(i, requests', queue')  BY <3>2, <4>1, <4>2, FlushedStays
      <4>4. QED BY <4>1, <4>3
    <3>4. ASSUME NEW j \in DOMAIN stack', j < k PROVE InnerStep(stack'[j], readyState')
      <4>1. CASE New(stack'[j])
        <5>1. queue # <<>> => ~HasCallback(First)
          BY <1>1, <3>2, QueueFacts DEF Flushed, HasCallback
        <5>2. PICK s : s = stack'[j]  OBVIOUS
        <5>3. InnerStep(s, readyState')  BY <1>4, <3>2, <4>1, <5>1, <5>2, InnerNew
        <5>4. QED BY <5>2, <5>3
      <4>2. ASSUME NEW p \in DOMAIN stack, stack'[j] = stack[p], p + Len(stack') = j + Len(stack)
            PROVE  InnerStep(stack'[j], readyState')
        <5>1. p < m  BY <1>3, <1>5, <1>8, <3>4, <4>2
        <5>2. InnerStep(stack[p], readyState)  BY <3>1, <5>1 DEF Flushes
        <5>3. ~Tops({"opened"})  BY <3>2 DEF InnerStep, Inner, Tops
        <5>4. Closes(readyState) => Closes(readyState')  BY <5>3, ToldStays
        <5>5. QED BY <4>2, <5>2, <5>4 DEF InnerStep
      <4>3. QED BY <1>1, <1>2, <4>1, <4>2, EachStep
    <3>5. QED BY <1>8, <3>3, <3>4
  <2>3. QED BY <2>1, <2>2
<1>9. QED BY <1>1, <1>2, <1>7, <1>8, EachStep

\* So the request it then looks for by address is its own.
LEMMA FlushesOwn == ASSUME WriteInv, Flushes PROVE LooksForItsOwn
<1>1. StackTyped  BY LifeFacts
<1> SUFFICES ASSUME Top("submitted") PROVE ToSet(queue) \subseteq {Head(stack).on}
  BY DEF LooksForItsOwn
<1>2. 1 \in DOMAIN stack /\ Head(stack) = stack[1]  BY <1>1, StackIndexes DEF Top
<1>3. \A q \in DOMAIN queue : queue[q] = Head(stack).on  BY <1>2 DEF Flushes, Flushed, Top
<1>4. QED BY <1>3 DEF ToSet

\* Only cancelWrites() leaves requests queued, or the handle open, while the transport closes.
Cancels == closing /\ (queue # <<>> \/ poll = "open") => On("cancelWrites")
\* Who looks at the limit when it was passed.
Watched == backpressureExceeded /\ ~closing => On("submitted") \/ On("closeNow")

\* What was put on the stack is there.
LEMMA PutsOn ==
    /\ \A a : Puts1(a) \/ Covers1(a) => \E k \in DOMAIN stack' : stack'[k] = a
    /\ \A a, b : Puts2(a, b) => (\E k \in DOMAIN stack' : stack'[k] = a) /\ \E k \in DOMAIN stack' : stack'[k] = b
    /\ \A a, b, c : Puts3(a, b, c) => (\E k \in DOMAIN stack' : stack'[k] = a)
                                      /\ \E k \in DOMAIN stack' : stack'[k] = b
  BY DEF Puts1, Puts2, Puts3, Covers1

\* The top of the stack is in progress.
LEMMA TopIsOn == ASSUME StackTyped, NEW name, Tops({name}) PROVE On(name)
  BY StackIndexes DEF Tops, On

\* A closing transport has something queued, or its handle open, only while cancelWrites()
\* runs.
LEMMA CancelsNext == ASSUME WriteInv, Cancels, Next PROVE Cancels'
<1>1. TypeInv /\ StackTyped /\ BaseInv /\ AtSubmit /\ StackInv /\ closing \in BOOLEAN  BY LifeFacts
<1>2. Pushed  BY <1>1, PushNext
<1>3. HandleChanges  BY VarsNext
<1> SUFFICES ASSUME closing', queue' # <<>> \/ poll' = "open" PROVE On("cancelWrites")'
  BY DEF Cancels
<1>4. CASE ~closing
  <2>1. Tops({"closeNow"})  BY <1>1, <1>3, <1>4 DEF HandleChanges
  <2>2. BeginClose  BY <2>1, StepNext DEF Tops, Submitters, Shutdowns, Upcalls
  <2>3. Puts1(Step("cancelWrites", 0, Head(stack).why))  BY <1>1, <1>4, <2>2, BeginCloseMoves
  <2>4. \E k \in DOMAIN stack' : stack'[k] = Step("cancelWrites", 0, Head(stack).why)  BY <2>3, PutsOn
  <2>5. QED BY <2>4 DEF On, Step
<1>5. CASE closing
  <2>1. queue # <<>> \/ poll = "open"
    <3>1. poll' = "open" => poll = "open"  BY <1>3, <1>5 DEF HandleChanges
    <3>2. QED BY <1>5, <3>1, EmptyStays
  <2>2. On("cancelWrites")  BY <1>5, <2>1 DEF Cancels
  <2>3. CASE ~Tops({"cancelWrites"})  BY <1>1, <1>2, <2>2, <2>3, OnKeeps
  <2>4. CASE Tops({"cancelWrites"})
    <3>1. CancelWrite
      <4>1. CancelWrite \/ Closed  BY <2>4, StepNext DEF Tops, Submitters, Shutdowns, Upcalls
      <4>2. ~Closed
        BY DEF Closed, writeVars
      <4>3. QED BY <4>1, <4>2
    <3>2. \/ UNCHANGED stack
          \/ \E a : Covers1(a)
      BY <1>1, <3>1, CancelWriteMoves
    <3>3. CASE UNCHANGED stack  BY <2>2, <3>3 DEF On
    <3>4. ASSUME NEW a, Covers1(a) PROVE On("cancelWrites")'
      <4>1. 1 \in DOMAIN stack /\ Head(stack) = stack[1] /\ DOMAIN stack = 1..Len(stack) /\ Len(stack) \in Nat
        BY <1>1, <2>4, StackIndexes DEF Tops
      <4>2. 1 - 0 + 1 \in DOMAIN stack' /\ stack'[1 - 0 + 1] = stack[1]
        BY <3>4, <4>1 DEF Covers1, Moves
      <4>3. QED BY <2>4, <4>1, <4>2 DEF On, Tops
    <3>5. QED BY <3>2, <3>3, <3>4
  <2>5. QED BY <2>3, <2>4
<1>6. QED BY <1>1, <1>4, <1>5

\* Nothing is counted when nothing is queued.
LEMMA NothingPending == ASSUME WriteInv, queue = <<>> PROVE pendingBytes = 0
<1>1. QueueSet = {}  BY EmptySeq DEF QueueSet, ToSet
<1>2. LeftSum(requests, {}) = 0  BY FS_EmptySet, LeftSumUnfolds
<1>3. QED BY <1>1, <1>2 DEF WriteInv, Bytes

\* Whoever passes the limit is followed by a step that looks at it.
LEMMA WatchedNext == ASSUME WriteInv, Flushes, Watched, Next PROVE Watched'
<1>1. TypeInv /\ StackTyped /\ BaseInv /\ AtSubmit /\ StackInv /\ closing \in BOOLEAN  BY LifeFacts
<1>2. Pushed  BY <1>1, PushNext
<1>3. HandleChanges  BY VarsNext
<1>4. pendingBytes \in Nat  BY WriteInvTypes DEF TypeOK
<1>t. MaxBackpressure \in Nat  BY TransportAssumption
<1> SUFFICES ASSUME backpressureExceeded', ~closing' PROVE On("submitted")' \/ On("closeNow")'
  BY DEF Watched
<1>5. ~closing /\ ~Tops({"closeNow"})
  <2>1. ~closing  BY <1>1, <1>3 DEF HandleChanges
  <2>2. Tops({"closeNow"}) => BeginClose  BY StepNext DEF Tops, Submitters, Shutdowns, Upcalls
  <2>3. QED BY <2>1, <2>2 DEF BeginClose
<1>6. CASE backpressureExceeded
  <2>1. CASE On("closeNow")  BY <1>1, <1>2, <1>5, <2>1, OnKeeps
  <2>2. CASE On("submitted") /\ ~Tops({"submitted"})  BY <1>1, <1>2, <2>2, OnKeeps
  <2>3. CASE Tops({"submitted"})
    <3>1. stack # <<>> /\ Head(stack).at = "submitted"  BY <2>3 DEF Tops
    <3>2. PICK i : i = Head(stack).on /\ Submitted(i)
      <4>1. Submit  BY <3>1, SubmitIsNext
      <4>2. QED BY <3>1, <4>1 DEF Submit, SubmitBehindOthers, SubmitIdle, Top
    <3>3. i \in Nat  BY <1>1, <3>2, SubmittedData
    <3>4. CASE ~Contains(queue, i)
      <4>1. \A k \in DOMAIN queue : queue[k] = i
        BY <1>1, <3>1, <3>2, StackIndexes DEF Flushes, Flushed
      <4>2. \A k \in DOMAIN queue : queue[k] # i  BY <3>4 DEF Contains
      <4>3. DOMAIN queue = {}  BY <4>1, <4>2
      <4>4. queue = <<>>
        <5>1. queue # <<>> => 1 \in DOMAIN queue  BY <1>1, QueueFacts
        <5>2. QED BY <4>3, <5>1
      <4>5. QED BY <1>6, <1>t, <4>4, NothingPending DEF backpressureExceeded
    <3>5. CASE Contains(queue, i)
      <4>1. \/ Puts2(At("_onNativeBackpressure"), CloseNow("nobufs"))
            \/ Puts3(At("_onNativeBackpressure"), CloseNow("nobufs"), Back(i, "async"))
        BY <1>1, <1>5, <1>6, <3>2, <3>3, <3>5, SubmittedMoves
      <4>2. \E k \in DOMAIN stack' : stack'[k] = CloseNow("nobufs")  BY <4>1, PutsOn
      <4>3. QED BY <4>2 DEF On, CloseNow, Step
    <3>6. QED BY <3>4, <3>5
  <2>4. QED BY <1>5, <1>6, <2>1, <2>2, <2>3 DEF Watched
<1>7. CASE ~backpressureExceeded
  <2>1. ASSUME NEW n \in Nat, pendingBytes' = pendingBytes - n PROVE FALSE
    BY <1>4, <1>7, <1>t, <2>1 DEF backpressureExceeded
  <2>2. PICK i \in Nat : Enters(i)
    <3>1. Changes  BY <1>1, ChangesNext
    <3>2. ASSUME NEW n \in Nat, Sending(n) PROVE pendingBytes' = pendingBytes - n
      BY <1>1, <3>2, SendingData
    <3>3. CancelWrite => requests[First].left \in Nat /\ pendingBytes' = pendingBytes - requests[First].left
      BY <1>1, CancelWriteData DEF Requests
    <3>4. UNCHANGED pendingBytes => pendingBytes' = pendingBytes - 0  BY <1>4
    <3>5. QED BY <2>1, <3>1, <3>2, <3>3, <3>4 DEF Changes, Stays, Submits, Refuses, Waits
  <2>3. stack # <<>> /\ Head(stack).at = "submit" /\ i = Head(stack).on  BY <2>2 DEF Enters, Top
  <2>4. Submit  BY <2>3, SubmitIsNext
  <2>5. SubmitBehindOthers(i) \/ SubmitIdle(i)  BY <2>3, <2>4 DEF Submit, Submitted, Top
  <2>6. CASE SubmitBehindOthers(i)
    <3>1. \/ Puts2(At("_onNativeBackpressure"), CloseNow("nobufs"))
          \/ Puts3(At("_onNativeBackpressure"), CloseNow("nobufs"), Back(i, "async"))
      BY <1>1, <2>6, BehindOthersMoves
    <3>2. \E k \in DOMAIN stack' : stack'[k] = CloseNow("nobufs")  BY <3>1, PutsOn
    <3>3. QED BY <3>2 DEF On, CloseNow, Step
  <2>7. CASE SubmitIdle(i)
    <3>1. Puts2(At("flushWrites"), Step("submitted", i, "none"))  BY <1>1, <2>7, SubmitIdleMoves
    <3>2. \E k \in DOMAIN stack' : stack'[k] = Step("submitted", i, "none")  BY <3>1, PutsOn
    <3>3. QED BY <3>2 DEF On, Step
  <2>8. QED BY <2>5, <2>6, <2>7
<1>8. QED BY <1>6, <1>7

\* So the limit is kept whenever no call is in progress.
LEMMA WatchedBounds == ASSUME WriteInv, Cancels, Watched PROVE BackpressureBounded
<1> SUFFICES ASSUME Idle, MaxBackpressure # 0 PROVE pendingBytes <= MaxBackpressure
  BY DEF BackpressureBounded
<1>1. pendingBytes \in Nat /\ MaxBackpressure \in Nat
  BY WriteInvTypes, TransportAssumption DEF TypeOK
<1>2. \A name : ~On(name)  BY EmptySeq DEF Idle, On
<1>3. CASE closing  BY <1>1, <1>2, <1>3, NothingPending DEF Cancels
<1>4. CASE ~closing  BY <1>1, <1>2, <1>4 DEF Watched, backpressureExceeded
<1>5. QED BY <1>3, <1>4

\* The new steps are the first n, and the old ones follow in their order.
Shifts(n) ==
    /\ \A k \in DOMAIN stack' :
         IF k <= n THEN New(stack'[k])
         ELSE \E j \in DOMAIN stack : stack'[k] = stack[j] /\ j + Len(stack') = k + Len(stack)
    /\ \A j \in DOMAIN stack : j > 1 =>
         \E k \in DOMAIN stack' : k > n /\ stack'[k] = stack[j] /\ j + Len(stack') = k + Len(stack)

\* How the indexes of the old steps shift.
LEMMA PushedShifts == ASSUME StackTyped, Pushed PROVE \E n \in Nat : Shifts(n)
<1>1. PICK n \in Nat, d \in {0, 1} : Pushes(n, d)  BY DEF Pushed
<1>2. /\ stack' \in Seq(Steps) /\ Len(stack') = n + Len(stack) - d
      /\ \A i \in n+1..Len(stack') : i - n + d \in DOMAIN stack /\ stack'[i] = stack[i - n + d]
      /\ \A i \in d+1..Len(stack) : i - d + n \in DOMAIN stack' /\ stack'[i - d + n] = stack[i]
  BY <1>1 DEF Pushes, Moves
<1>3. /\ DOMAIN stack' = 1..Len(stack') /\ Len(stack') \in Nat
      /\ DOMAIN stack = 1..Len(stack) /\ Len(stack) \in Nat
  BY <1>2, LenProperties DEF StackTyped
<1>4. \A k \in 1..n : New(stack'[k])  BY <1>1 DEF Pushes
<1>5. ASSUME NEW k \in DOMAIN stack'
      PROVE  IF k <= n THEN New(stack'[k])
             ELSE \E j \in DOMAIN stack : stack'[k] = stack[j] /\ j + Len(stack') = k + Len(stack)
  <2>1. CASE k <= n
    <3>1. k \in 1..n  BY <1>3, <2>1
    <3>2. QED BY <1>4, <2>1, <3>1
  <2>2. CASE ~(k <= n)
    <3>1. k \in n+1..Len(stack')  BY <1>3, <2>2
    <3>2. k - n + d \in DOMAIN stack /\ stack'[k] = stack[k - n + d]  BY <1>2, <3>1
    <3>3. k - n + d + Len(stack') = k + Len(stack)
      <4>1. Len(stack') = n + Len(stack) - d /\ k \in Nat  BY <1>2, <1>3
      <4>2. d \in Int /\ n \in Nat /\ Len(stack) \in Nat  BY <1>3
      <4>3. QED BY ONLY <4>1, <4>2
    <3>4. QED BY <2>2, <3>2, <3>3
  <2>3. QED BY <2>1, <2>2
<1>6. ASSUME NEW j \in DOMAIN stack, j > 1
      PROVE  \E k \in DOMAIN stack' : k > n /\ stack'[k] = stack[j] /\ j + Len(stack') = k + Len(stack)
  <2>1. j \in d+1..Len(stack)  BY <1>3, <1>6
  <2>2. j - d + n \in DOMAIN stack' /\ stack'[j - d + n] = stack[j]  BY <1>2, <2>1
  <2>3. j + Len(stack') = j - d + n + Len(stack) /\ j - d + n > n
    <3>1. Len(stack') = n + Len(stack) - d /\ j \in Nat  BY <1>2, <1>3
    <3>2. d \in {0, 1} /\ n \in Nat /\ Len(stack) \in Nat  BY <1>3
    <3>3. QED BY ONLY <3>1, <3>2, <1>6
  <2>4. QED BY <2>2, <2>3
<1>7. QED BY <1>5, <1>6 DEF Shifts

\* Below the k-th step of a stack there is one of these.
Has(st, k, names) == \E m \in DOMAIN st : m > k /\ st[m].at \in names

\* A step keeps what is below it: if all with these names have such a step below them, and a
\* new one is pushed by one of them, then all have it afterwards.
LEMMA HasStays ==
    ASSUME StackTyped, Pushed, NEW A, NEW B,
           \A k \in DOMAIN stack : stack[k].at \in A => Has(stack, k, B),
           \A k \in DOMAIN stack' : New(stack'[k]) /\ stack'[k].at \in A => Tops(A)
    PROVE  \A k \in DOMAIN stack' : stack'[k].at \in A => Has(stack', k, B)
<1> SUFFICES ASSUME NEW k \in DOMAIN stack', stack'[k].at \in A PROVE Has(stack', k, B)
  OBVIOUS
<1>1. PICK n \in Nat : Shifts(n)  BY PushedShifts
<1>2. stack' \in Seq(Steps)  BY DEF Pushed, Pushes, Moves
<1>3. /\ DOMAIN stack' = 1..Len(stack') /\ Len(stack') \in Nat
      /\ DOMAIN stack = 1..Len(stack) /\ Len(stack) \in Nat
  BY <1>2, LenProperties DEF StackTyped
<1>4. CASE k <= n
  <2>1. Tops(A)  BY <1>1, <1>4 DEF Shifts
  <2>2. Head(stack) = stack[1] /\ 1 \in DOMAIN stack  BY <2>1, StackIndexes DEF Tops
  <2>3. PICK m \in DOMAIN stack : m > 1 /\ stack[m].at \in B  BY <2>1, <2>2 DEF Has, Tops
  <2>4. PICK i \in DOMAIN stack' : i > n /\ stack'[i] = stack[m]  BY <1>1, <2>3 DEF Shifts
  <2>5. i > k  BY <1>3, <1>4, <2>4
  <2>6. QED BY <2>3, <2>4, <2>5 DEF Has
<1>5. CASE ~(k <= n)
  <2>1. PICK j \in DOMAIN stack : stack'[k] = stack[j] /\ j + Len(stack') = k + Len(stack)
    BY <1>1, <1>5 DEF Shifts
  <2>2. PICK m \in DOMAIN stack : m > j /\ stack[m].at \in B  BY <2>1 DEF Has
  <2>3. m > 1  BY <1>3, <2>2
  <2>4. PICK i \in DOMAIN stack' : stack'[i] = stack[m] /\ m + Len(stack') = i + Len(stack)
    BY <1>1, <2>3 DEF Shifts
  <2>5. i > k  BY <1>3, <2>1, <2>2, <2>4
  <2>6. QED BY <2>2, <2>4, <2>5 DEF Has
<1>6. QED BY <1>4, <1>5

\* The same for a step that is known: it puts n steps in place of the first.
LEMMA HasMoves ==
    ASSUME StackTyped, stack # <<>>, NEW n \in Nat, Moves(n, 1), NEW A, NEW B,
           \A k \in DOMAIN stack : stack[k].at \in A => Has(stack, k, B),
           \A k \in 1..n : stack'[k].at \in A => Has(stack', k, B)
    PROVE  \A k \in DOMAIN stack' : stack'[k].at \in A => Has(stack', k, B)
<1> SUFFICES ASSUME NEW k \in DOMAIN stack', stack'[k].at \in A PROVE Has(stack', k, B)
  OBVIOUS
<1>1. /\ stack' \in Seq(Steps) /\ Len(stack') = n + Len(stack) - 1
      /\ \A i \in n+1..Len(stack') : i - n + 1 \in DOMAIN stack /\ stack'[i] = stack[i - n + 1]
      /\ \A i \in 1+1..Len(stack) : i - 1 + n \in DOMAIN stack' /\ stack'[i - 1 + n] = stack[i]
  BY DEF Moves
<1>2. /\ DOMAIN stack' = 1..Len(stack') /\ Len(stack') \in Nat
      /\ DOMAIN stack = 1..Len(stack) /\ Len(stack) \in Nat
  BY <1>1, LenProperties DEF StackTyped
<1>3. CASE k <= n
  <2>1. k \in 1..n  BY <1>2, <1>3
  <2>2. QED BY <2>1
<1>4. CASE ~(k <= n)
  <2>1. PICK j : j = k - n + 1  OBVIOUS
  <2>2. k \in n+1..Len(stack')  BY <1>2, <1>4
  <2>3. j \in DOMAIN stack /\ stack'[k] = stack[j] /\ j > 1  BY <1>1, <1>2, <1>4, <2>1, <2>2
  <2>4. PICK m \in DOMAIN stack : m > j /\ stack[m].at \in B  BY <2>3 DEF Has
  <2>5. m \in 1+1..Len(stack)  BY <1>2, <2>3, <2>4
  <2>6. m - 1 + n \in DOMAIN stack' /\ stack'[m - 1 + n] = stack[m]  BY <1>1, <2>5
  <2>7. m - 1 + n > k  BY <1>2, <2>1, <2>4, <2>5
  <2>8. QED BY <2>4, <2>6, <2>7 DEF Has
<1>5. QED BY <1>3, <1>4

Polling == {"readAvailable", "processMemoryBIO", "SSL_read", "flushOutput"}
Flushing == {"flushWrites", "writing"}
\* Input and output are followed by updatePoll(), writes by that or the end of submit().
Followed ==
    /\ \A k \in DOMAIN stack : stack[k].at \in Polling => Has(stack, k, {"updatePoll"})
    /\ \A k \in DOMAIN stack : stack[k].at \in Flushing => Has(stack, k, {"updatePoll", "submitted"})

\* Input, output and writes are always followed by a step that brings the watch up to date.
LEMMA FollowedNext == ASSUME WriteInv, Followed, Next PROVE Followed'
<1>1. TypeInv /\ StackTyped /\ BaseInv /\ AtSubmit /\ StackInv  BY LifeFacts
<1>2. Pushed  BY <1>1, PushNext
<1>0. stack = <<>> => Len(stack) = 0 /\ DOMAIN stack = {}  BY EmptySeq
<1>s. stack' \in Seq(Steps) /\ DOMAIN stack' = 1..Len(stack')
  <2>1. stack' \in Seq(Steps)  BY <1>2 DEF Pushed, Pushes, Moves
  <2>2. QED BY <2>1, LenProperties
<1>g. /\ \A k \in DOMAIN stack : stack[k].at \in Polling => Has(stack, k, {"updatePoll"})
      /\ \A k \in DOMAIN stack : stack[k].at \in Flushing => Has(stack, k, {"updatePoll", "submitted"})
  BY DEF Followed
<1> SUFFICES /\ \A k \in DOMAIN stack' : stack'[k].at \in Polling => Has(stack', k, {"updatePoll"})
             /\ \A k \in DOMAIN stack' :
                  stack'[k].at \in Flushing => Has(stack', k, {"updatePoll", "submitted"})
  BY DEF Followed
<1>3. CASE stack = <<>>
  <2>1. CASE OnPoll
    <3>1. PICK n \in Nat : Moves(n, 0) /\ n >= 1 /\ stack'[n] = At("updatePoll")
      BY <1>1, <2>1, OnPollMoves
    <3>2. Len(stack') = n  BY <1>0, <1>3, <3>1 DEF Moves
    <3>3. stack'[n].at = "updatePoll" /\ n \in DOMAIN stack'  BY <1>s, <3>1, <3>2 DEF At, Step
    <3>4. ASSUME NEW k \in DOMAIN stack', stack'[k].at # "updatePoll"
          PROVE  Has(stack', k, {"updatePoll"}) /\ Has(stack', k, {"updatePoll", "submitted"})
      <4>1. k < n  BY <1>s, <3>2, <3>3, <3>4
      <4>2. QED BY <3>3, <4>1 DEF Has
    <3>5. QED BY <3>4 DEF Polling, Flushing
  <2>2. CASE ~OnPoll
    <3>1. \A k \in DOMAIN stack' : stack'[k].at \notin Polling \cup Flushing
      <4>1. \/ UNCHANGED stack
            \/ \E a : Covers1(a) /\ a.at \notin Polling \cup Flushing
            \/ \E a, b : Covers2(a, b) /\ a.at \notin Polling \cup Flushing /\ b.at \notin Polling \cup Flushing
        <5>1. ~Tops({"user"})  BY <1>3 DEF Tops
        <5>2. At("fail").at \notin Polling \cup Flushing /\ At("activate").at \notin Polling \cup Flushing
              /\ At("_finalizeClose").at \notin Polling \cup Flushing
              /\ At("_onNativeClosed").at \notin Polling \cup Flushing
              /\ At("release").at \notin Polling \cup Flushing
              /\ At("terminate").at \notin Polling \cup Flushing
              /\ CloseNow("cancelled").at \notin Polling \cup Flushing
              /\ Step("submit", NextRequest, "none").at \notin Polling \cup Flushing
              /\ Step("_finishNativeWrite", NextRequest, "error").at \notin Polling \cup Flushing
          BY DEF At, Step, CloseNow, Polling, Flushing
        <5>3. CASE OnPollError  BY <1>1, <5>2, <5>3, OnPollErrorMoves
        <5>4. CASE OnPollClosed  BY <1>1, <5>2, <5>4, OnPollClosedMoves
        <5>5. CASE NodeSocketClosed  BY <1>1, <5>2, <5>5, NodeSocketClosedMoves
        <5>6. CASE RunScheduled  BY <1>1, <5>2, <5>6, RunScheduledMoves
        <5>7. CASE CloseTimeout  BY <1>1, <5>2, <5>7, CloseTimeoutMoves
        <5>8. CASE AbortUpgrade  BY <1>1, <5>2, <5>8, AbortUpgradeMoves
        <5>9. CASE Send  BY <1>1, <5>2, <5>9, SendMoves
        <5>10. CASE Close  BY <1>1, <5>2, <5>10, CloseMoves
        <5>11. CASE UserTerminate  BY <1>1, <5>2, <5>11, UserTerminateMoves
        <5>12. QED BY <1>3, <2>2, <5>3, <5>4, <5>5, <5>6, <5>7, <5>8, <5>9, <5>10, <5>11, EventNext
      <4>2. CASE UNCHANGED stack  BY <1>0, <1>3, <4>2
      <4>3. ASSUME NEW a, Covers1(a), a.at \notin Polling \cup Flushing
            PROVE  \A k \in DOMAIN stack' : stack'[k].at \notin Polling \cup Flushing
        BY <1>3, <4>3, AfterCovers
      <4>4. ASSUME NEW a, NEW b, Covers2(a, b), a.at \notin Polling \cup Flushing, b.at \notin Polling \cup Flushing
            PROVE  \A k \in DOMAIN stack' : stack'[k].at \notin Polling \cup Flushing
        BY <1>3, <4>4, AfterCovers
      <4>5. QED BY <4>1, <4>2, <4>3, <4>4
    <3>2. QED BY <3>1
  <2>3. QED BY <2>1, <2>2
<1>4. CASE Tops({"activate"})
  <2>1. Activate  BY <1>4, StepNext DEF Tops, Submitters, Shutdowns, Upcalls
  <2>2. Len(stack) >= 1 /\ Len(stack) \in Nat /\ stack # <<>> /\ stack[1].at = "activate"
    BY <1>1, <1>4, StackIndexes DEF Tops
  <2>3. \/ Puts1(At("activated"))
        \/ Puts4(At("processMemoryBIO"), At("flushWrites"), At("updatePoll"), At("activated"))
        \/ Puts3(At("flushWrites"), At("updatePoll"), At("activated"))
    BY <1>1, <2>1, ActivateMoves
  <2>4. ASSUME NEW n \in Nat, n >= 1, Moves(n, 1),
               \A k \in 1..n : stack'[k].at \in Polling \cup Flushing => Has(stack', k, {"updatePoll"})
        PROVE  /\ \A k \in DOMAIN stack' : stack'[k].at \in Polling => Has(stack', k, {"updatePoll"})
               /\ \A k \in DOMAIN stack' :
                    stack'[k].at \in Flushing => Has(stack', k, {"updatePoll", "submitted"})
    <3>1. \A k : Has(stack', k, {"updatePoll"}) => Has(stack', k, {"updatePoll", "submitted"})  BY DEF Has
    <3>2. QED BY <1>1, <1>g, <2>2, <2>4, <3>1, HasMoves
  <2>5. At("activated").at = "activated" /\ At("updatePoll").at = "updatePoll"  BY DEF At, Step
  <2>6. CASE Puts1(At("activated"))
    <3>1. Moves(1, 1) /\ stack'[1].at = "activated"  BY <2>5, <2>6 DEF Puts1
    <3>2. \A k \in 1..1 : k = 1  OBVIOUS
    <3>3. QED BY <2>4, <3>1, <3>2 DEF Polling, Flushing
  <2>7. CASE Puts4(At("processMemoryBIO"), At("flushWrites"), At("updatePoll"), At("activated"))
    <3>1. Moves(4, 1) /\ {1, 2, 3, 4} \subseteq DOMAIN stack' /\ stack'[3].at = "updatePoll"
          /\ stack'[4].at = "activated"
      BY <2>5, <2>7 DEF Puts4
    <3>2. Has(stack', 1, {"updatePoll"}) /\ Has(stack', 2, {"updatePoll"})  BY <3>1 DEF Has
    <3>3. \A k \in 1..4 : k = 1 \/ k = 2 \/ k = 3 \/ k = 4  OBVIOUS
    <3>4. QED BY <2>4, <3>1, <3>2, <3>3 DEF Polling, Flushing
  <2>8. CASE Puts3(At("flushWrites"), At("updatePoll"), At("activated"))
    <3>1. Moves(3, 1) /\ {1, 2, 3} \subseteq DOMAIN stack' /\ stack'[2].at = "updatePoll"
          /\ stack'[3].at = "activated"
      BY <2>5, <2>8 DEF Puts3
    <3>2. Has(stack', 1, {"updatePoll"})  BY <3>1 DEF Has
    <3>3. \A k \in 1..3 : k = 1 \/ k = 2 \/ k = 3  OBVIOUS
    <3>4. QED BY <2>4, <3>1, <3>2, <3>3 DEF Polling, Flushing
  <2>9. QED BY <2>3, <2>6, <2>7, <2>8
<1>5. CASE stack # <<>> /\ ~Tops({"activate"})
  <2>1. \A k \in DOMAIN stack' : stack'[k].at \in Polling => Has(stack', k, {"updatePoll"})
    <3>1. \A k \in DOMAIN stack' : New(stack'[k]) /\ stack'[k].at \in Polling => Tops(Polling)
      BY <1>5 DEF New, NewNative, Tops, Polling
    <3>2. QED BY <1>1, <1>2, <1>g, <3>1, HasStays
  <2>2. CASE ~Tops({"submit"})
    <3>1. \A k \in DOMAIN stack' : New(stack'[k]) /\ stack'[k].at \in Flushing => Tops(Flushing)
      BY <1>5, <2>2 DEF New, NewNative, Tops, Flushing
    <3>2. \A k \in DOMAIN stack' :
            stack'[k].at \in Flushing => Has(stack', k, {"updatePoll", "submitted"})
      BY <1>1, <1>2, <1>g, <3>1, HasStays
    <3>3. QED BY <2>1, <3>2
  <2>3. CASE Tops({"submit"})
    <3>1. stack # <<>> /\ Head(stack).at = "submit"  BY <2>3 DEF Tops
    <3>2. PICK i \in Nat : Enters(i)  BY <1>1, <3>1, SubmitEnters
    <3>3. i = Head(stack).on  BY <3>2 DEF Enters
    <3>4. SubmitBehindOthers(i) \/ SubmitIdle(i)
      <4>1. Submit  BY <3>1, SubmitIsNext
      <4>2. QED BY <3>1, <3>3, <4>1 DEF Submit, Submitted, Top
    <3>5. ASSUME NEW n \in Nat, Moves(n, 1),
                 \A k \in 1..n : stack'[k].at \in Flushing => Has(stack', k, {"updatePoll", "submitted"})
          PROVE  \A k \in DOMAIN stack' :
                   stack'[k].at \in Flushing => Has(stack', k, {"updatePoll", "submitted"})
      BY <1>1, <1>g, <3>1, <3>5, HasMoves
    <3>6. CASE SubmitBehindOthers(i)
      <4>1. \/ Drops \/ Puts1(Back(i, "async"))
            \/ Puts2(At("_onNativeBackpressure"), CloseNow("nobufs"))
            \/ Puts3(At("_onNativeBackpressure"), CloseNow("nobufs"), Back(i, "async"))
        BY <1>1, <3>6, BehindOthersMoves
      <4>2. /\ Back(i, "async").at \notin Flushing /\ CloseNow("nobufs").at \notin Flushing
            /\ At("_onNativeBackpressure").at \notin Flushing
        BY DEF Back, CloseNow, At, Step, Flushing
      <4>3. \E n \in Nat : Moves(n, 1) /\ \A k \in 1..n : stack'[k].at \notin Flushing
        <5>1. CASE Drops  BY <5>1 DEF Drops
        <5>2. CASE Puts1(Back(i, "async"))
          <6>1. \A k \in 1..1 : k = 1  OBVIOUS
          <6>2. QED BY <4>2, <5>2, <6>1 DEF Puts1
        <5>3. CASE Puts2(At("_onNativeBackpressure"), CloseNow("nobufs"))
          <6>1. \A k \in 1..2 : k = 1 \/ k = 2  OBVIOUS
          <6>2. QED BY <4>2, <5>3, <6>1 DEF Puts2
        <5>4. CASE Puts3(At("_onNativeBackpressure"), CloseNow("nobufs"), Back(i, "async"))
          <6>1. \A k \in 1..3 : k = 1 \/ k = 2 \/ k = 3  OBVIOUS
          <6>2. QED BY <4>2, <5>4, <6>1 DEF Puts3
        <5>5. QED BY <4>1, <5>1, <5>2, <5>3, <5>4
      <4>4. QED BY <2>1, <3>5, <4>3
    <3>7. CASE SubmitIdle(i)
      <4>1. Moves(2, 1) /\ {1, 2} \subseteq DOMAIN stack' /\ stack'[2].at = "submitted"
        <5>1. Puts2(At("flushWrites"), Step("submitted", i, "none"))  BY <1>1, <3>7, SubmitIdleMoves
        <5>2. Step("submitted", i, "none").at = "submitted"  BY DEF Step
        <5>3. QED BY <5>1, <5>2 DEF Puts2
      <4>2. Has(stack', 1, {"updatePoll", "submitted"})  BY <4>1 DEF Has
      <4>3. \A k \in 1..2 : k = 1 \/ k = 2  OBVIOUS
      <4>4. QED BY <2>1, <3>5, <4>1, <4>2, <4>3 DEF Flushing
    <3>8. QED BY <3>4, <3>6, <3>7
  <2>4. QED BY <2>2, <2>3
<1>6. QED BY <1>3, <1>4, <1>5 DEF Tops

\* The watch on the socket fits what there is to write, or somebody will see to it.
Fresh ==
    queue # <<>> \/ (output /\ ~graceful) =>
        "READABLE" \in interest /\ ("WRITABLE" \in interest \/ blockedOnRead)
InSubmit == \E k \in DOMAIN stack : stack[k].at = "submitted" /\ Queued(stack[k].on)
Waiting == On("updatePoll") \/ On("fail") \/ On("closeNow") \/ InSubmit
Writable == poll = "open" /\ ~closing => Fresh \/ Waiting

\* What there is to write, and the watch.
WatchVars == <<queue, output, interest, blockedOnRead>>
Watchers == {"updatePoll", "submit", "submitted", "flushWrites", "writing", "flushOutput",
             "performTLSShutdown", "shutdownIfPending", "cancelWrites"}

\* Which steps change the watch on the socket or what there is to write.
LEMMA WatchNext == ASSUME Next PROVE UNCHANGED WatchVars \/ OnPoll \/ Tops(Watchers)
<1>1. CASE UpdatePoll \/ Submit \/ FlushWrites \/ Writing \/ FlushOutput \/ PerformTLSShutdown
           \/ CancelWrite \/ Closed
  BY <1>1 DEF Tops, Watchers, Top, UpdatePoll, Submit, SubmitBehindOthers, SubmitIdle, Submitted,
     FlushWrites, Writing, FlushOutput, PerformTLSShutdown, CancelWrite, Closed
<1>2. CASE Feed \/ Receive \/ ProcessMemoryBIO \/ ReadTLS \/ Dispatch
  BY <1>2 DEF Feed, Receive, ProcessMemoryBIO, ReadTLS, Dispatch, Consume, handleVars, writeVars, tlsVars,
     WatchVars
<1>3. CASE BeginClose \/ Fail \/ RequestDestroy \/ Destroy \/ Release \/ Activate
  BY <1>3 DEF BeginClose, Fail, RequestDestroy, Destroy, Release, Activate, handleVars, writeVars, tlsVars,
     WatchVars
<1>4. CASE OnPollError \/ OnPollClosed
  BY <1>4 DEF OnPollError, OnPollClosed, handleVars, writeVars, tlsVars, WatchVars
<1>5. CASE NodeSocketClosed \/ RunScheduled \/ CloseTimeout \/ AbortUpgrade \/ Send \/ Close \/ UserTerminate
  BY <1>5 DEF NodeSocketClosed, RunScheduled, CloseTimeout, AbortUpgrade, Send, Close, UserTerminate,
     handleVars, writeVars, tlsVars, WatchVars
<1>6. CASE Activated \/ Opened \/ FromNative \/ FinishNativeWrite \/ FailWebSocket \/ Terminate
           \/ FinalizeClose \/ UserReturns
  BY <1>6 DEF Activated, Opened, FromNative, FinishNativeWrite, FailWebSocket, Terminate, FinalizeClose,
     UserReturns, handleVars, writeVars, tlsVars, WatchVars
<1>7. QED
  BY <1>1, <1>2, <1>3, <1>4, <1>5, <1>6 DEF Next, Proceed, NativeStep, Loop

\* updatePoll() sets the watch that is needed.
LEMMA UpdateFresh ==
    ASSUME active, ~closing, active', ~closing', updatePoll, PlainTCP' PROVE Fresh'
  BY DEF updatePoll, Events, Fresh, PlainTCP

\* When a submit() that flushed does not find its request, nothing is queued.
LEMMA NotContained ==
    ASSUME WriteInv, Flushes, Tops({"submitted"}), ~Contains(queue, Head(stack).on)
    PROVE  queue = <<>>
<1>1. StackTyped /\ BaseInv  BY LifeFacts
<1>2. PICK i : i = Head(stack).on  OBVIOUS
<1>3. \A k \in DOMAIN queue : queue[k] = i
  BY <1>1, <1>2, StackIndexes DEF Flushes, Flushed, Tops
<1>4. \A k \in DOMAIN queue : queue[k] # i  BY <1>2 DEF Contains
<1>5. DOMAIN queue = {}  BY <1>3, <1>4
<1>6. queue # <<>> => 1 \in DOMAIN queue  BY <1>1, QueueFacts
<1>7. QED BY <1>5, <1>6

\* The watch fits what there is to write, or a step in progress will see to it.
LEMMA WritableNext ==
    ASSUME WriteInv, Startup, Flushes, Followed, Writable, Next PROVE Writable'
<1>1. TypeInv /\ StackTyped /\ BaseInv /\ AtSubmit /\ StackInv /\ closing \in BOOLEAN /\ active \in BOOLEAN
  BY LifeFacts
<1>2. Pushed  BY <1>1, PushNext
<1>3. HandleChanges /\ PeerChanges  BY VarsNext
<1>4. PlainTCP'  BY <1>1, BaseStep DEF BaseInv
<1>5. graceful => graceful'  BY <1>3 DEF PeerChanges
<1> SUFFICES ASSUME poll' = "open", ~closing' PROVE Fresh' \/ Waiting'
  BY DEF Writable
<1>6. ~closing /\ ~Tops({"closeNow"})
  <2>1. ~closing  BY <1>1, <1>3 DEF HandleChanges
  <2>2. Tops({"closeNow"}) => BeginClose  BY StepNext DEF Tops, Submitters, Shutdowns, Upcalls
  <2>3. QED BY <2>1, <2>2 DEF BeginClose
<1>7. ~Tops({"cancelWrites"})
  BY <1>1, <1>6, StackIndexes DEF Tops, BaseInv, Formed, Form
<1>8. CASE Tops({"activate"}) /\ poll # "open"
  <2>1. Activate  BY <1>8, StepNext DEF Tops, Submitters, Shutdowns, Upcalls
  <2>2. \E n \in DOMAIN stack' : stack'[n] = At("updatePoll")
    <3>1. ~active  BY <1>8, <2>1 DEF Activate
    <3>2. QED BY <1>1, <1>6, <2>1, <3>1, ActivateMoves DEF Puts4, Puts3
  <2>3. QED BY <2>2 DEF Waiting, On, At, Step
<1>9. CASE poll = "open"
  <2>0. active  BY <1>1, <1>9 DEF Startup
  <2>00. active'  BY <1>3, <2>0 DEF HandleChanges
  <2>1. Fresh \/ Waiting  BY <1>6, <1>9 DEF Writable
  <2>2. CASE Tops({"updatePoll"})
    <3>1. UpdatePoll  BY <2>2, StepNext DEF Tops, Submitters, Shutdowns, Upcalls
    <3>2. QED BY <1>4, <1>6, <2>0, <2>00, <3>1, UpdateFresh DEF UpdatePoll
  <2>3. CASE Tops({"fail"})
    <3>1. Fail  BY <2>3, StepNext DEF Tops, Submitters, Shutdowns, Upcalls
    <3>2. \E k \in DOMAIN stack' : stack'[k] = CloseNow("cancelled")
      BY <1>1, <1>6, <3>1, FailMoves, PutsOn
    <3>3. QED BY <3>2 DEF Waiting, On, CloseNow, Step
  <2>4. On("updatePoll") /\ ~Tops({"updatePoll"}) => Waiting'  BY <1>1, <1>2, OnKeeps DEF Waiting
  <2>5. On("fail") /\ ~Tops({"fail"}) => Waiting'  BY <1>1, <1>2, OnKeeps DEF Waiting
  <2>6. On("closeNow") => Waiting'  BY <1>1, <1>2, <1>6, OnKeeps DEF Waiting
  <2>7. ASSUME NEW j \in DOMAIN stack, j > 1, stack[j].at = "submitted", NEW i, i = stack[j].on,
               \E q \in DOMAIN queue' : queue'[q] = i
        PROVE  Waiting'
    <3>1. \E k \in DOMAIN stack' : stack'[k] = stack[j]  BY <1>1, <1>2, <2>7, EachKept
    <3>2. Queued(i)'  BY <2>7 DEF Queued
    <3>3. QED BY <2>7, <3>1, <3>2 DEF Waiting, InSubmit, Queued
  <2>w. ASSUME UNCHANGED queue, Waiting, ~Tops({"updatePoll"}), ~Tops({"fail"}), ~Tops({"submitted"})
        PROVE  Waiting'
    <3>1. CASE InSubmit
      <4>1. PICK j \in DOMAIN stack : stack[j].at = "submitted" /\ Queued(stack[j].on)
        BY <3>1 DEF InSubmit
      <4>2. j > 1  BY <1>1, <2>w, <4>1, StackIndexes DEF Tops
      <4>3. QED BY <2>7, <2>w, <4>1, <4>2 DEF Queued
    <3>2. QED BY <2>4, <2>5, <2>6, <2>w, <3>1 DEF Waiting
  <2>f. UNCHANGED WatchVars /\ Fresh => Fresh'  BY <1>5 DEF WatchVars, Fresh
  <2>8. CASE Tops({"submitted"})
    <3>1. stack # <<>> /\ Head(stack).at = "submitted"  BY <2>8 DEF Tops
    <3>2. PICK i : i = Head(stack).on /\ Submitted(i)
      <4>1. Submit  BY <3>1, SubmitIsNext
      <4>2. QED BY <3>1, <4>1 DEF Submit, SubmitBehindOthers, SubmitIdle, Top
    <3>3. i \in Nat  BY <1>1, <3>2, SubmittedData
    <3>4. CASE Contains(queue, i) /\ backpressureExceeded
      <4>1. \/ Puts2(At("_onNativeBackpressure"), CloseNow("nobufs"))
            \/ Puts3(At("_onNativeBackpressure"), CloseNow("nobufs"), Back(i, "async"))
        BY <1>1, <1>6, <3>2, <3>3, <3>4, SubmittedMoves
      <4>2. \E k \in DOMAIN stack' : stack'[k] = CloseNow("nobufs")  BY <4>1, PutsOn
      <4>3. QED BY <4>2 DEF Waiting, On, CloseNow, Step
    <3>5. CASE Contains(queue, i) /\ ~backpressureExceeded
      <4>1. updatePoll  BY <1>6, <3>2, <3>5 DEF Submitted
      <4>2. QED BY <1>4, <1>6, <2>0, <2>00, <4>1, UpdateFresh
    <3>6. CASE ~Contains(queue, i)
      <4>1. queue = <<>>  BY <2>8, <3>2, <3>6, NotContained
      <4>2. UNCHANGED WatchVars
        <5>1. Submit  BY <3>1, SubmitIsNext
        <5>2. QED BY <1>6, <3>2, <3>6, <5>1 DEF Submit, Submitted, tlsVars, WatchVars
      <4>3. CASE Fresh  BY <2>f, <4>2, <4>3
      <4>4. CASE Waiting
        <5>1. ~InSubmit  BY <4>1, EmptySeq DEF InSubmit, Queued
        <5>2. ~Tops({"updatePoll"}) /\ ~Tops({"fail"})  BY <3>1 DEF Tops
        <5>3. QED BY <2>4, <2>5, <2>6, <4>4, <5>1, <5>2 DEF Waiting
      <4>5. QED BY <2>1, <4>3, <4>4
    <3>7. QED BY <3>4, <3>5, <3>6
  <2>9. CASE Tops({"submit"})
    <3>1. stack # <<>> /\ Head(stack).at = "submit"  BY <2>9 DEF Tops
    <3>2. PICK i \in Nat : Enters(i)  BY <1>1, <3>1, SubmitEnters
    <3>3. i = Head(stack).on  BY <3>2 DEF Enters
    <3>4. SubmitBehindOthers(i) \/ SubmitIdle(i)
      <4>1. Submit  BY <3>1, SubmitIsNext
      <4>2. QED BY <3>1, <3>3, <4>1 DEF Submit, Submitted, Top
    <3>5. CASE SubmitBehindOthers(i) /\ backpressureExceeded'
      <4>1. \/ Puts2(At("_onNativeBackpressure"), CloseNow("nobufs"))
            \/ Puts3(At("_onNativeBackpressure"), CloseNow("nobufs"), Back(i, "async"))
        BY <1>1, <3>5, BehindOthersMoves
      <4>2. \E k \in DOMAIN stack' : stack'[k] = CloseNow("nobufs")  BY <4>1, PutsOn
      <4>3. QED BY <4>2 DEF Waiting, On, CloseNow, Step
    <3>6. CASE SubmitBehindOthers(i) /\ ~backpressureExceeded'
      <4>1. updatePoll  BY <3>6 DEF SubmitBehindOthers
      <4>2. QED BY <1>4, <1>6, <2>0, <2>00, <4>1, UpdateFresh
    <3>7. CASE SubmitIdle(i)
      <4>1. Puts2(At("flushWrites"), Step("submitted", i, "none"))  BY <1>1, <3>7, SubmitIdleMoves
      <4>2. PICK k \in DOMAIN stack' : stack'[k] = Step("submitted", i, "none")  BY <4>1, PutsOn
      <4>3. stack'[k].at = "submitted" /\ stack'[k].on = i  BY <4>2 DEF Step
      <4>4. \E q \in DOMAIN queue' : queue'[q] = i
        <5>1. Queues(i)  BY <3>2 DEF Enters
        <5>2. QED BY <5>1 DEF Queues
      <4>5. QED BY <4>2, <4>3, <4>4 DEF Waiting, InSubmit, Queued
    <3>8. QED BY <3>4, <3>5, <3>6, <3>7
  <2>10. CASE UNCHANGED WatchVars /\ ~Tops({"submitted"}) /\ ~Tops({"fail"}) /\ ~Tops({"updatePoll"})
    BY <2>1, <2>f, <2>w, <2>10 DEF WatchVars
  <2>11. CASE Tops({"flushWrites"})
    <3>1. FlushWrites  BY <2>11, StepNext DEF Tops, Submitters, Shutdowns, Upcalls
    <3>2. UNCHANGED <<queue, interest, blockedOnRead>> /\ (output' => output)
      BY <3>1 DEF FlushWrites, Drained, StillBlocked, handleVars
    <3>3. CASE Fresh  BY <1>5, <3>2, <3>3 DEF Fresh
    <3>4. CASE Waiting  BY <2>11, <2>w, <3>2, <3>4 DEF Tops
    <3>5. QED BY <2>1, <3>3, <3>4
  <2>12. CASE Tops({"writing"})
    <3>1. Writing  BY <2>12, StepNext DEF Tops, Submitters, Shutdowns, Upcalls
    <3>2. 1 \in DOMAIN stack /\ stack[1].at = "writing" /\ stack # <<>> /\ Head(stack).at = "writing"
      BY <1>1, <2>12, StackIndexes DEF Tops
    <3>3. CASE queue' # <<>>
      <4>1. PICK m \in DOMAIN stack : m > 1 /\ stack[m].at \in {"updatePoll", "submitted"}
        BY <3>2 DEF Followed, Flushing, Has
      <4>2. CASE stack[m].at = "updatePoll"
        BY <2>4, <3>2, <4>1, <4>2 DEF On, Tops
      <4>3. CASE stack[m].at = "submitted"
        <5>1. PICK i : i = stack[m].on  OBVIOUS
        <5>2. Flushed(i, requests, queue)  BY <4>3, <5>1 DEF Flushes
        <5>3. Flushed(i, requests', queue')  BY <3>2, <5>2, FlushedStays DEF Inner
        <5>4. 1 \in DOMAIN queue'
          <6>1. queue' \in Seq(Nat)  BY <1>1, BaseStep DEF BaseInv, TypeInv
          <6>2. QED BY <3>3, <6>1, EmptySeq, LenProperties
        <5>5. QED BY <2>7, <4>1, <4>3, <5>1, <5>3, <5>4 DEF Flushed
      <4>4. QED BY <4>1, <4>2, <4>3
    <3>4. CASE queue' = <<>>
      <4>1. CASE \E n \in Nat : Sending(n)
        <5>1. ~output'  BY <1>4, <4>1 DEF Sending, PlainTCP
        <5>2. QED BY <3>4, <5>1 DEF Fresh
      <4>2. CASE ~\E n \in Nat : Sending(n)
        <5>1. UNCHANGED queue  BY <1>1, <3>1, <4>2, WritingMoves DEF Stopping
        <5>2. UNCHANGED WatchVars  BY <3>1, <3>4, <5>1 DEF Writing, handleVars, WatchVars
        <5>3. CASE Fresh  BY <2>f, <5>2, <5>3
        <5>4. CASE Waiting  BY <2>12, <2>w, <5>1, <5>4 DEF Tops
        <5>5. QED BY <2>1, <5>3, <5>4
      <4>3. QED BY <4>1, <4>2
    <3>5. QED BY <3>3, <3>4
  <2>13. CASE Tops({"flushOutput"})
    <3>1. 1 \in DOMAIN stack /\ stack[1].at = "flushOutput"  BY <1>1, <2>13, StackIndexes DEF Tops
    <3>2. On("updatePoll")  BY <3>1 DEF Followed, Polling, Has, On
    <3>3. QED BY <2>4, <2>13, <3>2 DEF Tops
  <2>14. CASE Tops(Shutdowns)
    <3>1. PerformTLSShutdown
      BY <2>14, StepNext DEF Tops, Submitters, Shutdowns, Upcalls
    <3>2. UNCHANGED <<queue, interest, blockedOnRead>>
      BY <3>1 DEF PerformTLSShutdown, handleVars, writeVars, tlsVars
    <3>3. output' => output \/ (queue = <<>> /\ graceful)
      BY <3>1 DEF PerformTLSShutdown, Drained, ShutdownDue, tlsVars
    <3>4. CASE Fresh  BY <1>5, <3>2, <3>3, <3>4 DEF Fresh
    <3>5. CASE Waiting  BY <2>14, <2>w, <3>2, <3>5 DEF Tops, Shutdowns
    <3>6. QED BY <2>1, <3>4, <3>5
  <2>15. CASE OnPoll
    <3>1. PICK n \in Nat : Moves(n, 0) /\ n >= 1 /\ stack'[n] = At("updatePoll")
      BY <1>1, <2>15, OnPollMoves
    <3>2. n \in DOMAIN stack'
      <4>1. stack' \in Seq(Steps) /\ Len(stack') = n + Len(stack) - 0 /\ Len(stack) \in Nat
        BY <1>1, <3>1, StackIndexes DEF Moves
      <4>2. DOMAIN stack' = 1..Len(stack')  BY <4>1, LenProperties
      <4>3. QED BY <3>1, <4>1, <4>2
    <3>3. QED BY <3>1, <3>2 DEF Waiting, On, At, Step
  <2>16. QED
    BY <1>7, <2>2, <2>3, <2>8, <2>9, <2>10, <2>11, <2>12, <2>13, <2>14, <2>15, WatchNext DEF Tops, Watchers, Shutdowns
<1>10. QED BY <1>3, <1>8, <1>9 DEF HandleChanges

\* So it fits when no call is in progress and the handle is open.
LEMMA WritableProgresses == ASSUME WriteInv, Cancels, Writable PROVE WritesProgress
<1> SUFFICES ASSUME Idle, poll = "open", queue # <<>> \/ (output /\ ~graceful)
             PROVE  "READABLE" \in interest /\ ("WRITABLE" \in interest \/ blockedOnRead)
  BY DEF WritesProgress
<1>1. DOMAIN stack = {}  BY EmptySeq DEF Idle
<1>2. ~closing  BY <1>1 DEF Cancels, On
<1>3. Fresh  BY <1>1, <1>2 DEF Writable, Waiting, On, InSubmit
<1>4. QED BY <1>3 DEF Fresh

\* What the calls in progress leave to be done, with all that it takes.
CallInv == LifeInv /\ Flushes /\ Cancels /\ Watched /\ Followed /\ Writable

\* The invariant of the calls in progress holds at first.
LEMMA CallInit == ASSUME Init PROVE CallInv
<1>1. LifeInv  BY LifeInit
<1>2. DOMAIN stack = {}  BY EmptySeq DEF Init, NativeInit
<1>3. Flushes /\ Followed  BY <1>2 DEF Flushes, Followed
<1>4. ~closing /\ poll = "none" /\ pendingBytes = 0  BY DEF Init, NativeInit
<1>5. Cancels /\ Writable  BY <1>4 DEF Cancels, Writable
<1>6. Watched  BY <1>4, TransportAssumption DEF Watched, backpressureExceeded
<1>7. QED BY <1>1, <1>3, <1>5, <1>6 DEF CallInv

\* And after each step, stuttering included.
LEMMA CallStep == ASSUME CallInv, [Next]_vars PROVE CallInv'
<1>1. LifeInv'  BY LifeStep DEF CallInv
<1>2. CASE Next
  <2>1. WriteInv /\ Startup  BY DEF CallInv, LifeInv
  <2>2. Flushes' /\ Cancels'  BY <1>2, <2>1, FlushesNext, CancelsNext DEF CallInv
  <2>3. Watched'  BY <1>2, <2>1, WatchedNext DEF CallInv
  <2>4. Followed' /\ Writable'  BY <1>2, <2>1, FollowedNext, WritableNext DEF CallInv
  <2>5. QED BY <1>1, <2>2, <2>3, <2>4 DEF CallInv
<1>3. CASE UNCHANGED vars
  <2>1. UNCHANGED <<stack, closing, poll, interest, graceful, requests, queue, pendingBytes, output,
                    blockedOnRead, readyState>>
    BY <1>3 DEF vars, nativeVars, handleVars, peerVars, writeVars, tlsVars, jsVars
  <2>2. Flushes' <=> Flushes  BY <2>1 DEF Flushes, Flushed
  <2>3. Cancels' <=> Cancels  BY <2>1 DEF Cancels, On
  <2>4. Watched' <=> Watched  BY <2>1 DEF Watched, On, backpressureExceeded
  <2>5. Followed' <=> Followed  BY <2>1 DEF Followed
  <2>6. Writable' <=> Writable  BY <2>1 DEF Writable, Fresh, Waiting, On, InSubmit, Queued
  <2>7. QED BY <1>1, <2>2, <2>3, <2>4, <2>5, <2>6 DEF CallInv
<1>4. QED BY <1>2, <1>3

\* Which requests may come to be.
NewKind(kind) ==
    \/ kind \in Owned /\ stack # <<>> /\ Head(stack).at = kind /\ ~closing
    \/ kind = "response" /\ Tops({"activated"}) /\ ~closing
    \/ kind = "app" /\ MayAct /\ readyState = "OPEN"
    \/ /\ kind = "close" /\ MayAct /\ readyState = "OPEN" /\ MayWriteClose
       /\ closeSent' /\ readyState' = "CLOSING"
Kept1 == \A i \in DOMAIN requests : i \in DOMAIN requests' /\ requests'[i].kind = requests[i].kind
SameKinds == DOMAIN requests' = DOMAIN requests
OneMore ==
    /\ Len(requests') = Len(requests) + 1 /\ DOMAIN requests' = 1..Len(requests')
    /\ NewKind(requests'[Len(requests')].kind)

\* A new request keeps the kinds of the others.
LEMMA AddsKinds ==
    ASSUME BaseInv, NEW r \in Requests, Adds(r), NewKind(r.kind) PROVE Kept1 /\ OneMore
<1>1. requests' \in Seq(Requests) /\ Len(requests') = Len(requests) + 1 /\ requests'[Len(requests')] = r
      /\ \A i \in DOMAIN requests : i \in DOMAIN requests' /\ requests'[i] = requests[i]
  BY DEF Adds
<1>2. DOMAIN requests' = 1..Len(requests')  BY <1>1, LenProperties
<1>3. QED BY <1>1, <1>2 DEF Kept1, OneMore

\* So does a change of one that keeps its own.
LEMMA EditsKinds ==
    ASSUME NEW i, NEW r, Edits(i, r), r.kind = requests[i].kind PROVE Kept1 /\ SameKinds
  BY DEF Edits, Kept1, SameKinds

\* The kind of a request never changes, and a new one is of a kind that the step may make.
LEMMA KindsNext == ASSUME BaseInv, Next PROVE Kept1 /\ (SameKinds \/ OneMore)
<1>1. CASE UNCHANGED requests  BY <1>1 DEF Kept1, SameKinds
<1>2. CASE Dispatch /\ requests' # requests
  <2>1. Head(stack).at \in Owned /\ ~closing /\ Adds(NewOne(Head(stack).at, 1))
        /\ NewOne(Head(stack).at, 1) \in Requests /\ stack # <<>>
    BY <1>2, DispatchData DEF Dispatch
  <2>2. NewOne(Head(stack).at, 1).kind = Head(stack).at  BY DEF NewOne
  <2>3. QED BY <2>1, <2>2, AddsKinds DEF NewKind
<1>3. CASE Activated /\ requests' # requests
  <2>1. ~closing /\ Adds(NewOne("response", 1)) /\ NewOne("response", 1) \in Requests
    BY <1>3, ActivatedData
  <2>2. NewOne("response", 1).kind = "response" /\ Tops({"activated"})
    BY <1>3 DEF NewOne, Activated, Top, Tops
  <2>3. QED BY <2>1, <2>2, AddsKinds DEF NewKind
<1>4. CASE Send
  <2>1. PICK size \in Nat \ {0} : \/ Adds(NewOne("app", size)) /\ NewOne("app", size) \in Requests
                                  \/ Adds(Refused(size)) /\ Refused(size) \in Requests
    BY <1>4, SendData
  <2>2. NewOne("app", size).kind = "app" /\ Refused(size).kind = "app"  BY DEF NewOne, Refused
  <2>3. MayAct /\ readyState = "OPEN"  BY <1>4 DEF Send
  <2>4. QED BY <2>1, <2>2, <2>3, AddsKinds DEF NewKind
<1>5. CASE Close /\ requests' # requests
  <2>1. MayWriteClose /\ Adds(NewOne("close", 1)) /\ NewOne("close", 1) \in Requests /\ closeSent'
    BY <1>5, CloseData
  <2>2. NewOne("close", 1).kind = "close"  BY DEF NewOne
  <2>3. MayAct /\ readyState = "OPEN" /\ readyState' = "CLOSING"  BY <1>5 DEF Close
  <2>4. QED BY <2>1, <2>2, <2>3, AddsKinds DEF NewKind
<1>6. ASSUME NEW i \in Nat, Enters(i) PROVE Kept1 /\ (SameKinds \/ OneMore)
  <2>1. CASE UNCHANGED requests  BY <1>1, <2>1
  <2>2. CASE Edits(i, Deferred(requests[i]))
    <3>1. Deferred(requests[i]).kind = requests[i].kind
      BY <1>6 DEF Enters, Deferred, Requests
    <3>2. QED BY <2>2, <3>1, EditsKinds
  <2>3. QED BY <1>6, <2>1, <2>2 DEF Enters
<1>7. ASSUME NEW i \in Nat, Waits(i) PROVE Kept1 /\ (SameKinds \/ OneMore)
  <2>1. Deferred(requests[i]).kind = requests[i].kind
    BY <1>7 DEF Waits, Deferred, Requests
  <2>2. QED BY <1>7, <2>1, EditsKinds DEF Waits
<1>8. ASSUME NEW n \in Nat, Sending(n) PROVE Kept1 /\ (SameKinds \/ OneMore)
  <2>1. requests[First] \in Requests /\ Edits(First, WrittenBy(requests[First], n))
    BY <1>8, SendingData
  <2>2. WrittenBy(requests[First], n).kind = requests[First].kind
    BY <2>1 DEF WrittenBy, Requests
  <2>3. QED BY <2>1, <2>2, EditsKinds
<1>9. CASE CancelWrite
  <2>1. requests[First] \in Requests /\ Edits(First, EndedBy(requests[First], Head(stack).why))
    BY <1>9, CancelWriteData
  <2>2. EndedBy(requests[First], Head(stack).why).kind = requests[First].kind
    BY <2>1 DEF EndedBy, Requests
  <2>3. QED BY <2>1, <2>2, EditsKinds
<1>10. CASE Submit
  <2>1. PICK i : i = Head(stack).on /\ (SubmitBehindOthers(i) \/ SubmitIdle(i) \/ Submitted(i))
    BY <1>10 DEF Submit
  <2>2. CASE SubmitBehindOthers(i)
    <3>1. Enters(i) /\ i \in Nat
      BY <2>1, <2>2, BehindOthersData DEF Enters, SubmitBehindOthers
    <3>2. QED BY <1>6, <3>1
  <2>3. CASE SubmitIdle(i)
    <3>1. Enters(i) /\ i \in Nat  BY <2>1, <2>3, SubmitIdleData DEF Enters, SubmitIdle
    <3>2. QED BY <1>6, <3>1
  <2>4. CASE Submitted(i)
    <3>1. Top("submitted")  BY <2>4 DEF Submitted
    <3>2. (Waits(i) \/ Stays) /\ i \in Nat  BY <2>1, <2>4, <3>1, SubmittedData DEF Waits, Stays
    <3>3. QED BY <1>1, <1>7, <3>2 DEF Stays
  <2>5. QED BY <2>1, <2>2, <2>3, <2>4
<1>11. CASE Writing
  <2>1. (\E n \in Nat : Sending(n)) \/ Stopping  BY <1>11, WritingMoves DEF BaseInv
  <2>2. QED BY <1>1, <1>8, <2>1 DEF Stopping
<1>12. CASE QuietNative \/ QuietScript  BY <1>1, <1>12, NativeQuiet, ScriptQuiet DEF Quiet
<1>13. FromNative \/ FinishNativeWrite \/ Closed => UNCHANGED requests
  BY DEF FromNative, FinishNativeWrite, Closed, writeVars
<1>14. QED
  BY <1>1, <1>2, <1>3, <1>4, <1>5, <1>9, <1>10, <1>11, <1>12, <1>13
     DEF Next, Proceed, Loop, NativeStep, QuietNative, QuietScript

\* Our Close, or the answer to the peer's.
IsClose(i) == requests[i].kind \in {"close", "reply"}
HasClose == \E i \in DOMAIN requests : IsClose(i)
PeerSteps == {"peerClose", "peerClosed"}
PeerNames == PeerSteps \cup {"reply", "_onNativeClose"}

\* Nothing follows from the peer's Close before it was parsed.
Unparsed ==
    ~parserClosing => ~graceful /\ closeCode = 1006 /\ \A k \in DOMAIN stack : stack[k].at \notin PeerNames
\* It is handed over once, before the handshake is asked for.
OnePeer ==
    /\ \A j, k \in DOMAIN stack : stack[j].at \in PeerSteps /\ stack[k].at \in PeerSteps => j = k
    /\ \A k \in DOMAIN stack : stack[k].at \in PeerSteps => ~graceful
\* It is answered right before that.
ReplyFirst ==
    \A k \in DOMAIN stack : stack[k].at = "reply" =>
        ~HasClose /\ k + 1 \in DOMAIN stack /\ stack[k+1].at = "peerClose"
CloseOnce ==
    /\ parserClosing => closeSent
    /\ ~closeSent => ~HasClose
    /\ \A i, j \in DOMAIN requests : IsClose(i) /\ IsClose(j) => i = j
\* The application cannot act before it has the WebSocket.
Ungiven == ~given => \A i \in DOMAIN requests : requests[i].kind \notin {"close", "app"}
PeerInv == Unparsed /\ OnePeer /\ ReplyFirst /\ CloseOnce /\ Ungiven

\* A read that parses the peer's Close leaves its events on the stack.
LEMMA ParsedNext ==
    ASSUME BaseInv, Next, ~parserClosing, parserClosing'
    PROVE  /\ \E n \in Nat, d \in {0, 1} : Moves(n, d) /\ LastEvents(n)
           /\ closeSent' /\ UNCHANGED <<requests, graceful, closeCode, given>>
<1>1. TypeInv  BY DEF BaseInv
<1>2. Tops(Parsing)  BY VarsNext DEF PeerChanges
<1>3. stack # <<>>  BY <1>2 DEF Tops
<1>4. (Feed \/ Receive \/ ReadTLS) /\ UNCHANGED jsVars
  <2>1. Feed \/ Receive \/ ReadTLS
    BY <1>2, <1>3, StepNext DEF Tops, Parsing, Submitters, Shutdowns, Upcalls
  <2>2. ~ScriptNext
    BY <1>2, <1>3, NamedScript DEF Tops, Parsing, Upcalls
  <2>3. QED BY <2>1, <2>2, NextNames
<1>5. PICK d \in {0, 1} : \E rest : rest = Below(d) /\ Consume(rest)
  <2>1. Below(1) = Tail(stack) /\ Below(0) = stack  BY DEF Below
  <2>2. Consume(Tail(stack)) \/ Consume(stack)
    BY <1>4 DEF Feed, Receive, ReadTLS, peerVars
  <2>3. QED BY <2>1, <2>2
<1>6. PICK rest : rest = Below(d) /\ Consume(rest)  BY <1>5
<1>7. PICK n \in Nat :
        /\ Moves(n, d)
        /\ \/ UNCHANGED <<parserClosing, closeSent>> /\ Events1(n)
           \/ ~parserClosing /\ parserClosing' /\ closeSent' /\ LastEvents(n)
  BY <1>1, <1>3, <1>6, ConsumeMoves
<1>8. UNCHANGED <<requests, graceful, closeCode, given>>
  BY <1>4, <1>6 DEF Consume, writeVars, jsVars
<1>9. closeSent' /\ LastEvents(n)
  BY <1>7
<1>10. QED BY <1>7, <1>8, <1>9

\* What is left of the stack after the next step of it was handed over.
LEMMA PeerDispatch ==
    ASSUME BaseInv, Next, Tops(PeerSteps)
    PROVE  \/ /\ Drops \/ Puts1(At("performTLSShutdown"))
           \/ /\ Puts2(Step("_onNativeClose", Head(stack).on, "none"), At("peerClosed"))
              /\ Tops({"peerClose"}) /\ ~closing /\ UNCHANGED graceful
<1>1. Dispatch
  BY StepNext DEF Tops, PeerSteps, Submitters, Shutdowns, Upcalls
<1>2. QED BY <1>1, DispatchMoves DEF BaseInv, Tops, PeerSteps, Owned

\* What is left of it once the answer to the peer's Close was asked for.
LEMMA ReplyDispatch ==
    ASSUME BaseInv, Next, Tops({"reply"})
    PROVE  Drops \/ Puts1(Step("submit", NextRequest, "none"))
<1>1. Dispatch
  BY StepNext DEF Tops, Submitters, Shutdowns, Upcalls
<1>2. QED BY <1>1, DispatchMoves DEF BaseInv, Tops, Owned

\* A Close is never taken back, and comes to be where no other was.
LEMMA CloseKinds ==
    ASSUME BaseInv, Next
    PROVE  /\ HasClose => HasClose'
           /\ HasClose' => \/ HasClose
                           \/ Tops({"reply"}) /\ ~closing
                           \/ MayAct /\ ~closeSent /\ ~parserClosing /\ closeSent'
<1>1. Kept1 /\ (SameKinds \/ OneMore)  BY KindsNext
<1>2. HasClose => HasClose'  BY <1>1 DEF HasClose, IsClose, Kept1
<1>3. ASSUME NEW i \in DOMAIN requests', requests'[i].kind \in {"close", "reply"}, i \in DOMAIN requests
      PROVE  HasClose
  BY <1>1, <1>3 DEF Kept1, HasClose, IsClose
<1>4. ASSUME NEW i \in DOMAIN requests', requests'[i].kind \in {"close", "reply"}, i \notin DOMAIN requests
      PROVE  \/ Tops({"reply"}) /\ ~closing
             \/ MayAct /\ ~closeSent /\ ~parserClosing /\ closeSent'
  <2>1. OneMore  BY <1>1, <1>4 DEF SameKinds
  <2>2. i = Len(requests')
    <3>1. DOMAIN requests = 1..Len(requests) /\ Len(requests) \in Nat  BY RequestIndexes DEF BaseInv
    <3>2. QED BY <1>4, <2>1, <3>1 DEF OneMore
  <2>3. NewKind(requests'[i].kind)  BY <2>1, <2>2 DEF OneMore
  <2>4. QED BY <1>4, <2>3 DEF NewKind, Tops, MayWriteClose, Owned
<1>5. QED BY <1>2, <1>3, <1>4 DEF HasClose, IsClose

\* When the parser is not told of the peer's Close, nothing of it is new but its next step.
LEMMA PeerOld ==
    ASSUME BaseInv, Pushed, Next, ~(~parserClosing /\ parserClosing'), NEW k \in DOMAIN stack',
           New(stack'[k]), stack'[k].at \in PeerNames
    PROVE  Tops({"peerClose"}) /\ stack'[k].at \in {"peerClosed", "_onNativeClose"}
  BY DEF New, NewNative, NewCall, PeerNames, PeerSteps

\* A read that parses the peer's Close puts it below its answer, and neither anywhere else.
LEMMA AfterParse ==
    ASSUME StackTyped, NEW n \in Nat, NEW d \in {0, 1}, Moves(n, d), LastEvents(n), stack # <<>>,
           \A k \in DOMAIN stack : stack[k].at \notin PeerNames
    PROVE  \A k \in DOMAIN stack' : stack'[k].at \in PeerNames =>
             /\ n \in DOMAIN stack' /\ stack'[n].at = "peerClose"
             /\ \/ k = n
                \/ k + 1 = n /\ stack'[k].at = "reply" /\ ~closeSent
<1> SUFFICES ASSUME NEW k \in DOMAIN stack', stack'[k].at \in PeerNames
             PROVE  /\ n \in DOMAIN stack' /\ stack'[n].at = "peerClose"
                    /\ \/ k = n
                       \/ k + 1 = n /\ stack'[k].at = "reply" /\ ~closeSent
  OBVIOUS
<1>1. /\ stack' \in Seq(Steps) /\ Len(stack') = n + Len(stack) - d
      /\ \A i \in n+1..Len(stack') : i - n + d \in DOMAIN stack /\ stack'[i] = stack[i - n + d]
  BY DEF Moves
<1>2. DOMAIN stack' = 1..Len(stack') /\ Len(stack') \in Nat  BY <1>1, LenProperties
<1>3. n >= 1 /\ stack'[n].at = "peerClose"  BY DEF LastEvents
<1>4. k <= n
  <2>1. ASSUME k > n PROVE FALSE
    <3>1. k - n + d \in DOMAIN stack /\ stack'[k] = stack[k - n + d]  BY <1>1, <1>2, <2>1
    <3>2. QED BY <3>1
  <2>2. QED BY <1>2, <2>1
<1>5. n \in DOMAIN stack'
  <2>1. Len(stack) \in Nat /\ Len(stack) >= 1  BY StackIndexes
  <2>2. n <= Len(stack')  BY <1>1, <2>1
  <2>3. QED BY <1>2, <1>3, <2>2
<1>6. CASE k # n
  <2>1. k \in 1..n-1  BY <1>2, <1>4, <1>6
  <2>2. At("message").at \notin PeerNames /\ At("pong").at \notin PeerNames /\ At("reply").at = "reply"
    BY DEF At, Step, PeerNames, PeerSteps
  <2>3. k = n - 1 /\ ~closeSent /\ stack'[k] = At("reply")  BY <2>1, <2>2 DEF LastEvents
  <2>4. QED BY <1>3, <1>5, <2>2, <2>3
<1>7. QED BY <1>3, <1>5, <1>6

\* Nothing follows from the peer's Close before it was parsed.
LEMMA UnparsedNext == ASSUME WriteInv, PeerInv, Next PROVE Unparsed'
<1>1. BaseInv /\ StackTyped /\ TypeInv /\ AtSubmit  BY LifeFacts
<1>2. PeerChanges /\ CourseChanges /\ Pushed  BY <1>1, VarsNext, PushNext
<1> SUFFICES ASSUME ~parserClosing'
             PROVE  ~graceful' /\ closeCode' = 1006 /\ \A k \in DOMAIN stack' : stack'[k].at \notin PeerNames
  BY DEF Unparsed
<1>3. ~parserClosing  BY <1>2 DEF PeerChanges
<1>4. ~graceful /\ closeCode = 1006 /\ \A k \in DOMAIN stack : stack[k].at \notin PeerNames
  BY <1>3 DEF PeerInv, Unparsed
<1>5. stack # <<>> => Head(stack).at \notin PeerNames  BY <1>1, <1>4, StackIndexes
<1>6. ~graceful'  BY <1>2, <1>4, <1>5 DEF PeerChanges, Tops, PeerNames, PeerSteps
<1>7. closeCode' = 1006  BY <1>2, <1>4, <1>5 DEF CourseChanges, Tops, PeerNames
<1>8. ASSUME NEW k \in DOMAIN stack', stack'[k].at \in PeerNames PROVE FALSE
  <2>1. ~New(stack'[k])  BY <1>1, <1>2, <1>5, <1>8, PeerOld DEF Tops, PeerNames, PeerSteps
  <2>2. QED BY <1>1, <1>2, <1>4, <1>8, <2>1, EachStep
<1>9. QED BY <1>6, <1>7, <1>8

\* The peer's Close is handed over once.
LEMMA OnePeerNext == ASSUME WriteInv, PeerInv, Next PROVE OnePeer'
<1>1. BaseInv /\ StackTyped /\ TypeInv /\ AtSubmit  BY LifeFacts
<1>2. PeerChanges /\ Pushed  BY <1>1, VarsNext, PushNext
<1>3. stack' \in Seq(Steps) /\ DOMAIN stack' = 1..Len(stack') /\ Len(stack') \in Nat
      /\ DOMAIN stack = 1..Len(stack) /\ Len(stack) \in Nat
  <2>1. stack' \in Seq(Steps)  BY <1>2 DEF Pushed, Pushes, Moves
  <2>2. QED BY <1>1, <2>1, LenProperties, StackIndexes
<1>p. PeerSteps \subseteq PeerNames /\ "reply" \notin PeerSteps  BY DEF PeerNames, PeerSteps
<1> SUFFICES ASSUME NEW j \in DOMAIN stack', NEW k \in DOMAIN stack',
                    stack'[j].at \in PeerSteps, stack'[k].at \in PeerSteps
             PROVE  j = k /\ ~graceful'
  BY DEF OnePeer
<1>4. CASE ~parserClosing /\ parserClosing'
  <2>1. PICK n \in Nat, d \in {0, 1} : Moves(n, d) /\ LastEvents(n)  BY <1>1, <1>4, ParsedNext
  <2>2. ~graceful /\ \A i \in DOMAIN stack : stack[i].at \notin PeerNames
    BY <1>4 DEF PeerInv, Unparsed
  <2>s. stack # <<>>  BY VarsNext, <1>4 DEF PeerChanges, Tops
  <2>3. j = n /\ k = n  BY <1>1, <1>p, <2>1, <2>2, <2>s, AfterParse
  <2>4. UNCHANGED graceful  BY <1>1, <1>4, ParsedNext
  <2>5. QED BY <2>2, <2>3, <2>4
<1>5. CASE ~(~parserClosing /\ parserClosing') /\ ~Tops(PeerSteps)
  <2>1. ~Tops({"peerClose"}) /\ ~Tops({"peerClosed"})  BY <1>5 DEF Tops, PeerSteps
  <2>2. ~New(stack'[j]) /\ ~New(stack'[k])  BY <1>1, <1>2, <1>p, <1>5, <2>1, PeerOld
  <2>3. PICK a \in DOMAIN stack : stack'[j] = stack[a] /\ a + Len(stack') = j + Len(stack)
    BY <1>1, <1>2, <2>2, EachStep
  <2>4. PICK b \in DOMAIN stack : stack'[k] = stack[b] /\ b + Len(stack') = k + Len(stack)
    BY <1>1, <1>2, <2>2, EachStep
  <2>5. a = b /\ ~graceful  BY <2>3, <2>4 DEF PeerInv, OnePeer
  <2>6. j = k  BY <1>3, <2>3, <2>4, <2>5
  <2>7. ~graceful'  BY <1>2, <2>1, <2>5 DEF PeerChanges
  <2>8. QED BY <2>6, <2>7
<1>6. CASE Tops(PeerSteps)
  <2>1. 1 \in DOMAIN stack /\ stack[1].at \in PeerSteps /\ ~graceful /\ stack # <<>> /\ Head(stack) = stack[1]
    BY <1>1, <1>6, StackIndexes DEF Tops, PeerInv, OnePeer
  <2>2. \A i \in DOMAIN stack : i # 1 => stack[i].at \notin PeerSteps  BY <2>1 DEF PeerInv, OnePeer
  <2>3. At("performTLSShutdown").at \notin PeerSteps /\ \A c : Step("_onNativeClose", c, "none").at \notin PeerSteps
    BY DEF At, Step, PeerSteps
  <2>4. CASE Drops
    <3>1. j + 1 \in DOMAIN stack /\ stack'[j] = stack[j + 1]  BY <1>1, <2>1, <2>4, AfterDrops
    <3>2. QED BY <1>3, <2>2, <3>1
  <2>5. CASE Puts1(At("performTLSShutdown"))
    <3>1. \A i \in DOMAIN stack' : stack'[i].at \notin PeerSteps
      BY <1>1, <2>1, <2>2, <2>3, <2>5, AfterPuts1
    <3>2. QED BY <3>1
  <2>6. CASE Puts2(Step("_onNativeClose", Head(stack).on, "none"), At("peerClosed")) /\ UNCHANGED graceful
    <3>1. /\ Len(stack') = 2 + Len(stack) - 1
          /\ \A i \in 2+1..Len(stack') : i - 2 + 1 \in DOMAIN stack /\ stack'[i] = stack[i - 2 + 1]
      BY <2>6 DEF Puts2, Moves
    <3>2. ASSUME NEW i \in DOMAIN stack', stack'[i].at \in PeerSteps PROVE i = 2
      <4>1. i # 1  BY <2>3, <2>6, <3>2 DEF Puts2
      <4>2. ASSUME i > 2 PROVE FALSE
        <5>1. i - 2 + 1 \in DOMAIN stack /\ stack'[i] = stack[i - 2 + 1] /\ i - 2 + 1 # 1
          BY <1>3, <3>1, <4>2
        <5>2. QED BY <2>2, <3>2, <5>1
      <4>3. QED BY <1>3, <4>1, <4>2
    <3>3. QED BY <2>1, <2>6, <3>2
  <2>7. QED BY <1>1, <1>6, <2>4, <2>5, <2>6, PeerDispatch
<1>7. QED BY <1>4, <1>5, <1>6

\* It is answered before it is handed over.
LEMMA ReplyFirstNext == ASSUME WriteInv, PeerInv, Next PROVE ReplyFirst'
<1>1. BaseInv /\ StackTyped /\ TypeInv /\ AtSubmit  BY LifeFacts
<1>2. PeerChanges /\ Pushed  BY <1>1, VarsNext, PushNext
<1>3. stack' \in Seq(Steps) /\ DOMAIN stack' = 1..Len(stack') /\ Len(stack') \in Nat
      /\ DOMAIN stack = 1..Len(stack) /\ Len(stack) \in Nat
  <2>1. stack' \in Seq(Steps)  BY <1>2 DEF Pushed, Pushes, Moves
  <2>2. QED BY <1>1, <2>1, LenProperties, StackIndexes
<1>p. PeerSteps \subseteq PeerNames /\ "reply" \in PeerNames /\ "peerClose" \in PeerSteps
  BY DEF PeerNames, PeerSteps
<1> SUFFICES ASSUME NEW k \in DOMAIN stack', stack'[k].at = "reply"
             PROVE  ~HasClose' /\ k + 1 \in DOMAIN stack' /\ stack'[k+1].at = "peerClose"
  BY DEF ReplyFirst
<1>4. CASE ~parserClosing /\ parserClosing'
  <2>1. PICK n \in Nat, d \in {0, 1} : Moves(n, d) /\ LastEvents(n)  BY <1>1, <1>4, ParsedNext
  <2>2. \A i \in DOMAIN stack : stack[i].at \notin PeerNames
    BY <1>4 DEF PeerInv, Unparsed
  <2>s. stack # <<>>  BY <1>4, VarsNext DEF PeerChanges, Tops
  <2>3. n \in DOMAIN stack' /\ stack'[n].at = "peerClose" /\ (k = n \/ (k + 1 = n /\ ~closeSent))
    BY <2>s,  <1>1, <1>p, <2>1, <2>2, AfterParse
  <2>4. k + 1 = n /\ ~closeSent  BY <2>3
  <2>5. ~HasClose  BY <2>4 DEF PeerInv, CloseOnce
  <2>6. UNCHANGED requests  BY <1>1, <1>4, ParsedNext
  <2>7. ~HasClose'  BY <2>5, <2>6 DEF HasClose, IsClose
  <2>8. QED BY <2>3, <2>4, <2>7
<1>5. CASE ~(~parserClosing /\ parserClosing')
  <2>1. PICK n \in Nat : Shifts(n)  BY <1>1, <1>2, PushedShifts
  <2>2. ~New(stack'[k])  BY <1>1, <1>2, <1>5, <1>p, PeerOld
  <2>3. PICK j \in DOMAIN stack : stack'[k] = stack[j] /\ j + Len(stack') = k + Len(stack)
    BY <2>1, <2>2 DEF Shifts
  <2>4. ~HasClose /\ j + 1 \in DOMAIN stack /\ stack[j+1].at = "peerClose"  BY <2>3 DEF PeerInv, ReplyFirst
  <2>5. PICK i \in DOMAIN stack' : stack'[i] = stack[j+1] /\ j + 1 + Len(stack') = i + Len(stack)
    <3>1. j + 1 > 1  BY <1>3
    <3>2. QED BY <2>1, <2>4, <3>1 DEF Shifts
  <2>6. i = k + 1  BY <1>3, <2>3, <2>5
  <2>7. parserClosing /\ closeSent
    <3>1. parserClosing  BY <1>p, <2>3 DEF PeerInv, Unparsed
    <3>2. QED BY <3>1 DEF PeerInv, CloseOnce
  <2>8. ~Tops({"reply"})
    <3>1. SUFFICES ASSUME Tops({"reply"}) PROVE FALSE  OBVIOUS
    <3>2. 1 \in DOMAIN stack /\ stack[1].at = "reply" /\ stack # <<>>  BY <1>1, <3>1, StackIndexes DEF Tops
    <3>3. \A m \in DOMAIN stack : stack[m].at = "reply" => m = 1
      <4>1. \A m \in DOMAIN stack : stack[m].at = "reply" => m + 1 \in DOMAIN stack /\ stack[m+1].at = "peerClose"
        BY DEF PeerInv, ReplyFirst
      <4>2. 1 + 1 \in DOMAIN stack /\ stack[1+1].at = "peerClose"  BY <3>2, <4>1
      <4>3. \A m \in DOMAIN stack : stack[m].at = "reply" => m + 1 = 1 + 1
        BY <1>p, <4>1, <4>2 DEF PeerInv, OnePeer
      <4>4. QED BY <1>3, <4>3
    <3>4. CASE Drops
      <4>1. k + 1 \in DOMAIN stack /\ stack'[k] = stack[k + 1]  BY <1>1, <3>2, <3>4, AfterDrops
      <4>2. QED BY <1>3, <3>3, <4>1
    <3>5. CASE Puts1(Step("submit", NextRequest, "none"))
      <4>1. Step("submit", NextRequest, "none").at # "reply"  BY DEF Step
      <4>2. QED BY <1>1, <3>2, <3>3, <3>5, <4>1, AfterPuts1
    <3>6. QED BY <1>1, <3>1, <3>4, <3>5, ReplyDispatch
  <2>9. ~HasClose'  BY <1>1, <2>4, <2>7, <2>8, CloseKinds
  <2>10. QED BY <2>4, <2>5, <2>6, <2>9
<1>6. QED BY <1>4, <1>5

\* There is one Close of ours at most.
LEMMA CloseOnceNext == ASSUME WriteInv, PeerInv, Next PROVE CloseOnce'
<1>1. BaseInv /\ StackTyped /\ TypeInv /\ AtSubmit  BY LifeFacts
<1>2. PeerChanges  BY VarsNext
<1>3. parserClosing' => closeSent'
  <2>1. CASE ~parserClosing /\ parserClosing'  BY <1>1, <2>1, ParsedNext
  <2>2. CASE ~(~parserClosing /\ parserClosing')
    <3>1. parserClosing' => parserClosing  BY <2>2
    <3>2. parserClosing => closeSent  BY DEF PeerInv, CloseOnce
    <3>3. closeSent => closeSent'  BY <1>2 DEF PeerChanges
    <3>4. QED BY <3>1, <3>2, <3>3
  <2>3. QED BY <2>1, <2>2
<1>4. Tops({"reply"}) => parserClosing /\ ~HasClose
  <2>1. Tops({"reply"}) => 1 \in DOMAIN stack /\ stack[1].at = "reply"  BY <1>1, StackIndexes DEF Tops
  <2>2. QED BY <2>1 DEF PeerInv, Unparsed, ReplyFirst, PeerNames
<1>5. ~closeSent' => ~HasClose'
  <2>1. ~closeSent' => ~closeSent  BY <1>2 DEF PeerChanges
  <2>2. QED BY <1>1, <1>4, <2>1, CloseKinds DEF PeerInv, CloseOnce
<1>6. Kept1 /\ (SameKinds \/ OneMore)  BY <1>1, KindsNext
<1>7. ASSUME NEW i \in DOMAIN requests', NEW j \in DOMAIN requests', IsClose(i)', IsClose(j)'
      PROVE  i = j
  <2>1. \A m \in DOMAIN requests' : m \in DOMAIN requests /\ IsClose(m)' => IsClose(m)
    BY <1>6 DEF Kept1, IsClose
  <2>2. CASE HasClose
    <3>1. ~Tops({"reply"}) /\ closeSent  BY <1>4, <2>2 DEF PeerInv, CloseOnce
    <3>2. \A m \in DOMAIN requests' : IsClose(m)' => m \in DOMAIN requests
      <4> SUFFICES ASSUME NEW m \in DOMAIN requests', IsClose(m)', m \notin DOMAIN requests PROVE FALSE
        OBVIOUS
      <4>1. OneMore  BY <1>6 DEF SameKinds
      <4>2. DOMAIN requests = 1..Len(requests) /\ Len(requests) \in Nat  BY <1>1, RequestIndexes
      <4>3. m = Len(requests')  BY <4>1, <4>2 DEF OneMore
      <4>4. NewKind(requests'[m].kind)  BY <4>1, <4>3 DEF OneMore
      <4>5. requests'[m].kind \in {"close", "reply"}  BY DEF IsClose
      <4>6. QED BY <3>1, <4>4, <4>5 DEF NewKind, Tops, MayWriteClose, Owned
    <3>3. QED BY <1>7, <2>1, <3>2 DEF PeerInv, CloseOnce
  <2>3. CASE ~HasClose
    <3>1. i \notin DOMAIN requests /\ j \notin DOMAIN requests  BY <1>7, <2>1, <2>3 DEF HasClose
    <3>2. OneMore  BY <1>6, <3>1 DEF SameKinds
    <3>3. DOMAIN requests = 1..Len(requests) /\ Len(requests) \in Nat  BY <1>1, RequestIndexes
    <3>4. QED BY <3>1, <3>2, <3>3 DEF OneMore
  <2>4. QED BY <2>2, <2>3
<1>8. QED BY <1>3, <1>5, <1>7 DEF CloseOnce

\* Without the WebSocket the application sends nothing.
LEMMA UngivenNext == ASSUME WriteInv, PeerInv, Next PROVE Ungiven'
<1>1. BaseInv  BY LifeFacts
<1>2. StateChanges  BY VarsNext
<1>3. Kept1 /\ (SameKinds \/ OneMore)  BY <1>1, KindsNext
<1> SUFFICES ASSUME ~given', NEW i \in DOMAIN requests', requests'[i].kind \in {"close", "app"} PROVE FALSE
  BY DEF Ungiven
<1>4. ~given  BY <1>2 DEF StateChanges
<1>5. i \notin DOMAIN requests  BY <1>3, <1>4 DEF Kept1, PeerInv, Ungiven
<1>6. OneMore  BY <1>3, <1>5 DEF SameKinds
<1>7. DOMAIN requests = 1..Len(requests) /\ Len(requests) \in Nat  BY <1>1, RequestIndexes
<1>8. i = Len(requests')  BY <1>5, <1>6, <1>7 DEF OneMore
<1>9. QED BY <1>4, <1>6, <1>8 DEF OneMore, NewKind, MayAct, Owned

\* What is known of the peer's Close stays so.
LEMMA PeerInvNext == ASSUME WriteInv, PeerInv, Next PROVE PeerInv'
  BY UnparsedNext, OnePeerNext, ReplyFirstNext, CloseOnceNext, UngivenNext DEF PeerInv

\* The steps of an upgrade, and what runs while the 101 response is submitted.
Opening == {"activate", "activated", "opened"}
Before == {"submit", "flushWrites", "submitted", "writing", "performTLSShutdown", "fail",
           "_onNativeBackpressure", "_onNativeTransportError", "closeNow", "cancelWrites",
           "_finishNativeWrite", "_fail", "uncaught", "terminate", "_finalizeClose",
           "requestDestroy", "destroy"}
LastResponds == requests # <<>> /\ requests[Len(requests)].kind = "response"
\* The response is the last request until the application gets the WebSocket.
OneOpening ==
    /\ upgradePending => ~given
    /\ \A j, k \in DOMAIN stack : stack[j].at \in Opening /\ stack[k].at \in Opening => j = k
    /\ \A k \in DOMAIN stack : stack[k].at \in Opening => ~given
Responded ==
    \A k \in DOMAIN stack : stack[k].at = "opened" =>
        LastResponds /\ \A j \in DOMAIN stack : j < k => stack[j].at \in Before
Opens == OneOpening /\ Responded

\* What an upgrade's step leaves of the others: only what it puts itself.
LEMMA OpeningAmong ==
    ASSUME StackTyped, OneOpening, Tops(Opening), NEW n \in Nat, Moves(n, 1),
           NEW k \in DOMAIN stack', stack'[k].at \in Opening
    PROVE  k \in 1..n
<1>1. /\ stack' \in Seq(Steps) /\ Len(stack') = n + Len(stack) - 1
      /\ \A i \in n+1..Len(stack') : i - n + 1 \in DOMAIN stack /\ stack'[i] = stack[i - n + 1]
  BY DEF Moves
<1>2. DOMAIN stack' = 1..Len(stack') /\ Len(stack') \in Nat  BY <1>1, LenProperties
<1>3. stack # <<>>  BY DEF Tops
<1>4. 1 \in DOMAIN stack /\ stack[1].at \in Opening  BY <1>3, StackIndexes DEF Tops
<1>5. ASSUME k > n PROVE FALSE
  <2>1. k - n + 1 \in DOMAIN stack /\ stack'[k] = stack[k - n + 1]  BY <1>1, <1>2, <1>5
  <2>2. k - n + 1 = 1  BY <1>4, <2>1 DEF OneOpening
  <2>3. QED BY <1>2, <1>5, <2>2
<1>6. QED BY <1>2, <1>5

\* How it goes on.
LEMMA OpeningStep ==
    ASSUME BaseInv, OneOpening, Next, Tops(Opening)
    PROVE  /\ \A j, k \in DOMAIN stack' : stack'[j].at \in Opening /\ stack'[k].at \in Opening => j = k
           /\ \A k \in DOMAIN stack' : stack'[k].at \in Opening => ~Tops({"opened"})
           /\ \A k \in DOMAIN stack' : stack'[k].at = "opened" =>
                /\ Tops({"activated"}) /\ k = 2 /\ stack'[1].at = "submit"
                /\ requests' = NewRequest("response", 1)
<1>1. TypeInv /\ StackTyped  BY DEF BaseInv, TypeInv
<1>2. stack # <<>>  BY DEF Tops
<1>3. \A name : At(name).at = name  BY DEF At, Step
<1>4. \A on, why : Step("submit", on, why).at = "submit"  BY DEF Step
<1>5. CASE Tops({"activate"})
  <2>1. Activate
    BY <1>2, <1>5, StepNext DEF Tops, Submitters, Shutdowns, Upcalls
  <2>2. CASE Puts1(At("activated"))
    <3>1. \A k \in DOMAIN stack' : stack'[k].at \in Opening => k \in 1..1
      BY <1>1, <2>2, OpeningAmong DEF Puts1
    <3>2. stack'[1].at = "activated"  BY <1>3, <2>2 DEF Puts1
    <3>3. \A k \in DOMAIN stack' : stack'[k].at \in Opening => k = 1 /\ stack'[k].at = "activated"
      BY <3>1, <3>2
    <3>4. QED BY <1>5, <3>3 DEF Tops, Opening
  <2>3. CASE Puts3(At("flushWrites"), At("updatePoll"), At("activated"))
    <3>1. \A k \in DOMAIN stack' : stack'[k].at \in Opening => k \in 1..3
      BY <1>1, <2>3, OpeningAmong DEF Puts3
    <3>2. stack'[1].at = "flushWrites" /\ stack'[2].at = "updatePoll" /\ stack'[3].at = "activated"
      BY <1>3, <2>3 DEF Puts3
    <3>3. \A k \in DOMAIN stack' : stack'[k].at \in Opening => k = 3 /\ stack'[k].at = "activated"
      BY <3>1, <3>2 DEF Opening
    <3>4. QED BY <1>5, <3>3 DEF Tops, Opening
  <2>4. CASE Puts4(At("processMemoryBIO"), At("flushWrites"), At("updatePoll"), At("activated"))
    <3>1. \A k \in DOMAIN stack' : stack'[k].at \in Opening => k \in 1..4
      BY <1>1, <2>4, OpeningAmong DEF Puts4
    <3>2. /\ stack'[1].at = "processMemoryBIO" /\ stack'[2].at = "flushWrites"
          /\ stack'[3].at = "updatePoll" /\ stack'[4].at = "activated"
      BY <1>3, <2>4 DEF Puts4
    <3>3. \A k \in DOMAIN stack' : stack'[k].at \in Opening => k = 4 /\ stack'[k].at = "activated"
      BY <3>1, <3>2 DEF Opening
    <3>4. QED BY <1>5, <3>3 DEF Tops, Opening
  <2>5. QED BY <1>1, <2>1, <2>2, <2>3, <2>4, ActivateMoves
<1>6. CASE Tops({"activated"})
  <2>1. Activated
    BY <1>2, <1>6, StepNext DEF Tops, Submitters, Shutdowns, Upcalls
  <2>2. CASE Puts1(At("_fail"))
    <3>1. \A k \in DOMAIN stack' : stack'[k].at \in Opening => k \in 1..1
      BY <1>1, <2>2, OpeningAmong DEF Puts1
    <3>2. stack'[1].at = "_fail"  BY <1>3, <2>2 DEF Puts1
    <3>3. \A k \in DOMAIN stack' : stack'[k].at \notin Opening  BY <3>1, <3>2 DEF Opening
    <3>4. QED BY <3>3 DEF Opening
  <2>3. CASE /\ requests' = NewRequest("response", 1)
             /\ Puts2(Step("submit", NextRequest, "none"), At("opened"))
    <3>1. \A k \in DOMAIN stack' : stack'[k].at \in Opening => k \in 1..2
      BY <1>1, <2>3, OpeningAmong DEF Puts2
    <3>2. stack'[1].at = "submit" /\ stack'[2].at = "opened"  BY <1>3, <1>4, <2>3 DEF Puts2
    <3>3. \A k \in DOMAIN stack' : stack'[k].at \in Opening => k = 2
      BY <3>1, <3>2 DEF Opening
    <3>4. QED BY <1>6, <2>3, <3>2, <3>3 DEF Tops, Opening
  <2>4. QED BY <1>1, <2>1, <2>2, <2>3, ActivatedMoves
<1>7. CASE Tops({"opened"})
  <2>1. Opened
    BY <1>2, <1>7, StepNext DEF Tops, Submitters, Shutdowns, Upcalls
  <2>2. CASE Drops
    <3>1. \A k \in DOMAIN stack' : stack'[k].at \in Opening => k \in 1..0
      BY <1>1, <2>2, OpeningAmong DEF Drops
    <3>2. QED BY <3>1 DEF Opening
  <2>3. CASE Puts1(At("user"))
    <3>1. \A k \in DOMAIN stack' : stack'[k].at \in Opening => k \in 1..1
      BY <1>1, <2>3, OpeningAmong DEF Puts1
    <3>2. stack'[1].at = "user"  BY <1>3, <2>3 DEF Puts1
    <3>3. \A k \in DOMAIN stack' : stack'[k].at \notin Opening  BY <3>1, <3>2 DEF Opening
    <3>4. QED BY <3>3 DEF Opening
  <2>4. CASE Puts2(At("user"), At("feed"))
    <3>1. \A k \in DOMAIN stack' : stack'[k].at \in Opening => k \in 1..2
      BY <1>1, <2>4, OpeningAmong DEF Puts2
    <3>2. stack'[1].at = "user" /\ stack'[2].at = "feed"  BY <1>3, <2>4 DEF Puts2
    <3>3. \A k \in DOMAIN stack' : stack'[k].at \notin Opening  BY <3>1, <3>2 DEF Opening
    <3>4. QED BY <3>3 DEF Opening
  <2>5. QED BY <1>1, <2>1, <2>2, <2>3, <2>4, OpenedMoves
<1>8. QED BY <1>5, <1>6, <1>7 DEF Tops, Opening

\* Otherwise an upgrade starts only when nothing runs.
LEMMA OpeningNew ==
    ASSUME ~Tops(Opening), NEW s, s.at \in Opening, New(s)
    PROVE  s.at = "activate" /\ stack = <<>> /\ StillPending
  BY DEF New, NewNative, NewScript, Tops, Opening

\* One step of an upgrade is in progress at most, and before the application got the WebSocket.
LEMMA OneOpeningNext == ASSUME WriteInv, OneOpening, Next PROVE OneOpening'
<1>1. BaseInv /\ StackTyped /\ TypeInv /\ AtSubmit /\ StackInv  BY LifeFacts
<1>2. StateChanges /\ Pushed  BY <1>1, VarsNext, PushNext
<1>3. upgradePending' => ~given'
  <2>1. upgradePending \in BOOLEAN /\ given \in BOOLEAN  BY <1>1 DEF TypeInv
  <2>2. upgradePending => ~given  BY DEF OneOpening
  <2>3. QED BY <1>2, <2>1, <2>2 DEF StateChanges
<1>4. ~Tops({"opened"}) => UNCHANGED given  BY <1>2 DEF StateChanges
<1>5. CASE Tops(Opening)
  <2>1. /\ \A j, k \in DOMAIN stack' : stack'[j].at \in Opening /\ stack'[k].at \in Opening => j = k
        /\ \A k \in DOMAIN stack' : stack'[k].at \in Opening => ~Tops({"opened"})
    BY <1>1, <1>5, OpeningStep
  <2>2. ~given
    <3>1. 1 \in DOMAIN stack /\ stack[1].at \in Opening  BY <1>1, <1>5, StackIndexes DEF Tops
    <3>2. QED BY <3>1 DEF OneOpening
  <2>3. \A k \in DOMAIN stack' : stack'[k].at \in Opening => ~given'  BY <1>4, <2>1, <2>2
  <2>4. QED BY <1>3, <2>1, <2>3 DEF OneOpening
<1>6. CASE ~Tops(Opening)
  <2>1. UNCHANGED given  BY <1>4, <1>6 DEF Tops, Opening
  <2>2. \A k \in DOMAIN stack' : stack'[k].at \in Opening /\ New(stack'[k]) =>
          stack'[k].at = "activate" /\ stack = <<>> /\ StillPending
    BY <1>6, OpeningNew
  <2>3. CASE stack = <<>>
    <3>1. \A k \in DOMAIN stack' : New(stack'[k])
      <4>1. DOMAIN stack = {}  BY <2>3
      <4>2. QED BY <1>1, <1>2, <4>1, EachStep
    <3>2. \A k \in DOMAIN stack' : stack'[k].at \in Opening => stack'[k].at = "activate" /\ StillPending
      BY <2>2, <3>1
    <3>3. Instantly'  BY <1>1, InstantlyNext DEF StackInv
    <3>4. \A k \in DOMAIN stack' : stack'[k].at \in Opening => k = 1
      <4>1. \A k \in DOMAIN stack' : stack'[k].at = "activate" => k = 1
        BY <3>3 DEF Instantly, Instant, Immediate
      <4>2. QED BY <3>2, <4>1
    <3>5. \A k \in DOMAIN stack' : stack'[k].at \in Opening => ~given'
      BY <2>1, <3>2 DEF StillPending, OneOpening
    <3>6. QED BY <1>3, <3>4, <3>5 DEF OneOpening
  <2>4. CASE stack # <<>>
    <3>1. \A k \in DOMAIN stack' : stack'[k].at \in Opening =>
            \E j \in DOMAIN stack : stack'[k] = stack[j] /\ j + Len(stack') = k + Len(stack)
      BY <1>1, <1>2, <2>2, <2>4, EachStep
    <3>2. stack' \in Seq(Steps)  BY <1>2 DEF Pushed, Pushes, Moves
    <3>3. DOMAIN stack' = 1..Len(stack') /\ Len(stack') \in Nat /\ DOMAIN stack = 1..Len(stack) /\ Len(stack) \in Nat
      BY <1>1, <3>2, LenProperties, StackIndexes
    <3>4. \A k \in DOMAIN stack' : stack'[k].at \in Opening => ~given'
      BY <2>1, <3>1 DEF OneOpening
    <3>5. ASSUME NEW i \in DOMAIN stack', NEW k \in DOMAIN stack',
                 stack'[i].at \in Opening, stack'[k].at \in Opening
          PROVE  i = k
      <4>1. PICK a \in DOMAIN stack : stack'[i] = stack[a] /\ a + Len(stack') = i + Len(stack)  BY <3>1, <3>5
      <4>2. PICK b \in DOMAIN stack : stack'[k] = stack[b] /\ b + Len(stack') = k + Len(stack)  BY <3>1, <3>5
      <4>3. a = b  BY <3>5, <4>1, <4>2 DEF OneOpening
      <4>4. QED BY <3>3, <4>1, <4>2, <4>3
    <3>6. QED BY <1>3, <3>4, <3>5 DEF OneOpening
  <2>5. QED BY <2>3, <2>4
<1>7. QED BY <1>5, <1>6

\* What may be put there until then.
LEMMA BeforeNew ==
    ASSUME BaseInv, Next, Ungiven, ~given, stack # <<>>, Head(stack).at \in Before,
           NEW s, s.at \in Names, New(s)
    PROVE  s.at \in Before
<1>1. ~MayAct  BY DEF MayAct
<1>2. s.at # "writeCallback"
  <2>1. queue # <<>> /\ HasCallback(First) => requests[First].kind = "app" /\ First \in DOMAIN requests
    BY QueueFacts DEF HasCallback
  <2>2. ~(queue # <<>> /\ HasCallback(First))  BY <2>1 DEF Ungiven
  <2>3. QED BY <2>2 DEF New, NewCall
<1>3. s.at \notin {"updatePoll", "feed", "readAvailable", "processMemoryBIO", "SSL_read", "flushOutput",
                   "message", "pong", "peerClose", "reply", "peerClosed", "shutdownIfPending",
                   "activate"}
  BY DEF New, NewNative, Tops, Before, Parsing
<1>4. s.at # "release" /\ s.at # "_onNativeClosed"
  BY DEF New, NewNative, NewCall, OnPollClosed
<1>5. s.at \notin {"_onNativeMessage", "_onNativeClose"}
  BY DEF New, NewCall, Tops, Before
<1>6. s.at \notin {"activated", "opened"}
  BY DEF New, NewScript, Tops, Before
<1>7. s.at # "user"
  BY DEF New, NewScript, Tops, Before
<1>8. QED BY <1>2, <1>3, <1>4, <1>5, <1>6, <1>7 DEF Names, NativeMethods, Upcalls, Before

\* Intervals from 1 are the same when their bounds are.
LEMMA SameBound == \A m, n \in Nat : 1..m = 1..n => m = n
<1> SUFFICES ASSUME NEW m \in Nat, NEW n \in Nat, 1..m = 1..n PROVE m = n
  OBVIOUS
<1>1. CASE m = 0
  <2>1. 1 \notin 1..n  BY <1>1
  <2>2. QED BY <1>1, <2>1
<1>2. CASE m # 0
  <2>1. m \in 1..n  BY <1>2
  <2>2. n \in 1..m  BY <2>1
  <2>3. QED BY <2>1, <2>2
<1>3. QED BY <1>1, <1>2

\* The response stays the last request until "opened" runs.
LEMMA RespondedNext == ASSUME WriteInv, PeerInv, Opens, Next PROVE Responded'
<1>1. BaseInv /\ StackTyped /\ TypeInv /\ AtSubmit /\ StackInv  BY LifeFacts
<1>2. Pushed  BY <1>1, PushNext
<1>o. OneOpening /\ Responded  BY DEF Opens
<1>3. stack' \in Seq(Steps)  BY <1>2 DEF Pushed, Pushes, Moves
<1>4. DOMAIN stack' = 1..Len(stack') /\ Len(stack') \in Nat /\ DOMAIN stack = 1..Len(stack) /\ Len(stack) \in Nat
  BY <1>1, <1>3, LenProperties, StackIndexes
<1>n. \A k \in DOMAIN stack' : stack'[k].at \in Names
  <2>1. \A k \in DOMAIN stack' : stack'[k] \in Steps  BY <1>3, ElementOfSeq
  <2>2. QED BY <2>1 DEF Steps
<1> SUFFICES ASSUME NEW k \in DOMAIN stack', stack'[k].at = "opened"
             PROVE  LastResponds' /\ \A m \in DOMAIN stack' : m < k => stack'[m].at \in Before
  BY DEF Responded
<1>5. CASE Tops(Opening)
  <2>1. k = 2 /\ stack'[1].at = "submit" /\ requests' = NewRequest("response", 1)
    BY <1>1, <1>o, <1>5, OpeningStep
  <2>2. Adds(NewOne("response", 1))
    <3>1. "response" \in Kinds /\ requests \in Seq(Requests) /\ 1 \in Nat  BY <1>1 DEF TypeInv, Kinds, Owned
    <3>2. QED BY <3>1, <2>1, AddsNew
  <2>3. LastResponds'
    <3>1. Len(requests') = Len(requests) + 1 /\ requests'[Len(requests) + 1].kind = "response" /\ Len(requests) \in Nat
      BY <1>1, <2>2, RequestIndexes DEF Adds, NewOne
    <3>2. requests' # <<>>  BY <2>2 DEF Adds
    <3>3. QED BY <3>1, <3>2 DEF LastResponds
  <2>4. \A m \in DOMAIN stack' : m < k => m = 1  BY <1>4, <2>1
  <2>5. QED BY <2>1, <2>3, <2>4 DEF Before
<1>6. CASE ~Tops(Opening)
  <2>1. ~New(stack'[k])  BY <1>6, OpeningNew DEF Opening
  <2>2. PICK j \in DOMAIN stack : stack'[k] = stack[j] /\ j + Len(stack') = k + Len(stack)
    BY <1>1, <1>2, <2>1, EachStep
  <2>3. /\ LastResponds /\ ~given
        /\ \A i \in DOMAIN stack : i < j => stack[i].at \in Before
    BY <1>o, <2>2 DEF Responded, OneOpening, Opening
  <2>4. stack # <<>>  BY <2>2
  <2>5. Head(stack) = stack[1] /\ 1 \in DOMAIN stack  BY <1>1, <2>4, StackIndexes
  <2>6. j # 1  BY <1>6, <2>2, <2>4, <2>5 DEF Tops, Opening
  <2>7. Head(stack).at \in Before  BY <1>4, <2>3, <2>5, <2>6
  <2>8. ~MayAct  BY <2>3 DEF MayAct
  <2>9. Kept1 /\ SameKinds
    <3>1. Kept1 /\ (SameKinds \/ OneMore)  BY <1>1, KindsNext
    <3>2. \A kind : ~NewKind(kind)
      BY <2>7, <2>8 DEF NewKind, Tops, Before, Owned
    <3>3. QED BY <3>1, <3>2 DEF OneMore
  <2>10. LastResponds'
    <3>1. RequestsGrow  BY <1>1, RequestsNext
    <3>2. Len(requests) \in DOMAIN requests
      <4>1. DOMAIN requests = 1..Len(requests) /\ Len(requests) \in Nat /\ requests \in Seq(Requests)
        BY <1>1, RequestIndexes DEF TypeInv
      <4>2. requests # <<>>  BY <2>3 DEF LastResponds
      <4>3. Len(requests) # 0  BY <4>1, <4>2, EmptySeq
      <4>4. QED BY <4>1, <4>3
    <3>3. Len(requests') = Len(requests) /\ requests' # <<>>
      <4>1. DOMAIN requests' = 1..Len(requests') /\ Len(requests') \in Nat
        BY <3>1, LenProperties DEF RequestsGrow
      <4>2. DOMAIN requests = 1..Len(requests) /\ Len(requests) \in Nat  BY <1>1, RequestIndexes
      <4>3. DOMAIN requests' = DOMAIN requests  BY SMTT(30), <2>9 DEF SameKinds
      <4>4. Len(requests') = Len(requests)  BY <4>1, <4>2, <4>3, SameBound
      <4>5. QED BY <3>2, <4>3, <4>4
    <3>4. requests'[Len(requests)].kind = requests[Len(requests)].kind  BY <2>9, <3>2 DEF Kept1
    <3>5. QED BY <2>3, <3>3, <3>4 DEF LastResponds
  <2>11. ASSUME NEW m \in DOMAIN stack', m < k PROVE stack'[m].at \in Before
    <3>1. CASE New(stack'[m])
      <4>1. Ungiven  BY DEF PeerInv
      <4>2. QED BY <1>1, <1>n, <2>3, <2>4, <2>7, <2>11, <3>1, <4>1, BeforeNew
    <3>2. CASE ~New(stack'[m])
      <4>1. PICK i \in DOMAIN stack : stack'[m] = stack[i] /\ i + Len(stack') = m + Len(stack)
        BY <1>1, <1>2, <2>11, <3>2, EachStep
      <4>2. i < j  BY <1>4, <2>2, <2>11, <4>1
      <4>3. QED BY <2>3, <4>1, <4>2
    <3>3. QED BY <3>1, <3>2
  <2>12. QED BY <2>10, <2>11
<1>7. QED BY <1>5, <1>6

\* Both hold after each step.
LEMMA OpensNext == ASSUME WriteInv, PeerInv, Opens, Next PROVE Opens'
<1>1. OneOpening  BY DEF Opens
<1>2. OneOpening'  BY <1>1, OneOpeningNext
<1>3. Responded'  BY RespondedNext
<1>4. QED BY <1>2, <1>3 DEF Opens

\* From the answer to the peer's Close on, until JavaScript is told of that Close.
Marks == {"peerClose", "_onNativeClose", "_onNativeBackpressure", "_onNativeTransportError"}
Sending1 == {"flushWrites", "writing", "performTLSShutdown", "fail"}
Replies(i, rs) == i \in DOMAIN rs /\ rs[i].kind = "reply"
InWindow ==
    /\ ~closing /\ ~graceful
    /\ \/ 1 \in DOMAIN stack /\ stack[1].at \in Marks
       \/ /\ {1, 2} \subseteq DOMAIN stack /\ stack[2].at = "peerClose"
          /\ stack[1].at \in Submitters /\ Replies(stack[1].on, requests)
       \/ /\ {1, 2, 3} \subseteq DOMAIN stack /\ stack[3].at = "peerClose"
          /\ stack[1].at \in Sending1 /\ stack[2].at = "submitted" /\ Replies(stack[2].on, requests)
Window == HasClose /\ readyState = "OPEN" /\ ~ClosedBeforeResponse => InWindow

\* Where the steps of the stack are after two calls took the place of the first.
LEMMA AfterPuts2 ==
    ASSUME StackTyped, stack # <<>>, NEW a, NEW b, Puts2(a, b)
    PROVE  /\ {1, 2} \subseteq DOMAIN stack' /\ stack'[1] = a /\ stack'[2] = b
           /\ \A k \in DOMAIN stack : k > 1 => k + 1 \in DOMAIN stack' /\ stack'[k + 1] = stack[k]
<1>1. \A k \in 2..Len(stack) : k - 1 + 2 \in DOMAIN stack' /\ stack'[k - 1 + 2] = stack[k]
  BY DEF Puts2, Moves
<1>2. DOMAIN stack = 1..Len(stack) /\ Len(stack) \in Nat  BY StackIndexes
<1>3. ASSUME NEW k \in DOMAIN stack, k > 1 PROVE k + 1 \in DOMAIN stack' /\ stack'[k + 1] = stack[k]
  <2>1. k \in 2..Len(stack) /\ k - 1 + 2 = k + 1  BY <1>2, <1>3
  <2>2. QED BY <1>1, <2>1
<1>4. QED BY <1>3 DEF Puts2

\* After the first returned.
LEMMA DropsKeeps ==
    ASSUME StackTyped, Drops, NEW k \in DOMAIN stack, k > 1
    PROVE  k - 1 \in DOMAIN stack' /\ stack'[k - 1] = stack[k]
<1>1. \A i \in 2..Len(stack) : i - 1 + 0 \in DOMAIN stack' /\ stack'[i - 1 + 0] = stack[i]
  BY DEF Drops, Moves
<1>2. DOMAIN stack = 1..Len(stack) /\ Len(stack) \in Nat  BY StackIndexes
<1>3. k \in 2..Len(stack) /\ k - 1 + 0 = k - 1  BY <1>2
<1>4. QED BY <1>1, <1>3

\* After one took its place.
LEMMA Puts1Keeps ==
    ASSUME StackTyped, NEW a, Puts1(a), NEW k \in DOMAIN stack, k > 1
    PROVE  k \in DOMAIN stack' /\ stack'[k] = stack[k]
<1>1. \A i \in 2..Len(stack) : i - 1 + 1 \in DOMAIN stack' /\ stack'[i - 1 + 1] = stack[i]
  BY DEF Puts1, Moves
<1>2. DOMAIN stack = 1..Len(stack) /\ Len(stack) \in Nat  BY StackIndexes
<1>3. k \in 2..Len(stack) /\ k - 1 + 1 = k  BY <1>2
<1>4. QED BY <1>1, <1>3

\* Neither of these changes within it.
LEMMA WindowCalm ==
    ASSUME WriteInv, Next, ~closing, ~graceful, ~Tops({"closeNow"}), ~Tops({"peerClosed"})
    PROVE  ~closing' /\ ~graceful'
<1>1. HandleChanges /\ PeerChanges  BY VarsNext
<1>2. UNCHANGED closing  BY <1>1 DEF HandleChanges
<1>3. UNCHANGED graceful  BY <1>1 DEF PeerChanges
<1>4. QED BY <1>2, <1>3

\* JavaScript is told.
LEMMA MarkNext ==
    ASSUME WriteInv, Next, ~closing, ~graceful, 1 \in DOMAIN stack, stack[1].at \in Marks,
           readyState' = "OPEN"
    PROVE  InWindow'
<1>1. BaseInv /\ StackTyped /\ TypeInv /\ AtSubmit  BY LifeFacts
<1>2. stack # <<>> /\ Head(stack) = stack[1]  BY <1>1, StackIndexes
<1>3. Head(stack).at = "peerClose"
  <2>1. StateChanges  BY VarsNext
  <2>2. QED BY <1>2, <2>1 DEF StateChanges, Tops, Marks
<1>4. Dispatch  BY <1>2, <1>3, StepNext DEF Submitters, Shutdowns, Upcalls
<1>5. Puts2(Step("_onNativeClose", Head(stack).on, "none"), At("peerClosed"))
  BY <1>1, <1>3, <1>4, DispatchMoves DEF Owned
<1>6. Step("_onNativeClose", Head(stack).on, "none").at = "_onNativeClose"  BY DEF Step
<1>7. 1 \in DOMAIN stack' /\ stack'[1].at \in Marks  BY <1>5, <1>6 DEF Puts2, Marks
<1>8. ~closing' /\ ~graceful'  BY <1>3, WindowCalm DEF Tops
<1>9. QED BY <1>7, <1>8 DEF InWindow

\* submit() of the answer.
LEMMA SubmitterNext ==
    ASSUME WriteInv, Next, ~closing, ~graceful, {1, 2} \subseteq DOMAIN stack, stack[2].at = "peerClose",
           stack[1].at \in Submitters, Replies(stack[1].on, requests)
    PROVE  InWindow'
<1>1. BaseInv /\ StackTyped /\ TypeInv /\ AtSubmit  BY LifeFacts
<1>2. stack # <<>> /\ Head(stack) = stack[1]  BY <1>1, StackIndexes
<1>c. ~closing' /\ ~graceful'  BY <1>2, WindowCalm DEF Tops, Submitters
<1>3. Submit  BY <1>2, SubmitIsNext DEF Submitters
<1>4. PICK i : i = Head(stack).on /\ (SubmitBehindOthers(i) \/ SubmitIdle(i) \/ Submitted(i))
  BY <1>3 DEF Submit
<1>5. i \in DOMAIN requests /\ requests[i].kind = "reply" /\ i \in Nat /\ "reply" \in Owned
  <2>1. Head(stack).on \in Nat  BY <1>1, <1>2, TopOn
  <2>2. QED BY <1>2, <1>4, <2>1 DEF Replies, Owned
<1>6. ASSUME Puts2(At("_onNativeBackpressure"), CloseNow("nobufs")) PROVE InWindow'
  <2>1. At("_onNativeBackpressure").at \in Marks  BY DEF Marks, At, Step
  <2>2. QED BY <1>c, <1>6, <2>1 DEF InWindow, Puts2
<1>7. ASSUME Drops PROVE InWindow'
  <2>1. 2 - 1 \in DOMAIN stack' /\ stack'[2 - 1] = stack[2]
    <3>1. 2 \in DOMAIN stack /\ 2 > 1  OBVIOUS
    <3>2. QED BY <1>1, <1>7, <3>1, DropsKeeps
  <2>2. QED BY <1>c, <2>1 DEF InWindow, Marks
<1>8. CASE SubmitBehindOthers(i)
  <2>1. requests'[i].kind = "reply"
    <3>1. Edits(i, Deferred(requests[i])) /\ requests[i] \in Requests  BY <1>1, <1>4, <1>8, BehindOthersData
    <3>2. Deferred(requests[i]).kind = requests[i].kind  BY <3>1 DEF Deferred, Requests
    <3>3. QED BY <1>5, <3>1, <3>2 DEF Edits
  <2>2. Drops \/ Puts2(At("_onNativeBackpressure"), CloseNow("nobufs"))
    BY <1>1, <1>5, <1>8, <2>1, BehindOthersMoves
  <2>3. QED BY <1>6, <1>7, <2>2
<1>9. CASE SubmitIdle(i)
  <2>1. Puts2(At("flushWrites"), Step("submitted", i, "none"))  BY <1>1, <1>5, <1>9, SubmitIdleMoves
  <2>2. /\ {1, 2} \subseteq DOMAIN stack' /\ stack'[1] = At("flushWrites")
        /\ stack'[2] = Step("submitted", i, "none")
        /\ 2 + 1 \in DOMAIN stack' /\ stack'[2 + 1] = stack[2]
    <3>1. 2 \in DOMAIN stack /\ 2 > 1  OBVIOUS
    <3>2. QED BY <1>1, <1>2, <2>1, <3>1, AfterPuts2
  <2>3. UNCHANGED requests  BY <1>1, <1>4, <1>9, SubmitIdleData
  <2>4. At("flushWrites").at = "flushWrites" /\ Step("submitted", i, "none").at = "submitted"
        /\ Step("submitted", i, "none").on = i
    BY DEF At, Step
  <2>5. Replies(stack'[2].on, requests')  BY <1>5, <2>2, <2>3, <2>4 DEF Replies
  <2>6. QED BY <1>c, <2>2, <2>4, <2>5 DEF InWindow, Sending1
<1>10. CASE Submitted(i)
  <2>1. Drops \/ Puts2(At("_onNativeBackpressure"), CloseNow("nobufs"))
    BY <1>1, <1>5, <1>10, SubmittedMoves
  <2>2. QED BY <1>6, <1>7, <2>1
<1>11. QED BY <1>4, <1>8, <1>9, <1>10

\* Its flush, which calls nobody back.
LEMMA SendingNext ==
    ASSUME WriteInv, Flushes, Next, ~closing, ~graceful, {1, 2, 3} \subseteq DOMAIN stack,
           stack[3].at = "peerClose", stack[1].at \in Sending1, stack[2].at = "submitted",
           Replies(stack[2].on, requests)
    PROVE  InWindow'
<1>1. BaseInv /\ StackTyped /\ TypeInv /\ AtSubmit  BY LifeFacts
<1>2. stack # <<>> /\ Head(stack) = stack[1] /\ 2 > 1 /\ 3 > 1 /\ 2 \in DOMAIN stack /\ 3 \in DOMAIN stack
  BY <1>1, StackIndexes
<1>c. ~closing' /\ ~graceful'  BY <1>2, WindowCalm DEF Tops, Sending1
<1>k. Kept1  BY <1>1, KindsNext
<1>r. Replies(stack[2].on, requests')  BY <1>k DEF Kept1, Replies
<1>3. ASSUME Drops PROVE InWindow'
  <2>1. 2 - 1 \in DOMAIN stack' /\ stack'[2 - 1] = stack[2] /\ 3 - 1 \in DOMAIN stack' /\ stack'[3 - 1] = stack[3]
    BY <1>1, <1>2, <1>3, DropsKeeps
  <2>2. {1, 2} \subseteq DOMAIN stack' /\ stack'[1] = stack[2] /\ stack'[2] = stack[3]  BY <2>1
  <2>3. QED BY <1>c, <1>r, <2>2 DEF InWindow, Submitters, Replies
<1>4. ASSUME NEW a, a.at \in Sending1, Puts1(a) PROVE InWindow'
  <2>1. 2 \in DOMAIN stack' /\ stack'[2] = stack[2] /\ 3 \in DOMAIN stack' /\ stack'[3] = stack[3]
    BY <1>1, <1>2, <1>4, Puts1Keeps
  <2>2. 1 \in DOMAIN stack' /\ stack'[1] = a  BY <1>4 DEF Puts1
  <2>3. QED BY <1>c, <1>4, <1>r, <2>1, <2>2 DEF InWindow, Replies
<1>5. At("writing").at \in Sending1 /\ At("fail").at \in Sending1 /\ At("performTLSShutdown").at \in Sending1
  BY DEF At, Step, Sending1
<1>6. CASE Head(stack).at = "flushWrites"
  <2>1. FlushWrites  BY <1>2, <1>6, StepNext DEF Submitters, Shutdowns, Upcalls
  <2>2. Drops \/ Puts1(At("writing")) \/ Puts1(At("fail"))  BY <1>1, <2>1, FlushWritesMoves
  <2>3. QED BY <1>3, <1>4, <1>5, <2>2
<1>7. CASE Head(stack).at = "writing"
  <2>1. Writing  BY <1>2, <1>7, StepNext DEF Submitters, Shutdowns, Upcalls
  <2>2. ASSUME queue # <<>> PROVE ~HasCallback(First)
    <3>1. Flushed(stack[2].on, requests, queue)  BY <1>2 DEF Flushes
    <3>2. First = stack[2].on  BY <1>1, <2>2, <3>1, QueueFacts DEF Flushed
    <3>3. QED BY <3>1, <3>2 DEF Flushed, HasCallback
  <2>3. CASE \E n \in Nat : Sending(n)
    <3>1. PICK n \in Nat : Sending(n)  BY <2>3
    <3>2. queue # <<>> /\ Wrote(n)  BY <3>1 DEF Sending
    <3>3. UNCHANGED stack  BY <1>1, <2>2, <3>2, WroteMoves
    <3>4. QED BY <1>c, <1>r, <3>3 DEF InWindow, Replies
  <2>4. CASE Drops  BY <1>3, <2>4
  <2>5. CASE Puts1(At("fail")) \/ Puts1(At("performTLSShutdown"))  BY <1>4, <1>5, <2>5
  <2>6. QED BY <1>1, <2>1, <2>3, <2>4, <2>5, WritingMoves
<1>8. CASE Head(stack).at = "performTLSShutdown"
  <2>1. PerformTLSShutdown  BY <1>2, <1>8, StepNext DEF Submitters, Shutdowns, Upcalls
  <2>2. ~ShutdownDue  BY DEF ShutdownDue
  <2>3. Drops  BY <1>1, <2>1, <2>2, PerformTLSShutdownMoves
  <2>4. QED BY <1>3, <2>3
<1>9. CASE Head(stack).at = "fail"
  <2>1. Fail  BY <1>2, <1>9, StepNext DEF Submitters, Shutdowns, Upcalls
  <2>2. Puts2(At("_onNativeTransportError"), CloseNow("cancelled"))  BY <1>1, <2>1, FailMoves
  <2>3. At("_onNativeTransportError").at \in Marks  BY DEF Marks, At, Step
  <2>4. QED BY <1>c, <2>2, <2>3 DEF InWindow, Puts2
<1>10. QED BY <1>2, <1>6, <1>7, <1>8, <1>9 DEF Sending1

\* From the answer to the peer's Close until JavaScript is told of it, the application does not
\* run while the WebSocket is OPEN.
LEMMA WindowNext == ASSUME WriteInv, PeerInv, Opens, Flushes, Window, Next PROVE Window'
<1>1. BaseInv /\ StackTyped /\ TypeInv /\ AtSubmit  BY LifeFacts
<1>2. Kept1 /\ (SameKinds \/ OneMore)  BY <1>1, KindsNext
<1>3. StateChanges  BY VarsNext
<1> SUFFICES ASSUME HasClose', readyState' = "OPEN", ~ClosedBeforeResponse' PROVE InWindow'
  BY DEF Window
<1>4. ~ClosedBeforeResponse  BY <1>2 DEF Kept1, ClosedBeforeResponse
<1>5. CASE ~HasClose
  <2>1. Tops({"reply"}) /\ ~closing
    <3>1. PICK i \in DOMAIN requests' : requests'[i].kind \in {"close", "reply"}  BY DEF HasClose, IsClose
    <3>2. i \notin DOMAIN requests  BY <1>2, <1>5, <3>1 DEF Kept1, HasClose, IsClose
    <3>3. OneMore  BY <1>2, <3>1, <3>2 DEF SameKinds
    <3>4. DOMAIN requests = 1..Len(requests) /\ Len(requests) \in Nat  BY <1>1, RequestIndexes
    <3>5. i = Len(requests')  BY <3>1, <3>2, <3>3, <3>4 DEF OneMore
    <3>6. NewKind(requests'[i].kind)  BY <3>3, <3>5 DEF OneMore
    <3>7. QED BY <3>1, <3>6 DEF NewKind, Tops, Owned
  <2>2. stack # <<>> /\ Head(stack).at = "reply" /\ Head(stack) = stack[1] /\ 1 \in DOMAIN stack
    BY <1>1, <2>1, StackIndexes DEF Tops
  <2>3. 1 + 1 \in DOMAIN stack /\ stack[1 + 1].at = "peerClose"
    BY <2>2 DEF PeerInv, ReplyFirst
  <2>4. ~graceful  BY <2>3 DEF PeerInv, OnePeer, PeerSteps
  <2>5. ~closing' /\ ~graceful'  BY <2>1, <2>2, <2>4, WindowCalm DEF Tops
  <2>6. Dispatch  BY <2>2, StepNext DEF Submitters, Shutdowns, Upcalls
  <2>7. requests' = NewRequest("reply", 1) /\ Puts1(Step("submit", NextRequest, "none"))
    BY <1>1, <2>1, <2>2, <2>6, DispatchMoves DEF Owned
  <2>8. Adds(NewOne("reply", 1))
    <3>1. "reply" \in Kinds /\ requests \in Seq(Requests) /\ 1 \in Nat  BY <1>1 DEF TypeInv, Kinds, Owned
    <3>2. QED BY <3>1, <2>7, AddsNew
  <2>9. Replies(NextRequest, requests')
    BY <2>8 DEF Adds, NewOne, NextRequest, Replies
  <2>10. /\ 1 \in DOMAIN stack' /\ stack'[1] = Step("submit", NextRequest, "none")
         /\ 2 \in DOMAIN stack' /\ stack'[2] = stack[2]
    <3>1. 2 \in DOMAIN stack /\ 2 > 1  BY <2>3
    <3>2. QED BY <1>1, <2>7, <3>1, Puts1Keeps DEF Puts1
  <2>11. Step("submit", NextRequest, "none").at = "submit" /\ Step("submit", NextRequest, "none").on = NextRequest
    BY DEF Step
  <2>12. stack[2].at = "peerClose"  BY <2>3
  <2>13. QED BY <2>5, <2>9, <2>10, <2>11, <2>12 DEF InWindow, Submitters
<1>6. CASE HasClose /\ readyState # "OPEN"
  <2>1. Tops({"opened"}) /\ upgradePending  BY <1>3, <1>6 DEF StateChanges
  <2>2. stack # <<>> /\ 1 \in DOMAIN stack /\ stack[1].at = "opened"
    BY <1>1, <2>1, StackIndexes DEF Tops
  <2>3. LastResponds /\ ~given  BY <2>2 DEF Opens, OneOpening, Responded, Opening
  <2>4. PICK i \in DOMAIN requests : requests[i].kind \in {"close", "reply"}  BY <1>6 DEF HasClose, IsClose
  <2>5. requests[i].kind = "reply"  BY <2>3, <2>4 DEF PeerInv, Ungiven
  <2>6. DOMAIN requests = 1..Len(requests) /\ Len(requests) \in Nat  BY <1>1, RequestIndexes
  <2>7. i # Len(requests)  BY <2>3, <2>5 DEF LastResponds
  <2>8. i < Len(requests) /\ Len(requests) \in DOMAIN requests  BY <2>6, <2>7
  <2>9. ClosedBeforeResponse  BY <2>3, <2>5, <2>8 DEF ClosedBeforeResponse, LastResponds
  <2>10. QED BY <1>4, <2>9
<1>7. CASE HasClose /\ readyState = "OPEN"
  <2>1. InWindow  BY <1>4, <1>7 DEF Window
  <2>2. CASE 1 \in DOMAIN stack /\ stack[1].at \in Marks
    BY <2>1, <2>2, MarkNext DEF InWindow
  <2>3. CASE /\ {1, 2} \subseteq DOMAIN stack /\ stack[2].at = "peerClose"
             /\ stack[1].at \in Submitters /\ Replies(stack[1].on, requests)
    BY <2>1, <2>3, SubmitterNext DEF InWindow
  <2>4. CASE /\ {1, 2, 3} \subseteq DOMAIN stack /\ stack[3].at = "peerClose"
             /\ stack[1].at \in Sending1 /\ stack[2].at = "submitted" /\ Replies(stack[2].on, requests)
    BY <2>1, <2>4, SendingNext DEF InWindow
  <2>5. QED BY <2>1, <2>2, <2>3, <2>4 DEF InWindow
<1>8. QED BY <1>5, <1>6, <1>7

\* No message was sent after a Close, unless the peer closed before the response.
NoneAfter ==
    ~ClosedBeforeResponse =>
        \A i, j \in DOMAIN requests : i < j /\ IsClose(i) => requests[j].kind # "app"

\* So no message is sent after a Close.
LEMMA NoneAfterNext == ASSUME WriteInv, Window, NoneAfter, Next PROVE NoneAfter'
<1>1. BaseInv /\ StackTyped /\ TypeInv /\ AtSubmit  BY LifeFacts
<1>2. Kept1 /\ (SameKinds \/ OneMore)  BY <1>1, KindsNext
<1> SUFFICES ASSUME ~ClosedBeforeResponse', NEW i \in DOMAIN requests', NEW j \in DOMAIN requests',
                    i < j, IsClose(i)', requests'[j].kind = "app"
             PROVE  FALSE
  BY DEF NoneAfter
<1>3. ~ClosedBeforeResponse  BY <1>2 DEF Kept1, ClosedBeforeResponse
<1>4. DOMAIN requests = 1..Len(requests) /\ Len(requests) \in Nat  BY <1>1, RequestIndexes
<1>5. i \in DOMAIN requests
  <2>1. CASE SameKinds  BY <2>1 DEF SameKinds
  <2>2. CASE OneMore
    <3>1. Len(requests') = Len(requests) + 1 /\ DOMAIN requests' = 1..Len(requests')
      BY <2>2 DEF OneMore
    <3>2. QED BY <1>4, <3>1
  <2>3. QED BY <1>2, <2>1, <2>2
<1>6. IsClose(i)
  <2>1. requests'[i].kind = requests[i].kind  BY <1>2, <1>5 DEF Kept1
  <2>2. QED BY <2>1 DEF IsClose
<1>7. j \notin DOMAIN requests  BY <1>2, <1>3, <1>5, <1>6 DEF NoneAfter, Kept1
<1>8. MayAct /\ readyState = "OPEN"
  <2>1. OneMore  BY <1>2, <1>7 DEF SameKinds
  <2>2. j = Len(requests')  BY <1>4, <1>7, <2>1 DEF OneMore
  <2>3. NewKind("app")  BY <2>1, <2>2 DEF OneMore
  <2>4. QED BY <2>3 DEF NewKind, Owned
<1>9. InWindow  BY <1>3, <1>5, <1>6, <1>8 DEF Window, HasClose
<1>10. 1 \in DOMAIN stack /\ stack[1].at \in Marks \cup Submitters \cup Sending1
  BY <1>9 DEF InWindow
<1>11. stack # <<>> /\ Head(stack) = stack[1]
  <2>1. stack # <<>>  BY <1>10
  <2>2. QED BY <1>1, <2>1, StackIndexes
<1>12. QED BY <1>8, <1>10, <1>11, MayActTop DEF Marks, Submitters, Sending1

\* The order of what is sent: once closing, nothing follows.
CloseInv == CallInv /\ PeerInv /\ Opens /\ Window /\ NoneAfter

\* The invariant of what is sent when closing holds at first.
LEMMA CloseInit == ASSUME Init PROVE CloseInv
<1>1. CallInv  BY CallInit
<1>2. stack = <<>> /\ requests = <<>> /\ given = FALSE /\ graceful = FALSE /\ closeCode = 1006
      /\ parserClosing = FALSE /\ closeSent = FALSE
  BY DEF Init, NativeInit
<1>3. DOMAIN stack = {} /\ DOMAIN requests = {}  BY <1>2
<1>4. PeerInv
  BY <1>2, <1>3 DEF PeerInv, Unparsed, OnePeer, ReplyFirst, CloseOnce, Ungiven, HasClose
<1>5. Opens  BY <1>2, <1>3 DEF Opens, OneOpening, Responded
<1>6. Window /\ NoneAfter  BY <1>3 DEF Window, NoneAfter, HasClose
<1>7. QED BY <1>1, <1>4, <1>5, <1>6 DEF CloseInv

\* And after each step, stuttering included.
LEMMA CloseStep == ASSUME CloseInv, [Next]_vars PROVE CloseInv'
<1>1. CallInv'  BY CallStep DEF CloseInv
<1>2. CASE Next
  <2>1. WriteInv /\ Flushes /\ PeerInv /\ Opens /\ Window /\ NoneAfter
    BY DEF CloseInv, CallInv, LifeInv
  <2>2. PeerInv'  BY <1>2, <2>1, PeerInvNext
  <2>3. Opens'  BY <1>2, <2>1, OpensNext
  <2>4. Window'  BY <1>2, <2>1, WindowNext
  <2>5. NoneAfter'  BY <1>2, <2>1, NoneAfterNext
  <2>6. QED BY <1>1, <2>2, <2>3, <2>4, <2>5 DEF CloseInv
<1>3. CASE UNCHANGED vars
  <2>1. UNCHANGED <<stack, requests, given, graceful, closeCode, parserClosing, closeSent, closing,
                    readyState, upgradePending>>
    BY <1>3 DEF vars, nativeVars, jsVars, handleVars, peerVars, writeVars
  <2>2. PeerInv'
    BY <2>1 DEF CloseInv, PeerInv, Unparsed, OnePeer, ReplyFirst, CloseOnce, Ungiven, HasClose, IsClose
  <2>3. Opens'
    BY <2>1 DEF CloseInv, Opens, OneOpening, Responded, LastResponds
  <2>4. Window' /\ NoneAfter'
    BY <2>1 DEF CloseInv, Window, NoneAfter, HasClose, IsClose, InWindow, ClosedBeforeResponse
  <2>5. QED BY <1>1, <2>2, <2>3, <2>4 DEF CloseInv
<1>4. QED BY <1>2, <1>3

\* It implies the order in which a WebSocket closes.
LEMMA CloseOrder == ASSUME CloseInv PROVE NoDataAfterClose
<1>1. CloseOnce /\ NoneAfter  BY DEF CloseInv, PeerInv
<1>2. ASSUME NEW i \in DOMAIN requests, NEW j \in DOMAIN requests, i < j, IsClose(i)
      PROVE  ~IsClose(j) /\ (~ClosedBeforeResponse => requests[j].kind # "app")
  <2>1. DOMAIN requests = 1..Len(requests) /\ Len(requests) \in Nat
    <3>1. BaseInv  BY LifeFacts DEF CloseInv, CallInv, LifeInv
    <3>2. QED BY <3>1, RequestIndexes
  <2>2. i # j  BY <1>2, <2>1
  <2>3. QED BY <1>1, <1>2, <2>2 DEF CloseOnce, NoneAfter
<1>3. QED BY <1>2 DEF NoDataAfterClose, IsClose

\* A Close that was made is sent, or its answer is the next thing to be.
Gives == closeSent /\ ~closing => HasClose \/ On("reply")
\* The handshake is asked for when it was sent, ...
Graces == graceful => HasClose
\* ... and JavaScript told of the peer's.
PeerTold ==
    \A k \in DOMAIN stack : stack[k].at = "peerClosed" =>
        \/ k = 1 /\ Closes(readyState)
        \/ k = 2 /\ stack[1].at = "_onNativeClose"
GracefulTold == graceful /\ readyState = "OPEN" => ClosedBeforeResponse
\* So the application cannot send then.
AppGrace ==
    \A k \in DOMAIN stack :
        stack[k].at \in Submitters /\ requests[stack[k].on].kind = "app" /\ ~ClosedBeforeResponse => ~graceful
GraceInv == Gives /\ Graces /\ PeerTold /\ GracefulTold /\ AppGrace

\* A Close that was made is among the requests, or the answer is about to be.
LEMMA GivesNext == ASSUME WriteInv, Gives, Next PROVE Gives'
<1>1. BaseInv /\ StackTyped /\ TypeInv /\ AtSubmit  BY LifeFacts
<1>2. Pushed /\ PeerChanges /\ HandleChanges  BY <1>1, PushNext, VarsNext
<1> SUFFICES ASSUME closeSent', ~closing' PROVE HasClose' \/ On("reply")'
  BY DEF Gives
<1>3. ~closing  BY <1>2 DEF HandleChanges
<1>4. CASE closeSent
  <2>1. HasClose => HasClose'  BY <1>1, CloseKinds
  <2>2. CASE Tops({"reply"})
    <3>1. Dispatch /\ Head(stack).at = "reply"
      BY <2>2, StepNext DEF Tops, Submitters, Shutdowns, Upcalls
    <3>2. requests' = NewRequest("reply", 1)
      BY <1>1, <1>3, <3>1, DispatchMoves DEF Owned
    <3>3. Adds(NewOne("reply", 1))
      <4>1. "reply" \in Kinds /\ requests \in Seq(Requests) /\ 1 \in Nat  BY <1>1 DEF TypeInv, Kinds, Owned
      <4>2. QED BY <4>1, <3>2, AddsNew
    <3>4. QED BY <3>3 DEF Adds, NewOne, HasClose, IsClose
  <2>3. CASE ~Tops({"reply"})
    <3>1. HasClose \/ On("reply")  BY <1>3, <1>4 DEF Gives
    <3>2. QED BY <1>1, <1>2, <2>1, <2>3, <3>1, OnKeeps
  <2>4. QED BY <2>2, <2>3
<1>5. CASE ~closeSent
  <2>1. CASE ~parserClosing /\ parserClosing'
    <3>1. PICK n \in Nat, d \in {0, 1} : Moves(n, d) /\ LastEvents(n)  BY <1>1, <2>1, ParsedNext
    <3>2. n >= 2 /\ stack'[n - 1] = At("reply")  BY <1>5, <3>1 DEF LastEvents
    <3>3. stack # <<>>  BY <1>2, <2>1 DEF PeerChanges, Tops
    <3>4. stack' \in Seq(Steps) /\ Len(stack') = n + Len(stack) - d  BY <3>1 DEF Moves
    <3>5. Len(stack) \in Nat /\ Len(stack) >= 1  BY <1>1, <3>3, StackIndexes
    <3>6. DOMAIN stack' = 1..Len(stack')  BY <3>4, LenProperties
    <3>7. n - 1 \in DOMAIN stack'  BY <3>2, <3>4, <3>5, <3>6
    <3>8. At("reply").at = "reply"  BY DEF At, Step
    <3>9. QED BY <3>2, <3>7, <3>8 DEF On
  <2>2. CASE requests' = NewRequest("close", 1)
    <3>1. Adds(NewOne("close", 1))
      <4>1. "close" \in Kinds /\ requests \in Seq(Requests) /\ 1 \in Nat  BY <1>1 DEF TypeInv, Kinds, Owned
      <4>2. QED BY <4>1, <2>2, AddsNew
    <3>2. QED BY <3>1 DEF Adds, NewOne, HasClose, IsClose
  <2>3. QED BY <1>2, <1>5, <2>1, <2>2 DEF PeerChanges
<1>6. QED BY <1>4, <1>5

\* The handshake is over only when our Close is there.
LEMMA GracesNext == ASSUME WriteInv, PeerInv, Gives, Graces, Next PROVE Graces'
<1>1. BaseInv /\ StackTyped /\ TypeInv /\ AtSubmit  BY LifeFacts
<1>2. PeerChanges  BY VarsNext
<1>3. HasClose => HasClose'  BY <1>1, CloseKinds
<1>4. CASE UNCHANGED graceful  BY <1>3, <1>4 DEF Graces
<1>5. CASE Tops({"peerClosed"}) /\ ~closing
  <2>1. 1 \in DOMAIN stack /\ stack[1].at = "peerClosed"  BY <1>1, <1>5, StackIndexes DEF Tops
  <2>2. parserClosing  BY <2>1 DEF PeerInv, Unparsed, PeerNames, PeerSteps
  <2>3. HasClose \/ On("reply")  BY <1>5, <2>2 DEF PeerInv, CloseOnce, Gives
  <2>4. ~On("reply")
    <3> SUFFICES ASSUME NEW k \in DOMAIN stack, stack[k].at = "reply" PROVE FALSE  BY DEF On
    <3>1. k + 1 \in DOMAIN stack /\ stack[k+1].at = "peerClose"  BY DEF PeerInv, ReplyFirst
    <3>2. k + 1 = 1  BY <2>1, <3>1 DEF PeerInv, OnePeer, PeerSteps
    <3>3. DOMAIN stack = 1..Len(stack) /\ Len(stack) \in Nat  BY <1>1, StackIndexes
    <3>4. QED BY <3>2, <3>3
  <2>5. QED BY <1>3, <2>3, <2>4 DEF Graces
<1>6. QED BY <1>2, <1>4, <1>5 DEF PeerChanges

\* JavaScript is told of the peer's Close before the transport shuts down for it.
LEMMA PeerToldNext == ASSUME WriteInv, PeerInv, PeerTold, Next PROVE PeerTold'
<1>1. BaseInv /\ StackTyped /\ TypeInv /\ AtSubmit  BY LifeFacts
<1>2. Pushed /\ StateChanges  BY <1>1, PushNext, VarsNext
<1>3. DOMAIN stack = 1..Len(stack) /\ Len(stack) \in Nat  BY <1>1, StackIndexes
<1> SUFFICES ASSUME NEW k \in DOMAIN stack', stack'[k].at = "peerClosed"
             PROVE  (k = 1 /\ Closes(readyState')) \/ (k = 2 /\ stack'[1].at = "_onNativeClose")
  BY DEF PeerTold
<1>4. CASE Tops(PeerSteps)
  <2>1. stack # <<>> /\ 1 \in DOMAIN stack /\ stack[1].at \in PeerSteps
    BY <1>1, <1>4, StackIndexes DEF Tops
  <2>2. \A j \in DOMAIN stack : stack[j].at = "peerClosed" => j = 1
    BY <2>1 DEF PeerInv, OnePeer, PeerSteps
  <2>3. ~Drops
    <3>1. ASSUME Drops PROVE FALSE
      <4>1. k + 1 \in DOMAIN stack /\ stack'[k] = stack[k + 1]  BY <1>1, <2>1, <3>1, AfterDrops
      <4>2. k + 1 = 1  BY <2>2, <4>1
      <4>3. stack' \in Seq(Steps)  BY <3>1 DEF Drops, Moves
      <4>4. k \in 1..Len(stack')  BY <4>3, LenProperties
      <4>5. QED BY <4>2, <4>4
    <3>2. QED BY <3>1
  <2>4. ~Puts1(At("performTLSShutdown"))
    <3>1. ASSUME Puts1(At("performTLSShutdown")) PROVE FALSE
      <4>1. stack'[1] = At("performTLSShutdown") /\ (k # 1 => stack'[k] = stack[k]) /\ DOMAIN stack' = DOMAIN stack
        BY <1>1, <2>1, <3>1, AfterPuts1
      <4>2. At("performTLSShutdown").at = "performTLSShutdown"  BY DEF At, Step
      <4>3. QED BY <2>2, <4>1, <4>2
    <3>2. QED BY <3>1
  <2>5. Puts2(Step("_onNativeClose", Head(stack).on, "none"), At("peerClosed"))
    BY <1>1, <1>4, <2>3, <2>4, PeerDispatch
  <2>6. 2 \in DOMAIN stack' /\ stack'[2].at = "peerClosed" /\ stack'[1].at = "_onNativeClose"
    BY <2>5 DEF Puts2, At, Step
  <2>7. OnePeer'  BY OnePeerNext
  <2>8. k = 2  BY <2>6, <2>7 DEF OnePeer, PeerSteps
  <2>9. QED BY <2>6, <2>8
<1>5. CASE ~Tops(PeerSteps)
  <2>1. ~New(stack'[k])  BY <1>5 DEF New, NewNative, Tops, PeerSteps
  <2>2. PICK j \in DOMAIN stack : stack'[k] = stack[j] /\ j + Len(stack') = k + Len(stack)
    BY <1>1, <1>2, <2>1, EachStep
  <2>3. stack # <<>> /\ Head(stack) = stack[1] /\ 1 \in DOMAIN stack
    <3>1. stack # <<>>  BY <2>2
    <3>2. QED BY <1>1, <3>1, StackIndexes
  <2>4. j # 1  BY <1>5, <2>2, <2>3 DEF Tops, PeerSteps
  <2>5. j = 2 /\ Head(stack).at = "_onNativeClose"  BY <2>2, <2>3, <2>4 DEF PeerTold
  <2>6. FromNative  BY <2>3, <2>5, StepNext DEF Submitters, Shutdowns
  <2>7. Drops  BY <1>1, <2>5, <2>6, FromNativeMoves
  <2>8. Len(stack') = Len(stack) - 1  BY <1>1, <2>3, <2>7, AfterDrops
  <2>9. k = 1
    <3>1. stack' \in Seq(Steps)  BY <2>7 DEF Drops, Moves
    <3>2. k \in Nat /\ Len(stack') \in Nat  BY <3>1, LenProperties
    <3>3. QED BY <1>3, <2>2, <2>5, <2>8, <3>2
  <2>10. Closes(readyState')  BY <1>2, <2>3, <2>5 DEF StateChanges, Tops, Closes
  <2>11. QED BY <2>9, <2>10
<1>6. QED BY <1>4, <1>5

\* The application gets a WebSocket whose peer has closed only if it did so before the response.
LEMMA OpenedLate ==
    ASSUME BaseInv, PeerInv, Opens, HasClose, Tops({"opened"}) PROVE ClosedBeforeResponse
<1>1. StackTyped  BY DEF BaseInv, TypeInv
<1>2. stack # <<>> /\ 1 \in DOMAIN stack /\ stack[1].at = "opened"
  BY <1>1, StackIndexes DEF Tops
<1>3. LastResponds /\ ~given  BY <1>2 DEF Opens, OneOpening, Responded, Opening
<1>4. PICK i \in DOMAIN requests : requests[i].kind \in {"close", "reply"}  BY DEF HasClose, IsClose
<1>5. requests[i].kind = "reply"  BY <1>3, <1>4 DEF PeerInv, Ungiven
<1>6. DOMAIN requests = 1..Len(requests) /\ Len(requests) \in Nat  BY RequestIndexes
<1>7. i # Len(requests)  BY <1>3, <1>5 DEF LastResponds
<1>8. i < Len(requests) /\ Len(requests) \in DOMAIN requests  BY <1>6, <1>7
<1>9. QED BY <1>3, <1>5, <1>8 DEF ClosedBeforeResponse, LastResponds

\* That the peer closed before the response stays so.
LEMMA StillBefore ==
    ASSUME BaseInv, Next, ClosedBeforeResponse PROVE ClosedBeforeResponse'
  BY KindsNext DEF Kept1, ClosedBeforeResponse

\* A WebSocket whose handshake is over is not OPEN, unless the peer closed before the response.
LEMMA GracefulToldNext ==
    ASSUME WriteInv, PeerInv, Opens, Graces, PeerTold, GracefulTold, Next PROVE GracefulTold'
<1>1. BaseInv /\ StackTyped /\ TypeInv /\ AtSubmit  BY LifeFacts
<1>2. PeerChanges /\ StateChanges  BY VarsNext
<1> SUFFICES ASSUME graceful', readyState' = "OPEN", ~ClosedBeforeResponse' PROVE FALSE
  BY DEF GracefulTold
<1>3. ~ClosedBeforeResponse  BY <1>1, StillBefore
<1>4. CASE ~graceful
  <2>1. Tops({"peerClosed"})  BY <1>2, <1>4 DEF PeerChanges
  <2>2. 1 \in DOMAIN stack /\ stack[1].at = "peerClosed"  BY <1>1, <2>1, StackIndexes DEF Tops
  <2>3. Closes(readyState)  BY <2>2 DEF PeerTold
  <2>4. Closes(readyState')  BY <2>1, <2>3, ToldStays DEF Tops
  <2>5. QED BY <2>4 DEF Closes
<1>5. CASE graceful
  <2>1. readyState # "OPEN"  BY <1>3, <1>5 DEF GracefulTold
  <2>2. Tops({"opened"})  BY <1>2, <2>1 DEF StateChanges
  <2>3. QED BY <1>1, <1>3, <1>5, <2>2, OpenedLate DEF Graces
<1>6. QED BY <1>4, <1>5

\* So no message is being submitted then.
LEMMA AppGraceNext ==
    ASSUME WriteInv, Flushes, GracefulTold, AppGrace, Next PROVE AppGrace'
<1>1. BaseInv /\ StackTyped /\ TypeInv /\ AtSubmit /\ Instantly  BY LifeFacts
<1>2. Pushed /\ PeerChanges  BY <1>1, PushNext, VarsNext
<1>k. Kept1 /\ (SameKinds \/ OneMore)  BY <1>1, KindsNext
<1>3. \A s : New(s) /\ s.at = "submit" => s.on = NextRequest  BY DEF New, NewScript
<1>4. DOMAIN requests = 1..Len(requests) /\ Len(requests) \in Nat /\ NextRequest \notin DOMAIN requests
  BY <1>1, RequestIndexes DEF NextRequest
<1>5. ~Tops({"peerClosed"}) => UNCHANGED graceful  BY <1>2 DEF PeerChanges
<1> SUFFICES ASSUME NEW k \in DOMAIN stack', stack'[k].at \in Submitters,
                    requests'[stack'[k].on].kind = "app", ~ClosedBeforeResponse'
             PROVE  ~graceful'
  BY DEF AppGrace
<1>6. ~ClosedBeforeResponse  BY <1>1, StillBefore
<1>7. CASE New(stack'[k]) /\ stack'[k].at = "submit"
  <2>1. stack'[k].on = NextRequest  BY <1>3, <1>7
  <2>2. NextRequest \in DOMAIN requests'
    <3>1. Formed' /\ StackTyped'  BY <1>1, StackNext
    <3>2. Form(stack'[k], Len(requests'), closing')  BY <3>1 DEF Formed
    <3>3. stack'[k].on \in 1..Len(requests')  BY <1>7, <3>2 DEF Form, RequestSteps
    <3>4. DOMAIN requests' = 1..Len(requests')
      <4>1. RequestsGrow  BY <1>1, RequestsNext
      <4>2. QED BY <4>1, LenProperties DEF RequestsGrow
    <3>5. QED BY <2>1, <3>3, <3>4
  <2>3. OneMore  BY <1>4, <1>k, <2>2 DEF SameKinds
  <2>4. NewKind("app")
    <3>1. NextRequest = Len(requests')  BY <1>4, <2>3 DEF OneMore, NextRequest
    <3>2. QED BY <2>1, <2>3, <3>1 DEF OneMore
  <2>5. MayAct /\ readyState = "OPEN"  BY <2>4 DEF NewKind, Owned
  <2>6. ~graceful  BY <1>6, <2>5 DEF GracefulTold
  <2>7. QED BY <1>5, <2>5, <2>6, MayActTop DEF Tops
<1>8. CASE New(stack'[k]) /\ stack'[k].at = "submitted"
  <2>1. Tops({"submit"}) /\ stack'[k].on = Head(stack).on  BY <1>8 DEF New, NewNative
  <2>2. stack # <<>> /\ Head(stack).at = "submit"  BY <2>1 DEF Tops
  <2>3. 1 \in DOMAIN stack /\ stack[1] = Head(stack) /\ Head(stack).on \in DOMAIN requests
    BY <1>1, <2>2, StackIndexes DEF AtSubmit
  <2>4. requests[Head(stack).on].kind = "app"  BY <1>k, <2>1, <2>3 DEF Kept1
  <2>5. ~graceful  BY <1>6, <2>2, <2>3, <2>4 DEF AppGrace, Submitters
  <2>6. QED BY <1>5, <2>2, <2>5 DEF Tops
<1>9. CASE ~New(stack'[k])
  <2>1. PICK j \in DOMAIN stack : stack'[k] = stack[j] /\ j + Len(stack') = k + Len(stack)
    BY <1>1, <1>2, <1>9, EachStep
  <2>2. stack[j].on \in DOMAIN requests
    <3>1. Form(stack[j], Len(requests), closing)  BY <1>1 DEF BaseInv, Formed
    <3>2. QED BY <1>4, <2>1, <3>1 DEF Form, RequestSteps, Submitters
  <2>3. ~graceful
    <3>1. requests[stack[j].on].kind = "app"  BY <1>k, <2>1, <2>2 DEF Kept1
    <3>2. QED BY <1>6, <2>1, <3>1 DEF AppGrace
  <2>4. ~Tops({"peerClosed"})
    <3> SUFFICES ASSUME stack # <<>>, Head(stack).at = "peerClosed" PROVE FALSE  BY DEF Tops
    <3>1. 1 \in DOMAIN stack /\ stack[1].at = "peerClosed" /\ DOMAIN stack = 1..Len(stack) /\ Len(stack) \in Nat
      BY <1>1, StackIndexes
    <3>2. j # 1  BY <2>1, <3>1 DEF Submitters
    <3>3. stack[j].at # "submit"  BY <1>1, <3>2 DEF Instantly, Instant, Immediate
    <3>4. stack[j].at = "submitted" /\ 1 < j  BY <2>1, <3>1, <3>2, <3>3 DEF Submitters
    <3>5. InnerStep(stack[1], readyState)  BY <3>1, <3>4 DEF Flushes
    <3>6. QED BY <3>1, <3>5 DEF InnerStep, Inner
  <2>5. QED BY <1>5, <2>3, <2>4
<1>10. QED BY <1>7, <1>8, <1>9 DEF Submitters

FlushSteps == {"flushWrites", "writing", "performTLSShutdown"}
Ends == ~closing => \A i \in DOMAIN requests : requests[i].outcome \in {"pending", "sent"}
Direct ==
    \A j, k \in DOMAIN stack :
        j < k /\ stack[k].at = "submitted" /\ stack[j].at \in FlushSteps => k = 2
SentOpen ==
    \A k \in DOMAIN stack :
        /\ stack[k].at = "submitted" /\ requests[stack[k].on].kind = "app"
        /\ requests[stack[k].on].outcome = "sent" /\ ~ClosedBeforeResponse
        => /\ ~closing
           /\ k = 1 \/ (k = 2 /\ stack[1].at \in {"writing", "performTLSShutdown"})
Decides(i) ==
    /\ queue # <<>> /\ i = First /\ requests[i].outcome = "pending"
    /\ \/ Tops({"writing"}) /\ ~closing /\ requests'[i].outcome = "sent"
       \/ /\ Tops({"cancelWrites"}) /\ closing /\ requests'[i].outcome # "sent"

\* A request ends once: it is sent by the loop over the queue while the transport is open, or
\* cancelled while it closes.
LEMMA OutcomeNext ==
    ASSUME WriteInv, Next, NEW i \in DOMAIN requests
    PROVE  /\ i \in DOMAIN requests' /\ requests'[i].kind = requests[i].kind
           /\ requests'[i].outcome = requests[i].outcome \/ Decides(i)
<1>1. BaseInv /\ StackTyped /\ StackInv /\ QueueInv  BY LifeFacts DEF WriteInv
<1>2. Changes  BY <1>1, ChangesNext
<1>3. i \in DOMAIN requests' /\ requests'[i].kind = requests[i].kind
  BY <1>1, KindsNext DEF Kept1
<1>4. CASE Stays  BY <1>3, <1>4 DEF Stays
<1>5. CASE Submits
  <2>1. PICK kind \in Kinds, size \in Nat \ {0} : Adds(NewOne(kind, size))  BY <1>5 DEF Submits
  <2>2. QED BY <1>3, <2>1 DEF Adds
<1>6. CASE Refuses
  <2>1. PICK size \in Nat \ {0} : Adds(Refused(size))  BY <1>6 DEF Refuses
  <2>2. QED BY <1>3, <2>1 DEF Adds
<1>7. ASSUME NEW m \in Nat, Enters(m) \/ Waits(m)
      PROVE  requests'[i].outcome = requests[i].outcome
  <2>1. CASE UNCHANGED requests  BY <2>1
  <2>2. CASE Edits(m, Deferred(requests[m])) /\ requests[m] \in Requests
    <3>1. Deferred(requests[m]).outcome = requests[m].outcome  BY <2>2 DEF Deferred, Requests
    <3>2. QED BY <2>2, <3>1 DEF Edits
  <2>3. QED BY <1>7, <2>1, <2>2 DEF Enters, Waits
<1>8. CASE Writing /\ \E n \in Nat : Sending(n)
  <2>1. PICK n \in Nat : Sending(n)  BY <1>8
  <2>2. /\ First \in DOMAIN requests /\ First = queue[1] /\ 1 \in DOMAIN queue
        /\ Edits(First, WrittenBy(requests[First], n)) /\ requests[First] \in Requests
    BY <1>1, <2>1, SendingData
  <2>3. CASE i # First  BY <1>3, <2>2, <2>3 DEF Edits
  <2>4. CASE i = First
    <3>1. requests[i].outcome = "pending"
      <4>1. Queued(i)  BY <2>2, <2>4 DEF Queued
      <4>2. QED BY <1>1, <4>1 DEF QueueInv, PendingIsQueued
    <3>2. requests'[i] = WrittenBy(requests[i], n)  BY <2>2, <2>4 DEF Edits
    <3>3. WrittenBy(requests[i], n).outcome \in {"sent", requests[i].outcome}
      BY <2>2, <2>4 DEF WrittenBy, Requests
    <3>4. Tops({"writing"})  BY <1>8 DEF Writing, Top, Tops
    <3>5. queue # <<>> /\ ~closing  BY <2>1 DEF Sending
    <3>6. QED BY <1>3, <2>4, <3>1, <3>2, <3>3, <3>4, <3>5 DEF Decides
  <2>5. QED BY <2>3, <2>4
<1>9. CASE CancelWrite
  <2>1. /\ First \in DOMAIN requests /\ First = queue[1] /\ 1 \in DOMAIN queue
        /\ requests[First] \in Requests /\ Head(stack).why \in {"nobufs", "cancelled", "handshake"}
        /\ Edits(First, EndedBy(requests[First], Head(stack).why)) /\ closing
    BY <1>1, <1>9, CancelWriteData
  <2>2. CASE i # First  BY <1>3, <2>1, <2>2 DEF Edits
  <2>3. CASE i = First
    <3>1. requests[i].outcome = "pending"
      <4>1. Queued(i)  BY <2>1, <2>3 DEF Queued
      <4>2. QED BY <1>1, <4>1 DEF QueueInv, PendingIsQueued
    <3>2. requests'[i] = EndedBy(requests[i], Head(stack).why)  BY <2>1, <2>3 DEF Edits
    <3>3. EndedBy(requests[i], Head(stack).why).outcome = Head(stack).why
      BY <2>1, <2>3 DEF EndedBy, Requests
    <3>4. Tops({"cancelWrites"}) /\ queue # <<>>  BY <1>9 DEF CancelWrite, Top, Tops
    <3>5. QED BY <1>3, <2>1, <2>3, <3>1, <3>2, <3>3, <3>4 DEF Decides
  <2>4. QED BY <2>2, <2>3
<1>10. QED BY <1>2, <1>3, <1>4, <1>5, <1>6, <1>7, <1>8, <1>9 DEF Changes

\* Until the transport closes a request is waiting or sent.
LEMMA EndsNext == ASSUME LifeInv, Ends, Next PROVE Ends'
<1>1. WriteInv  BY DEF LifeInv
<1>2. BaseInv /\ TypeInv  BY <1>1, LifeFacts
<1>3. HandleChanges  BY VarsNext
<1> SUFFICES ASSUME ~closing', NEW i \in DOMAIN requests'
             PROVE  requests'[i].outcome \in {"pending", "sent"}
  BY DEF Ends
<1>4. ~closing  BY <1>3 DEF HandleChanges
<1>5. CASE i \in DOMAIN requests
  BY <1>1, <1>4, <1>5, OutcomeNext DEF Ends, Decides
<1>6. CASE i \notin DOMAIN requests
  <2>1. CASE Submits
    <3>1. PICK kind \in Kinds, size \in Nat \ {0} : Adds(NewOne(kind, size))  BY <2>1 DEF Submits
    <3>2. requests'[i] = NewOne(kind, size)  BY <1>6, <3>1 DEF Adds
    <3>3. QED BY <3>2 DEF NewOne
  <2>2. CASE Refuses
    <3>1. PICK size \in Nat \ {0} : Adds(Refused(size))  BY <2>2 DEF Refuses
    <3>2. readyState = "OPEN"
      <4>1. OneMore
        <5>1. SameKinds \/ OneMore  BY <1>2, KindsNext
        <5>2. QED BY <1>6, <5>1 DEF SameKinds
      <4>2. requests'[Len(requests')] = Refused(size)  BY <3>1 DEF Adds
      <4>3. NewKind("app")  BY <4>1, <4>2 DEF OneMore, Refused
      <4>4. QED BY <4>3 DEF NewKind, Owned
    <3>3. destroyRequested  BY <1>4, <2>2 DEF Refuses, writable
    <3>4. QED BY <3>2, <3>3 DEF LifeInv, Destroys
  <2>3. ASSUME NEW m \in Nat, Enters(m) \/ Waits(m) PROVE DOMAIN requests' = DOMAIN requests
    BY <2>3 DEF Enters, Waits, Edits
  <2>4. ASSUME NEW n \in Nat, Sending(n) PROVE DOMAIN requests' = DOMAIN requests
    BY <1>2, <2>4, SendingData DEF Edits
  <2>5. CancelWrite => DOMAIN requests' = DOMAIN requests
    BY <1>2, CancelWriteData DEF Edits
  <2>6. Changes  BY <1>2, ChangesNext
  <2>7. ~Stays  BY <1>6 DEF Stays
  <2>8. QED BY <1>6, <2>1, <2>2, <2>3, <2>4, <2>5, <2>6, <2>7 DEF Changes
<1>7. QED BY <1>5, <1>6

\* A new request was not sent yet.
LEMMA NewUnsent ==
    ASSUME WriteInv, Next, NEW i \in DOMAIN requests', i \notin DOMAIN requests
    PROVE  requests'[i].outcome # "sent"
<1>1. BaseInv  BY LifeFacts
<1>2. CASE Submits
  <2>1. PICK kind \in Kinds, size \in Nat \ {0} : Adds(NewOne(kind, size))  BY <1>2 DEF Submits
  <2>2. requests'[i] = NewOne(kind, size)  BY <2>1 DEF Adds
  <2>3. QED BY <2>2 DEF NewOne
<1>3. CASE Refuses
  <2>1. PICK size \in Nat \ {0} : Adds(Refused(size))  BY <1>3 DEF Refuses
  <2>2. requests'[i] = Refused(size)  BY <2>1 DEF Adds
  <2>3. QED BY <2>2 DEF Refused
<1>4. ASSUME NEW m \in Nat, Enters(m) \/ Waits(m) PROVE DOMAIN requests' = DOMAIN requests
  BY <1>4 DEF Enters, Waits, Edits
<1>5. ASSUME NEW n \in Nat, Sending(n) PROVE DOMAIN requests' = DOMAIN requests
  BY <1>1, <1>5, SendingData DEF Edits
<1>6. CancelWrite => DOMAIN requests' = DOMAIN requests
  BY <1>1, CancelWriteData DEF Edits
<1>7. Changes  BY <1>1, ChangesNext
<1>8. ~Stays  BY DEF Stays
<1>9. QED BY <1>2, <1>3, <1>4, <1>5, <1>6, <1>7, <1>8 DEF Changes

\* The first of the queue was made before the others that are pending.
LEMMA FirstIsOldest ==
    ASSUME WriteInv, queue # <<>>, Tops({"writing"}), NEW i \in DOMAIN requests, i < First
    PROVE  requests[i].outcome # "pending"
<1>1. BaseInv /\ QueueInv  BY LifeFacts DEF WriteInv
<1> SUFFICES ASSUME requests[i].outcome = "pending" PROVE FALSE
  OBVIOUS
<1>2. ~Submitting(i)  BY DEF Submitting, Tops
<1>3. PICK k \in DOMAIN queue : queue[k] = i
  BY <1>1, <1>2 DEF QueueInv, PendingIsQueued, Queued
<1>4. /\ DOMAIN queue = 1..Len(queue) /\ Len(queue) \in Nat
      /\ 1 \in DOMAIN queue /\ First = queue[1] /\ First \in DOMAIN requests
  BY <1>1, RequestIndexes, QueueFacts
<1>5. DOMAIN requests = 1..Len(requests) /\ Len(requests) \in Nat  BY <1>1, RequestIndexes
<1>6. CASE k = 1  BY <1>3, <1>4, <1>5, <1>6
<1>7. CASE k # 1
  <2>1. 1 < k  BY <1>4, <1>7
  <2>2. queue[1] < queue[k]  BY <1>1, <1>4, <2>1 DEF QueueInv, Sorted
  <2>3. QED BY <1>3, <1>4, <1>5, <2>2
<1>8. QED BY <1>6, <1>7

\* Requests are sent in the order in which they were made.
SentFirst ==
    \A i, j \in DOMAIN requests :
        i < j /\ requests[j].outcome = "sent" => requests[i].outcome = "sent"

\* No step sends one before another that was made earlier.
LEMMA SentFirstNext == ASSUME WriteInv, Ends, SentFirst, Next PROVE SentFirst'
<1>1. BaseInv  BY LifeFacts
<1> SUFFICES ASSUME NEW i \in DOMAIN requests', NEW j \in DOMAIN requests', i < j,
                    requests'[j].outcome = "sent"
             PROVE  requests'[i].outcome = "sent"
  BY DEF SentFirst
<1>2. j \in DOMAIN requests  BY NewUnsent
<1>3. i \in DOMAIN requests
  <2>1. DOMAIN requests = 1..Len(requests) /\ Len(requests) \in Nat  BY <1>1, RequestIndexes
  <2>2. requests' \in Seq(Requests)  BY <1>1, RequestsNext DEF RequestsGrow
  <2>3. DOMAIN requests' = 1..Len(requests')  BY <2>2, LenProperties
  <2>4. QED BY <1>2, <2>1, <2>3
<1>4. requests[i].outcome = "sent"
  <2>1. CASE requests'[j].outcome = requests[j].outcome  BY <1>2, <1>3, <2>1 DEF SentFirst
  <2>2. CASE Decides(j)
    <3>1. queue # <<>> /\ j = First /\ Tops({"writing"}) /\ ~closing  BY <2>2 DEF Decides
    <3>2. requests[i].outcome # "pending"  BY <1>3, <3>1, FirstIsOldest
    <3>3. QED BY <1>3, <3>1, <3>2 DEF Ends
  <2>3. QED BY <1>2, <2>1, <2>2, OutcomeNext
<1>5. requests'[i].outcome = requests[i].outcome
  BY <1>3, <1>4, OutcomeNext DEF Decides
<1>6. QED BY <1>4, <1>5

\* What flushes for a submit() grows no deeper.
LEMMA ShortFlush ==
    ASSUME WriteInv, Flushes, Next, Tops(FlushSteps),
           NEW k \in DOMAIN stack, k > 1, stack[k].at = "submitted"
    PROVE  UNCHANGED stack \/ Drops \/ \E a : Puts1(a)
<1>1. BaseInv /\ TypeInv /\ StackTyped  BY LifeFacts
<1>2. stack # <<>>  BY DEF Tops
<1>3. queue # <<>> => ~HasCallback(First)
  BY <1>1, QueueFacts DEF Flushes, Flushed, HasCallback
<1>4. CASE Tops({"flushWrites"})
  <2>1. FlushWrites  BY <1>2, <1>4, StepNext DEF Tops, Submitters, Shutdowns, Upcalls
  <2>2. QED BY <1>1, <2>1, FlushWritesMoves
<1>5. CASE Tops({"writing"})
  <2>1. Writing  BY <1>2, <1>5, StepNext DEF Tops, Submitters, Shutdowns, Upcalls
  <2>2. ASSUME NEW n \in Nat, Sending(n) PROVE UNCHANGED stack
    <3>1. queue # <<>> /\ Wrote(n)  BY <2>2 DEF Sending
    <3>2. QED BY <1>1, <1>3, <3>1, WroteMoves
  <2>3. QED BY <1>1, <2>1, <2>2, WritingMoves
<1>6. CASE Tops({"performTLSShutdown"})
  <2>1. PerformTLSShutdown  BY <1>2, <1>6, StepNext DEF Tops, Submitters, Shutdowns, Upcalls
  <2>2. QED BY <1>1, <2>1, PerformTLSShutdownMoves
<1>7. QED BY <1>4, <1>5, <1>6 DEF Tops, FlushSteps

\* The steps that flush for submit() are right above it.
LEMMA DirectNext == ASSUME WriteInv, Flushes, Direct, Next PROVE Direct'
<1>1. BaseInv /\ TypeInv /\ StackTyped /\ AtSubmit  BY LifeFacts
<1>2. Pushed  BY <1>1, PushNext
<1>3. DOMAIN stack = 1..Len(stack) /\ Len(stack) \in Nat  BY <1>1, StackIndexes
<1>4. DOMAIN stack' = 1..Len(stack') /\ Len(stack') \in Nat
  <2>1. stack' \in Seq(Steps)  BY <1>2 DEF Pushed, Pushes, Moves
  <2>2. QED BY <2>1, LenProperties
<1> SUFFICES ASSUME NEW j \in DOMAIN stack', NEW k \in DOMAIN stack', j < k,
                    stack'[k].at = "submitted", stack'[j].at \in FlushSteps
             PROVE  k = 2
  BY DEF Direct
<1>5. \A m \in DOMAIN stack : m > 1 /\ stack[m].at = "submitted" =>
        1 \in DOMAIN stack /\ stack # <<>> /\ Head(stack) = stack[1] /\ stack[1].at \in Inner
  <2> SUFFICES ASSUME NEW m \in DOMAIN stack, m > 1, stack[m].at = "submitted"
               PROVE  1 \in DOMAIN stack /\ stack # <<>> /\ Head(stack) = stack[1] /\ stack[1].at \in Inner
    OBVIOUS
  <2>1. stack # <<>>  BY <1>3, EmptySeq
  <2>2. 1 \in DOMAIN stack /\ Head(stack) = stack[1]  BY <1>1, <2>1, StackIndexes
  <2>3. InnerStep(stack[1], readyState)  BY <2>2 DEF Flushes
  <2>4. QED BY <2>1, <2>2, <2>3 DEF InnerStep
<1>6. CASE Tops({"submit"})
  <2>1. \A m \in DOMAIN stack : stack[m].at # "submitted"
    <3>1. 1 \in DOMAIN stack /\ stack[1].at = "submit"  BY <1>1, <1>6, StackIndexes DEF Tops
    <3>2. QED BY <1>3, <1>5, <3>1 DEF Inner
  <2>2. New(stack'[k])
    <3>1. ~\E m \in DOMAIN stack : stack'[k] = stack[m]  BY <2>1
    <3>2. QED BY <1>1, <1>2, <3>1, EachStep
  <2>3. queue = <<>> /\ ~flushing  BY <2>2 DEF New, NewNative
  <2>4. PICK i : i = Head(stack).on  OBVIOUS
  <2>5. SubmitIdle(i)
    <3>1. Submit  BY <1>6, SubmitIsNext DEF Tops
    <3>2. QED BY <1>6, <2>3, <2>4, <3>1 DEF Submit, SubmitBehindOthers, Submitted, Top, Tops
  <2>6. i \in Nat  BY <1>1, <2>4, <2>5, SubmitIdleData
  <2>7. Puts2(At("flushWrites"), Step("submitted", i, "none"))
    BY <1>1, <2>5, <2>6, SubmitIdleMoves
  <2>8. stack'[1].at = "flushWrites"  BY <2>7 DEF Puts2, At, Step
  <2>9. ~(k > 2)
    <3>1. /\ Len(stack') = 2 + Len(stack) - 1
          /\ \A m \in 2+1..Len(stack') : m - 2 + 1 \in DOMAIN stack /\ stack'[m] = stack[m - 2 + 1]
      BY <2>7 DEF Puts2, Moves
    <3>2. QED BY <1>4, <2>1, <3>1
  <2>10. k # 1  BY <2>8
  <2>11. QED BY <1>4, <2>9, <2>10
<1>7. CASE ~Tops({"submit"})
  <2>1. ~New(stack'[k])  BY <1>7 DEF New, NewNative
  <2>2. PICK m \in DOMAIN stack : stack'[k] = stack[m] /\ m + Len(stack') = k + Len(stack)
    BY <1>1, <1>2, <2>1, EachStep
  <2>3. m = 2 /\ Tops(FlushSteps)
    <3>1. CASE New(stack'[j])
      <4>1. stack # <<>>  BY <1>3, <2>2, EmptySeq
      <4>2. Tops({"activate"}) \/ Tops({"flushWrites"}) \/ Tops({"writing"}) \/ Tops({"peerClosed"})
        BY <1>7, <3>1, <4>1 DEF New, NewNative, FlushSteps, Tops
      <4>3. 1 \in DOMAIN stack /\ Head(stack) = stack[1]  BY <1>1, <4>1, StackIndexes
      <4>4. m # 1  BY <2>2, <4>2, <4>3 DEF Tops
      <4>5. m > 1  BY <1>3, <4>4
      <4>6. stack[1].at \in Inner  BY <1>5, <2>2, <4>5
      <4>7. stack[1].at \in FlushSteps  BY <4>2, <4>3, <4>6 DEF Tops, Inner, FlushSteps
      <4>8. m = 2  BY <2>2, <4>3, <4>5, <4>7 DEF Direct
      <4>9. QED BY <4>1, <4>3, <4>7, <4>8 DEF Tops
    <3>2. ASSUME NEW p \in DOMAIN stack, stack'[j] = stack[p], p + Len(stack') = j + Len(stack)
          PROVE  m = 2 /\ Tops(FlushSteps)
      <4>1. p < m  BY <1>3, <1>4, <2>2, <3>2
      <4>2. m = 2  BY <2>2, <3>2, <4>1 DEF Direct
      <4>3. p = 1  BY <1>3, <4>1, <4>2
      <4>4. stack # <<>> /\ Head(stack) = stack[1]  BY <1>5, <2>2, <4>2
      <4>5. QED BY <3>2, <4>2, <4>3, <4>4 DEF Tops
    <3>3. QED BY <1>1, <1>2, <3>1, <3>2, EachStep
  <2>4. UNCHANGED stack \/ Drops \/ \E a : Puts1(a)  BY <2>2, <2>3, ShortFlush
  <2>5. Len(stack') <= Len(stack)
    <3>1. CASE UNCHANGED stack  BY <1>3, <3>1
    <3>2. CASE Drops  BY <1>3, <3>2 DEF Drops, Moves
    <3>3. CASE \E a : Puts1(a)  BY <1>3, <3>3 DEF Puts1, Moves
    <3>4. QED BY <2>4, <3>1, <3>2, <3>3
  <2>6. QED BY <1>3, <1>4, <2>2, <2>3, <2>5
<1>8. QED BY <1>6, <1>7

\* A message that was sent while its submit() runs is found sent: nothing closes the transport
\* in between.
LEMMA SentOpenNext ==
    ASSUME WriteInv, Flushes, Direct, AppGrace, SentOpen, Next PROVE SentOpen'
<1>1. BaseInv /\ TypeInv /\ StackTyped /\ StackInv /\ AtSubmit /\ QueueInv
  BY LifeFacts DEF WriteInv
<1>2. Pushed /\ HandleChanges  BY <1>1, PushNext, VarsNext
<1>3. DOMAIN stack = 1..Len(stack) /\ Len(stack) \in Nat  BY <1>1, StackIndexes
<1>4. DOMAIN stack' = 1..Len(stack') /\ Len(stack') \in Nat
  <2>1. stack' \in Seq(Steps)  BY <1>2 DEF Pushed, Pushes, Moves
  <2>2. QED BY <2>1, LenProperties
<1> SUFFICES ASSUME NEW k \in DOMAIN stack', stack'[k].at = "submitted",
                    requests'[stack'[k].on].kind = "app",
                    requests'[stack'[k].on].outcome = "sent", ~ClosedBeforeResponse'
             PROVE  ~closing' /\ (k = 1 \/ (k = 2 /\ stack'[1].at \in {"writing", "performTLSShutdown"}))
  BY DEF SentOpen
<1>5. ~ClosedBeforeResponse  BY <1>1, StillBefore
<1>6. ~New(stack'[k])
  <2> SUFFICES ASSUME New(stack'[k]) PROVE FALSE  OBVIOUS
  <2>1. Tops({"submit"}) /\ stack'[k].on = Head(stack).on  BY DEF New, NewNative
  <2>2. Head(stack).on \in DOMAIN requests /\ requests[Head(stack).on].outcome = "pending"
    BY <1>1, <2>1 DEF AtSubmit, Tops
  <2>3. ~Decides(Head(stack).on)  BY <2>1 DEF Decides, Tops
  <2>4. requests'[Head(stack).on].outcome = "pending"  BY <2>2, <2>3, OutcomeNext
  <2>5. QED BY <2>1, <2>4
<1>7. PICK j \in DOMAIN stack : stack'[k] = stack[j] /\ j + Len(stack') = k + Len(stack)
  BY <1>1, <1>2, <1>6, EachStep
<1>8. PICK i : i = stack[j].on  OBVIOUS
<1>9. stack[j].at = "submitted" /\ i \in DOMAIN requests /\ requests'[i].outcome = "sent"
      /\ requests'[i].kind = "app" /\ Flushed(i, requests, queue)
  BY <1>7, <1>8 DEF Flushes, Flushed
<1>10. requests[i].kind = "app"  BY <1>9, OutcomeNext
<1>11. stack # <<>> /\ 1 \in DOMAIN stack /\ Head(stack) = stack[1]
  <2>1. stack # <<>>  BY <1>3, EmptySeq
  <2>2. QED BY <1>1, <2>1, StackIndexes
<1>12. CASE requests[i].outcome = "sent"
  <2>1. ~closing /\ (j = 1 \/ (j = 2 /\ stack[1].at \in {"writing", "performTLSShutdown"}))
    BY <1>5, <1>8, <1>9, <1>10, <1>12 DEF SentOpen
  <2>2. j # 1
    <3> SUFFICES ASSUME j = 1 PROVE FALSE  OBVIOUS
    <3>1. Tops({"submitted"})  BY <1>9, <1>11 DEF Tops
    <3>2. \A m \in DOMAIN stack : m > 1 => stack[m].at # "submitted"
      <4> SUFFICES ASSUME NEW m \in DOMAIN stack, m > 1, stack[m].at = "submitted" PROVE FALSE
        OBVIOUS
      <4>1. InnerStep(stack[1], readyState)  BY <1>11 DEF Flushes
      <4>2. QED BY <1>9, <4>1 DEF InnerStep, Inner
    <3>3. QED BY <1>1, <1>7, <1>9, <3>1, <3>2, SubmittedGone
  <2>3. j = 2 /\ stack[1].at \in {"writing", "performTLSShutdown"}  BY <2>1, <2>2
  <2>4. ~closing'  BY <1>2, <1>11, <2>1, <2>3 DEF HandleChanges, Tops
  <2>5. Drops => k = 1  BY <1>3, <1>4, <1>7, <2>3 DEF Drops, Moves
  <2>6. \A a : Puts1(a) => k = 2 /\ stack'[1] = a
    BY <1>3, <1>4, <1>7, <2>3 DEF Puts1, Moves
  <2>7. CASE stack[1].at = "writing"
    <3>1. queue = <<>>
      <4> SUFFICES ASSUME queue # <<>> PROVE FALSE  OBVIOUS
      <4>1. 1 \in DOMAIN queue /\ queue[1] = i  BY <1>1, <1>9, QueueFacts DEF Flushed
      <4>2. Queued(i)  BY <4>1 DEF Queued
      <4>3. QED BY <1>1, <1>9, <1>12, <4>2 DEF QueueInv, PendingIsQueued
    <3>2. Writing  BY <1>11, <2>7, StepNext DEF Submitters, Shutdowns, Upcalls
    <3>3. Drops \/ Puts1(At("performTLSShutdown"))
      BY <1>1, <3>1, <3>2, WritingMoves DEF Sending
    <3>4. At("performTLSShutdown").at = "performTLSShutdown"  BY DEF At, Step
    <3>5. QED BY <2>4, <2>5, <2>6, <3>3, <3>4
  <2>8. CASE stack[1].at = "performTLSShutdown"
    <3>1. PerformTLSShutdown  BY <1>11, <2>8, StepNext DEF Submitters, Shutdowns, Upcalls
    <3>2. ~graceful  BY <1>5, <1>8, <1>9, <1>10 DEF AppGrace, Submitters
    <3>3. Drops  BY <1>1, <3>1, <3>2, PerformTLSShutdownMoves DEF ShutdownDue
    <3>4. QED BY <2>4, <2>5, <3>3
  <2>9. QED BY <2>3, <2>7, <2>8
<1>13. CASE requests[i].outcome # "sent"
  <2>1. Tops({"writing"}) /\ ~closing /\ i = First /\ queue # <<>> /\ requests[i].outcome = "pending"
    BY <1>9, <1>13, OutcomeNext DEF Decides
  <2>2. j # 1  BY <1>9, <1>11, <2>1 DEF Tops
  <2>3. j > 1 /\ stack[1].at = "writing"  BY <1>3, <1>11, <2>1, <2>2 DEF Tops
  <2>4. j = 2  BY <1>9, <1>11, <2>3 DEF Direct, FlushSteps
  <2>5. Writing  BY <1>11, <2>1, StepNext DEF Submitters, Shutdowns, Upcalls, Tops
  <2>6. ~Stopping  BY <1>9, <1>13 DEF Stopping
  <2>7. PICK n \in Nat : Sending(n)  BY <1>1, <2>5, <2>6, WritingMoves
  <2>8. ~HasCallback(First)  BY <1>9, <2>1 DEF Flushed, HasCallback
  <2>9. UNCHANGED stack
    <3>1. Wrote(n)  BY <2>7 DEF Sending
    <3>2. QED BY <1>1, <2>1, <2>8, <3>1, WroteMoves
  <2>10. k = 2 /\ stack'[1].at = "writing"  BY <1>3, <1>4, <1>7, <2>3, <2>4, <2>9
  <2>11. ~closing'  BY <1>2, <2>1 DEF HandleChanges, Tops
  <2>12. QED BY <2>10, <2>11
<1>14. QED BY <1>12, <1>13

\* What a send() is told is true, of its request r, now that the transport closes (c) or
\* the peer closed before the response (b).
Fits(result, r, c, b) ==
    /\ r.kind = "app"
    /\ result = "ok" => r.outcome = "sent"
    /\ result = "nobufs" => c /\ r.outcome # "sent"
    /\ result = "error" => b \/ (c /\ r.outcome # "sent")
Result(why) == IF why = "sync" THEN "ok" ELSE why
\* A step that tells JavaScript what became of a send().
Tells(s, kind) ==
    s.at = "writeCallback" \/ (s.at = "_finishNativeWrite" /\ s.why # "async" /\ kind = "app")
Truthful ==
    \A k \in DOMAIN stack :
        Tells(stack[k], requests[stack[k].on].kind) =>
            Fits(Result(stack[k].why), requests[stack[k].on], closing, ClosedBeforeResponse)
AnswersTrue ==
    \A k \in DOMAIN answers :
        /\ answers[k].request \in DOMAIN requests
        /\ Fits(answers[k].result, requests[answers[k].request], closing, ClosedBeforeResponse)

\* What was true of a request stays true.
LEMMA FitsStays ==
    ASSUME WriteInv, Next, NEW i \in DOMAIN requests, NEW result,
           Fits(result, requests[i], closing, ClosedBeforeResponse)
    PROVE  i \in DOMAIN requests' /\ Fits(result, requests'[i], closing', ClosedBeforeResponse')
<1>1. BaseInv  BY LifeFacts
<1>2. HandleChanges  BY VarsNext
<1>3. closing => closing'  BY <1>2 DEF HandleChanges
<1>4. ClosedBeforeResponse => ClosedBeforeResponse'  BY <1>1, StillBefore
<1>5. /\ i \in DOMAIN requests' /\ requests'[i].kind = requests[i].kind
      /\ requests'[i].outcome = requests[i].outcome \/ Decides(i)
  BY OutcomeNext
<1>6. requests[i].outcome = "sent" => requests'[i].outcome = "sent"  BY <1>5 DEF Decides
<1>7. closing /\ requests[i].outcome # "sent" => requests'[i].outcome # "sent"
  BY <1>5 DEF Decides
<1>8. QED BY <1>3, <1>4, <1>5, <1>6, <1>7 DEF Fits

\* So every answer given is and stays true.
LEMMA AnswersTrueNext ==
    ASSUME WriteInv, Truthful, AnswersTrue, Next PROVE AnswersTrue'
<1>1. BaseInv /\ StackTyped  BY LifeFacts
<1> SUFFICES ASSUME NEW k \in DOMAIN answers'
             PROVE  /\ answers'[k].request \in DOMAIN requests'
                    /\ Fits(answers'[k].result, requests'[answers'[k].request], closing',
                            ClosedBeforeResponse')
  BY DEF AnswersTrue
<1>2. ASSUME NEW i \in DOMAIN requests, NEW result, answers'[k] = [request |-> i, result |-> result],
             Fits(result, requests[i], closing, ClosedBeforeResponse)
      PROVE  /\ answers'[k].request \in DOMAIN requests'
             /\ Fits(answers'[k].result, requests'[answers'[k].request], closing',
                     ClosedBeforeResponse')
  <2>1. i \in DOMAIN requests' /\ Fits(result, requests'[i], closing', ClosedBeforeResponse')
    BY <1>2, FitsStays
  <2>2. QED BY <1>2, <2>1
<1>3. CASE k \in DOMAIN answers /\ answers'[k] = answers[k]
  <2>1. PICK i, result : i = answers[k].request /\ result = answers[k].result  OBVIOUS
  <2>2. i \in DOMAIN requests /\ Fits(result, requests[i], closing, ClosedBeforeResponse)
    BY <1>3, <2>1 DEF AnswersTrue
  <2>3. i \in DOMAIN requests' /\ Fits(result, requests'[i], closing', ClosedBeforeResponse')
    BY <2>2, FitsStays
  <2>4. QED BY <1>3, <2>1, <2>3
<1>4. CASE FromNative \/ FinishNativeWrite
  <2>1. stack # <<>>  BY <1>4 DEF FromNative, FinishNativeWrite, Top
  <2>2. 1 \in DOMAIN stack /\ Head(stack) = stack[1]  BY <1>1, <2>1, StackIndexes
  <2>3. PICK i, why : i = Head(stack).on /\ why = Head(stack).why  OBVIOUS
  <2>4. ASSUME NEW result, Answered(i, result), Tells(Head(stack), requests[i].kind),
               result = Result(why), i \in DOMAIN requests
        PROVE  /\ answers'[k].request \in DOMAIN requests'
               /\ Fits(answers'[k].result, requests'[answers'[k].request], closing',
                       ClosedBeforeResponse')
    <3>1. Fits(result, requests[i], closing, ClosedBeforeResponse)
      BY <2>2, <2>3, <2>4 DEF Truthful
    <3>2. \/ k \in DOMAIN answers /\ answers'[k] = answers[k]
          \/ answers'[k] = [request |-> i, result |-> result]
      BY <2>4 DEF Answered
    <3>3. QED BY <1>2, <1>3, <2>4, <3>1, <3>2
  <2>5. Head(stack).at \in RequestSteps => i \in DOMAIN requests  BY <1>1, <2>1, <2>3, TopOn
  <2>6. CASE Head(stack).at = "writeCallback" /\ Answered(i, why)
    <3>1. why # "sync"
      <4>1. Form(Head(stack), Len(requests), closing)  BY <1>1, <2>1, TopOn
      <4>2. QED BY <2>3, <2>6, <4>1 DEF Form
    <3>2. QED BY <2>4, <2>5, <2>6, <3>1 DEF Tells, Result, RequestSteps
  <2>7. CASE /\ Head(stack).at = "_finishNativeWrite" /\ requests[i].kind = "app"
             /\ \/ why = "sync" /\ Answered(i, "ok")
                \/ why = "error" /\ Answered(i, "error")
    BY <2>3, <2>4, <2>5, <2>7 DEF Tells, Result, RequestSteps
  <2>8. CASE UNCHANGED answers  BY <1>3, <2>8
  <2>9. FinishNativeWrite => Head(stack).at = "_finishNativeWrite"  BY DEF FinishNativeWrite, Top
  <2>10. QED BY <1>1, <2>3, <2>6, <2>7, <2>8, <2>9, AnswersNext
<1>5. CASE UNCHANGED answers  BY <1>3, <1>5
<1>6. QED BY <1>1, <1>4, <1>5, AnswersNext

\* A new request waits, or was refused, and nothing else changes.
LEMMA NewOutcome ==
    ASSUME WriteInv, Next, NEW i \in DOMAIN requests', i \notin DOMAIN requests
    PROVE  /\ UNCHANGED queue /\ requests'[i].outcome \in {"pending", "refused"}
           /\ \A j \in DOMAIN requests : j \in DOMAIN requests' /\ requests'[j] = requests[j]
<1>1. BaseInv  BY LifeFacts
<1>2. CASE Submits
  <2>1. PICK kind \in Kinds, size \in Nat \ {0} : Adds(NewOne(kind, size))  BY <1>2 DEF Submits
  <2>2. requests'[i] = NewOne(kind, size)  BY <2>1 DEF Adds
  <2>3. QED BY <1>2, <2>1, <2>2 DEF NewOne, Adds, Submits
<1>3. CASE Refuses
  <2>1. PICK size \in Nat \ {0} : Adds(Refused(size))  BY <1>3 DEF Refuses
  <2>2. requests'[i] = Refused(size)  BY <2>1 DEF Adds
  <2>3. QED BY <1>3, <2>1, <2>2 DEF Refused, Adds, Refuses
<1>4. ASSUME NEW m \in Nat, Enters(m) \/ Waits(m) PROVE DOMAIN requests' = DOMAIN requests
  BY <1>4 DEF Enters, Waits, Edits
<1>5. ASSUME NEW n \in Nat, Sending(n) PROVE DOMAIN requests' = DOMAIN requests
  BY <1>1, <1>5, SendingData DEF Edits
<1>6. CancelWrite => DOMAIN requests' = DOMAIN requests
  BY <1>1, CancelWriteData DEF Edits
<1>7. Changes  BY <1>1, ChangesNext
<1>8. ~Stays  BY DEF Stays
<1>9. QED BY <1>2, <1>3, <1>4, <1>5, <1>6, <1>7, <1>8 DEF Changes

\* What a call in progress is about to tell is true.
LEMMA TruthfulNext ==
    ASSUME LifeInv, Flushes, Ends, SentOpen, Truthful, Next PROVE Truthful'
<1>1. WriteInv  BY DEF LifeInv
<1>2. BaseInv /\ TypeInv /\ StackTyped /\ StackInv /\ AtSubmit /\ QueueInv
  BY <1>1, LifeFacts DEF WriteInv
<1>3. Pushed /\ HandleChanges  BY <1>2, PushNext, VarsNext
<1>4. DOMAIN requests = 1..Len(requests) /\ Len(requests) \in Nat /\ NextRequest \notin DOMAIN requests
  BY <1>2, RequestIndexes DEF NextRequest
<1> SUFFICES ASSUME NEW k \in DOMAIN stack', NEW s, s = stack'[k], NEW i, i = s.on,
                    Tells(s, requests'[i].kind)
             PROVE  Fits(Result(s.why), requests'[i], closing', ClosedBeforeResponse')
  BY DEF Truthful
<1>5. s.at \in RequestSteps  BY DEF Tells, RequestSteps
<1>6. i \in DOMAIN requests'
  <2>1. Formed'  BY <1>2, StackNext
  <2>2. Form(s, Len(requests'), closing')  BY <2>1 DEF Formed
  <2>3. i \in 1..Len(requests')  BY <1>5, <2>2 DEF Form
  <2>4. RequestsGrow  BY <1>2, RequestsNext
  <2>5. QED BY <2>3, <2>4, LenProperties DEF RequestsGrow
<1>7. CASE ~New(s)
  <2>1. PICK j \in DOMAIN stack : s = stack[j]  BY <1>2, <1>3, <1>7, EachStep
  <2>2. Form(s, Len(requests), closing)  BY <1>2, <2>1 DEF BaseInv, Formed
  <2>3. i \in DOMAIN requests  BY <1>4, <1>5, <2>2 DEF Form
  <2>4. Tells(s, requests[i].kind)  BY <1>1, <2>3, OutcomeNext
  <2>5. Fits(Result(s.why), requests[i], closing, ClosedBeforeResponse)  BY <2>1, <2>4 DEF Truthful
  <2>6. PICK result : result = Result(s.why)  OBVIOUS
  <2>7. Fits(result, requests'[i], closing', ClosedBeforeResponse')
    BY <1>1, <2>3, <2>5, <2>6, FitsStays
  <2>8. QED BY <2>6, <2>7
<1>8. CASE New(s) /\ s.at = "writeCallback"
  <2>1. queue # <<>> /\ i = First /\ HasCallback(First)  BY <1>8 DEF New, NewCall
  <2>2. First \in DOMAIN requests /\ 1 \in DOMAIN queue /\ queue[1] = First  BY <1>2, <2>1, QueueFacts
  <2>3. requests'[i].kind = "app" /\ (requests'[i].outcome = requests[i].outcome \/ Decides(i))
    BY <1>1, <2>1, <2>2, OutcomeNext DEF HasCallback
  <2>4. CASE Tops({"writing"}) /\ ~closing /\ s.why = "ok" /\ requests'[First].outcome = "sent"
    BY <2>1, <2>3, <2>4 DEF Fits, Result
  <2>5. CASE Tops({"cancelWrites"}) /\ s.why \in {"nobufs", "error"}
    <3>1. closing'
      <4>1. closing  BY <1>2, <2>5, TopOn DEF Form, Tops
      <4>2. QED BY <1>3, <4>1 DEF HandleChanges
    <3>2. requests[i].outcome = "pending"
      <4>1. Queued(i)  BY <2>1, <2>2 DEF Queued
      <4>2. QED BY <1>2, <2>1, <2>2, <4>1 DEF QueueInv, PendingIsQueued
    <3>3. requests'[i].outcome # "sent"  BY <2>3, <2>5, <3>2 DEF Decides, Tops
    <3>4. QED BY <2>3, <2>5, <3>1, <3>3 DEF Fits, Result
  <2>6. QED BY <1>8, <2>4, <2>5 DEF New, NewCall
<1>9. CASE New(s) /\ s.at = "_finishNativeWrite"
  <2>1. requests'[i].kind = "app" /\ s.why # "async"  BY <1>9 DEF Tells
  <2>2. CASE Tops({"submitted"}) /\ i = Head(stack).on /\ (closing \/ ~Contains(queue, i))
             /\ s.why = (IF closing THEN "error" ELSE "sync")
    <3>1. stack # <<>> /\ Head(stack).at = "submitted"  BY <2>2 DEF Tops
    <3>2. 1 \in DOMAIN stack /\ Head(stack) = stack[1]  BY <1>2, <3>1, StackIndexes
    <3>3. i \in DOMAIN requests  BY <1>2, <2>2, <3>1, TopOn DEF RequestSteps
    <3>4. ~Decides(i)  BY <3>1 DEF Decides, Tops
    <3>5. requests'[i].outcome = requests[i].outcome /\ requests[i].kind = "app"
      BY <1>1, <2>1, <3>3, <3>4, OutcomeNext
    <3>6. CASE closing
      <4>1. closing'  BY <1>3, <3>6 DEF HandleChanges
      <4>2. requests[i].outcome = "sent" => ClosedBeforeResponse
        BY <2>2, <3>1, <3>2, <3>5, <3>6 DEF SentOpen
      <4>3. ClosedBeforeResponse => ClosedBeforeResponse'  BY <1>2, StillBefore
      <4>4. QED BY <2>1, <2>2, <3>5, <3>6, <4>1, <4>2, <4>3 DEF Fits, Result
    <3>7. CASE ~closing
      <4>1. queue = <<>>  BY <1>1, <2>2, <3>7, NotContained
      <4>2. ~Queued(i)
        <5>1. DOMAIN queue = {}  BY <4>1
        <5>2. QED BY <5>1 DEF Queued
      <4>3. ~Submitting(i)  BY <3>1 DEF Submitting
      <4>4. requests[i].outcome # "pending"
        BY <1>2, <3>3, <4>2, <4>3 DEF QueueInv, PendingIsQueued
      <4>5. requests[i].outcome = "sent"  BY <3>3, <3>7, <4>4 DEF Ends
      <4>6. QED BY <2>1, <2>2, <3>5, <3>7, <4>5 DEF Fits, Result
    <3>8. QED BY <1>2, <3>6, <3>7 DEF TypeInv
  <2>3. CASE readyState = "OPEN" /\ i = NextRequest /\ s.why = "error" /\ ~writable
    <3>1. closing
      <4>1. ~destroyRequested  BY <2>3 DEF LifeInv, Destroys
      <4>2. QED BY <2>3, <4>1 DEF writable
    <3>2. closing'  BY <1>3, <3>1 DEF HandleChanges
    <3>3. requests'[i].outcome \in {"pending", "refused"}  BY <1>1, <1>4, <1>6, <2>3, NewOutcome
    <3>4. QED BY <2>1, <2>3, <3>2, <3>3 DEF Fits, Result
  <2>4. QED
    <3>1. /\ \/ /\ Tops(Submitters) /\ s.on = Head(stack).on
                /\ \/ s.why = "async"
                   \/ s.why = "sync" /\ Tops({"submitted"}) /\ ~closing /\ ~Contains(queue, s.on)
                   \/ s.why = "error" /\ Tops({"submitted"}) /\ closing
             \/ MayAct /\ readyState = "OPEN" /\ s.on = NextRequest /\ s.why = "error" /\ ~writable
      BY <1>9 DEF New, NewScript
    <3>2. QED BY <2>1, <2>2, <2>3, <3>1
<1>10. QED BY <1>7, <1>8, <1>9 DEF Tells

\* Only send() makes a message.
LEMMA AppComes ==
    ASSUME BaseInv, Next, NEW i \in DOMAIN requests', i \notin DOMAIN requests, requests'[i].kind = "app"
    PROVE  Send
<1>1. OneMore
  <2>1. SameKinds \/ OneMore  BY KindsNext
  <2>2. QED BY <2>1 DEF SameKinds
<1>2. DOMAIN requests = 1..Len(requests) /\ Len(requests) \in Nat  BY RequestIndexes
<1>3. i = Len(requests')  BY <1>1, <1>2 DEF OneMore
<1>4. MayAct  BY <1>1, <1>3 DEF OneMore, NewKind, Owned
<1>5. ~Quiet  BY DEF Quiet
<1>6. ~QuietNative /\ ~QuietScript  BY <1>5, NativeQuiet, ScriptQuiet
<1>7. ~Close
  <2>1. ASSUME Close PROVE FALSE
    <3>1. Adds(NewOne("close", 1)) \/ UNCHANGED requests  BY <2>1, CloseData
    <3>2. Adds(NewOne("close", 1))  BY <3>1
    <3>3. requests'[i] = NewOne("close", 1)  BY <3>2 DEF Adds
    <3>4. QED BY <3>3 DEF NewOne
  <2>2. QED BY <2>1
<1>8. CASE stack = <<>>
  BY <1>6, <1>7, <1>8, EventNext DEF QuietNative, QuietScript
<1>9. CASE stack # <<>> /\ Head(stack).at = "user"
  <2>1. UserReturns \/ Send \/ Close \/ UserTerminate
    BY <1>9, StepNext DEF Submitters, Shutdowns, Upcalls
  <2>2. QED BY <1>6, <1>7, <2>1 DEF QuietScript
<1>10. QED BY <1>4, <1>8, <1>9, MayActTop

\* A call in progress that has the answer to send(i) yet to give, or to leave to the queue.
Awaits(s, i) == s.on = i /\ (s.at \in Submitters \/ Tells(s, "app"))
AwaitsTop(i) == stack # <<>> /\ Awaits(Head(stack), i)
Calling(i) == \E k \in DOMAIN stack : Awaits(stack[k], i)
Sole(i) == \A j, k \in DOMAIN stack : Awaits(stack[j], i) /\ Awaits(stack[k], i) => j = k
Due(i) == Queued(i) /\ requests[i].deferred
ToldOf(i) == \E k \in DOMAIN answers : answers[k].request = i
Single(i) == \A j, k \in DOMAIN answers : answers[j].request = i /\ answers[k].request = i => j = k
OneOf(a, b, c) == (a \/ b \/ c) /\ ~(a /\ b) /\ ~(a /\ c) /\ ~(b /\ c)
Owed ==
    \A i \in DOMAIN requests : requests[i].kind = "app" =>
        Sole(i) /\ Single(i) /\ OneOf(Calling(i), Due(i), ToldOf(i))

\* After a call that awaits an answer went on, only the steps that took its place may await it.
LEMMA AwaitsAmong ==
    ASSUME StackTyped, NEW i, Sole(i), AwaitsTop(i), NEW n \in Nat, Moves(n, 1),
           NEW k \in DOMAIN stack', Awaits(stack'[k], i)
    PROVE  k \in 1..n
<1>1. /\ stack' \in Seq(Steps) /\ Len(stack') = n + Len(stack) - 1
      /\ \A m \in n+1..Len(stack') : m - n + 1 \in DOMAIN stack /\ stack'[m] = stack[m - n + 1]
  BY DEF Moves
<1>2. DOMAIN stack' = 1..Len(stack') /\ Len(stack') \in Nat  BY <1>1, LenProperties
<1>3. stack # <<>>  BY DEF AwaitsTop
<1>4. 1 \in DOMAIN stack /\ Awaits(stack[1], i)  BY <1>3, StackIndexes DEF AwaitsTop
<1>5. ASSUME k > n PROVE FALSE
  <2>1. k - n + 1 \in DOMAIN stack /\ stack'[k] = stack[k - n + 1]  BY <1>1, <1>2, <1>5
  <2>2. Awaits(stack[k - n + 1], i)  BY <2>1
  <2>3. k - n + 1 = 1  BY <1>4, <2>1, <2>2 DEF Sole
  <2>4. QED BY <1>2, <1>5, <2>3
<1>6. QED BY <1>2, <1>5

\* The steps that replace a call that awaits an answer: none awaits it, or the first.
LEMMA AwaitsMoves ==
    ASSUME StackTyped, NEW i, Sole(i), AwaitsTop(i)
    PROVE  /\ Drops => ~Calling(i)'
           /\ \A a : Puts1(a) => Sole(i)' /\ (Calling(i)' <=> Awaits(a, i))
           /\ \A a, b : Puts2(a, b) /\ ~Awaits(a, i) => Sole(i)' /\ (Calling(i)' <=> Awaits(b, i))
           /\ \A a, b, c : Puts3(a, b, c) /\ ~Awaits(a, i) /\ ~Awaits(b, i) /\ ~Awaits(c, i)
                => ~Calling(i)'
<1>1. Drops => ~Calling(i)'
  <2>1. ASSUME Drops, NEW k \in DOMAIN stack', Awaits(stack'[k], i) PROVE FALSE
    <3>1. k \in 1..0  BY <2>1, AwaitsAmong DEF Drops
    <3>2. QED BY <3>1
  <2>2. QED BY <2>1 DEF Calling
<1>2. ASSUME NEW a, Puts1(a) PROVE Sole(i)' /\ (Calling(i)' <=> Awaits(a, i))
  <2>1. \A k \in DOMAIN stack' : Awaits(stack'[k], i) => k = 1
    <3>1. \A k \in DOMAIN stack' : Awaits(stack'[k], i) => k \in 1..1
      BY <1>2, AwaitsAmong DEF Puts1
    <3>2. QED BY <3>1
  <2>2. 1 \in DOMAIN stack' /\ stack'[1] = a  BY <1>2 DEF Puts1
  <2>3. QED BY <2>1, <2>2 DEF Sole, Calling
<1>3. ASSUME NEW a, NEW b, Puts2(a, b), ~Awaits(a, i)
      PROVE  Sole(i)' /\ (Calling(i)' <=> Awaits(b, i))
  <2>1. 2 \in DOMAIN stack' /\ stack'[1] = a /\ stack'[2] = b  BY <1>3 DEF Puts2
  <2>2. \A k \in DOMAIN stack' : Awaits(stack'[k], i) => k = 2
    <3>1. \A k \in DOMAIN stack' : Awaits(stack'[k], i) => k \in 1..2
      BY <1>3, AwaitsAmong DEF Puts2
    <3>2. QED BY <1>3, <2>1, <3>1
  <2>3. QED BY <2>1, <2>2 DEF Sole, Calling
<1>4. ASSUME NEW a, NEW b, NEW c, Puts3(a, b, c), ~Awaits(a, i), ~Awaits(b, i), ~Awaits(c, i)
      PROVE  ~Calling(i)'
  <2>1. stack'[1] = a /\ stack'[2] = b /\ stack'[3] = c  BY <1>4 DEF Puts3
  <2>2. \A k \in DOMAIN stack' : Awaits(stack'[k], i) => k \in 1..3
    BY <1>4, AwaitsAmong DEF Puts3
  <2>3. \A k \in 1..3 : k = 1 \/ k = 2 \/ k = 3  OBVIOUS
  <2>4. \A k \in DOMAIN stack' : ~Awaits(stack'[k], i)  BY <1>4, <2>1, <2>2, <2>3
  <2>5. QED BY <2>4 DEF Calling
<1>5. QED BY <1>1, <1>2, <1>3, <1>4

\* When no step that awaits i goes or comes.
LEMMA AwaitsStays ==
    ASSUME StackTyped, Pushed, NEW i, Sole(i), ~AwaitsTop(i),
           \A k \in DOMAIN stack' : New(stack'[k]) => ~Awaits(stack'[k], i)
    PROVE  Sole(i)' /\ (Calling(i)' <=> Calling(i))
<1>1. DOMAIN stack = 1..Len(stack) /\ Len(stack) \in Nat  BY StackIndexes
<1>2. DOMAIN stack' = 1..Len(stack') /\ Len(stack') \in Nat
  <2>1. stack' \in Seq(Steps)  BY DEF Pushed, Pushes, Moves
  <2>2. QED BY <2>1, LenProperties
<1>3. \A k \in DOMAIN stack' : Awaits(stack'[k], i) =>
        \E j \in DOMAIN stack : Awaits(stack[j], i) /\ j + Len(stack') = k + Len(stack)
  BY EachStep
<1>4. Sole(i)'
  <2> SUFFICES ASSUME NEW m \in DOMAIN stack', NEW k \in DOMAIN stack',
                      Awaits(stack'[m], i), Awaits(stack'[k], i)
               PROVE  m = k
    BY DEF Sole
  <2>1. PICK p \in DOMAIN stack : Awaits(stack[p], i) /\ p + Len(stack') = m + Len(stack)  BY <1>3
  <2>2. PICK q \in DOMAIN stack : Awaits(stack[q], i) /\ q + Len(stack') = k + Len(stack)  BY <1>3
  <2>3. p = q  BY <2>1, <2>2 DEF Sole
  <2>4. QED BY <1>1, <1>2, <2>1, <2>2, <2>3
<1>5. Calling(i)' => Calling(i)  BY <1>3 DEF Calling
<1>6. Calling(i) => Calling(i)'
  <2> SUFFICES ASSUME NEW j \in DOMAIN stack, Awaits(stack[j], i) PROVE Calling(i)'
    BY DEF Calling
  <2>1. stack # <<>>  BY <1>1, EmptySeq
  <2>2. j # 1  BY <2>1, StackIndexes DEF AwaitsTop
  <2>3. j > 1  BY <1>1, <2>2
  <2>4. PICK k \in DOMAIN stack' : stack'[k] = stack[j]  BY <2>3, EachKept
  <2>5. QED BY <2>4 DEF Calling
<1>7. QED BY <1>4, <1>5, <1>6

\* But for the call itself, only a write callback comes to have an answer to give.
LEMMA NewAwaits ==
    ASSUME BaseInv, NEW i \in DOMAIN requests, NEW s, New(s), Awaits(s, i), ~AwaitsTop(i)
    PROVE  s.at = "writeCallback" /\ queue # <<>> /\ i = First /\ HasCallback(i)
           /\ (Tops({"writing"}) \/ Tops({"cancelWrites"}))
<1>1. NextRequest \notin DOMAIN requests
  BY RequestIndexes DEF NextRequest
<1>2. s.at # "submit"  BY <1>1 DEF New, NewScript, Awaits
<1>3. s.at # "submitted"
  BY DEF New, NewNative, Awaits, AwaitsTop, Tops, Submitters
<1>4. s.at # "_finishNativeWrite"
  <2> SUFFICES ASSUME s.at = "_finishNativeWrite" PROVE FALSE  OBVIOUS
  <2>1. s.on = NextRequest \/ (s.on = Head(stack).on /\ Tops(Submitters))  BY DEF New, NewScript
  <2>2. s.on = i  BY DEF Awaits
  <2>3. ~(Tops(Submitters) /\ Head(stack).on = i)  BY DEF AwaitsTop, Awaits, Tops
  <2>4. QED BY <1>1, <2>1, <2>2, <2>3
<1>5. s.at = "writeCallback" /\ s.on = i
  BY <1>2, <1>3, <1>4 DEF Awaits, Tells, Submitters
<1>6. QED BY <1>5 DEF New, NewCall

\* An answer is owed once.
OwedOnce(i) == Sole(i) /\ Single(i) /\ OneOf(Calling(i), Due(i), ToldOf(i))

\* The search of the community module finds what is queued.
LEMMA ContainsQueued == ASSUME BaseInv, NEW i PROVE Contains(queue, i) <=> Queued(i)
<1>1. DOMAIN queue = 1..Len(queue)  BY RequestIndexes
<1>2. QED BY <1>1 DEF Contains, Queued

\* Which steps await an answer.
LEMMA AwaitsSteps ==
    ASSUME NEW i
    PROVE  /\ \A name : name \notin RequestSteps => ~Awaits(At(name), i)
           /\ \A why : ~Awaits(CloseNow(why), i)
           /\ ~Awaits(Back(i, "async"), i)
           /\ Awaits(Back(i, "error"), i) /\ Awaits(Back(i, "sync"), i)
           /\ Awaits(Step("submitted", i, "none"), i) /\ Awaits(Step("submit", i, "none"), i)
           /\ \A why : Awaits(Step("writeCallback", i, why), i)
           /\ Awaits(Step("_finishNativeWrite", i, "error"), i)
  BY DEF Awaits, Tells, At, CloseNow, Step, Back, Submitters, RequestSteps

\* Nothing is told when no answer is given.
LEMMA SameAnswers ==
    ASSUME UNCHANGED answers, NEW i
    PROVE  (Single(i) => Single(i)') /\ (ToldOf(i)' <=> ToldOf(i))
  BY DEF Single, ToldOf

\* submit() leaves the answer to the queue, or to what follows its flush.
LEMMA OwedSubmit ==
    ASSUME WriteInv, Next, NEW i \in DOMAIN requests, requests[i].kind = "app", OwedOnce(i),
           Tops({"submit"}), Head(stack).on = i
    PROVE  OwedOnce(i)'
<1>1. BaseInv /\ TypeInv /\ StackTyped /\ AtSubmit /\ i \in Nat
  <2>1. BaseInv /\ TypeInv /\ StackTyped /\ AtSubmit  BY LifeFacts
  <2>2. QED BY <2>1, RequestIndexes
<1>2. stack # <<>> /\ Head(stack).at = "submit" /\ AwaitsTop(i) /\ Sole(i)
  BY DEF Tops, AwaitsTop, Awaits, Submitters, OwedOnce
<1>3. Calling(i)
  <2>1. 1 \in DOMAIN stack /\ Head(stack) = stack[1]  BY <1>1, <1>2, StackIndexes
  <2>2. QED BY <1>2, <2>1 DEF Calling, AwaitsTop
<1>4. ~ToldOf(i) /\ Single(i)  BY <1>3 DEF OwedOnce, OneOf
<1>5. UNCHANGED answers  BY <1>1, <1>2, AnswersNext DEF FinishNativeWrite, Top
<1>6. ~ToldOf(i)' /\ Single(i)'  BY <1>4, <1>5, SameAnswers
<1>7. SubmitBehindOthers(i) \/ SubmitIdle(i)
  <2>1. Submit  BY <1>2, SubmitIsNext
  <2>2. QED BY <1>2, <2>1 DEF Submit, Submitted, Top
<1>8. CASE SubmitBehindOthers(i)
  <2>1. Queues(i) /\ Edits(i, Deferred(requests[i])) /\ requests[i] \in Requests
    BY <1>1, <1>8, BehindOthersData
  <2>2. requests'[i].deferred /\ requests'[i].kind \notin Owned
    <3>1. requests'[i] = Deferred(requests[i])  BY <2>1 DEF Edits
    <3>2. Deferred(requests[i]).deferred /\ Deferred(requests[i]).kind = "app"
      BY <2>1 DEF Deferred, Requests
    <3>3. QED BY <3>1, <3>2 DEF Owned
  <2>3. Due(i)'  BY <2>1, <2>2 DEF Queues, Due, Queued
  <2>4. ~Awaits(At("_onNativeBackpressure"), i)  BY AwaitsSteps DEF RequestSteps
  <2>5. ~Awaits(CloseNow("nobufs"), i) /\ ~Awaits(Back(i, "async"), i)  BY AwaitsSteps
  <2>6. \/ Puts3(At("_onNativeBackpressure"), CloseNow("nobufs"), Back(i, "async"))
        \/ Puts1(Back(i, "async"))
    BY <1>1, <1>8, <2>2, BehindOthersMoves
  <2>7. ~Calling(i)'  BY <1>1, <1>2, <2>4, <2>5, <2>6, AwaitsMoves
  <2>8. Sole(i)'  BY <2>7 DEF Sole, Calling
  <2>9. QED BY <1>6, <2>3, <2>7, <2>8 DEF OwedOnce, OneOf
<1>9. CASE SubmitIdle(i)
  <2>1. Puts2(At("flushWrites"), Step("submitted", i, "none"))  BY <1>1, <1>9, SubmitIdleMoves
  <2>2. ~Awaits(At("flushWrites"), i)  BY AwaitsSteps DEF RequestSteps
  <2>3. Sole(i)' /\ Calling(i)'  BY <1>1, <1>2, <2>1, <2>2, AwaitsSteps, AwaitsMoves
  <2>4. UNCHANGED requests  BY <1>1, <1>9, SubmitIdleData
  <2>5. ~requests[i].deferred  BY <1>1, <1>2 DEF AtSubmit
  <2>6. ~Due(i)'  BY <2>4, <2>5 DEF Due
  <2>7. QED BY <1>6, <2>3, <2>6 DEF OwedOnce, OneOf
<1>10. QED BY <1>7, <1>8, <1>9

\* Which leaves it to the queue or to JavaScript.
LEMMA OwedSubmitted ==
    ASSUME WriteInv, Next, NEW i \in DOMAIN requests, requests[i].kind = "app", OwedOnce(i),
           Tops({"submitted"}), Head(stack).on = i
    PROVE  OwedOnce(i)'
<1>1. BaseInv /\ TypeInv /\ StackTyped /\ i \in Nat
  <2>1. BaseInv /\ TypeInv /\ StackTyped  BY LifeFacts
  <2>2. QED BY <2>1, RequestIndexes
<1>2. stack # <<>> /\ Head(stack).at = "submitted" /\ AwaitsTop(i) /\ Sole(i)
  BY DEF Tops, AwaitsTop, Awaits, Submitters, OwedOnce
<1>3. Calling(i)
  <2>1. 1 \in DOMAIN stack /\ Head(stack) = stack[1]  BY <1>1, <1>2, StackIndexes
  <2>2. QED BY <1>2, <2>1 DEF Calling, AwaitsTop
<1>4. ~ToldOf(i) /\ ~Due(i) /\ Single(i)  BY <1>3 DEF OwedOnce, OneOf
<1>5. UNCHANGED answers  BY <1>1, <1>2, AnswersNext DEF FinishNativeWrite, Top
<1>6. ~ToldOf(i)' /\ Single(i)'  BY <1>4, <1>5, SameAnswers
<1>7. Submitted(i)
  <2>1. Submit  BY <1>2, SubmitIsNext
  <2>2. QED BY <1>2, <2>1 DEF Submit, SubmitBehindOthers, SubmitIdle, Top
<1>8. UNCHANGED queue /\ requests[i] \in Requests /\ requests[i].kind \notin Owned
  BY <1>1, <1>7, SubmittedData DEF Owned
<1>9. CASE UNCHANGED requests /\ (Puts1(Back(i, "error")) \/ Puts1(Back(i, "sync")))
  <2>1. ~Due(i)'  BY <1>4, <1>8, <1>9 DEF Due, Queued
  <2>2. Sole(i)' /\ Calling(i)'  BY <1>1, <1>2, <1>9, AwaitsSteps, AwaitsMoves
  <2>3. QED BY <1>6, <2>1, <2>2 DEF OwedOnce, OneOf
<1>10. CASE /\ Contains(queue, i) /\ requests' = Defer(i)
            /\ \/ Puts3(At("_onNativeBackpressure"), CloseNow("nobufs"), Back(i, "async"))
               \/ Puts1(Back(i, "async"))
  <2>1. Edits(i, Deferred(requests[i]))  BY <1>1, <1>10, DeferEdits DEF TypeInv
  <2>2. requests'[i].deferred
    <3>1. requests'[i] = Deferred(requests[i])  BY <2>1 DEF Edits
    <3>2. Deferred(requests[i]).deferred  BY <1>8 DEF Deferred, Requests
    <3>3. QED BY <3>1, <3>2
  <2>3. Queued(i)'
    <3>1. Queued(i)  BY <1>1, <1>10, ContainsQueued
    <3>2. QED BY <1>8, <3>1 DEF Queued
  <2>4. ~Awaits(At("_onNativeBackpressure"), i)  BY AwaitsSteps DEF RequestSteps
  <2>5. ~Awaits(CloseNow("nobufs"), i) /\ ~Awaits(Back(i, "async"), i)  BY AwaitsSteps
  <2>6. ~Calling(i)'  BY <1>1, <1>2, <1>10, <2>4, <2>5, AwaitsMoves
  <2>7. Sole(i)'  BY <2>6 DEF Sole, Calling
  <2>8. QED BY <1>6, <2>2, <2>3, <2>6, <2>7 DEF OwedOnce, OneOf, Due
<1>11. QED BY <1>1, <1>7, <1>8, <1>9, <1>10, SubmittedMoves

\* An answer that is given is owed no more.
LEMMA OwedTold ==
    ASSUME WriteInv, Next, NEW i \in DOMAIN requests, requests[i].kind = "app", OwedOnce(i),
           stack # <<>>, Tells(Head(stack), "app"), Head(stack).on = i
    PROVE  OwedOnce(i)'
<1>1. BaseInv /\ TypeInv /\ StackTyped  BY LifeFacts
<1>2. AwaitsTop(i) /\ Sole(i)  BY DEF AwaitsTop, Awaits, OwedOnce
<1>3. Calling(i)
  <2>1. 1 \in DOMAIN stack /\ Head(stack) = stack[1]  BY <1>1, StackIndexes
  <2>2. QED BY <1>2, <2>1 DEF Calling, AwaitsTop
<1>4. ~ToldOf(i) /\ ~Due(i)  BY <1>3 DEF OwedOnce, OneOf
<1>5. ASSUME NEW result, Answered(i, result), FromNative \/ FinishNativeWrite, ~Calling(i)'
      PROVE  OwedOnce(i)'
  <2>1. UNCHANGED <<queue, requests>>  BY <1>1, <1>5, AnswersData
  <2>2. ~Due(i)'  BY <1>4, <2>1 DEF Due, Queued
  <2>3. /\ Len(answers) + 1 \in DOMAIN answers' /\ answers'[Len(answers) + 1].request = i
        /\ \A k \in DOMAIN answers : answers'[k] = answers[k]
        /\ \A k \in DOMAIN answers' : k \in DOMAIN answers \/ k = Len(answers) + 1
    BY <1>5 DEF Answered
  <2>4. ToldOf(i)'  BY <2>3 DEF ToldOf
  <2>5. \A k \in DOMAIN answers' : answers'[k].request = i => k = Len(answers) + 1
    BY <1>4, <2>3 DEF ToldOf
  <2>6. Single(i)'  BY <2>5 DEF Single
  <2>7. Sole(i)'  BY <1>5 DEF Sole, Calling
  <2>8. QED BY <1>5, <2>2, <2>4, <2>6, <2>7 DEF OwedOnce, OneOf
<1>6. CASE Head(stack).at = "writeCallback"
  <2>1. FromNative  BY <1>6, StepNext DEF Submitters, Shutdowns
  <2>2. Answered(i, Head(stack).why)
    <3>1. Answer(Head(stack).on, Head(stack).why)  BY <1>1, <1>6, <2>1, FromNativeMoves
    <3>2. Head(stack).on \in Nat /\ Head(stack).why \in {"ok", "nobufs", "error"}
      BY <1>1, <1>6, TopOn DEF Form
    <3>3. QED BY <1>1, <3>1, <3>2, AnswerAnswers DEF TypeInv
  <2>3. Puts1(At("user")) \/ Drops  BY <1>1, <1>6, <2>1, FromNativeMoves DEF Runs
  <2>4. ~Awaits(At("user"), i)  BY AwaitsSteps DEF RequestSteps
  <2>5. ~Calling(i)'  BY <1>1, <1>2, <2>3, <2>4, AwaitsMoves
  <2>6. QED BY <1>5, <2>1, <2>2, <2>5
<1>7. CASE Head(stack).at = "_finishNativeWrite" /\ Head(stack).why # "async"
  <2>1. FinishNativeWrite  BY <1>7, StepNext DEF Submitters, Shutdowns, Upcalls
  <2>2. Head(stack).on \in Nat /\ Head(stack).why \in {"async", "sync", "error"}
    BY <1>1, <1>7, TopOn DEF Form
  <2>3. PICK result \in {"ok", "error"} : Answer(Head(stack).on, result)
    BY <1>7, <2>1 DEF FinishNativeWrite
  <2>4. Answered(i, result)  BY <1>1, <2>2, <2>3, AnswerAnswers DEF TypeInv
  <2>5. Puts1(At("_fail")) \/ Drops  BY <1>1, <2>1, FinishNativeWriteMoves
  <2>6. ~Awaits(At("_fail"), i)  BY AwaitsSteps DEF RequestSteps
  <2>7. ~Calling(i)'  BY <1>1, <1>2, <2>5, <2>6, AwaitsMoves
  <2>8. QED BY <1>5, <2>1, <2>4, <2>7
<1>8. QED BY <1>6, <1>7 DEF Tells

\* The flush or the close that completes a request calls back once.
LEMMA OwedCallback ==
    ASSUME WriteInv, Next, NEW i \in DOMAIN requests, OwedOnce(i), ~AwaitsTop(i),
           NEW k \in DOMAIN stack', New(stack'[k]), Awaits(stack'[k], i)
    PROVE  OwedOnce(i)'
<1>1. BaseInv /\ TypeInv /\ StackTyped /\ StackInv /\ QueueInv  BY LifeFacts DEF WriteInv
<1>2. /\ queue # <<>> /\ i = First /\ HasCallback(i)
      /\ Tops({"writing"}) \/ Tops({"cancelWrites"})
  <2>1. PICK s : s = stack'[k]  OBVIOUS
  <2>2. QED BY <1>1, <2>1, NewAwaits
<1>3. stack # <<>>  BY <1>2 DEF Tops
<1>4. Due(i)
  <2>1. 1 \in DOMAIN queue /\ queue[1] = i  BY <1>1, <1>2, QueueFacts
  <2>2. QED BY <1>2, <2>1 DEF Due, Queued, HasCallback
<1>5. ~Calling(i) /\ ~ToldOf(i) /\ Single(i)  BY <1>4 DEF OwedOnce, OneOf
<1>6. \A j \in DOMAIN stack : ~Awaits(stack[j], i)  BY <1>5 DEF Calling
<1>7. \A j \in DOMAIN stack : stack'[k] # stack[j]  BY <1>6
<1>8. UNCHANGED answers
  BY <1>1, <1>2, AnswersNext DEF FinishNativeWrite, Top, Tops
<1>9. ~ToldOf(i)' /\ Single(i)'  BY <1>5, <1>8, SameAnswers
<1>10. ASSUME NEW why, Covers1(Step("writeCallback", i, why)), Dequeues PROVE OwedOnce(i)'
  <2>1. /\ 1 \in DOMAIN stack' /\ Awaits(stack'[1], i)
        /\ stack' \in Seq(Steps)
        /\ \A m \in 1+1..Len(stack') : m - 1 + 0 \in DOMAIN stack /\ stack'[m] = stack[m - 1 + 0]
    BY <1>10, AwaitsSteps DEF Covers1, Moves
  <2>2. DOMAIN stack' = 1..Len(stack') /\ Len(stack') \in Nat  BY <2>1, LenProperties
  <2>3. \A m \in DOMAIN stack' : m # 1 => ~Awaits(stack'[m], i)
    <3> SUFFICES ASSUME NEW m \in DOMAIN stack', m # 1 PROVE ~Awaits(stack'[m], i)  OBVIOUS
    <3>1. m \in 1+1..Len(stack')  BY <2>2
    <3>2. PICK j \in DOMAIN stack : stack'[m] = stack[j]  BY <2>1, <3>1
    <3>3. QED BY <1>6, <3>2
  <2>4. Sole(i)' /\ Calling(i)'  BY <2>1, <2>3 DEF Sole, Calling
  <2>5. ~Due(i)'
    <3>1. ~Queued(i)'  BY <1>1, <1>2, <1>10, FirstLeaves
    <3>2. QED BY <3>1 DEF Due
  <2>6. QED BY <1>9, <2>4, <2>5 DEF OwedOnce, OneOf
<1>11. ~(UNCHANGED stack)  BY <1>7
<1>12. ~Drops  BY <1>1, <1>3, <1>7, AfterDrops
<1>13. \A name : name \notin RequestSteps => ~Puts1(At(name))
  <2> SUFFICES ASSUME NEW name, name \notin RequestSteps, Puts1(At(name)) PROVE FALSE  OBVIOUS
  <2>1. stack'[1] = At(name) /\ \A m \in DOMAIN stack' : m # 1 => stack'[m] = stack[m]
    BY <1>1, <1>3, AfterPuts1
  <2>2. k # 1
    <3>1. ~Awaits(At(name), i)  BY AwaitsSteps
    <3>2. QED BY <2>1, <3>1
  <2>3. k \in DOMAIN stack /\ stack'[k] = stack[k]
    <3>1. DOMAIN stack' = DOMAIN stack  BY <1>1, <1>3, AfterPuts1
    <3>2. QED BY <2>1, <2>2, <3>1
  <2>4. QED BY <1>7, <2>3
<1>14. CASE Tops({"writing"})
  <2>1. Writing  BY <1>3, <1>14, StepNext DEF Tops, Submitters, Shutdowns, Upcalls
  <2>2. ~Puts1(At("fail")) /\ ~Puts1(At("performTLSShutdown"))  BY <1>13 DEF RequestSteps
  <2>3. PICK n \in Nat : Sending(n)  BY <1>1, <1>12, <2>1, <2>2, WritingMoves
  <2>4. Wrote(n)  BY <2>3 DEF Sending
  <2>5. requests[First].left = n /\ Covers1(Step("writeCallback", i, "ok"))
    BY <1>1, <1>2, <1>11, <2>4, WroteMoves
  <2>6. Dequeues  BY <1>1, <2>3, <2>5, SendingData
  <2>7. QED BY <1>10, <2>5, <2>6
<1>15. CASE Tops({"cancelWrites"})
  <2>1. CancelWrite \/ Closed
    BY <1>3, <1>15, StepNext DEF Tops, Submitters, Shutdowns, Upcalls
  <2>2. CancelWrite  BY <1>2, <2>1 DEF Closed
  <2>3. PICK why : Covers1(Step("writeCallback", i, why))  BY <1>1, <1>2, <2>2, CancelWriteMoves
  <2>4. Dequeues  BY <1>1, <2>2, CancelWriteData
  <2>5. QED BY <1>10, <2>3, <2>4
<1>16. QED BY <1>2, <1>14, <1>15

\* Until then a request in the queue stays there, and none other gets there.
LEMMA DueStays ==
    ASSUME WriteInv, Next, NEW i \in DOMAIN requests, requests[i].kind = "app", ~AwaitsTop(i),
           \A k \in DOMAIN stack' : New(stack'[k]) => ~Awaits(stack'[k], i)
    PROVE  Due(i)' <=> Due(i)
<1>1. BaseInv /\ TypeInv /\ StackTyped /\ StackInv /\ QueueInv  BY LifeFacts DEF WriteInv
<1>2. Changes  BY <1>1, ChangesNext
<1>3. ASSUME UNCHANGED queue, requests'[i] = requests[i] PROVE Due(i)' <=> Due(i)
  BY <1>3 DEF Due, Queued
<1>4. CASE Stays  BY <1>3, <1>4 DEF Stays
<1>5. CASE Submits
  <2>1. requests'[i] = requests[i]  BY <1>5 DEF Submits, Adds
  <2>2. QED BY <1>3, <1>5, <2>1 DEF Submits
<1>6. CASE Refuses
  <2>1. requests'[i] = requests[i]  BY <1>6 DEF Refuses, Adds
  <2>2. QED BY <1>3, <1>6, <2>1 DEF Refuses
<1>7. ASSUME NEW m \in Nat, Enters(m) \/ Waits(m) PROVE Due(i)' <=> Due(i)
  <2>1. m # i  BY <1>7 DEF Enters, Waits, AwaitsTop, Awaits, Top, Submitters
  <2>2. requests'[i] = requests[i]  BY <1>7, <2>1 DEF Enters, Waits, Edits
  <2>3. Queued(i)' <=> Queued(i)
    <3>1. CASE Waits(m)  BY <3>1 DEF Waits, Queued
    <3>2. CASE Enters(m)
      <4>1. Queues(m)  BY <3>2 DEF Enters
      <4>2. \A p \in DOMAIN queue' : queue'[p] = i => p \in DOMAIN queue /\ queue[p] = i
        BY <2>1, <4>1 DEF Queues
      <4>3. \A p \in DOMAIN queue : p \in DOMAIN queue' /\ queue'[p] = queue[p]
        BY <4>1 DEF Queues
      <4>4. QED BY <4>2, <4>3 DEF Queued
    <3>3. QED BY <1>7, <3>1, <3>2
  <2>4. QED BY <2>2, <2>3 DEF Due
<1>8. ASSUME NEW n \in Nat, Writing, Sending(n) PROVE Due(i)' <=> Due(i)
  <2>1. /\ First \in DOMAIN requests /\ requests[First] \in Requests
        /\ Edits(First, WrittenBy(requests[First], n))
        /\ IF requests[First].left = n THEN Dequeues ELSE UNCHANGED queue
    BY <1>1, <1>8, SendingData
  <2>2. queue # <<>> /\ Wrote(n) /\ ~closing  BY <1>8 DEF Sending
  <2>3. Tops({"writing"})  BY <1>8 DEF Writing, Top, Tops
  <2>4. CASE i # First
    <3>1. requests'[i] = requests[i]  BY <2>1, <2>4 DEF Edits
    <3>2. Queued(i)' <=> Queued(i)
      <4>1. CASE Dequeues  BY <1>1, <2>2, <2>4, <4>1, FirstLeaves
      <4>2. CASE UNCHANGED queue  BY <4>2 DEF Queued
      <4>3. QED BY <2>1, <4>1, <4>2
    <3>3. QED BY <3>1, <3>2 DEF Due
  <2>5. CASE i = First
    <3>1. requests'[i] = WrittenBy(requests[i], n)  BY <2>1, <2>5 DEF Edits
    <3>2. WrittenBy(requests[i], n).deferred = requests[i].deferred
      BY <2>1, <2>5 DEF WrittenBy, Requests
    <3>3. requests'[i].deferred = requests[i].deferred  BY <3>1, <3>2
    <3>4. CASE ~requests[i].deferred  BY <3>3, <3>4 DEF Due
    <3>5. CASE requests[i].deferred /\ requests[i].left = n
      <4>1. HasCallback(First)  BY <2>5, <3>5 DEF HasCallback
      <4>2. Covers1(Step("writeCallback", First, "ok"))
        BY <1>1, <2>2, <2>5, <3>5, <4>1, WroteMoves
      <4>3. requests'[First].outcome = "sent"
        <5>1. WrittenBy(requests[i], n).outcome = "sent"
          BY <2>1, <2>5, <3>5 DEF WrittenBy, Requests
        <5>2. QED BY <2>5, <3>1, <5>1
      <4>4. New(Step("writeCallback", First, "ok"))  BY <2>2, <2>3, <4>1, <4>3, NewRequests
      <4>5. 1 \in DOMAIN stack' /\ stack'[1] = Step("writeCallback", i, "ok")
        BY <2>5, <4>2 DEF Covers1
      <4>6. Awaits(stack'[1], i)  BY <4>5, AwaitsSteps
      <4>7. QED BY <2>5, <4>4, <4>5, <4>6
    <3>6. CASE requests[i].left # n
      <4>1. UNCHANGED queue  BY <2>1, <2>5, <3>6
      <4>2. QED BY <3>3, <4>1 DEF Due, Queued
    <3>7. QED BY <3>4, <3>5, <3>6
  <2>6. QED BY <2>4, <2>5
<1>9. CASE CancelWrite
  <2>1. /\ First \in DOMAIN requests /\ requests[First] \in Requests
        /\ Edits(First, EndedBy(requests[First], Head(stack).why)) /\ Dequeues
    BY <1>1, <1>9, CancelWriteData
  <2>2. queue # <<>> /\ Tops({"cancelWrites"})  BY <1>9 DEF CancelWrite, Top, Tops
  <2>3. CASE i # First
    <3>1. requests'[i] = requests[i]  BY <2>1, <2>3 DEF Edits
    <3>2. Queued(i)' <=> Queued(i)  BY <1>1, <2>1, <2>2, <2>3, FirstLeaves
    <3>3. QED BY <3>1, <3>2 DEF Due
  <2>4. CASE i = First
    <3>1. requests'[i] = EndedBy(requests[i], Head(stack).why)  BY <2>1, <2>4 DEF Edits
    <3>2. EndedBy(requests[i], Head(stack).why).deferred = requests[i].deferred
      BY <2>1, <2>4 DEF EndedBy, Requests
    <3>3. requests'[i].deferred = requests[i].deferred  BY <3>1, <3>2
    <3>4. CASE ~requests[i].deferred  BY <3>3, <3>4 DEF Due
    <3>5. CASE requests[i].deferred
      <4>1. HasCallback(First)  BY <2>4, <3>5 DEF HasCallback
      <4>2. PICK w : w = (IF Head(stack).why = "nobufs" THEN "nobufs" ELSE "error")  OBVIOUS
      <4>3. Covers1(Step("writeCallback", First, w))
        BY <1>1, <1>9, <4>1, <4>2, CancelWriteMoves
      <4>4. New(Step("writeCallback", First, w))  BY <2>2, <4>1, <4>2, NewRequests
      <4>5. 1 \in DOMAIN stack' /\ stack'[1] = Step("writeCallback", i, w)
        BY <2>4, <4>3 DEF Covers1
      <4>6. Awaits(stack'[1], i)  BY <4>5, AwaitsSteps
      <4>7. QED BY <2>4, <4>4, <4>5, <4>6
    <3>6. QED BY <3>4, <3>5
  <2>5. QED BY <2>3, <2>4
<1>10. QED BY <1>2, <1>4, <1>5, <1>6, <1>7, <1>8, <1>9 DEF Changes

\* Nothing else touches an answer that is owed.
LEMMA OwedStays ==
    ASSUME WriteInv, Next, NEW i \in DOMAIN requests, requests[i].kind = "app", OwedOnce(i),
           ~AwaitsTop(i), \A k \in DOMAIN stack' : New(stack'[k]) => ~Awaits(stack'[k], i)
    PROVE  OwedOnce(i)'
<1>1. BaseInv /\ StackTyped /\ AtSubmit  BY LifeFacts
<1>2. Pushed  BY <1>1, PushNext
<1>3. Sole(i)' /\ (Calling(i)' <=> Calling(i))  BY <1>1, <1>2, AwaitsStays DEF OwedOnce
<1>4. Due(i)' <=> Due(i)  BY DueStays
<1>5. Single(i)' /\ (ToldOf(i)' <=> ToldOf(i))
  <2>1. CASE UNCHANGED answers  BY <2>1, SameAnswers DEF OwedOnce
  <2>2. ASSUME NEW m, NEW result, Answered(m, result), m # i
        PROVE  Single(i)' /\ (ToldOf(i)' <=> ToldOf(i))
    <3>1. \A k \in DOMAIN answers' : answers'[k].request = i =>
            k \in DOMAIN answers /\ answers[k].request = i
      BY <2>2 DEF Answered
    <3>2. \A k \in DOMAIN answers : k \in DOMAIN answers' /\ answers'[k] = answers[k]
      BY <2>2 DEF Answered
    <3>3. QED BY <3>1, <3>2 DEF Single, ToldOf, OwedOnce
  <2>3. CASE FromNative /\ Head(stack).at = "writeCallback" /\ Answered(Head(stack).on, Head(stack).why)
    <3>1. Head(stack).on # i  BY <2>3 DEF AwaitsTop, Awaits, Tells, FromNative
    <3>2. QED BY <2>2, <2>3, <3>1
  <2>4. CASE /\ FinishNativeWrite /\ requests[Head(stack).on].kind = "app"
             /\ \/ Head(stack).why = "sync" /\ Answered(Head(stack).on, "ok")
                \/ Head(stack).why = "error" /\ Answered(Head(stack).on, "error")
    <3>1. Head(stack).on # i
      BY <2>4 DEF AwaitsTop, Awaits, Tells, FinishNativeWrite, Top
    <3>2. QED BY <2>2, <2>4, <3>1
  <2>5. QED BY <1>1, <2>1, <2>3, <2>4, AnswersNext
<1>6. QED BY <1>3, <1>4, <1>5 DEF OwedOnce, OneOf

\* A new message is owed an answer by the call that made it.
LEMMA OwedNew ==
    ASSUME WriteInv, AnswersTrue, Next, NEW i \in DOMAIN requests', i \notin DOMAIN requests,
           requests'[i].kind = "app"
    PROVE  OwedOnce(i)'
<1>1. BaseInv /\ TypeInv /\ StackTyped  BY LifeFacts
<1>2. Send  BY <1>1, AppComes
<1>3. DOMAIN requests = 1..Len(requests) /\ Len(requests) \in Nat  BY <1>1, RequestIndexes
<1>4. i = NextRequest
  <2>1. PICK r : Adds(r)  BY <1>1, <1>2, SendData
  <2>2. QED BY <2>1 DEF Adds, NextRequest
<1>5. \A j \in DOMAIN stack : ~Awaits(stack[j], i)
  <2> SUFFICES ASSUME NEW j \in DOMAIN stack, Awaits(stack[j], i) PROVE FALSE  OBVIOUS
  <2>1. Form(stack[j], Len(requests), closing)  BY <1>1 DEF BaseInv, Formed
  <2>2. stack[j].at \in RequestSteps /\ stack[j].on = i
    BY DEF Awaits, Tells, Submitters, RequestSteps
  <2>3. QED BY <1>3, <2>1, <2>2 DEF Form
<1>6. PICK a : Covers1(a) /\ Awaits(a, i)
  <2>1. Covers1(Step("submit", i, "none")) \/ Covers1(Step("_finishNativeWrite", i, "error"))
    BY <1>1, <1>2, <1>4, SendData
  <2>2. QED BY <2>1, AwaitsSteps
<1>7. Sole(i)' /\ Calling(i)'
  <2>1. /\ 1 \in DOMAIN stack' /\ Awaits(stack'[1], i)
        /\ stack' \in Seq(Steps)
        /\ \A m \in 1+1..Len(stack') : m - 1 + 0 \in DOMAIN stack /\ stack'[m] = stack[m - 1 + 0]
    BY <1>6 DEF Covers1, Moves
  <2>2. DOMAIN stack' = 1..Len(stack') /\ Len(stack') \in Nat  BY <2>1, LenProperties
  <2>3. \A m \in DOMAIN stack' : m # 1 => ~Awaits(stack'[m], i)
    <3> SUFFICES ASSUME NEW m \in DOMAIN stack', m # 1 PROVE ~Awaits(stack'[m], i)  OBVIOUS
    <3>1. m \in 1+1..Len(stack')  BY <2>2
    <3>2. PICK j \in DOMAIN stack : stack'[m] = stack[j]  BY <2>1, <3>1
    <3>3. QED BY <1>5, <3>2
  <2>4. QED BY <2>1, <2>3 DEF Sole, Calling
<1>8. ~Due(i)'
  <2>1. UNCHANGED queue  BY <1>1, <1>2, SendData
  <2>2. \A k \in DOMAIN queue : queue[k] # i  BY <1>1 DEF BaseInv, Refers
  <2>3. QED BY <2>1, <2>2 DEF Due, Queued
<1>9. ~ToldOf(i)' /\ Single(i)'
  <2>1. UNCHANGED answers  BY <1>1, <1>2, SendData
  <2>2. \A k \in DOMAIN answers : answers[k].request # i  BY DEF AnswersTrue
  <2>3. QED BY <2>1, <2>2 DEF ToldOf, Single
<1>10. QED BY <1>7, <1>8, <1>9 DEF OwedOnce, OneOf

\* Each message is owed one answer, by a call in progress or by the queue, or was given it.
LEMMA OwedNext == ASSUME WriteInv, AnswersTrue, Owed, Next PROVE Owed'
<1> SUFFICES ASSUME NEW i \in DOMAIN requests', requests'[i].kind = "app" PROVE OwedOnce(i)'
  BY DEF Owed, OwedOnce
<1>1. CASE i \notin DOMAIN requests  BY <1>1, OwedNew
<1>2. CASE i \in DOMAIN requests
  <2>1. requests[i].kind = "app"  BY <1>2, OutcomeNext
  <2>2. OwedOnce(i)  BY <1>2, <2>1 DEF Owed, OwedOnce
  <2>3. CASE AwaitsTop(i)
    <3>1. stack # <<>> /\ Head(stack).on = i  BY <2>3 DEF AwaitsTop, Awaits
    <3>2. CASE Tops({"submit"})  BY <1>2, <2>1, <2>2, <3>1, <3>2, OwedSubmit
    <3>3. CASE Tops({"submitted"})  BY <1>2, <2>1, <2>2, <3>1, <3>3, OwedSubmitted
    <3>4. CASE Tells(Head(stack), "app")  BY <1>2, <2>1, <2>2, <3>1, <3>4, OwedTold
    <3>5. QED BY <2>3, <3>2, <3>3, <3>4 DEF AwaitsTop, Awaits, Submitters, Tops
  <2>4. CASE ~AwaitsTop(i)
    <3>1. CASE \E k \in DOMAIN stack' : New(stack'[k]) /\ Awaits(stack'[k], i)
      BY <1>2, <2>2, <2>4, <3>1, OwedCallback
    <3>2. CASE ~\E k \in DOMAIN stack' : New(stack'[k]) /\ Awaits(stack'[k], i)
      BY <1>2, <2>1, <2>2, <2>4, <3>2, OwedStays
    <3>3. QED BY <3>1, <3>2
  <2>5. QED BY <2>3, <2>4
<1>3. QED BY <1>1, <1>2

\* What a send() is told, and when.
AnswerInv ==
    /\ CloseInv /\ Gives /\ Graces /\ PeerTold /\ GracefulTold /\ AppGrace
    /\ Ends /\ SentFirst /\ Direct /\ SentOpen /\ Truthful /\ AnswersTrue /\ Owed

\* The invariant of the answers holds at first.
LEMMA AnswerInit == ASSUME Init PROVE AnswerInv
<1>1. CloseInv  BY CloseInit
<1>2. stack = <<>> /\ requests = <<>> /\ answers = <<>> /\ graceful = FALSE /\ closeSent = FALSE
  BY DEF Init, NativeInit
<1>3. DOMAIN stack = {} /\ DOMAIN requests = {} /\ DOMAIN answers = {}  BY <1>2
<1>4. Gives /\ Graces /\ PeerTold /\ GracefulTold /\ AppGrace
  BY <1>2, <1>3 DEF Gives, Graces, PeerTold, GracefulTold, AppGrace
<1>5. Ends /\ SentFirst /\ Direct /\ SentOpen  BY <1>3 DEF Ends, SentFirst, Direct, SentOpen
<1>6. Truthful /\ AnswersTrue /\ Owed  BY <1>3 DEF Truthful, AnswersTrue, Owed
<1>7. QED BY <1>1, <1>4, <1>5, <1>6 DEF AnswerInv

\* And after each step, stuttering included.
LEMMA AnswerStep == ASSUME AnswerInv, [Next]_vars PROVE AnswerInv'
<1>1. CloseInv /\ CloseInv'  BY CloseStep DEF AnswerInv
<1>2. CASE Next
  <2>1. LifeInv /\ WriteInv /\ Flushes /\ PeerInv /\ Opens
    BY <1>1 DEF CloseInv, CallInv, LifeInv
  <2>2. Gives' /\ Graces'  BY <1>2, <2>1, GivesNext, GracesNext DEF AnswerInv
  <2>3. PeerTold'  BY <1>2, <2>1, PeerToldNext DEF AnswerInv
  <2>4. GracefulTold'  BY <1>2, <2>1, GracefulToldNext DEF AnswerInv
  <2>5. AppGrace'  BY <1>2, <2>1, AppGraceNext DEF AnswerInv
  <2>6. Ends'  BY <1>2, <2>1, EndsNext DEF AnswerInv
  <2>7. Direct'  BY <1>2, <2>1, DirectNext DEF AnswerInv
  <2>8. SentOpen'  BY <1>2, <2>1, SentOpenNext DEF AnswerInv
  <2>9. Truthful'  BY <1>2, <2>1, TruthfulNext DEF AnswerInv
  <2>10. AnswersTrue'  BY <1>2, <2>1, AnswersTrueNext DEF AnswerInv
  <2>11. Owed'  BY <1>2, <2>1, OwedNext DEF AnswerInv
  <2>12. SentFirst'  BY <1>2, <2>1, SentFirstNext DEF AnswerInv
  <2>13. QED
    BY <1>1, <2>2, <2>3, <2>4, <2>5, <2>6, <2>7, <2>8, <2>9, <2>10, <2>11, <2>12 DEF AnswerInv
<1>3. CASE UNCHANGED vars
  <2>1. UNCHANGED <<stack, requests, queue, answers, graceful, closeSent, closing, readyState>>
    BY <1>3 DEF vars, nativeVars, jsVars, handleVars, peerVars, writeVars
  <2>2. Gives' /\ Graces' /\ PeerTold' /\ GracefulTold' /\ AppGrace'
    BY <2>1 DEF AnswerInv, Gives, Graces, PeerTold, GracefulTold, AppGrace, HasClose, IsClose, On,
       ClosedBeforeResponse
  <2>3. Ends' /\ SentFirst' /\ Direct' /\ SentOpen'
    BY <2>1 DEF AnswerInv, Ends, SentFirst, Direct, SentOpen, ClosedBeforeResponse
  <2>4. Truthful' /\ AnswersTrue'
    BY <2>1 DEF AnswerInv, Truthful, AnswersTrue, ClosedBeforeResponse
  <2>5. Owed'
    BY <2>1 DEF AnswerInv, Owed, Sole, Single, OneOf, Calling, Due, ToldOf, Queued
  <2>6. QED BY <1>1, <2>2, <2>3, <2>4, <2>5 DEF AnswerInv
<1>4. QED BY <1>2, <1>3

\* It implies that a peer that has our Close has everything before it, and that the closing
\* handshake ends only then, with nothing left.
LEMMA LosesNothing == ASSUME AnswerInv PROVE HandshakeLosesNothing
<1>1. BaseInv /\ QueueInv /\ Handshakes /\ Graces /\ Ends /\ SentFirst
  BY LifeFacts DEF AnswerInv, CloseInv, CallInv, LifeInv, WriteInv, StackInv
<1>2. ASSUME Top("closeNow"), Head(stack).why = "handshake", ~closing
      PROVE  /\ \A i \in DOMAIN requests : requests[i].outcome = "sent"
             /\ \E i \in DOMAIN requests : requests[i].kind \in {"close", "reply"}
  <2>1. queue = <<>> /\ graceful  BY <1>1, <1>2 DEF Handshakes, Top
  <2>2. ASSUME NEW i \in DOMAIN requests PROVE requests[i].outcome = "sent"
    <3>1. ~Queued(i) /\ ~Submitting(i)  BY <1>2, <2>1 DEF Queued, Submitting, Top
    <3>2. requests[i].outcome # "pending"  BY <1>1, <3>1 DEF QueueInv, PendingIsQueued
    <3>3. QED BY <1>1, <1>2, <3>2 DEF Ends
  <2>3. HasClose  BY <1>1, <2>1 DEF Graces
  <2>4. QED BY <2>2, <2>3 DEF HasClose, IsClose
<1>3. QED BY <1>1, <1>2 DEF HandshakeLosesNothing, SentFirst

\* It implies that each send() is answered once and truthfully.
LEMMA AnswersOnce == ASSUME AnswerInv PROVE AnsweredOnce
<1>1. BaseInv /\ AnswersTrue /\ Owed
  BY LifeFacts DEF AnswerInv, CloseInv, CallInv, LifeInv
<1> SUFFICES ASSUME NEW i \in DOMAIN requests, requests[i].kind = "app"
             PROVE  /\ Cardinality(AnswersTo(i)) <= 1
                    /\ \A k \in AnswersTo(i) :
                          \/ answers[k].result = "ok" <=> requests[i].outcome = "sent"
                          \/ answers[k].result = "error" /\ ClosedBeforeResponse
                    /\ Idle => (AnswersTo(i) = {} <=> Contains(queue, i) /\ requests[i].deferred)
  BY DEF AnsweredOnce
<1>2. Sole(i) /\ Single(i) /\ OneOf(Calling(i), Due(i), ToldOf(i))  BY <1>1 DEF Owed
<1>3. Cardinality(AnswersTo(i)) <= 1
  <2>1. CASE AnswersTo(i) = {}  BY <2>1, FS_EmptySet
  <2>2. CASE AnswersTo(i) # {}
    <3>1. PICK k \in AnswersTo(i) : TRUE  BY <2>2
    <3>2. AnswersTo(i) = {k}  BY <1>2, <3>1 DEF AnswersTo, Single
    <3>3. Cardinality({k}) = 1  BY FS_Singleton
    <3>4. QED BY <3>2, <3>3
  <2>3. QED BY <2>1, <2>2
<1>4. ASSUME NEW k \in AnswersTo(i)
      PROVE  \/ answers[k].result = "ok" <=> requests[i].outcome = "sent"
             \/ answers[k].result = "error" /\ ClosedBeforeResponse
  <2>1. k \in DOMAIN answers /\ answers[k].request = i  BY DEF AnswersTo
  <2>2. Fits(answers[k].result, requests[i], closing, ClosedBeforeResponse)
    BY <1>1, <2>1 DEF AnswersTrue
  <2>3. answers[k].result \in {"ok", "error", "nobufs"}
    <3>1. answers[k] \in Answers  BY <1>1, <2>1, ElementOfSeq DEF BaseInv, TypeInv
    <3>2. QED BY <3>1 DEF Answers
  <2>4. QED BY <2>2, <2>3 DEF Fits
<1>5. ASSUME Idle PROVE AnswersTo(i) = {} <=> Contains(queue, i) /\ requests[i].deferred
  <2>1. DOMAIN stack = {}  BY <1>5 DEF Idle
  <2>2. ~Calling(i)  BY <2>1 DEF Calling
  <2>3. Due(i) <=> ~ToldOf(i)  BY <1>2, <2>2 DEF OneOf
  <2>4. ToldOf(i) <=> AnswersTo(i) # {}  BY DEF ToldOf, AnswersTo
  <2>5. Contains(queue, i) <=> Queued(i)  BY <1>1, ContainsQueued
  <2>6. QED BY <2>3, <2>4, <2>5 DEF Due
<1>6. QED BY <1>3, <1>4, <1>5

-----------------------------------------------------------------------------
(* What an application is told when the limit is passed *)

\* Some request ended so.
Out(o) == \E i \in DOMAIN requests : requests[i].outcome = o
\* A step by which the limit closes the transport.
CutStep(s) == s.at \in {"closeNow", "cancelWrites"} /\ s.why = "nobufs"
\* One is in progress.
Limited == \E k \in DOMAIN stack : CutStep(stack[k])
\* The limit has cost the application a send().
Cut == \E i \in DOMAIN requests : requests[i].kind = "app" /\ requests[i].outcome = "nobufs"
\* The application sends nothing any more, and was refused nothing so far.
Over == readyState # "OPEN" /\ ~Out("refused")

\* Of an upgrade's steps nothing is below.
OpensLast == \A k \in DOMAIN stack : stack[k].at \in Opening => k = Len(stack)
\* The transport is open when its owner is told of the limit or of the peer's Close.
Warned == \A k \in DOMAIN stack : stack[k].at \in {"_onNativeBackpressure", "_onNativeClose"} => ~closing
\* Whatever is cancelled is so for one reason.
OneReason ==
    /\ \A j, k \in DOMAIN stack :
         stack[j].at = "cancelWrites" /\ stack[k].at = "cancelWrites" => stack[j].why = stack[k].why
    /\ \A k \in DOMAIN stack : stack[k].at = "cancelWrites" =>
         \A i \in DOMAIN requests : requests[i].outcome \in {"pending", "sent", "refused", stack[k].why}
    /\ ~(Out("cancelled") /\ Out("nobufs"))

\* A request that ends without being sent does so with the reason of cancelWrites().
LEMMA EndsBy ==
    ASSUME WriteInv, Next, NEW i \in DOMAIN requests
    PROVE  /\ i \in DOMAIN requests' /\ requests'[i].kind = requests[i].kind
           /\ \/ requests'[i].outcome = requests[i].outcome
              \/ requests[i].outcome = "pending" /\ requests'[i].outcome = "sent"
              \/ /\ requests[i].outcome = "pending" /\ requests'[i].outcome = Head(stack).why
                 /\ Tops({"cancelWrites"}) /\ closing
                 /\ Head(stack).why \in {"nobufs", "cancelled", "handshake"}
<1>1. BaseInv  BY LifeFacts
<1>2. /\ i \in DOMAIN requests' /\ requests'[i].kind = requests[i].kind
      /\ requests'[i].outcome = requests[i].outcome \/ Decides(i)
  BY OutcomeNext
<1>3. CASE Decides(i) /\ Tops({"cancelWrites"})
  <2>1. queue # <<>> /\ i = First /\ requests[i].outcome = "pending"  BY <1>3 DEF Decides
  <2>2. CancelWrite
    <3>1. CancelWrite \/ Closed
      BY <1>3, StepNext DEF Tops, Submitters, Shutdowns, Upcalls
    <3>2. QED BY <2>1, <3>1 DEF Closed
  <2>3. /\ First \in DOMAIN requests /\ requests[First] \in Requests
        /\ Edits(First, EndedBy(requests[First], Head(stack).why)) /\ closing
        /\ Head(stack).why \in {"nobufs", "cancelled", "handshake"}
    BY <1>1, <2>2, CancelWriteData
  <2>4. requests'[i] = EndedBy(requests[i], Head(stack).why)  BY <2>1, <2>3 DEF Edits
  <2>5. EndedBy(requests[i], Head(stack).why).outcome = Head(stack).why
    BY <2>1, <2>3 DEF EndedBy, Requests
  <2>6. QED BY <1>2, <1>3, <2>1, <2>3, <2>4, <2>5
<1>4. CASE Decides(i) /\ ~Tops({"cancelWrites"})  BY <1>2, <1>4 DEF Decides
<1>5. QED BY <1>2, <1>3, <1>4

\* A new request waits, unless the transport closes: then it is a send() that is refused.
LEMMA NewIs ==
    ASSUME WriteInv, Next, NEW i \in DOMAIN requests', i \notin DOMAIN requests
    PROVE  \/ ~closing /\ requests'[i].outcome = "pending"
           \/ ~writable /\ requests'[i].outcome = "refused" /\ readyState = "OPEN"
<1>1. BaseInv  BY LifeFacts
<1>2. CASE Submits
  <2>1. PICK kind \in Kinds, size \in Nat \ {0} : Adds(NewOne(kind, size))  BY <1>2 DEF Submits
  <2>2. requests'[i] = NewOne(kind, size)  BY <2>1 DEF Adds
  <2>3. QED BY <1>2, <2>2 DEF NewOne, Submits
<1>3. CASE Refuses
  <2>1. PICK size \in Nat \ {0} : Adds(Refused(size))  BY <1>3 DEF Refuses
  <2>2. requests'[i] = Refused(size)  BY <2>1 DEF Adds
  <2>3. OneMore  BY <1>1, KindsNext DEF SameKinds
  <2>4. requests'[Len(requests')] = Refused(size)  BY <2>1 DEF Adds
  <2>5. NewKind("app")  BY <2>3, <2>4 DEF OneMore, Refused
  <2>6. readyState = "OPEN"  BY <2>5 DEF NewKind, Owned
  <2>7. QED BY <1>3, <2>2, <2>6 DEF Refused, Refuses
<1>4. ASSUME NEW m \in Nat, Enters(m) \/ Waits(m) PROVE DOMAIN requests' = DOMAIN requests
  BY <1>4 DEF Enters, Waits, Edits
<1>5. ASSUME NEW n \in Nat, Sending(n) PROVE DOMAIN requests' = DOMAIN requests
  BY <1>1, <1>5, SendingData DEF Edits
<1>6. CancelWrite => DOMAIN requests' = DOMAIN requests
  BY <1>1, CancelWriteData DEF Edits
<1>7. ~Stays  BY DEF Stays
<1>8. Changes  BY <1>1, ChangesNext
<1>9. QED BY <1>2, <1>3, <1>4, <1>5, <1>6, <1>7, <1>8 DEF Changes

\* Only a send() to an OPEN WebSocket is refused.
LEMMA RefusedOpen ==
    ASSUME WriteInv, Next, ~Out("refused"), Out("refused")' PROVE readyState = "OPEN"
<1>1. PICK i \in DOMAIN requests' : requests'[i].outcome = "refused"  BY DEF Out
<1>2. i \notin DOMAIN requests
  <2>1. SUFFICES ASSUME i \in DOMAIN requests PROVE FALSE  OBVIOUS
  <2>2. requests[i].outcome # "refused"  BY <2>1 DEF Out
  <2>3. QED BY <1>1, <2>1, <2>2, EndsBy
<1>3. QED BY <1>1, <1>2, NewIs

\* Once it is over it stays so.
LEMMA OverStays ==
    ASSUME WriteInv, OneOpening, Next, given, Over PROVE Over'
<1>1. ~Out("refused")'  BY RefusedOpen DEF Over
<1>2. StateChanges  BY VarsNext
<1>3. ~upgradePending  BY DEF OneOpening
<1>4. readyState' # "OPEN"  BY <1>2, <1>3 DEF StateChanges, Over
<1>5. QED BY <1>1, <1>4 DEF Over

\* closeNow() begins to cancel when nothing was.
LEMMA CancelNew ==
    ASSUME BaseInv, Pushed, NEW k \in DOMAIN stack', stack'[k].at = "cancelWrites",
           \A j \in DOMAIN stack : stack'[k] # stack[j]
    PROVE  Tops({"closeNow"}) /\ ~closing /\ stack'[k].why = Head(stack).why
<1>1. New(stack'[k])  BY EachStep DEF BaseInv, TypeInv
<1>2. QED BY <1>1 DEF New, NewNative

\* There is one reason to cancel.
LEMMA OneReasonNext == ASSUME WriteInv, Ends, OneReason, Next PROVE OneReason'
<1>1. BaseInv /\ StackTyped /\ TypeInv /\ AtSubmit  BY LifeFacts
<1>2. Pushed  BY <1>1, PushNext
<1>3. ASSUME closing
      PROVE  \A k \in DOMAIN stack' : stack'[k].at = "cancelWrites" =>
               \E j \in DOMAIN stack : stack'[k] = stack[j]
  BY <1>1, <1>2, <1>3, CancelNew
<1>4. ASSUME ~closing
      PROVE  \A k \in DOMAIN stack' : stack'[k].at = "cancelWrites" =>
               Tops({"closeNow"}) /\ stack'[k].why = Head(stack).why
  <2>1. \A j \in DOMAIN stack : stack[j].at # "cancelWrites"
    BY <1>1, <1>4 DEF BaseInv, Formed, Form
  <2>2. QED BY <1>1, <1>2, <2>1, CancelNew
<1>5. closing \in BOOLEAN  BY <1>1 DEF TypeInv
<1>6. \A j, k \in DOMAIN stack' :
        stack'[j].at = "cancelWrites" /\ stack'[k].at = "cancelWrites" => stack'[j].why = stack'[k].why
  <2>1. CASE closing  BY <1>3, <2>1 DEF OneReason
  <2>2. CASE ~closing  BY <1>4, <2>2
  <2>3. QED BY <1>5, <2>1, <2>2
<1>7. ASSUME NEW k \in DOMAIN stack', stack'[k].at = "cancelWrites", NEW i \in DOMAIN requests'
      PROVE  requests'[i].outcome \in {"pending", "sent", "refused", stack'[k].why}
  <2>1. CASE i \notin DOMAIN requests
    <3>1. requests'[i].outcome \in {"pending", "refused"}  BY <2>1, NewOutcome
    <3>2. QED BY <3>1
  <2>2. CASE i \in DOMAIN requests /\ closing
    <3>1. PICK j \in DOMAIN stack : stack'[k] = stack[j]  BY <1>3, <1>7, <2>2
    <3>2. requests[i].outcome \in {"pending", "sent", "refused", stack[j].why}
      BY <1>7, <2>2, <3>1 DEF OneReason
    <3>3. CASE requests'[i].outcome = Head(stack).why /\ Tops({"cancelWrites"})
      <4>1. 1 \in DOMAIN stack /\ Head(stack) = stack[1]  BY <1>1, <3>3, StackIndexes DEF Tops
      <4>2. stack[1].why = stack[j].why  BY <1>7, <3>1, <3>3, <4>1 DEF OneReason, Tops
      <4>3. QED BY <3>1, <3>3, <4>1, <4>2
    <3>4. QED BY <2>2, <3>1, <3>2, <3>3, EndsBy
  <2>3. CASE i \in DOMAIN requests /\ ~closing
    <3>1. requests[i].outcome \in {"pending", "sent"}  BY <2>3 DEF Ends
    <3>2. QED BY <2>3, <3>1, EndsBy
  <2>4. QED BY <1>5, <2>1, <2>2, <2>3
<1>8. ~(Out("cancelled")' /\ Out("nobufs")')
  <2>1. SUFFICES ASSUME NEW i \in DOMAIN requests', requests'[i].outcome = "cancelled",
                        NEW j \in DOMAIN requests', requests'[j].outcome = "nobufs"
                 PROVE  FALSE
    BY DEF Out
  <2>2. i \in DOMAIN requests /\ j \in DOMAIN requests  BY <2>1, NewOutcome
  <2>3. CASE ~Tops({"cancelWrites"})
    <3>1. requests[i].outcome = "cancelled"  BY <2>1, <2>2, <2>3, EndsBy
    <3>2. requests[j].outcome = "nobufs"  BY <2>1, <2>2, <2>3, EndsBy
    <3>3. QED BY <2>2, <3>1, <3>2 DEF OneReason, Out
  <2>4. CASE Tops({"cancelWrites"})
    <3>1. 1 \in DOMAIN stack /\ Head(stack) = stack[1] /\ stack[1].at = "cancelWrites"
      BY <1>1, <2>4, StackIndexes DEF Tops
    <3>2. PICK w : w = stack[1].why  OBVIOUS
    <3>3. \A h \in DOMAIN requests : requests[h].outcome \in {"pending", "sent", "refused", w}
      BY <3>1, <3>2 DEF OneReason
    <3>4. requests'[i].outcome \in {"pending", "sent", "refused", w}
      BY <2>2, <3>1, <3>2, <3>3, EndsBy
    <3>5. requests'[j].outcome \in {"pending", "sent", "refused", w}
      BY <2>2, <3>1, <3>2, <3>3, EndsBy
    <3>6. QED BY <2>1, <3>4, <3>5
  <2>5. QED BY <2>3, <2>4
<1>9. QED BY <1>6, <1>7, <1>8 DEF OneReason

\* The owner is told while the transport is open.
LEMMA WarnedNext == ASSUME WriteInv, Warned, Next PROVE Warned'
<1>1. BaseInv /\ StackTyped /\ TypeInv /\ AtSubmit /\ Instantly  BY LifeFacts
<1>2. Pushed /\ HandleChanges  BY <1>1, PushNext, VarsNext
<1> SUFFICES ASSUME NEW k \in DOMAIN stack', stack'[k].at \in {"_onNativeBackpressure", "_onNativeClose"}
             PROVE  ~closing'
  BY DEF Warned
<1>3. CASE New(stack'[k])
  <2>1. ~closing /\ ~Tops({"closeNow"})
    BY <1>3 DEF New, NewCall, Tops, Submitters
  <2>2. QED BY <1>2, <2>1 DEF HandleChanges
<1>4. CASE ~New(stack'[k])
  <2>1. PICK j \in DOMAIN stack : stack'[k] = stack[j]  BY <1>1, <1>2, <1>4, EachStep
  <2>2. ~closing  BY <2>1 DEF Warned
  <2>3. j = 1  BY <1>1, <2>1 DEF Instantly, Instant, Immediate, Upcalls
  <2>4. stack # <<>>  BY <2>1
  <2>5. Head(stack) = stack[1]  BY <1>1, <2>4, StackIndexes
  <2>6. ~Tops({"closeNow"})  BY <2>1, <2>3, <2>5 DEF Tops
  <2>7. QED BY <1>2, <2>2, <2>6 DEF HandleChanges
<1>5. QED BY <1>3, <1>4

\* What an event leaves on the stack.
LEMMA EventMoves ==
    ASSUME TypeInv, Next, stack = <<>>
    PROVE  \/ UNCHANGED stack \/ (\E a : Covers1(a)) \/ OnPoll
           \/ Covers2(At("_onNativeClosed"), At("release"))
           \/ Covers2(CloseNow("cancelled"), At("_finalizeClose"))
<1>1. \/ OnPoll \/ OnPollError \/ OnPollClosed \/ NodeSocketClosed \/ RunScheduled \/ CloseTimeout
      \/ AbortUpgrade \/ Send \/ Close \/ UserTerminate
  BY EventNext
<1>2. OnPollError \/ CloseTimeout \/ UserTerminate => \E a : Covers1(a)
  BY OnPollErrorMoves, CloseTimeoutMoves, UserTerminateMoves
<1>3. NodeSocketClosed \/ RunScheduled => UNCHANGED stack \/ \E a : Covers1(a)
  BY NodeSocketClosedMoves, RunScheduledMoves
<1>4. Send => \E a : Covers1(a)  BY SendMoves
<1>5. Close => UNCHANGED stack \/ \E a : Covers1(a)  BY CloseMoves
<1>6. AbortUpgrade => \/ \E a : Covers1(a)
                      \/ Covers2(CloseNow("cancelled"), At("_finalizeClose"))
  BY AbortUpgradeMoves
<1>7. OnPollClosed => Covers2(At("_onNativeClosed"), At("release"))  BY OnPollClosedMoves
<1>8. QED BY <1>1, <1>2, <1>3, <1>4, <1>5, <1>6, <1>7

\* What onPoll() puts on the empty stack.
LEMMA PollMoves ==
    ASSUME TypeInv, OnPoll PROVE \A k \in DOMAIN stack' : stack'[k] \in PollSteps
<1>1. PICK n \in Nat : Moves(n, 0) /\ \A k \in 1..n : stack'[k] \in PollSteps  BY OnPollMoves
<1>2. stack = <<>>  BY DEF OnPoll
<1>3. Len(stack) = 0  BY <1>2, StackIndexes DEF TypeInv
<1>4. stack' \in Seq(Steps) /\ Len(stack') = n + Len(stack) - 0  BY <1>1 DEF Moves
<1>5. DOMAIN stack' = 1..n  BY <1>3, <1>4, LenProperties
<1>6. QED BY <1>1, <1>5

\* How many steps there are when two, three or four took the place of the only one.
LEMMA AfterOnly ==
    ASSUME StackTyped, stack # <<>>, Len(stack) = 1
    PROVE  /\ \A a, b : Puts2(a, b) => DOMAIN stack' = 1..2 /\ Len(stack') = 2
           /\ \A a, b, c : Puts3(a, b, c) => DOMAIN stack' = 1..3 /\ Len(stack') = 3
           /\ \A a, b, c, d : Puts4(a, b, c, d) => DOMAIN stack' = 1..4 /\ Len(stack') = 4
<1>1. ASSUME NEW n \in {2, 3, 4}, Moves(n, 1) PROVE DOMAIN stack' = 1..n /\ Len(stack') = n
  <2>1. stack' \in Seq(Steps) /\ Len(stack') = n + Len(stack) - 1  BY <1>1 DEF Moves
  <2>2. Len(stack') = n  BY <2>1
  <2>3. QED BY <2>1, <2>2, LenProperties
<1>2. QED BY <1>1 DEF Puts2, Puts3, Puts4

\* The steps of an upgrade lie at the bottom.
LEMMA OpensLastNext == ASSUME WriteInv, OpensLast, Next PROVE OpensLast'
<1>1. BaseInv /\ StackTyped /\ TypeInv /\ AtSubmit  BY LifeFacts
<1>2. Pushed  BY <1>1, PushNext
<1> SUFFICES ASSUME NEW k \in DOMAIN stack', stack'[k].at \in Opening
             PROVE  k = Len(stack')
  BY DEF OpensLast
<1>3. CASE ~New(stack'[k])  BY <1>1, <1>2, <1>3, EachStep DEF OpensLast
<1>4. CASE New(stack'[k]) /\ ~Tops(Opening)
  <2>1. stack = <<>>  BY <1>4, OpeningNew
  <2>2. CASE UNCHANGED stack  BY <2>1, <2>2
  <2>3. CASE \E a : Covers1(a)  BY <2>1, <2>3, AfterCovers
  <2>4. CASE OnPoll
    <3>1. stack'[k] \in PollSteps  BY <1>1, <2>4, PollMoves
    <3>2. \A a \in PollSteps : a.at \notin Opening
      <4>1. CASE Tls  BY <4>1 DEF PollSteps, At, Step, Opening
      <4>2. CASE ~Tls  BY <4>2 DEF PollSteps, At, Step, Opening
      <4>3. QED BY <4>1, <4>2
    <3>3. QED BY <3>1, <3>2
  <2>5. CASE Covers2(At("_onNativeClosed"), At("release"))
    <3>1. DOMAIN stack' = {1, 2} /\ Len(stack') = 2 /\ stack'[1] = At("_onNativeClosed")
      BY <2>1, <2>5, AfterCovers
    <3>2. stack'[1].at \notin Opening  BY <3>1 DEF At, Step, Opening
    <3>3. k = 1 \/ k = 2  BY <3>1
    <3>4. QED BY <3>1, <3>2, <3>3
  <2>6. CASE Covers2(CloseNow("cancelled"), At("_finalizeClose"))
    <3>1. DOMAIN stack' = {1, 2} /\ Len(stack') = 2 /\ stack'[1] = CloseNow("cancelled")
      BY <2>1, <2>6, AfterCovers
    <3>2. stack'[1].at \notin Opening  BY <3>1 DEF CloseNow, Step, Opening
    <3>3. k = 1 \/ k = 2  BY <3>1
    <3>4. QED BY <3>1, <3>2, <3>3
  <2>7. QED BY <1>1, <2>1, <2>2, <2>3, <2>4, <2>5, <2>6, EventMoves
<1>5. CASE Tops(Opening)
  <2>1. stack # <<>> /\ Head(stack).at \in Opening  BY <1>5 DEF Tops
  <2>2. Len(stack) = 1  BY <1>1, <2>1, StackIndexes DEF OpensLast
  <2>3. \A a : Puts1(a) => k = Len(stack')
    <3>1. DOMAIN stack = 1..1  BY <1>1, <2>2, StackIndexes
    <3> SUFFICES ASSUME NEW a, Puts1(a) PROVE k = Len(stack')  OBVIOUS
    <3>2. DOMAIN stack' = 1..1 /\ Len(stack') = 1  BY <1>1, <2>1, <2>2, <3>1, AfterPuts1
    <3>3. QED BY <3>2
  <2>4. ~Drops
    <3>1. SUFFICES ASSUME Drops PROVE FALSE  OBVIOUS
    <3>2. DOMAIN stack' = 1..0  BY <1>1, <2>1, <2>2, <3>1, AfterDrops
    <3>3. QED BY <3>2
  <2>5. \A a, b : Puts2(a, b) => k = 1 \/ k = Len(stack')
    <3> SUFFICES ASSUME NEW a, NEW b, Puts2(a, b) PROVE k = 1 \/ k = Len(stack')  OBVIOUS
    <3>1. DOMAIN stack' = 1..2 /\ Len(stack') = 2  BY <1>1, <2>1, <2>2, AfterOnly
    <3>2. QED BY <3>1
  <2>6. CASE Head(stack).at = "activate"
    <3>1. Activate  BY <2>1, <2>6, StepNext DEF Submitters, Shutdowns, Upcalls
    <3>2. CASE Puts3(At("flushWrites"), At("updatePoll"), At("activated"))
      <4>1. DOMAIN stack' = 1..3 /\ Len(stack') = 3  BY <1>1, <2>1, <2>2, <3>2, AfterOnly
      <4>2. k \notin {1, 2}  BY <3>2 DEF Puts3, At, Step, Opening
      <4>3. QED BY <4>1, <4>2
    <3>3. CASE Puts4(At("processMemoryBIO"), At("flushWrites"), At("updatePoll"), At("activated"))
      <4>1. DOMAIN stack' = 1..4 /\ Len(stack') = 4  BY <1>1, <2>1, <2>2, <3>3, AfterOnly
      <4>2. k \notin {1, 2, 3}  BY <3>3 DEF Puts4, At, Step, Opening
      <4>3. QED BY <4>1, <4>2
    <3>4. QED BY <1>1, <2>3, <3>1, <3>2, <3>3, ActivateMoves
  <2>7. CASE Head(stack).at = "activated"
    <3>1. Activated  BY <2>1, <2>7, StepNext DEF Submitters, Shutdowns, Upcalls
    <3>2. CASE Puts2(Step("submit", NextRequest, "none"), At("opened"))
      <4>1. k # 1  BY <3>2 DEF Puts2, Step, Opening
      <4>2. QED BY <2>5, <3>2, <4>1
    <3>3. QED BY <1>1, <2>3, <3>1, <3>2, ActivatedMoves
  <2>8. CASE Head(stack).at = "opened"
    <3>1. Opened  BY <2>1, <2>8, StepNext DEF Submitters, Shutdowns, Upcalls
    <3>2. CASE Puts2(At("user"), At("feed"))
      <4>1. k # 1  BY <3>2 DEF Puts2, At, Step, Opening
      <4>2. QED BY <2>5, <3>2, <4>1
    <3>3. QED BY <1>1, <2>3, <2>4, <3>1, <3>2, OpenedMoves
  <2>9. QED BY <2>1, <2>6, <2>7, <2>8 DEF Opening
<1>6. QED BY <1>3, <1>4, <1>5

\* While a submit() flushes, the limit does not close the transport, nor is it being closed
\* by who called it.
Inside ==
    \A k \in DOMAIN stack : stack[k].at = "submitted" =>
        /\ \A j \in DOMAIN stack : j < k => ~CutStep(stack[j])
        /\ \A j \in DOMAIN stack : j > k => stack[j].at # "cancelWrites"
        /\ requests[stack[k].on].outcome # "nobufs"

\* Only one submit() flushes, and below nothing that calls submit().
LEMMA OneSubmitted ==
    ASSUME StackTyped, Flushes, NEW k \in DOMAIN stack, stack[k].at = "submitted", Tops(Submitters)
    PROVE  k = 1 /\ Tops({"submitted"})
<1>1. stack # <<>> /\ 1 \in DOMAIN stack /\ Head(stack) = stack[1] /\ DOMAIN stack = 1..Len(stack)
  BY StackIndexes DEF Tops
<1>2. stack[1].at \notin Inner  BY <1>1 DEF Tops, Submitters, Inner
<1>3. ~(1 < k)  BY <1>1, <1>2 DEF Flushes, InnerStep
<1>4. k = 1  BY <1>1, <1>3
<1>5. QED BY <1>1, <1>4 DEF Tops

\* So it is for every submit() that flushes.
LEMMA InsideNext == ASSUME WriteInv, Flushes, Inside, Next PROVE Inside'
<1>1. BaseInv /\ StackTyped /\ TypeInv /\ AtSubmit /\ StackInv  BY LifeFacts
<1>2. Pushed  BY <1>1, PushNext
<1>3. PICK n \in Nat : Shifts(n)  BY <1>1, <1>2, PushedShifts
<1>4. stack' \in Seq(Steps) /\ DOMAIN stack' = 1..Len(stack') /\ Len(stack') \in Nat
  <2>1. stack' \in Seq(Steps)  BY <1>2 DEF Pushed, Pushes, Moves
  <2>2. QED BY <2>1, LenProperties
<1>5. DOMAIN stack = 1..Len(stack) /\ Len(stack) \in Nat /\ (stack # <<>> => Head(stack) = stack[1])
  BY <1>1, StackIndexes
<1> SUFFICES ASSUME NEW k \in DOMAIN stack', stack'[k].at = "submitted"
             PROVE  /\ \A j \in DOMAIN stack' : j < k => ~CutStep(stack'[j])
                    /\ \A j \in DOMAIN stack' : j > k => stack'[j].at # "cancelWrites"
                    /\ requests'[stack'[k].on].outcome # "nobufs"
  BY DEF Inside
<1>6. CASE Tops({"submit"})
  <2>1. stack # <<>> /\ Head(stack).at = "submit" /\ Tops(Submitters)
    BY <1>6 DEF Tops, Submitters
  <2>2. \A m \in DOMAIN stack : stack[m].at # "submitted"
    BY <1>1, <2>1, OneSubmitted DEF Tops
  <2>3. New(stack'[k])  BY <1>1, <1>2, <2>2, EachStep
  <2>4. stack'[k].on = Head(stack).on /\ queue = <<>> /\ ~flushing
    BY <2>3 DEF New, NewNative
  <2>5. PICK i : i = Head(stack).on  OBVIOUS
  <2>6. SubmitIdle(i)
    <3>1. Submit  BY <2>1, SubmitIsNext
    <3>2. QED BY <2>1, <2>4, <2>5, <3>1 DEF Submit, SubmitBehindOthers, Submitted, Top
  <2>7. i \in Nat  BY <1>1, <2>1, <2>5, TopOn
  <2>8. Puts2(At("flushWrites"), Step("submitted", i, "none"))  BY <1>1, <2>6, <2>7, SubmitIdleMoves
  <2>9. stack'[1].at = "flushWrites"  BY <2>8 DEF Puts2, At, Step
  <2>10. /\ stack'[2].at = "submitted" /\ 2 \in DOMAIN stack'
         /\ \A j \in 3..Len(stack') : j - 1 \in DOMAIN stack /\ stack'[j] = stack[j - 1]
    <3>1. \A j \in 2+1..Len(stack') : j - 2 + 1 \in DOMAIN stack /\ stack'[j] = stack[j - 2 + 1]
      BY <2>8 DEF Puts2, Moves
    <3>2. \A j \in 3..Len(stack') : j - 2 + 1 = j - 1  OBVIOUS
    <3>3. QED BY <2>8, <3>1, <3>2 DEF Puts2, Step
  <2>11. k = 2
    <3>1. k # 1  BY <2>9
    <3>2. k \notin 3..Len(stack')  BY <2>2, <2>10
    <3>3. QED BY <1>4, <3>1, <3>2
  <2>12. ASSUME NEW j \in DOMAIN stack', j < k PROVE ~CutStep(stack'[j])
    <3>1. j = 1  BY <1>4, <2>11, <2>12
    <3>2. QED BY <2>9, <3>1 DEF CutStep
  <2>13. ASSUME NEW j \in DOMAIN stack', j > k PROVE stack'[j].at # "cancelWrites"
    <3>1. ~closing  BY <1>1, <2>1 DEF AtSubmit
    <3>2. \A m \in DOMAIN stack : stack[m].at # "cancelWrites"  BY <1>1, <3>1 DEF BaseInv, Formed, Form
    <3>3. j \in 3..Len(stack')  BY <1>4, <2>11, <2>13
    <3>4. QED BY <2>10, <3>2, <3>3
  <2>14. requests'[stack'[k].on].outcome = "pending"
    <3>1. UNCHANGED requests  BY <2>6 DEF SubmitIdle
    <3>2. QED BY <1>1, <2>1, <2>4, <3>1 DEF AtSubmit
  <2>15. QED BY <2>12, <2>13, <2>14
<1>7. CASE ~Tops({"submit"})
  <2>1. ~New(stack'[k])  BY <1>7 DEF New, NewNative
  <2>2. k > n  BY <1>3, <1>4, <2>1 DEF Shifts
  <2>3. PICK m \in DOMAIN stack : stack'[k] = stack[m] /\ m + Len(stack') = k + Len(stack)
    BY <1>3, <1>4, <2>2 DEF Shifts
  <2>4. stack[m].at = "submitted" /\ stack # <<>>  BY <2>3
  <2>5. ~Tops({"submitted"})
    <3>1. SUFFICES ASSUME Tops({"submitted"}) PROVE FALSE  OBVIOUS
    <3>2. Tops(Submitters)  BY <3>1 DEF Tops, Submitters
    <3>3. \A j \in DOMAIN stack : j > 1 => stack[j].at # "submitted"
      BY <1>1, <1>5, <3>2, OneSubmitted
    <3>4. QED BY <1>1, <3>1, <3>3, SubmittedGone
  <2>6. 1 \in DOMAIN stack /\ 1 < m
    <3>1. m # 1  BY <1>5, <2>4, <2>5 DEF Tops
    <3>2. QED BY <1>5, <3>1
  <2>7. ~CutStep(stack[1])  BY <2>4, <2>6 DEF Inside
  <2>8. ASSUME NEW j \in DOMAIN stack', j < k PROVE ~CutStep(stack'[j])
    <3>1. CASE j <= n
      <4>1. New(stack'[j])  BY <1>3, <3>1 DEF Shifts
      <4>2. ~Tops(Submitters)  BY <1>7, <2>5 DEF Tops, Submitters
      <4>3. ASSUME stack'[j].at = "cancelWrites", stack'[j].why = "nobufs" PROVE FALSE
        <5>1. Tops({"closeNow"}) /\ Head(stack).why = "nobufs"  BY <4>1, <4>3 DEF New, NewNative
        <5>2. QED BY <1>5, <2>4, <2>7, <5>1 DEF Tops, CutStep
      <4>4. ASSUME stack'[j].at = "closeNow", stack'[j].why = "nobufs" PROVE FALSE
        BY <4>1, <4>2, <4>4 DEF New, NewClose
      <4>5. QED BY <4>3, <4>4 DEF CutStep
    <3>2. CASE j > n
      <4>1. PICK b \in DOMAIN stack : stack'[j] = stack[b] /\ b + Len(stack') = j + Len(stack)
        BY <1>3, <1>4, <3>2 DEF Shifts
      <4>2. b < m
        <5>1. j \in Nat /\ k \in Nat /\ b \in Nat /\ m \in Nat  BY <1>4, <1>5
        <5>2. QED BY ONLY <1>4, <1>5, <2>3, <2>8, <4>1, <5>1
      <4>3. QED BY <2>4, <4>1, <4>2 DEF Inside
    <3>3. QED BY <1>4, <3>1, <3>2
  <2>9. ASSUME NEW j \in DOMAIN stack', j > k PROVE stack'[j].at # "cancelWrites"
    <3>1. j > n  BY <1>4, <2>2, <2>9
    <3>2. PICK b \in DOMAIN stack : stack'[j] = stack[b] /\ b + Len(stack') = j + Len(stack)
      BY <1>3, <1>4, <3>1 DEF Shifts
    <3>3. b > m
      <4>1. j \in Nat /\ k \in Nat /\ b \in Nat /\ m \in Nat  BY <1>4, <1>5
      <4>2. QED BY ONLY <1>4, <1>5, <2>3, <2>9, <3>2, <4>1
    <3>4. QED BY <2>4, <3>2, <3>3 DEF Inside
  <2>10. requests'[stack'[k].on].outcome # "nobufs"
    <3>1. PICK i : i = stack[m].on  OBVIOUS
    <3>2. i \in DOMAIN requests /\ requests[i].outcome # "nobufs"
      BY <2>4, <3>1 DEF Flushes, Flushed, Inside
    <3>3. ~(Tops({"cancelWrites"}) /\ Head(stack).why = "nobufs")
      BY <1>5, <2>4, <2>7 DEF Tops, CutStep
    <3>4. requests'[i].outcome # "nobufs"  BY <3>2, <3>3, EndsBy
    <3>5. QED BY <2>3, <3>1, <3>4
  <2>11. QED BY <2>8, <2>9, <2>10
<1>8. QED BY <1>6, <1>7

\* A send() that failed, but not because of the limit.
Failed(r) == r.outcome \in {"cancelled", "handshake", "refused"}
\* Who is being told of an error failed so.
Blames ==
    \A k \in DOMAIN stack :
        stack[k].why = "error" /\ Tells(stack[k], requests[stack[k].on].kind) =>
            ClosedBeforeResponse \/ Failed(requests[stack[k].on])
\* And so did who was told of one.
Blamed ==
    \A k \in DOMAIN answers : answers[k].result = "error" =>
        ClosedBeforeResponse \/ Failed(requests[answers[k].request])

\* What failed stays so.
LEMMA FailedStays ==
    ASSUME WriteInv, Next, NEW i \in DOMAIN requests, ClosedBeforeResponse \/ Failed(requests[i])
    PROVE  i \in DOMAIN requests' /\ (ClosedBeforeResponse' \/ Failed(requests'[i]))
<1>1. BaseInv  BY LifeFacts
<1>2. ClosedBeforeResponse => ClosedBeforeResponse'  BY <1>1, StillBefore
<1>3. Failed(requests[i]) => requests'[i].outcome = requests[i].outcome  BY EndsBy DEF Failed
<1>4. i \in DOMAIN requests'  BY EndsBy
<1>5. QED BY <1>2, <1>3, <1>4 DEF Failed

\* A submit() that finds the transport closing after its flush has failed, and not by the limit.
LEMMA SubmittedFails ==
    ASSUME WriteInv, Cancels, SentOpen, Inside, Tops({"submitted"}), closing,
           requests[Head(stack).on].kind = "app"
    PROVE  ClosedBeforeResponse \/ Failed(requests[Head(stack).on])
<1>1. BaseInv /\ StackTyped /\ QueueInv  BY LifeFacts DEF WriteInv
<1>2. stack # <<>> /\ Head(stack).at = "submitted"  BY DEF Tops
<1>3. 1 \in DOMAIN stack /\ Head(stack) = stack[1] /\ DOMAIN stack = 1..Len(stack)
  BY <1>1, <1>2, StackIndexes
<1>4. PICK i : i = Head(stack).on  OBVIOUS
<1>5. i \in DOMAIN requests  BY <1>1, <1>2, <1>4, TopOn DEF RequestSteps
<1>6. requests[i].outcome \in Outcomes  BY <1>1, <1>5, RequestIndexes DEF Requests
<1>7. requests[i].outcome # "nobufs"  BY <1>2, <1>3, <1>4 DEF Inside
<1>8. requests[i].outcome # "pending"
  <2>1. SUFFICES ASSUME requests[i].outcome = "pending" PROVE FALSE  OBVIOUS
  <2>2. ~Submitting(i)  BY <1>2 DEF Submitting
  <2>3. Queued(i)  BY <1>1, <1>5, <2>1, <2>2 DEF QueueInv, PendingIsQueued
  <2>4. queue # <<>>  BY <2>3 DEF Queued
  <2>5. PICK k \in DOMAIN stack : stack[k].at = "cancelWrites"  BY <2>4 DEF Cancels, On
  <2>6. k # 1  BY <1>2, <1>3, <2>5
  <2>7. k > 1  BY <1>3, <2>6
  <2>8. QED BY <1>2, <1>3, <2>5, <2>7 DEF Inside
<1>9. requests[i].outcome = "sent" => ClosedBeforeResponse
  BY <1>2, <1>3, <1>4 DEF SentOpen
<1>10. QED BY <1>4, <1>6, <1>7, <1>8, <1>9 DEF Failed, Outcomes

\* Who is about to be told of an error has failed, and not by the limit.
LEMMA BlamesNext ==
    ASSUME LifeInv, Cancels, SentOpen, Inside, Blames, Next PROVE Blames'
<1>1. WriteInv  BY DEF LifeInv
<1>2. BaseInv /\ TypeInv /\ StackTyped /\ StackInv /\ AtSubmit /\ QueueInv
  BY <1>1, LifeFacts DEF WriteInv
<1>3. Pushed /\ HandleChanges  BY <1>2, PushNext, VarsNext
<1>4. DOMAIN requests = 1..Len(requests) /\ Len(requests) \in Nat /\ NextRequest \notin DOMAIN requests
  BY <1>2, RequestIndexes DEF NextRequest
<1> SUFFICES ASSUME NEW k \in DOMAIN stack', NEW s, s = stack'[k], NEW i, i = s.on, s.why = "error",
                    Tells(s, requests'[i].kind)
             PROVE  ClosedBeforeResponse' \/ Failed(requests'[i])
  BY DEF Blames
<1>5. s.at \in RequestSteps  BY DEF Tells, RequestSteps
<1>6. i \in DOMAIN requests'
  <2>1. Formed'  BY <1>2, StackNext
  <2>2. Form(s, Len(requests'), closing')  BY <2>1 DEF Formed
  <2>3. i \in 1..Len(requests')  BY <1>5, <2>2 DEF Form
  <2>4. RequestsGrow  BY <1>2, RequestsNext
  <2>5. QED BY <2>3, <2>4, LenProperties DEF RequestsGrow
<1>7. CASE ~New(s)
  <2>1. PICK j \in DOMAIN stack : s = stack[j]  BY <1>2, <1>3, <1>7, EachStep
  <2>2. Form(s, Len(requests), closing)  BY <1>2, <2>1 DEF BaseInv, Formed
  <2>3. i \in DOMAIN requests  BY <1>4, <1>5, <2>2 DEF Form
  <2>4. Tells(s, requests[i].kind)  BY <1>1, <2>3, OutcomeNext
  <2>5. ClosedBeforeResponse \/ Failed(requests[i])  BY <2>1, <2>4 DEF Blames
  <2>6. QED BY <1>1, <2>3, <2>5, FailedStays
<1>8. CASE New(s) /\ s.at = "writeCallback"
  <2>1. queue # <<>> /\ i = First  BY <1>8 DEF New, NewCall
  <2>2. Tops({"cancelWrites"}) /\ Head(stack).why # "nobufs"  BY <1>8 DEF New, NewCall
  <2>3. CancelWrite
    <3>1. CancelWrite \/ Closed  BY <2>2, StepNext DEF Tops, Submitters, Shutdowns, Upcalls
    <3>2. QED BY <2>1, <3>1 DEF Closed
  <2>4. /\ requests[First] \in Requests /\ Edits(First, EndedBy(requests[First], Head(stack).why))
        /\ Head(stack).why \in {"nobufs", "cancelled", "handshake"}
    BY <1>2, <2>3, CancelWriteData
  <2>5. requests'[i] = EndedBy(requests[i], Head(stack).why)  BY <2>1, <2>4 DEF Edits
  <2>6. EndedBy(requests[i], Head(stack).why).outcome = Head(stack).why
    BY <2>1, <2>4 DEF EndedBy, Requests
  <2>7. QED BY <2>2, <2>4, <2>5, <2>6 DEF Failed
<1>9. CASE New(s) /\ s.at = "_finishNativeWrite"
  <2>1. requests'[i].kind = "app"  BY <1>9 DEF Tells
  <2>2. CASE Tops({"submitted"}) /\ i = Head(stack).on /\ closing
    <3>1. i \in DOMAIN requests  BY <1>2, <2>2, TopOn DEF RequestSteps, Tops
    <3>2. requests[i].kind = "app"  BY <1>1, <2>1, <3>1, OutcomeNext
    <3>3. ClosedBeforeResponse \/ Failed(requests[i])  BY <1>1, <2>2, <3>2, SubmittedFails
    <3>4. QED BY <1>1, <3>1, <3>3, FailedStays
  <2>3. CASE i = NextRequest /\ ~writable
    <3>1. closing
      <4>1. readyState = "OPEN"
        <5>1. i \notin DOMAIN requests  BY <1>4, <2>3
        <5>2. ~closing => destroyRequested  BY <2>3 DEF writable
        <5>3. New(s) => \/ Tops(Submitters) /\ i = Head(stack).on
                        \/ readyState = "OPEN"
          BY <1>9 DEF New, NewScript
        <5>4. Tops(Submitters) /\ i = Head(stack).on => i \in DOMAIN requests
          BY <1>2, TopOn DEF RequestSteps, Submitters, Tops
        <5>5. QED BY <1>9, <5>1, <5>3, <5>4
      <4>2. ~destroyRequested  BY <4>1 DEF LifeInv, Destroys
      <4>3. QED BY <2>3, <4>2 DEF writable
    <3>2. requests'[i].outcome = "refused"  BY <1>1, <1>4, <1>6, <2>3, <3>1, NewIs
    <3>3. QED BY <3>2 DEF Failed
  <2>4. QED
    <3>1. \/ Tops({"submitted"}) /\ i = Head(stack).on /\ closing
          \/ i = NextRequest /\ ~writable
      BY <1>9 DEF New, NewScript
    <3>2. QED BY <2>2, <2>3, <3>1
<1>10. QED BY <1>7, <1>8, <1>9 DEF Tells

\* Who was told of an error has failed, and not by the limit.
LEMMA BlamedNext ==
    ASSUME WriteInv, AnswersTrue, Blames, Blamed, Next PROVE Blamed'
<1>1. BaseInv /\ StackTyped  BY LifeFacts
<1> SUFFICES ASSUME NEW k \in DOMAIN answers', answers'[k].result = "error"
             PROVE  ClosedBeforeResponse' \/ Failed(requests'[answers'[k].request])
  BY DEF Blamed
<1>2. CASE k \in DOMAIN answers /\ answers'[k] = answers[k]
  <2>1. PICK i : i = answers[k].request  OBVIOUS
  <2>2. i \in DOMAIN requests /\ (ClosedBeforeResponse \/ Failed(requests[i]))
    BY <1>2, <2>1 DEF AnswersTrue, Blamed
  <2>3. QED BY <1>2, <2>1, <2>2, FailedStays
<1>3. CASE FromNative \/ FinishNativeWrite
  <2>1. stack # <<>>  BY <1>3 DEF FromNative, FinishNativeWrite, Top
  <2>2. 1 \in DOMAIN stack /\ Head(stack) = stack[1]  BY <1>1, <2>1, StackIndexes
  <2>3. PICK i, why : i = Head(stack).on /\ why = Head(stack).why  OBVIOUS
  <2>4. ASSUME NEW result, Answered(i, result), result = "error" => why = "error",
               Tells(Head(stack), requests[i].kind), i \in DOMAIN requests
        PROVE  ClosedBeforeResponse' \/ Failed(requests'[answers'[k].request])
    <3>1. \/ k \in DOMAIN answers /\ answers'[k] = answers[k]
          \/ answers'[k] = [request |-> i, result |-> result]
      BY <2>4 DEF Answered
    <3>2. CASE answers'[k] = [request |-> i, result |-> result]
      <4>1. why = "error"  BY <2>4, <3>2
      <4>2. ClosedBeforeResponse \/ Failed(requests[i])  BY <2>2, <2>3, <2>4, <4>1 DEF Blames
      <4>3. QED BY <2>4, <3>2, <4>2, FailedStays
    <3>3. QED BY <1>2, <3>1, <3>2
  <2>5. Head(stack).at \in RequestSteps => i \in DOMAIN requests  BY <1>1, <2>1, <2>3, TopOn
  <2>6. CASE Head(stack).at = "writeCallback" /\ Answered(i, why)
    BY <2>4, <2>5, <2>6 DEF Tells, RequestSteps
  <2>7. CASE /\ Head(stack).at = "_finishNativeWrite" /\ requests[i].kind = "app"
             /\ \/ why = "sync" /\ Answered(i, "ok")
                \/ why = "error" /\ Answered(i, "error")
    BY <2>3, <2>4, <2>5, <2>7 DEF Tells, RequestSteps
  <2>8. CASE UNCHANGED answers  BY <1>2, <2>8
  <2>9. FinishNativeWrite => Head(stack).at = "_finishNativeWrite"  BY DEF FinishNativeWrite, Top
  <2>10. QED BY <1>1, <2>3, <2>6, <2>7, <2>8, <2>9, AnswersNext
<1>4. CASE UNCHANGED answers  BY <1>2, <1>4
<1>5. QED BY <1>1, <1>3, <1>4, AnswersNext

\* Before the limit cancels anything the application was told of it, and is over.
Limits == Limited /\ given /\ ~Tops({"_onNativeBackpressure"}) => Over
\* And so it is when it has cost a send().
Spared == Cut => Over

\* Steps that do not close for the limit leave it unnoticed.
LEMMA UnlimitedMoves ==
    ASSUME StackTyped, stack # <<>>, ~Limited
    PROVE  /\ Drops => ~Limited'
           /\ \A a : Puts1(a) /\ ~CutStep(a) => ~Limited'
           /\ \A a, b : Puts2(a, b) /\ ~CutStep(a) /\ ~CutStep(b) => ~Limited'
<1>1. ASSUME NEW n \in Nat, Moves(n, 1), \A k \in 1..n : ~CutStep(stack'[k]) PROVE ~Limited'
  <2> SUFFICES ASSUME NEW k \in DOMAIN stack', CutStep(stack'[k]) PROVE FALSE  BY DEF Limited, CutStep
  <2>1. stack' \in Seq(Steps) /\ \A j \in n+1..Len(stack') : j - n + 1 \in DOMAIN stack /\ stack'[j] = stack[j - n + 1]
    BY <1>1 DEF Moves
  <2>2. k \in 1..Len(stack') /\ Len(stack') \in Nat  BY <2>1, LenProperties
  <2>3. k \in 1..n \/ k \in n+1..Len(stack')  BY <2>2
  <2>4. CASE k \in n+1..Len(stack')  BY <2>1, <2>4 DEF Limited
  <2>5. QED BY <1>1, <2>3, <2>4
<1>2. Drops => ~Limited'
  <2>1. \A k \in 1..0 : ~CutStep(stack'[k])  OBVIOUS
  <2>2. QED BY <1>1, <2>1 DEF Drops
<1>3. \A a : Puts1(a) /\ ~CutStep(a) => ~Limited'
  <2> SUFFICES ASSUME NEW a, Puts1(a), ~CutStep(a) PROVE ~Limited'  OBVIOUS
  <2>1. \A k \in 1..1 : ~CutStep(stack'[k])  BY DEF Puts1
  <2>2. QED BY <1>1, <2>1 DEF Puts1
<1>4. \A a, b : Puts2(a, b) /\ ~CutStep(a) /\ ~CutStep(b) => ~Limited'
  <2> SUFFICES ASSUME NEW a, NEW b, Puts2(a, b), ~CutStep(a), ~CutStep(b) PROVE ~Limited'  OBVIOUS
  <2>1. \A k \in 1..2 : ~CutStep(stack'[k])  BY DEF Puts2
  <2>2. QED BY <1>1, <2>1 DEF Puts2
<1>5. QED BY <1>2, <1>3, <1>4

\* submit() tells the application of the limit before it closes for it.
LEMMA SubmitCuts ==
    ASSUME WriteInv, Next, Tops(Submitters), ~Limited, Limited'
    PROVE  Tops({"_onNativeBackpressure"})'
<1>1. BaseInv /\ TypeInv /\ StackTyped  BY LifeFacts
<1>2. stack # <<>> /\ Head(stack).at \in {"submit", "submitted"}  BY DEF Tops, Submitters
<1>3. PICK i : i = Head(stack).on  OBVIOUS
<1>4. i \in Nat  BY <1>1, <1>2, <1>3, TopOn
<1>5. SubmitBehindOthers(i) \/ SubmitIdle(i) \/ Submitted(i)
  BY <1>2, <1>3, SubmitIsNext DEF Submit
<1>6. PICK a : a = At("_onNativeBackpressure")  OBVIOUS
<1>7. a.at = "_onNativeBackpressure"  BY <1>6 DEF At, Step
<1>8. \A b : Puts2(a, b) => Tops({"_onNativeBackpressure"})'
  BY <1>1, <1>7, NewTop DEF Tops
<1>9. \A b, c : Puts3(a, b, c) => Tops({"_onNativeBackpressure"})'
  BY <1>1, <1>7, NewTop DEF Tops
<1>10. ~Drops  BY <1>1, <1>2, UnlimitedMoves
<1>11. \A why : ~CutStep(Back(i, why))  BY DEF CutStep, Back, Step
<1>12. \A why : ~Puts1(Back(i, why))  BY <1>1, <1>2, <1>11, UnlimitedMoves
<1>13. CASE SubmitBehindOthers(i)
  BY <1>1, <1>4, <1>6, <1>8, <1>9, <1>10, <1>12, <1>13, BehindOthersMoves
<1>14. CASE SubmitIdle(i)
  <2>1. Puts2(At("flushWrites"), Step("submitted", i, "none"))  BY <1>1, <1>4, <1>14, SubmitIdleMoves
  <2>2. ~CutStep(At("flushWrites")) /\ ~CutStep(Step("submitted", i, "none"))  BY DEF CutStep, At, Step
  <2>3. QED BY <1>1, <1>2, <2>1, <2>2, UnlimitedMoves
<1>15. CASE Submitted(i)
  BY <1>1, <1>4, <1>6, <1>8, <1>9, <1>10, <1>12, <1>15, SubmittedMoves
<1>16. QED BY <1>5, <1>13, <1>14, <1>15

\* Who may begin to close for the limit.
LEMMA NewCut ==
    ASSUME NEW s, New(s), CutStep(s)
    PROVE  Tops(Submitters) \/ (Tops({"closeNow"}) /\ Head(stack).why = "nobufs")
BY DEF CutStep, New, NewNative, NewClose

\* Nothing was refused before the transport closes, and nothing by the step that tells of it.
LEMMA NotRefused ==
    ASSUME LifeInv, Ends, Next, ~closing PROVE ~Out("refused")'
<1>1. WriteInv  BY DEF LifeInv
<1> SUFFICES ASSUME NEW i \in DOMAIN requests', requests'[i].outcome = "refused" PROVE FALSE
  BY DEF Out
<1>2. CASE i \in DOMAIN requests
  <2>1. requests[i].outcome \in {"pending", "sent"}  BY <1>2 DEF Ends
  <2>2. QED BY <1>1, <1>2, <2>1, EndsBy
<1>3. CASE i \notin DOMAIN requests
  <2>1. ~writable /\ readyState = "OPEN"  BY <1>1, <1>3, NewIs
  <2>2. ~destroyRequested  BY <2>1 DEF LifeInv, Destroys
  <2>3. QED BY <2>1, <2>2 DEF writable
<1>4. QED BY <1>2, <1>3

\* The application is told of the limit before anything is cancelled for it.
LEMMA LimitsNext ==
    ASSUME LifeInv, Ends, OneOpening, OpensLast, Warned, Limits, Next PROVE Limits'
<1>1. WriteInv  BY DEF LifeInv
<1>2. BaseInv /\ TypeInv /\ StackTyped /\ AtSubmit  BY <1>1, LifeFacts
<1>3. Pushed /\ StateChanges  BY <1>2, PushNext, VarsNext
<1> SUFFICES ASSUME NEW k \in DOMAIN stack', CutStep(stack'[k]), given',
                    ~Tops({"_onNativeBackpressure"})'
             PROVE  Over'
  BY DEF Limits, Limited, CutStep
<1>4. Limited'  BY DEF Limited, CutStep
<1>5. stack # <<>> => 1 \in DOMAIN stack /\ Head(stack) = stack[1] /\ DOMAIN stack = 1..Len(stack)
  BY <1>2, StackIndexes
<1>6. CASE ~given
  <2>1. Tops({"opened"})  BY <1>3, <1>6 DEF StateChanges
  <2>2. Len(stack) = 1  BY <1>5, <2>1 DEF OpensLast, Opening, Tops
  <2>3. \A j \in DOMAIN stack : ~CutStep(stack[j])
    <3>1. DOMAIN stack = 1..1 /\ stack[1].at = "opened"  BY <1>5, <2>1, <2>2 DEF Tops
    <3>2. QED BY <3>1 DEF CutStep
  <2>4. ~New(stack'[k])  BY <2>1, NewCut DEF Tops, Submitters
  <2>5. QED BY <1>2, <1>3, <2>3, <2>4, EachStep
<1>7. CASE given /\ Limited /\ ~Tops({"_onNativeBackpressure"})
  BY <1>1, <1>7, OverStays DEF Limits
<1>8. CASE Tops({"_onNativeBackpressure"})
  <2>1. readyState' # "OPEN"  BY <1>3, <1>8 DEF StateChanges, Tops
  <2>2. ~closing  BY <1>5, <1>8 DEF Warned, Tops
  <2>3. ~Out("refused")'  BY <2>2, NotRefused
  <2>4. QED BY <2>1, <2>3 DEF Over
<1>9. CASE ~Limited
  <2>1. \A j \in DOMAIN stack : ~CutStep(stack[j])  BY <1>9 DEF Limited
  <2>2. New(stack'[k])  BY <1>2, <1>3, <2>1, EachStep
  <2>3. ~(Tops({"closeNow"}) /\ Head(stack).why = "nobufs")  BY <1>5, <2>1 DEF Tops, CutStep
  <2>4. Tops(Submitters)  BY <2>2, <2>3, NewCut
  <2>5. QED BY <1>1, <1>4, <1>9, <2>4, SubmitCuts
<1>10. QED BY <1>2, <1>6, <1>7, <1>8, <1>9 DEF TypeInv

\* So no send() that the limit cancels is followed by one that is refused.
LEMMA SparedNext ==
    ASSUME LifeInv, Ungiven, OneOpening, Limits, Spared, Next PROVE Spared'
<1>1. WriteInv  BY DEF LifeInv
<1> SUFFICES ASSUME NEW i \in DOMAIN requests', requests'[i].kind = "app", requests'[i].outcome = "nobufs"
             PROVE  Over'
  BY DEF Spared, Cut
<1>2. i \in DOMAIN requests  BY <1>1, NewOutcome
<1>3. requests[i].kind = "app"  BY <1>1, <1>2, EndsBy
<1>4. given  BY <1>2, <1>3 DEF Ungiven
<1>5. CASE requests[i].outcome = "nobufs"
  BY <1>1, <1>2, <1>3, <1>4, <1>5, OverStays DEF Spared, Cut
<1>6. CASE requests[i].outcome # "nobufs"
  <2>1. Tops({"cancelWrites"}) /\ Head(stack).why = "nobufs"  BY <1>1, <1>2, <1>6, EndsBy
  <2>2. 1 \in DOMAIN stack /\ Head(stack) = stack[1]  BY <1>1, <2>1, LifeFacts, StackIndexes DEF Tops
  <2>3. Limited  BY <2>1, <2>2 DEF Limited, CutStep, Tops
  <2>4. ~Tops({"_onNativeBackpressure"})  BY <2>1 DEF Tops
  <2>5. Over  BY <1>4, <2>3, <2>4 DEF Limits
  <2>6. QED BY <1>1, <1>4, <2>5, OverStays
<1>7. QED BY <1>5, <1>6

\* What reads, up to the peer's Close being told.
Readers == {"feed", "readAvailable", "processMemoryBIO", "SSL_read", "peerClose", "_onNativeClose"}
\* What may lie below it.
ReadBelow == {"feed", "readAvailable", "processMemoryBIO", "SSL_read", "peerClose", "peerClosed",
              "flushOutput", "flushWrites", "shutdownIfPending", "updatePoll", "activated"}
\* And nothing else does: it was called by the event loop, not from a send().
Reading == \A j, k \in DOMAIN stack : j < k /\ stack[j].at \in Readers => stack[k].at \in ReadBelow
\* Below the d topmost steps there are only such.
BelowReads(d) == \A k \in DOMAIN stack : k > d => stack[k].at \in ReadBelow

\* New steps keep this when they do among themselves, and a reader is put only on what may lie
\* below it.
LEMMA ReadingMoves ==
    ASSUME StackTyped, Reading, NEW n \in Nat, NEW d \in {0, 1}, Moves(n, d),
           \A j, k \in 1..n : j < k /\ stack'[j].at \in Readers => stack'[k].at \in ReadBelow,
           BelowReads(d) \/ \A j \in 1..n : stack'[j].at \notin Readers
    PROVE  Reading'
<1>1. stack' \in Seq(Steps) /\ \A k \in n+1..Len(stack') : k - n + d \in DOMAIN stack /\ stack'[k] = stack[k - n + d]
  BY DEF Moves
<1>2. DOMAIN stack' = 1..Len(stack') /\ Len(stack') \in Nat  BY <1>1, LenProperties
<1>3. DOMAIN stack = 1..Len(stack) /\ Len(stack) \in Nat  BY StackIndexes
<1> SUFFICES ASSUME NEW j \in DOMAIN stack', NEW k \in DOMAIN stack', j < k, stack'[j].at \in Readers
             PROVE  stack'[k].at \in ReadBelow
  BY DEF Reading
<1>4. j \in Nat /\ k \in Nat /\ j >= 1 /\ k >= 1 /\ k <= Len(stack') /\ j <= Len(stack')  BY <1>2
<1>5. CASE k <= n
  <2>1. j \in 1..n /\ k \in 1..n  BY <1>4, <1>5
  <2>2. QED BY <2>1
<1>6. CASE k > n
  <2>1. k \in n+1..Len(stack')  BY <1>4, <1>6
  <2>2. PICK b \in DOMAIN stack : b = k - n + d /\ stack'[k] = stack[b]  BY <1>1, <2>1
  <2>3. CASE j <= n
    <3>1. j \in 1..n  BY <1>4, <2>3
    <3>2. BelowReads(d)  BY <3>1
    <3>3. b > d
      <4>1. b \in Nat  BY <1>3
      <4>2. QED BY ONLY <1>4, <1>6, <2>2, <4>1, n \in Nat, d \in {0, 1}
    <3>4. QED BY <2>2, <3>2, <3>3 DEF BelowReads
  <2>4. CASE j > n
    <3>1. j \in n+1..Len(stack')  BY <1>4, <2>4
    <3>2. PICK a \in DOMAIN stack : a = j - n + d /\ stack'[j] = stack[a]  BY <1>1, <3>1
    <3>3. a < b
      <4>1. a \in Nat /\ b \in Nat  BY <1>3
      <4>2. QED BY ONLY <1>4, <2>2, <3>2, <4>1, n \in Nat, d \in {0, 1}, j < k
    <3>4. QED BY <2>2, <3>2, <3>3 DEF Reading
  <2>5. QED BY <1>4, <2>3, <2>4
<1>7. QED BY <1>4, <1>5, <1>6

\* Which steps keep it in the place of a reader.
LEMMA ReadingPuts ==
    ASSUME StackTyped, Reading, BelowReads(1)
    PROVE  /\ Drops => Reading'
           /\ \A a : Puts1(a) => Reading'
           /\ \A a, b : Puts2(a, b) /\ (a.at \in Readers => b.at \in ReadBelow) => Reading'
           /\ \A a, b, c :
                Puts3(a, b, c) /\ a.at \notin Readers /\ b.at \notin Readers => Reading'
           /\ \A a, b, c, d :
                Puts4(a, b, c, d) /\ {b.at, c.at, d.at} \subseteq ReadBelow /\ b.at \notin Readers
                /\ c.at \notin Readers => Reading'
<1>1. Drops => Reading'
  <2>1. \A j, k \in 1..0 : j < k /\ stack'[j].at \in Readers => stack'[k].at \in ReadBelow  OBVIOUS
  <2>2. QED BY <2>1, ReadingMoves DEF Drops
<1>2. \A a : Puts1(a) => Reading'
  <2>1. \A j, k \in 1..1 : j < k /\ stack'[j].at \in Readers => stack'[k].at \in ReadBelow  OBVIOUS
  <2>2. QED BY <2>1, ReadingMoves DEF Puts1
<1>3. \A a, b : Puts2(a, b) /\ (a.at \in Readers => b.at \in ReadBelow) => Reading'
  <2> SUFFICES ASSUME NEW a, NEW b, Puts2(a, b), a.at \in Readers => b.at \in ReadBelow PROVE Reading'
    OBVIOUS
  <2>1. \A j, k \in 1..2 : j < k => j = 1 /\ k = 2  OBVIOUS
  <2>2. \A j, k \in 1..2 : j < k /\ stack'[j].at \in Readers => stack'[k].at \in ReadBelow
    BY <2>1 DEF Puts2
  <2>3. QED BY <2>2, ReadingMoves DEF Puts2
<1>4. \A a, b, c : Puts3(a, b, c) /\ a.at \notin Readers /\ b.at \notin Readers => Reading'
  <2> SUFFICES ASSUME NEW a, NEW b, NEW c, Puts3(a, b, c), a.at \notin Readers, b.at \notin Readers
               PROVE  Reading'
    OBVIOUS
  <2>1. \A j, k \in 1..3 : j < k => j = 1 \/ j = 2  OBVIOUS
  <2>2. \A j, k \in 1..3 : j < k /\ stack'[j].at \in Readers => stack'[k].at \in ReadBelow
    BY <2>1 DEF Puts3
  <2>3. QED BY <2>2, ReadingMoves DEF Puts3
<1>5. \A a, b, c, d :
        Puts4(a, b, c, d) /\ {b.at, c.at, d.at} \subseteq ReadBelow /\ b.at \notin Readers
        /\ c.at \notin Readers => Reading'
  <2> SUFFICES ASSUME NEW a, NEW b, NEW c, NEW d, Puts4(a, b, c, d),
                      {b.at, c.at, d.at} \subseteq ReadBelow
               PROVE  Reading'
    OBVIOUS
  <2>1. \A j, k \in 1..4 : j < k => k \in {2, 3, 4}  OBVIOUS
  <2>2. \A k \in {2, 3, 4} : stack'[k].at \in ReadBelow  BY DEF Puts4
  <2>3. QED BY <2>1, <2>2, ReadingMoves DEF Puts4
<1>6. QED BY <1>1, <1>2, <1>3, <1>4, <1>5

\* So do the events of a read.
LEMMA ReadingConsume ==
    ASSUME TypeInv, Reading, BelowReads(1), stack # <<>>, NEW d \in {0, 1}, NEW rest, rest = Below(d),
           d = 0 => Tops(ReadBelow), Consume(rest)
    PROVE  Reading'
<1>1. StackTyped  BY DEF TypeInv
<1>2. PICK n \in Nat : Moves(n, d) /\ (Events1(n) \/ LastEvents(n))  BY ConsumeMoves
<1>3. BelowReads(d)
  <2>1. CASE d = 1  BY <2>1
  <2>2. CASE d = 0
    <3>1. Head(stack) = stack[1] /\ DOMAIN stack = 1..Len(stack) /\ Head(stack).at \in ReadBelow
      BY <1>1, <2>2, StackIndexes DEF Tops
    <3>2. QED BY <3>1 DEF BelowReads
  <2>3. QED BY <2>1, <2>2
<1>4. ASSUME NEW j \in 1..n, NEW k \in 1..n, j < k PROVE stack'[j].at \notin Readers
  <2>1. CASE Events1(n)
    <3>1. stack'[j] \in {At("message"), At("pong")}  BY <2>1 DEF Events1
    <3>2. QED BY <3>1 DEF At, Step, Readers
  <2>2. CASE LastEvents(n)
    <3>1. j \in 1..n-1  BY <1>4
    <3>2. stack'[j] \in {At("message"), At("pong"), At("reply")}  BY <2>2, <3>1 DEF LastEvents
    <3>3. QED BY <3>2 DEF At, Step, Readers
  <2>3. QED BY <1>2, <2>1, <2>2
<1>5. QED BY <1>1, <1>2, <1>3, <1>4, ReadingMoves

\* Only a reader, an upgrade or an event puts one.
LEMMA NewReader ==
    ASSUME NEW s, New(s), s.at \in Readers PROVE stack = <<>> \/ Tops(Opening) \/ Tops(Readers)
<1>1. s.at = "feed" => Tops({"opened"})  BY DEF New, NewNative
<1>2. s.at = "readAvailable" => stack = <<>>  BY DEF New, NewNative
<1>3. s.at = "processMemoryBIO" => stack = <<>> \/ Tops({"readAvailable", "activate"})
  BY DEF New, NewNative
<1>4. s.at = "SSL_read" => Tops({"processMemoryBIO"})  BY DEF New, NewNative
<1>5. s.at = "peerClose" => Tops(Parsing)  BY DEF New, NewNative
<1>6. s.at = "_onNativeClose" => Tops({"peerClose"})  BY DEF New, NewCall
<1>7. QED BY <1>1, <1>2, <1>3, <1>4, <1>5, <1>6 DEF Readers, Opening, Parsing, Tops

\* What is below a reader after any step.
LEMMA ReadingNext ==
    ASSUME WriteInv, OpensLast, Reading, Next PROVE Reading'
<1>1. BaseInv /\ StackTyped /\ TypeInv /\ AtSubmit  BY LifeFacts
<1>2. Pushed  BY <1>1, PushNext
<1>3. stack # <<>> => 1 \in DOMAIN stack /\ Head(stack) = stack[1] /\ DOMAIN stack = 1..Len(stack)
  BY <1>1, StackIndexes
<1>4. CASE stack # <<>> /\ ~Tops(Opening) /\ ~Tops(Readers)
  <2>1. PICK n \in Nat, d \in {0, 1} : Pushes(n, d)  BY <1>2 DEF Pushed
  <2>2. \A j \in 1..n : stack'[j].at \notin Readers  BY <1>4, <2>1, NewReader DEF Pushes
  <2>3. QED BY <1>1, <2>1, <2>2, ReadingMoves DEF Pushes
<1>5. CASE stack = <<>>
  <2>1. CASE UNCHANGED stack  BY <2>1 DEF Reading
  <2>2. CASE \E a : Covers1(a)
    <3>1. DOMAIN stack' = {1}  BY <1>5, <2>2, AfterCovers
    <3>2. QED BY <3>1 DEF Reading
  <2>3. CASE OnPoll
    <3>1. \A a \in PollSteps : a.at \in ReadBelow
      <4>1. CASE Tls  BY <4>1 DEF PollSteps, At, Step, ReadBelow
      <4>2. CASE ~Tls  BY <4>2 DEF PollSteps, At, Step, ReadBelow
      <4>3. QED BY <4>1, <4>2
    <3>2. QED BY <1>1, <2>3, <3>1, PollMoves DEF Reading
  <2>4. ASSUME NEW a, NEW b, Covers2(a, b), a.at \notin Readers PROVE Reading'
    <3>1. DOMAIN stack' = {1, 2} /\ stack'[1] = a  BY <1>5, <2>4, AfterCovers
    <3>2. \A j, k \in {1, 2} : j < k => j = 1  OBVIOUS
    <3>3. QED BY <2>4, <3>1, <3>2 DEF Reading
  <2>5. At("_onNativeClosed").at \notin Readers /\ CloseNow("cancelled").at \notin Readers
    BY DEF At, CloseNow, Step, Readers
  <2>6. QED BY <1>1, <1>5, <2>1, <2>2, <2>3, <2>4, <2>5, EventMoves
<1>6. CASE Tops(Opening)
  <2>1. stack # <<>> /\ Head(stack).at \in Opening  BY <1>6 DEF Tops
  <2>2. Len(stack) = 1  BY <1>3, <2>1 DEF OpensLast
  <2>3. BelowReads(1)
    <3>1. DOMAIN stack = 1..1  BY <1>3, <2>1, <2>2
    <3>2. QED BY <3>1 DEF BelowReads
  <2>4. CASE Head(stack).at = "activate"
    <3>1. Activate  BY <2>1, <2>4, StepNext DEF Submitters, Shutdowns, Upcalls
    <3>2. CASE Puts3(At("flushWrites"), At("updatePoll"), At("activated"))
      <4>1. At("flushWrites").at \notin Readers /\ At("updatePoll").at \notin Readers
        BY DEF At, Step, Readers
      <4>2. QED BY <1>1, <2>3, <3>2, <4>1, ReadingPuts
    <3>3. CASE Puts4(At("processMemoryBIO"), At("flushWrites"), At("updatePoll"), At("activated"))
      <4>1. /\ At("flushWrites").at \notin Readers /\ At("updatePoll").at \notin Readers
            /\ {At("flushWrites").at, At("updatePoll").at, At("activated").at} \subseteq ReadBelow
        BY DEF At, Step, Readers, ReadBelow
      <4>2. QED BY <1>1, <2>3, <3>3, <4>1, ReadingPuts
    <3>4. QED BY <1>1, <2>3, <3>1, <3>2, <3>3, ActivateMoves, ReadingPuts
  <2>5. CASE Head(stack).at = "activated"
    <3>1. Activated  BY <2>1, <2>5, StepNext DEF Submitters, Shutdowns, Upcalls
    <3>2. Step("submit", NextRequest, "none").at \notin Readers  BY DEF Step, Readers
    <3>3. QED BY <1>1, <2>3, <3>1, <3>2, ActivatedMoves, ReadingPuts
  <2>6. CASE Head(stack).at = "opened"
    <3>1. Opened  BY <2>1, <2>6, StepNext DEF Submitters, Shutdowns, Upcalls
    <3>2. At("user").at \notin Readers  BY DEF At, Step, Readers
    <3>3. QED BY <1>1, <2>3, <3>1, <3>2, OpenedMoves, ReadingPuts
  <2>7. QED BY <2>1, <2>4, <2>5, <2>6 DEF Opening
<1>7. CASE Tops(Readers)
  <2>1. stack # <<>> /\ Head(stack).at \in Readers  BY <1>7 DEF Tops
  <2>2. BelowReads(1)  BY <1>3, <2>1 DEF Reading, BelowReads
  <2>3. Consume(Tail(stack)) => Reading'
    <3>1. PICK rest : rest = Tail(stack)  OBVIOUS
    <3>2. PICK d \in {0, 1} : d = 1  OBVIOUS
    <3>3. rest = Below(d)  BY <3>1, <3>2 DEF Below
    <3>4. Consume(rest) => Reading'  BY <1>1, <2>1, <2>2, <3>2, <3>3, ReadingConsume
    <3>5. QED BY <3>1, <3>4
  <2>4. CASE Head(stack).at = "feed"
    <3>1. Feed  BY <2>1, <2>4, StepNext DEF Submitters, Shutdowns, Upcalls
    <3>2. Drops \/ Consume(Tail(stack))  BY <1>1, <3>1, FeedMoves
    <3>3. QED BY <1>1, <2>2, <2>3, <3>2, ReadingPuts
  <2>5. CASE Head(stack).at = "readAvailable"
    <3>1. Receive  BY <2>1, <2>5, StepNext DEF Submitters, Shutdowns, Upcalls
    <3>2. Drops \/ (\E a : Puts1(a)) \/ Consume(Tail(stack))  BY <1>1, <3>1, ReceiveMoves
    <3>3. QED BY <1>1, <2>2, <2>3, <3>2, ReadingPuts
  <2>6. CASE Head(stack).at = "processMemoryBIO"
    <3>1. ProcessMemoryBIO  BY <2>1, <2>6, StepNext DEF Submitters, Shutdowns, Upcalls
    <3>2. At("flushOutput").at \in ReadBelow  BY DEF At, Step, ReadBelow
    <3>3. QED BY <1>1, <2>2, <3>1, <3>2, ProcessMemoryBIOMoves, ReadingPuts
  <2>7. CASE Head(stack).at = "SSL_read"
    <3>1. ReadTLS  BY <2>1, <2>7, StepNext DEF Submitters, Shutdowns, Upcalls
    <3>2. Drops \/ (\E a : Puts1(a)) \/ Consume(stack)  BY <1>1, <3>1, ReadTLSMoves
    <3>3. stack = Below(0)  BY DEF Below
    <3>4. Tops(ReadBelow)  BY <2>1, <2>7 DEF Tops, ReadBelow
    <3>5. QED BY <1>1, <2>1, <2>2, <3>2, <3>3, <3>4, ReadingPuts, ReadingConsume
  <2>8. CASE Head(stack).at = "peerClose"
    <3>1. Tops(PeerSteps)  BY <2>1, <2>8 DEF Tops, PeerSteps
    <3>2. PICK a : a = Step("_onNativeClose", Head(stack).on, "none")  OBVIOUS
    <3>3. Drops \/ Puts1(At("performTLSShutdown")) \/ Puts2(a, At("peerClosed"))
      BY <1>1, <3>1, <3>2, PeerDispatch
    <3>4. At("peerClosed").at \in ReadBelow  BY DEF At, Step, ReadBelow
    <3>5. QED BY <1>1, <2>2, <3>3, <3>4, ReadingPuts
  <2>9. CASE Head(stack).at = "_onNativeClose"
    <3>1. FromNative  BY <2>1, <2>9, StepNext DEF Submitters, Shutdowns, Upcalls
    <3>2. Drops  BY <1>1, <2>9, <3>1, FromNativeMoves
    <3>3. QED BY <1>1, <2>2, <3>2, ReadingPuts
  <2>10. QED BY <2>1, <2>4, <2>5, <2>6, <2>7, <2>8, <2>9 DEF Readers
<1>8. QED BY <1>4, <1>5, <1>6, <1>7

\* The code of the peer's Close is told when our Close is out.
CodeTold == closeCode = 1000 => HasClose
\* The application that is told of it sends nothing any more, and the limit has cost it nothing.
Polite ==
    closeCode = 1000 /\ given /\ ~ClosedBeforeResponse =>
        /\ readyState # "OPEN" /\ ~Cut
        /\ \A k \in DOMAIN stack :
             stack[k].at \notin {"submit", "submitted", "pong", "reply"} /\ ~CutStep(stack[k])

\* After the peer's Close nothing is parsed.
LEMMA ParserQuiet ==
    ASSUME TypeInv, Next, Tops(Parsing), parserClosing
    PROVE  UNCHANGED stack \/ Drops
           \/ \E a \in {CloseNow("cancelled"), At("fail"), At("processMemoryBIO")} : Puts1(a)
<1>1. StackTyped /\ stack # <<>>  BY DEF TypeInv, Tops
<1>2. EventSteps(<<>>) = <<>>
  <2>1. DOMAIN <<>> = {}  OBVIOUS
  <2>2. EventSteps(<<>>) = [k \in {} |-> At(<<>>[k])]  BY <2>1 DEF EventSteps
  <2>3. [k \in {} |-> At(<<>>[k])] = <<>>  OBVIOUS
  <2>4. QED BY <2>2, <2>3
<1>3. ASSUME NEW rest, Consume(rest) PROVE stack' = <<>> \o rest
  <2>1. Inputs = {<<>>}  BY DEF Inputs
  <2>2. stack' = EventSteps(<<>>) \o rest  BY <1>3, <2>1 DEF Consume
  <2>3. QED BY <1>2, <2>2
<1>4. CASE Head(stack).at = "feed"
  <2>1. Feed  BY <1>1, <1>4, StepNext DEF Submitters, Shutdowns, Upcalls
  <2>2. Drops \/ Consume(Tail(stack))  BY <2>1, FeedMoves
  <2>3. Consume(Tail(stack)) => Continue(<<>>)  BY <1>3 DEF Continue
  <2>4. QED BY <1>1, <2>2, <2>3, Continue0
<1>5. CASE Head(stack).at = "readAvailable"
  <2>1. Receive  BY <1>1, <1>5, StepNext DEF Submitters, Shutdowns, Upcalls
  <2>2. Drops \/ Puts1(CloseNow("cancelled")) \/ Puts1(At("fail")) \/ Puts1(At("processMemoryBIO"))
        \/ Consume(Tail(stack))
    BY <2>1, ReceiveMoves
  <2>3. Consume(Tail(stack)) => Continue(<<>>)  BY <1>3 DEF Continue
  <2>4. QED BY <1>1, <2>2, <2>3, Continue0
<1>6. CASE Head(stack).at = "SSL_read"
  <2>1. ReadTLS  BY <1>1, <1>6, StepNext DEF Submitters, Shutdowns, Upcalls
  <2>2. Drops \/ Puts1(CloseNow("cancelled")) \/ Puts1(At("fail")) \/ Consume(stack)
    BY <2>1, ReadTLSMoves
  <2>3. Consume(stack) => UNCHANGED stack
    <3>1. <<>> \o stack = stack  BY <1>1, WithEmpty DEF StackTyped
    <3>2. QED BY <1>3, <3>1
  <2>4. QED BY <2>2, <2>3
<1>7. QED BY <1>4, <1>5, <1>6 DEF Tops, Parsing

\* So no pong comes.
LEMMA NoPong ==
    ASSUME TypeInv, Next, Tops(Parsing), parserClosing, \A k \in DOMAIN stack : stack[k].at # "pong"
    PROVE  \A k \in DOMAIN stack' : stack'[k].at # "pong"
<1>1. StackTyped /\ stack # <<>>  BY DEF TypeInv, Tops
<1>2. CASE UNCHANGED stack  BY <1>2
<1>3. CASE Drops  BY <1>1, <1>3, AfterDrops
<1>4. ASSUME NEW a \in {CloseNow("cancelled"), At("fail"), At("processMemoryBIO")}, Puts1(a)
      PROVE  \A k \in DOMAIN stack' : stack'[k].at # "pong"
  <2>1. a.at # "pong"  BY DEF CloseNow, At, Step
  <2>2. DOMAIN stack' = DOMAIN stack /\ stack'[1] = a /\ \A k \in DOMAIN stack' : k # 1 => stack'[k] = stack[k]
    BY <1>1, <1>4, AfterPuts1
  <2>3. QED BY <2>1, <2>2
<1>5. QED BY <1>2, <1>3, <1>4, ParserQuiet

\* The code is told when our Close is out.
LEMMA CodeToldNext ==
    ASSUME WriteInv, Unparsed, CloseOnce, Gives, Warned, Reading, CodeTold, Next PROVE CodeTold'
<1>1. BaseInv /\ StackTyped  BY LifeFacts
<1>2. CourseChanges  BY VarsNext
<1>3. HasClose => HasClose'  BY <1>1, CloseKinds
<1>4. CASE UNCHANGED closeCode  BY <1>3, <1>4 DEF CodeTold
<1>5. CASE Tops({"_onNativeClose"})
  <2>1. stack # <<>> /\ Head(stack).at = "_onNativeClose"  BY <1>5 DEF Tops
  <2>2. 1 \in DOMAIN stack /\ Head(stack) = stack[1] /\ DOMAIN stack = 1..Len(stack)
    BY <1>1, <2>1, StackIndexes
  <2>3. ~closing  BY <2>1, <2>2 DEF Warned
  <2>4. parserClosing  BY <2>1, <2>2 DEF Unparsed, PeerNames
  <2>5. closeSent  BY <2>4 DEF CloseOnce
  <2>6. ~On("reply")
    <3>1. SUFFICES ASSUME NEW k \in DOMAIN stack, stack[k].at = "reply" PROVE FALSE  BY DEF On
    <3>2. k # 1  BY <2>1, <2>2, <3>1
    <3>3. 1 < k  BY <2>2, <3>2
    <3>4. stack[k].at \in ReadBelow  BY <2>1, <2>2, <3>3 DEF Reading, Readers
    <3>5. QED BY <3>1, <3>4 DEF ReadBelow
  <2>7. HasClose  BY <2>3, <2>5, <2>6 DEF Gives
  <2>8. QED BY <1>3, <2>7 DEF CodeTold
<1>6. QED BY <1>2, <1>4, <1>5 DEF CourseChanges

\* The peer's Close is told to an application whose sends are all out or waiting.
LEMMA PoliteTold ==
    ASSUME WriteInv, Ends, Warned, Reading, Tops({"_onNativeClose"}), Next
    PROVE  /\ readyState' # "OPEN" /\ ~Cut'
           /\ \A k \in DOMAIN stack' : stack'[k].at \in ReadBelow
<1>1. BaseInv /\ TypeInv /\ StackTyped  BY LifeFacts
<1>2. stack # <<>> /\ Head(stack).at = "_onNativeClose"  BY DEF Tops
<1>3. 1 \in DOMAIN stack /\ Head(stack) = stack[1] /\ DOMAIN stack = 1..Len(stack)
  BY <1>1, <1>2, StackIndexes
<1>4. readyState' # "OPEN"
  <2>1. StateChanges  BY VarsNext
  <2>2. QED BY <1>2, <2>1 DEF StateChanges, Tops
<1>5. ~closing  BY <1>2, <1>3 DEF Warned
<1>6. ~Cut'
  <2>1. SUFFICES ASSUME NEW i \in DOMAIN requests', requests'[i].outcome = "nobufs" PROVE FALSE
    BY DEF Cut
  <2>2. i \in DOMAIN requests  BY <2>1, NewOutcome
  <2>3. requests[i].outcome \in {"pending", "sent"}  BY <1>5, <2>2 DEF Ends
  <2>4. QED BY <1>5, <2>1, <2>2, <2>3, EndsBy
<1>7. ASSUME NEW k \in DOMAIN stack' PROVE stack'[k].at \in ReadBelow
  <2>1. FromNative  BY <1>2, StepNext DEF Submitters, Shutdowns, Upcalls
  <2>2. Drops  BY <1>1, <1>2, <2>1, FromNativeMoves
  <2>3. k + 1 \in DOMAIN stack /\ stack'[k] = stack[k + 1] /\ DOMAIN stack' = 1..Len(stack)-1
    BY <1>1, <1>2, <1>7, <2>2, AfterDrops
  <2>4. 1 < k + 1  BY <1>3, <2>3
  <2>5. QED BY <1>2, <1>3, <2>3, <2>4 DEF Reading, Readers
<1>8. QED BY <1>4, <1>6, <1>7

\* What the application was told of the peer's Close stays true.
LEMMA PoliteNext ==
    ASSUME WriteInv, PeerInv, Opens, Ends, Warned, Reading, CodeTold, Polite, Next PROVE Polite'
<1>1. BaseInv /\ TypeInv /\ StackTyped /\ AtSubmit  BY LifeFacts
<1>2. Pushed /\ StateChanges /\ CourseChanges  BY <1>1, PushNext, VarsNext
<1> SUFFICES ASSUME closeCode' = 1000, given', ~ClosedBeforeResponse'
             PROVE  /\ readyState' # "OPEN" /\ ~Cut'
                    /\ \A k \in DOMAIN stack' :
                         /\ stack'[k].at \notin {"submit", "submitted", "pong", "reply"}
                         /\ ~CutStep(stack'[k])
  BY DEF Polite, CutStep
<1>3. ~ClosedBeforeResponse  BY <1>1, StillBefore
<1>4. CASE Tops({"_onNativeClose"})
  <2>1. /\ readyState' # "OPEN" /\ ~Cut'
        /\ \A k \in DOMAIN stack' : stack'[k].at \in ReadBelow
    BY <1>4, PoliteTold
  <2>2. \A name \in ReadBelow : name \notin {"submit", "submitted", "pong", "reply", "closeNow", "cancelWrites"}
    BY DEF ReadBelow
  <2>3. QED BY <2>1, <2>2 DEF CutStep
<1>5. CASE ~Tops({"_onNativeClose"})
  <2>1. closeCode = 1000  BY <1>2, <1>5 DEF CourseChanges
  <2>2. HasClose  BY <2>1 DEF CodeTold
  <2>3. ~Tops({"opened"})  BY <1>1, <1>3, <2>2, OpenedLate
  <2>4. given  BY <1>2, <2>3 DEF StateChanges
  <2>5. readyState # "OPEN" /\ ~Cut  BY <1>3, <2>1, <2>4 DEF Polite
  <2>6. \A k \in DOMAIN stack : stack[k].at \notin {"submit", "submitted", "pong", "reply"}
    BY <1>3, <2>1, <2>4 DEF Polite
  <2>7. \A k \in DOMAIN stack : ~CutStep(stack[k])  BY <1>3, <2>1, <2>4 DEF Polite
  <2>8. stack # <<>> => 1 \in DOMAIN stack /\ Head(stack) = stack[1]  BY <1>1, StackIndexes
  <2>9. ~Tops({"submit", "submitted", "pong", "reply"})  BY <2>6, <2>8 DEF Tops
  <2>10. ~(Tops({"closeNow", "cancelWrites"}) /\ Head(stack).why = "nobufs")
    BY <2>7, <2>8 DEF Tops, CutStep
  <2>11. readyState' # "OPEN"  BY <1>2, <2>3, <2>5 DEF StateChanges
  <2>12. ~Cut'
    <3>1. SUFFICES ASSUME NEW i \in DOMAIN requests', requests'[i].kind = "app",
                          requests'[i].outcome = "nobufs"
                   PROVE  FALSE
      BY DEF Cut
    <3>2. i \in DOMAIN requests  BY <3>1, NewOutcome
    <3>3. requests[i].outcome # "nobufs"  BY <2>5, <3>1, <3>2, EndsBy DEF Cut
    <3>4. Tops({"cancelWrites"}) /\ Head(stack).why = "nobufs"  BY <3>1, <3>2, <3>3, EndsBy
    <3>5. QED BY <2>10, <3>4 DEF Tops
  <2>13. parserClosing  BY <2>1 DEF PeerInv, Unparsed
  <2>14. ASSUME NEW k \in DOMAIN stack', ~New(stack'[k])
         PROVE  stack'[k].at \notin {"submit", "submitted", "pong", "reply"} /\ ~CutStep(stack'[k])
    <3>1. PICK j \in DOMAIN stack : stack'[k] = stack[j]  BY <1>1, <1>2, <2>14, EachStep
    <3>2. QED BY <2>6, <2>7, <3>1
  <2>15. ASSUME NEW k \in DOMAIN stack', New(stack'[k])
         PROVE  stack'[k].at \notin {"submit", "submitted", "pong", "reply"} /\ ~CutStep(stack'[k])
    <3>1. stack'[k].at # "submit"
      <4>1. ~Tops({"activated"})
        <5>1. \A j \in DOMAIN stack : stack[j].at # "activated"
          BY <2>4 DEF Opens, OneOpening, Opening
        <5>2. QED BY <2>8, <5>1 DEF Tops
      <4>2. ~Tops(Owned)  BY <2>9 DEF Tops, Owned
      <4>3. QED BY <2>5, <2>15, <4>1, <4>2 DEF New, NewScript
    <3>2. stack'[k].at # "submitted"  BY <2>9, <2>15 DEF New, NewNative, Tops
    <3>3. stack'[k].at # "reply"  BY <2>13, <2>15 DEF New, NewNative
    <3>4. stack'[k].at # "pong"
      <4>1. SUFFICES ASSUME stack'[k].at = "pong" PROVE FALSE  OBVIOUS
      <4>2. Tops(Parsing)  BY <2>15, <4>1 DEF New, NewNative
      <4>3. \A j \in DOMAIN stack : stack[j].at # "pong"  BY <2>6
      <4>4. QED BY <1>1, <2>13, <2>15, <4>1, <4>2, <4>3, NoPong
    <3>5. ~CutStep(stack'[k])  BY <2>9, <2>10, <2>15, NewCut DEF Tops, Submitters
    <3>6. QED BY <3>1, <3>2, <3>3, <3>4, <3>5
  <2>16. QED BY <2>11, <2>12, <2>14, <2>15
<1>6. QED BY <1>4, <1>5

\* What the applications of both sides are told of the limit.
ToldInv ==
    /\ AnswerInv /\ OpensLast /\ Warned /\ OneReason /\ Inside /\ Blames /\ Blamed
    /\ Limits /\ Spared /\ Reading /\ CodeTold /\ Polite

\* The invariant of the limit holds at first.
LEMMA ToldInit == ASSUME Init PROVE ToldInv
<1>1. AnswerInv  BY AnswerInit
<1>2. stack = <<>> /\ requests = <<>> /\ answers = <<>> /\ closeCode = 1006
  BY DEF Init, NativeInit
<1>3. DOMAIN stack = {} /\ DOMAIN requests = {} /\ DOMAIN answers = {}  BY <1>2
<1>4. OpensLast /\ Warned /\ Inside /\ Reading
  BY <1>3 DEF OpensLast, Warned, Inside, Reading
<1>5. OneReason  BY <1>3 DEF OneReason, Out
<1>6. Blames /\ Blamed  BY <1>3 DEF Blames, Blamed
<1>7. Limits /\ Spared  BY <1>3 DEF Limits, Limited, Spared, Cut
<1>8. CodeTold /\ Polite  BY <1>2 DEF CodeTold, Polite
<1>9. QED BY <1>1, <1>4, <1>5, <1>6, <1>7, <1>8 DEF ToldInv

\* And after each step, stuttering included.
LEMMA ToldStep == ASSUME ToldInv, [Next]_vars PROVE ToldInv'
<1>1. AnswerInv /\ AnswerInv'  BY AnswerStep DEF ToldInv
<1>2. CASE Next
  <2>1. LifeInv /\ WriteInv /\ Flushes /\ Cancels /\ PeerInv /\ Opens
    BY <1>1 DEF AnswerInv, CloseInv, CallInv, LifeInv
  <2>2. Gives /\ Ends /\ SentOpen /\ AnswersTrue  BY <1>1 DEF AnswerInv
  <2>3. OneOpening /\ Unparsed /\ CloseOnce /\ Ungiven  BY <2>1 DEF Opens, PeerInv
  <2>4. OpensLast' /\ Warned' /\ OneReason'
    BY <1>2, <2>1, <2>2, OpensLastNext, WarnedNext, OneReasonNext DEF ToldInv
  <2>5. Inside'  BY <1>2, <2>1, InsideNext DEF ToldInv
  <2>6. Blames' /\ Blamed'  BY <1>2, <2>1, <2>2, BlamesNext, BlamedNext DEF ToldInv
  <2>7. Limits'  BY <1>2, <2>1, <2>2, <2>3, LimitsNext DEF ToldInv
  <2>8. Spared'  BY <1>2, <2>1, <2>3, SparedNext DEF ToldInv
  <2>9. Reading'  BY <1>2, <2>1, ReadingNext DEF ToldInv
  <2>10. CodeTold'  BY <1>2, <2>1, <2>2, <2>3, CodeToldNext DEF ToldInv
  <2>11. Polite'  BY <1>2, <2>1, <2>2, PoliteNext DEF ToldInv
  <2>12. QED
    BY <1>1, <2>4, <2>5, <2>6, <2>7, <2>8, <2>9, <2>10, <2>11 DEF ToldInv
<1>3. CASE UNCHANGED vars
  <2>1. UNCHANGED <<stack, requests, answers, closing, readyState, given, closeCode>>
    BY <1>3 DEF vars, nativeVars, jsVars, handleVars, peerVars, writeVars
  <2>2. UNCHANGED <<ClosedBeforeResponse, HasClose, Limited, Cut>>
    BY <2>1 DEF ClosedBeforeResponse, HasClose, IsClose, Limited, Cut, CutStep
  <2>3. Out("refused")' = Out("refused") /\ Over' = Over
    BY <2>1 DEF Over, Out
  <2>4. OpensLast' /\ Warned' /\ Reading'  BY <2>1 DEF ToldInv, OpensLast, Warned, Reading
  <2>5. OneReason'  BY <2>1 DEF ToldInv, OneReason, Out
  <2>6. Inside'  BY <2>1 DEF ToldInv, Inside, CutStep
  <2>7. Blames' /\ Blamed'  BY <2>1, <2>2 DEF ToldInv, Blames, Blamed, Failed, Tells
  <2>8. Limits' /\ Spared'  BY <2>1, <2>2, <2>3 DEF ToldInv, Limits, Spared, Tops
  <2>9. CodeTold' /\ Polite'  BY <2>1, <2>2 DEF ToldInv, CodeTold, Polite, CutStep
  <2>10. QED BY <1>1, <2>4, <2>5, <2>6, <2>7, <2>8, <2>9 DEF ToldInv
<1>4. QED BY <1>2, <1>3

\* It implies that when the limit cost a send() the close event says so, no other is told of
\* an error, and nothing else failed.
LEMMA LimitTold == ASSUME ToldInv PROVE BackpressureIsTold
<1>1. WriteInv /\ BaseInv /\ TypeInv /\ Cancels /\ Ungiven /\ Ends /\ AnswersTrue
  BY LifeFacts DEF ToldInv, AnswerInv, CloseInv, CallInv, LifeInv, PeerInv
<1>2. OneReason /\ Blamed /\ Spared /\ Polite  BY DEF ToldInv
<1> SUFFICES ASSUME NEW n \in DOMAIN requests, requests[n].kind = "app",
                    requests[n].outcome = "nobufs", ~ClosedBeforeResponse
             PROVE  /\ closeCode = 1006
                    /\ \A k \in DOMAIN answers : answers[k].result # "error"
                    /\ Idle => \A i \in DOMAIN requests : requests[i].outcome \in {"sent", "nobufs"}
  BY DEF BackpressureIsTold
<1>3. Cut /\ Out("nobufs")  BY DEF Cut, Out
<1>4. \A i \in DOMAIN requests : ~Failed(requests[i])
  <2>1. ~Out("cancelled") /\ ~Out("refused")  BY <1>2, <1>3 DEF OneReason, Spared, Over
  <2>2. HandshakeDropsNothing  BY <1>1 DEF WriteInv
  <2>3. QED BY <2>1, <2>2 DEF Out, Failed, HandshakeDropsNothing
<1>5. closeCode = 1006
  <2>1. closeCode \in {1000, 1006}  BY <1>1 DEF TypeInv
  <2>2. given  BY <1>1 DEF Ungiven
  <2>3. QED BY <1>2, <1>3, <2>1, <2>2 DEF Polite
<1>6. ASSUME NEW k \in DOMAIN answers PROVE answers[k].result # "error"
  <2>1. answers[k].request \in DOMAIN requests  BY <1>1 DEF AnswersTrue
  <2>2. QED BY <1>2, <1>4, <2>1 DEF Blamed
<1>7. ASSUME Idle, NEW i \in DOMAIN requests PROVE requests[i].outcome \in {"sent", "nobufs"}
  <2>1. stack = <<>> /\ DOMAIN stack = {}  BY <1>7 DEF Idle
  <2>2. requests[i].outcome \in Outcomes  BY <1>1, RequestIndexes DEF Requests
  <2>3. requests[i].outcome # "pending"
    <3>1. closing  BY <1>1 DEF Ends
    <3>2. queue = <<>>  BY <1>1, <2>1, <3>1 DEF Cancels, On
    <3>3. ~Queued(i) /\ ~Submitting(i)  BY <2>1, <3>2 DEF Queued, Submitting
    <3>4. PendingIsQueued  BY <1>1 DEF WriteInv, QueueInv
    <3>5. QED BY <3>3, <3>4 DEF PendingIsQueued
  <2>4. QED BY <1>4, <2>2, <2>3 DEF Outcomes, Failed
<1>8. QED BY <1>5, <1>6, <1>7

-----------------------------------------------------------------------------
(* The theorems *)

\* The invariant of the calls in progress holds always.
LEMMA CallAlways == Spec => []CallInv
  BY CallInit, CallStep, PTL DEF Spec

\* The object is deleted at most once, and when it was, its handle is closed, its queue is
\* empty, its owner is CLOSED and no method of it is still on the call stack.
THEOREM FreedCorrect == Spec => []FreedOnce
<1>1. CallInv => FreedOnce  BY LifeFrees DEF CallInv
<1>2. QED BY <1>1, CallAlways, PTL

\* When submit() looks for its request by address after the flush, nothing else is queued:
\* it cannot find another that was allocated in its place.
THEOREM LookupCorrect == Spec => []LooksForItsOwn
<1>1. CallInv => LooksForItsOwn  BY FlushesOwn DEF CallInv, LifeInv
<1>2. QED BY <1>1, CallAlways, PTL

\* Between events no transport holds more than EIOWS_MAX_BACKPRESSURE allows.
THEOREM BackpressureCorrect == Spec => []BackpressureBounded
<1>1. CallInv => BackpressureBounded  BY WatchedBounds DEF CallInv, LifeInv
<1>2. QED BY <1>1, CallAlways, PTL

\* Between events the poll handle watches for whatever the next write needs.
THEOREM ProgressCorrect == Spec => []WritesProgress
<1>1. CallInv => WritesProgress  BY WritableProgresses DEF CallInv, LifeInv
<1>2. QED BY <1>1, CallAlways, PTL

\* The invariant of what is sent when closing holds always.
LEMMA CloseAlways == Spec => []CloseInv
  BY CloseInit, CloseStep, PTL DEF Spec

\* Our Close, or the answer to the peer's, is queued once, and no message follows it unless
\* the peer closed before the upgrade was answered.
THEOREM CloseOrderCorrect == Spec => []NoDataAfterClose
<1>1. CloseInv => NoDataAfterClose  BY CloseOrder
<1>2. QED BY <1>1, CloseAlways, PTL

\* The invariant of the answers holds always.
LEMMA AnswerAlways == Spec => []AnswerInv
  BY AnswerInit, AnswerStep, PTL DEF Spec

\* Each send() is told once what became of it, by the call, the flush or the close, and told
\* the truth, whatever calls its callbacks make.
THEOREM AnswerCorrect == Spec => []AnsweredOnce
<1>1. AnswerInv => AnsweredOnce  BY AnswersOnce
<1>2. QED BY <1>1, AnswerAlways, PTL

\* A peer that has our Close has everything that was sent before it, and the closing handshake
\* ends the connection only when that Close and all else was sent.
THEOREM HandshakeCorrect == Spec => []HandshakeLosesNothing
<1>1. AnswerInv => HandshakeLosesNothing  BY LosesNothing
<1>2. QED BY <1>1, AnswerAlways, PTL

\* The invariant of the limit holds always.
LEMMA ToldAlways == Spec => []ToldInv
  BY ToldInit, ToldStep, PTL DEF Spec

\* A send() that the limit cuts off is followed by the close event 1006; nobody is then told
\* of another error, and between events everything else was sent.
THEOREM ToldCorrect == Spec => []BackpressureIsTold
<1>1. ToldInv => BackpressureIsTold  BY LimitTold
<1>2. QED BY <1>1, ToldAlways, PTL
=============================================================================
